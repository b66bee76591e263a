---------------------------- MODULE Credentials ----------------------------
(***************************************************************************)
(* The keys on disk, the selection beside them and the tier mapping filed  *)
(* under an account's name: auth/store.rs, auth/accounts.rs and            *)
(* auth/selection.rs, under the verbs that change them (accounts.select,   *)
(* remove and rename of control/handler.rs, add-key of                     *)
(* commands/accounts.rs).                                                  *)
(*                                                                         *)
(* Three files, no transaction: a verb writes one after another, several   *)
(* tasks of the daemon and the command line do so at once, an editor may   *)
(* write the key file without taking its lock, and a process may die at    *)
(* any point.  The key file is compared and replaced under a lock file;    *)
(* the selection is written to one pending name and renamed, without one.  *)
(*                                                                         *)
(* A key is its provider and its secret; the task that stores one is its   *)
(* secret.  An entry of kind grant, left by an older version, holds its    *)
(* name and is neither listed nor spent.                                   *)
(***************************************************************************)
EXTENDS Naturals, FiniteSets, FiniteSetsExt

CONSTANTS
  Key, Profile,      \* names keys are stored under, names of borrowed profiles
  Task, ProcessOf,   \* who runs a verb, and in which process
  May,               \* [Task -> sets of verbs]
  Provider,
  Length,            \* [Key \cup Profile -> Nat]: of a selection naming it, as written
  Attempts,          \* WRITE_ATTEMPTS, 5
  Stored,            \* the key file and the selection to begin with
  MaxCalls, MaxEvents, \* bounds: verbs run, hand edits and crashes
  None, Unreadable

Name == Key \cup Profile

ASSUME CredentialsAssumption ==
  /\ Key \cap Profile = {} /\ {None, Unreadable} \cap Name = {} /\ None \notin Task
  /\ IsFiniteSet(Name) /\ IsFiniteSet(Task)
  /\ Length \in [Name -> Nat \ {0}] /\ Attempts \in Nat \ {0}
  /\ None # Unreadable /\ None \notin 1..(Cardinality(Task) + 2)
  /\ None \notin [kind : {"key"}, provider : Provider, secret : Task]
  /\ \A s \in Stored : DOMAIN s.keys = Key /\ s.chosen \in Name \cup {None}

VARIABLES
  keys,     \* credentials.json: an entry under each name, or None
  dir,      \* the file behind selected.json, and behind its pending name
  content,  \* what each such file holds: the name written over it last, its length
  section,  \* config.toml: under each name, the secret a mapping was written for
  locked,   \* the task that holds credentials.json.lock
  held,     \* the task that holds the daemon's lock of moves
  task,
  count,    \* calls, edits and crashes so far
  crossed,  \* history: a selection was written over another writer's, or after
            \* what its writer had read was changed; or a name was not given back,
            \* another key having taken it
  stranded  \* history: the names a refused verb may have left chosen, or with a
            \* mapping under them, with no key

chosenFile == <<dir, content>>
files == <<keys, chosenFile, section>>
history == <<crossed, stranded>>
vars == <<files, locked, held, task, count, history>>

File == 1..(Cardinality(Task) + 2)
Empty == [head |-> None, len |-> 0]

Entry(provider, secret) == [kind |-> "key", provider |-> provider, secret |-> secret]

-----------------------------------------------------------------------------
(* What the files say. *)

Written(f) == content[f].head # None /\ content[f].len = Length[content[f].head]

\* Selection::read: nothing chosen, a name, or a file that does not parse.
Chosen == IF dir.selected = None THEN None
          ELSE IF Written(dir.selected) THEN content[dir.selected].head ELSE Unreadable

\* Accounts::names.
Listed == Profile \cup {k \in Key : keys[k] # None /\ keys[k].kind = "key"}

\* Accounts::selected: the one chosen if it is there, or the only one there is.
Serving ==
  IF Chosen = None THEN IF Cardinality(Listed) = 1 THEN CHOOSE n \in Listed : TRUE ELSE None
  ELSE IF Chosen \in Listed THEN Chosen ELSE None

Idle == [pc |-> "idle", verb |-> None, name |-> None, to |-> None, provider |-> None,
         raw |-> <<>>, tries |-> 0, pick |-> None, file |-> None, slipped |-> FALSE,
         overtaken |-> FALSE]

Init == /\ \E s \in Stored :
             /\ keys = s.keys
             /\ dir = [selected |-> IF s.chosen = None THEN None ELSE 1, pending |-> None]
             /\ content = [f \in File |-> IF f = 1 /\ s.chosen # None
                             THEN [head |-> s.chosen, len |-> Length[s.chosen]] ELSE Empty]
             /\ section = s.section
        /\ locked = None /\ held = None
        /\ task = [t \in Task |-> Idle]
        /\ count = [calls |-> 0, edits |-> 0, crashes |-> 0]
        /\ crossed = FALSE /\ stranded = {}

Goto(t, pc) == task' = [task EXCEPT ![t].pc = pc]

\* The verb is over, answered or refused; what it holds is let go of.
Over(t) == /\ task' = [task EXCEPT ![t] = Idle]
           /\ held' = IF held = t THEN None ELSE held

\* Goto, remembering that what the others read of the files is no longer so.
Change(t, pc) ==
  task' = [o \in Task |-> IF o = t THEN [task[o] EXCEPT !.pc = pc]
                          ELSE [task[o] EXCEPT !.overtaken = task[o].pc # "idle"]]
ChangeLast(t) ==
  /\ task' = [o \in Task |-> IF o = t THEN Idle
                             ELSE [task[o] EXCEPT !.overtaken = task[o].pc # "idle"]]
  /\ held' = IF held = t THEN None ELSE held

-----------------------------------------------------------------------------
(* Selection::write: the pending name is opened, filled and renamed. *)

\* A file nobody has open and no name leads to.
Fresh == CHOOSE f \in File : /\ f \notin {dir.selected, dir.pending}
                             /\ \A t \in Task : task[t].file # f

\* Opened for truncation: the file another writer left under that name, if one
\* is there.
Open(t) ==
  /\ task[t].pc = "open"
  /\ LET f == IF dir.pending = None THEN Fresh ELSE dir.pending
     IN /\ content' = [content EXCEPT ![f] = Empty]
        /\ dir' = [dir EXCEPT !.pending = f]
        /\ task' = [task EXCEPT ![t].pc = "fill", ![t].file = f]
        /\ crossed' = (crossed \/ \E o \in Task \ {t} : task[o].file = f)
  /\ UNCHANGED <<keys, section, locked, held, count, stranded>>

\* Written from its beginning: over what is there by now.
Fill(t) ==
  /\ task[t].pc = "fill"
  /\ content' = [content EXCEPT ![task[t].file] =
       [head |-> task[t].pick, len |-> Max({@.len, Length[task[t].pick]})]]
  /\ Goto(t, "move")
  /\ UNCHANGED <<keys, dir, section, locked, held, count, history>>

\* What each verb does once the selection is written.
After(verb) == CASE verb = "add" -> "lock" [] verb = "rename" -> "section" [] OTHER -> "done"

Move(t) ==
  /\ task[t].pc = "move" /\ dir.pending # None
  /\ dir' = [selected |-> dir.pending, pending |-> None]
  /\ IF After(task[t].verb) = "done" THEN ChangeLast(t)
     ELSE Change(t, After(task[t].verb)) /\ UNCHANGED held
  /\ crossed' = (crossed \/ task[t].overtaken)
  /\ UNCHANGED <<keys, content, section, locked, count, stranded>>

-----------------------------------------------------------------------------
(* The verbs, up to the key file. *)

Ask(t, verb) == /\ task[t].pc = "idle" /\ verb \in May[t] /\ count.calls < MaxCalls
                /\ count' = [count EXCEPT !.calls = @ + 1]

\* accounts.select, under the lock of moves: a name that is listed is written.
Select(t, n) ==
  /\ Ask(t, "select") /\ held = None
  /\ IF n \in Listed /\ Chosen # Unreadable
     THEN /\ task' = [task EXCEPT ![t] = [Idle EXCEPT !.pc = "open", !.verb = "select",
                                                     !.name = n, !.pick = n]]
          /\ held' = t
     ELSE UNCHANGED <<task, held>>
  /\ UNCHANGED <<files, locked, history>>

\* accounts.remove, under the lock of moves.
Remove(t, k) ==
  /\ Ask(t, "remove") /\ held = None /\ Chosen # Unreadable
  /\ task' = [task EXCEPT ![t] = [Idle EXCEPT !.pc = "lock", !.verb = "remove", !.name = k]]
  /\ held' = t
  /\ UNCHANGED <<files, locked, history>>

\* accounts.rename takes no lock of moves; the selection must be readable.
Rename(t, k, to) ==
  /\ Ask(t, "rename") /\ Chosen # Unreadable /\ k # to
  /\ task' = [task EXCEPT ![t] = [Idle EXCEPT !.pc = "lock", !.verb = "rename",
                                             !.name = k, !.to = to]]
  /\ UNCHANGED <<files, locked, held, history>>

\* Mutant: the key is stored first; the account that was alone is not recorded.
AddUnrecorded(t, k, p) ==
  /\ Ask(t, "add") /\ Chosen # Unreadable
  /\ task' = [task EXCEPT ![t] = [Idle EXCEPT !.verb = "add", !.name = k, !.provider = p,
                                             !.pc = "lock"]]
  /\ UNCHANGED <<files, locked, held, history>>

\* add-key: where an account serves for being the only one, it is recorded
\* before it stops being that.
Add(t, k, p) ==
  /\ Ask(t, "add") /\ Chosen # Unreadable
  /\ task' = [task EXCEPT ![t] =
       LET call == [Idle EXCEPT !.verb = "add", !.name = k, !.provider = p]
       IN IF Chosen = None /\ Serving # None THEN [call EXCEPT !.pc = "open", !.pick = Serving]
          ELSE [call EXCEPT !.pc = "lock"]]
  /\ UNCHANGED <<files, locked, held, history>>

-----------------------------------------------------------------------------
(* FileStore::update: read, change, compare and replace, under the lock. *)

Mutate(c, t, file) ==
  CASE c.verb = "add" -> [file EXCEPT ![c.name] = Entry(c.provider, t)]
    [] c.verb = "remove" -> [file EXCEPT ![c.name] = None]
    [] OTHER -> [file EXCEPT ![c.to] = file[c.name], ![c.name] = None]

\* A name holding a grant or another provider's key is not overwritten, nor is
\* one that another account has.
Allowed(c, file) ==
  CASE c.verb = "add" -> \/ file[c.name] = None
                         \/ file[c.name].kind = "key" /\ file[c.name].provider = c.provider
    [] c.verb = "remove" -> file[c.name] # None
    [] OTHER -> file[c.name] # None /\ file[c.to] = None

\* Mutant: the lock is not waited for.
LockShared(t) ==
  /\ task[t].pc = "lock"
  /\ locked' = t
  /\ task' = [task EXCEPT ![t].pc = "read", ![t].tries = 0]
  /\ UNCHANGED <<files, held, count, history>>

Lock(t) ==
  /\ task[t].pc = "lock" /\ locked = None
  /\ locked' = t
  /\ task' = [task EXCEPT ![t].pc = "read", ![t].tries = 0]
  /\ UNCHANGED <<files, held, count, history>>

Unlock(t) == locked' = IF locked = t THEN None ELSE locked

Read(t) ==
  /\ task[t].pc = "read"
  /\ IF Allowed(task[t], keys)
     THEN /\ task' = [task EXCEPT ![t].pc = "compare", ![t].raw = keys]
          /\ UNCHANGED <<locked, held, crossed>>
     ELSE /\ Over(t) /\ Unlock(t)
          /\ crossed' = (crossed \/ task[t].verb = "undo")
  /\ UNCHANGED <<files, count, stranded>>

\* A file that changed is read again, and the last attempt gives up.
Compare(t) ==
  /\ task[t].pc = "compare"
  /\ CASE keys = task[t].raw ->
             /\ task' = [task EXCEPT ![t].pc = "swap", ![t].slipped = FALSE]
             /\ UNCHANGED <<locked, held>>
       [] task[t].tries + 1 = Attempts -> Over(t) /\ Unlock(t)
       [] OTHER -> /\ task' = [task EXCEPT ![t].pc = "read", ![t].tries = @ + 1]
                   /\ UNCHANGED <<locked, held>>
  /\ UNCHANGED <<files, count, history>>

\* The file written beside it is renamed over it, and the lock released.
Swap(t) ==
  /\ task[t].pc = "swap"
  /\ keys' = Mutate(task[t], t, task[t].raw)
  /\ IF task[t].verb = "add" THEN ChangeLast(t) ELSE Change(t, "follow") /\ UNCHANGED held
  /\ Unlock(t)
  /\ UNCHANGED <<chosenFile, section, count, history>>

-----------------------------------------------------------------------------
(* What follows the key file. *)

\* A selection naming the key removed is forgotten; one naming the key renamed
\* is written again.
Follow(t) ==
  /\ task[t].pc = "follow" /\ Chosen # Unreadable
  /\ CASE Chosen = task[t].name /\ task[t].verb = "remove" ->
            dir' = [dir EXCEPT !.selected = None] /\ ChangeLast(t)
       [] Chosen = task[t].name /\ task[t].verb # "remove" ->
            /\ task' = [task EXCEPT ![t].pc = "open", ![t].pick = task[t].to]
            /\ UNCHANGED <<dir, held>>
       [] OTHER ->
            /\ IF task[t].verb = "rename" THEN Goto(t, "section") /\ UNCHANGED held ELSE Over(t)
            /\ UNCHANGED dir
  /\ UNCHANGED <<keys, content, section, locked, count, history>>

\* Mutant: a section that cannot be moved stays, and the key keeps its new name.
SectionUnmended(t) ==
  /\ task[t].pc = "section"
  /\ \E fails \in BOOLEAN :
       section' = IF section[task[t].name] = None \/ section[task[t].to] # None \/ fails
                  THEN section
                  ELSE [section EXCEPT ![task[t].to] = section[task[t].name],
                                       ![task[t].name] = None]
  /\ Over(t)
  /\ UNCHANGED <<keys, chosenFile, locked, count, history>>

\* move_account_section: a section already under the new name, or a write that
\* fails, gives the key its old name back.
Section(t) ==
  /\ task[t].pc = "section"
  /\ LET c == task[t]
         undo == task' = [task EXCEPT ![t] = [Idle EXCEPT !.pc = "lock", !.verb = "undo",
                            !.name = c.to, !.to = c.name, !.overtaken = c.overtaken]]
     IN \/ /\ section[c.to] # None \/ section[c.name] # None
           /\ IF Chosen = Unreadable THEN Over(t) ELSE undo /\ UNCHANGED held
           /\ UNCHANGED section
        \/ /\ section[c.to] = None
           /\ section' = [section EXCEPT ![c.to] = section[c.name], ![c.name] = None]
           /\ Over(t)
  /\ UNCHANGED <<keys, chosenFile, locked, count, history>>

\* The names a verb refused where it is leaves without a key: chosen still, or
\* with the mapping still under them.
Lost(c) == CASE c.pc = "swap" -> IF c.verb = "undo" THEN {c.to} ELSE {}
             [] c.verb \in {"remove", "rename", "undo"} -> {c.name}
             [] OTHER -> {}

\* The file system refuses what a verb does next to the key file or the selection
\* (a pending file renamed away by another writer, a selection that cannot be
\* read or removed): the verb is answered with the error, and what it has written
\* by then stays as it is.
Refused(t) ==
  /\ task[t].pc \in {"swap", "follow", "open", "fill", "move"}
  /\ Over(t) /\ Unlock(t)
  /\ stranded' = stranded \cup Lost(task[t])
  /\ UNCHANGED <<files, count, crossed>>

\* An editor replaces the key file with one entry changed, and takes no lock.
Edit(k) ==
  /\ count.edits + count.crashes < MaxEvents
  /\ keys' = [keys EXCEPT ![k] = IF @ = None THEN Entry(CHOOSE p \in Provider : TRUE, "hand") ELSE None]
  /\ task' = [t \in Task |-> [task[t] EXCEPT !.overtaken = task[t].pc # "idle",
                                             !.slipped = task[t].pc = "swap"]]
  /\ count' = [count EXCEPT !.edits = @ + 1]
  /\ UNCHANGED <<chosenFile, section, locked, held, history>>

\* A process dies: the kernel releases what it had locked.
Crash(p) ==
  LET dead == {t \in Task : ProcessOf[t] = p}
  IN /\ count.edits + count.crashes < MaxEvents /\ \E t \in dead : task[t].pc # "idle"
     /\ task' = [t \in Task |-> IF t \in dead THEN Idle ELSE task[t]]
     /\ locked' = IF locked \in dead THEN None ELSE locked
     /\ held' = IF held \in dead THEN None ELSE held
     /\ count' = [count EXCEPT !.crashes = @ + 1]
     /\ UNCHANGED <<files, history>>

Step(t) == \/ Open(t) \/ Fill(t) \/ Move(t) \/ Lock(t) \/ Read(t) \/ Compare(t)
           \/ Swap(t) \/ Follow(t) \/ Section(t) \/ Refused(t)

Calls(t) ==
  \/ \E n \in Name : Select(t, n)
  \/ \E k \in Key : Remove(t, k) \/ \E to \in Key : Rename(t, k, to)
  \/ \E k \in Key, p \in Provider : Add(t, k, p)

Next == \/ \E t \in Task : Calls(t) \/ Step(t) \/ Crash(ProcessOf[t])
        \/ \E k \in Key : Edit(k)

Spec == Init /\ [][Next]_vars

-----------------------------------------------------------------------------
(* Properties. *)

\* No write of the key file discards what another writer put there, whoever
\* else is writing: it is the verb applied to the file as it is.  The exception
\* is an edit between the comparison and the rename, which takes no lock
\* (auth/store.rs, update and replace_if_unchanged).
NoWriteLost ==
  [][\A t \in Task :
       task[t].pc = "swap" /\ task'[t].pc # "swap" /\ keys' # keys /\ ~task[t].slipped
         => keys' = Mutate(task[t], t, keys)]_vars

\* An account that pays stops paying by a switch, or by being renamed or removed
\* itself: never because a key was stored, or another account removed, nor
\* because a process died half way (auth/accounts.rs, add_key).  Hand edits
\* aside, and writers that crossed or whose list had changed since they read it.
PayerMovedByChoice ==
  [][/\ Serving # None /\ Serving' # Serving
     /\ count'.edits = count.edits /\ ~crossed' /\ (\A t \in Task : ~task[t].slipped)
     => \E t \in Task : /\ task'[t].pc # task[t].pc
                        /\ \/ task[t].verb = "select" \/ task[t].overtaken
                           \/ /\ task[t].verb \in {"rename", "undo", "remove"}
                              /\ task[t].name = Serving]_vars

\* A lock is held by a task at work under it, whatever died or was refused.
LocksWorked ==
  /\ locked \in Task \cup {None} /\ held \in Task \cup {None}
  /\ locked # None => task[locked].pc \in {"read", "compare", "swap"}
  /\ held # None => task[held].verb \in {"select", "remove"}

AtRest == \A t \in Task : task[t].pc = "idle"
Undisturbed == count.crashes = 0 /\ count.edits = 0 /\ ~crossed

\* The selection names an account there is, and a key's mapping is filed under
\* the name the key has: but for the names refused verbs left behind.
FilesAgree ==
  /\ Chosen \in Listed \cup stranded \cup {None}
  /\ \A j, k \in Key :
       keys[k] # None /\ section[j] # None /\ keys[k].secret = section[j]
         => j = k \/ j \in stranded

\* No lock outlives its verb, and once every verb is over the three files agree:
\* a section that cannot be moved gives the key its name back, and no refusal
\* leaves behind more than the one name it was about (control/handler.rs,
\* rename_account).  Two keys renamed at once, the one to what the other was, may
\* leave a mapping under the name in between: a rename takes no lock across its
\* writes.
RestsWhole == LocksWorked /\ (AtRest /\ Undisturbed => FilesAgree)

\* The selection is never a file a turn cannot read (auth/selection.rs, write).
SelectionReadable == Chosen # Unreadable
=============================================================================
