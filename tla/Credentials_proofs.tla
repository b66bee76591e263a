------------------------- MODULE Credentials_proofs -------------------------
(***************************************************************************)
(* No write of the key file is lost, for any number of tasks, processes,   *)
(* keys and verbs, with editors that take no lock and processes that die.  *)
(***************************************************************************)
EXTENDS Credentials, FiniteSetTheorems, TLAPS

Field == {"pc", "verb", "name", "to", "provider", "raw", "tries", "pick", "file", "slipped",
          "overtaken"}
AtTheFile == {"read", "compare", "swap"}

\* A task is a record of these fields.
Formed(t) == DOMAIN task[t] = Field /\ task[t].slipped \in BOOLEAN

\* A task at the key file holds its lock; and one that has compared it, and has
\* not been slipped past by an editor, has read it as it is.
Locked(t) == task[t].pc \in AtTheFile => locked = t
Current(t) == task[t].pc = "swap" /\ ~task[t].slipped => keys = task[t].raw

FileInv == /\ DOMAIN task = Task
           /\ \A t \in Task : Formed(t) /\ Locked(t) /\ Current(t)

\* What a step leaves of a task it is not a step of.
Same(t) == /\ task'[t].pc = task[t].pc /\ task'[t].raw = task[t].raw
           /\ task'[t].slipped = task[t].slipped

\* The step leaves t at pc, and the other tasks where they were.
Leaves(t, pc) ==
  /\ DOMAIN task' = Task /\ \A u \in Task : Formed(u)'
  /\ task'[t].pc = pc /\ \A u \in Task \ {t} : Same(u)

LEMMA IdleFormed == DOMAIN Idle = Field /\ Idle.pc = "idle" /\ Idle.slipped = FALSE
  BY DEF Idle, Field

LEMMA Starts == Init => FileInv
  BY IdleFormed DEF Init, FileInv, Formed, Locked, Current, AtTheFile

LEMMA OverLeaves == ASSUME FileInv, NEW t \in Task, Over(t) PROVE Leaves(t, "idle")
  BY IdleFormed DEF FileInv, Over, Leaves, Formed, Same

LEMMA GotoLeaves ==
  ASSUME FileInv, NEW t \in Task, NEW pc, Goto(t, pc) PROVE Leaves(t, pc)
  BY DEF FileInv, Goto, Leaves, Formed, Same, Field

LEMMA ChangeLeaves ==
  ASSUME FileInv, NEW t \in Task, NEW pc, Change(t, pc) PROVE Leaves(t, pc)
  BY DEF FileInv, Change, Leaves, Formed, Same, Field

LEMMA ChangeLastLeaves ==
  ASSUME FileInv, NEW t \in Task, ChangeLast(t) PROVE Leaves(t, "idle")
  BY IdleFormed DEF FileInv, ChangeLast, Leaves, Formed, Same, Field

\* A verb asked for begins away from the key file.
LEMMA CallLeaves ==
  ASSUME FileInv, NEW t \in Task, NEW call, task' = [task EXCEPT ![t] = call],
         DOMAIN call = Field, call.slipped = FALSE
  PROVE  Leaves(t, call.pc)
  BY DEF FileInv, Leaves, Formed, Same

\* A step of a task that ends away from the key file, and takes no lock but gives
\* back its own, keeps the invariant.
LEMMA Away ==
  ASSUME FileInv, NEW t \in Task, NEW pc, Leaves(t, pc), pc \notin AtTheFile,
         UNCHANGED keys, locked' = locked \/ locked = t
  PROVE  FileInv'
<1>1. ASSUME NEW u \in Task PROVE Locked(u)' /\ Current(u)'
  <2>1. CASE u = t  BY <2>1 DEF Leaves, Locked, Current, AtTheFile
  <2>2. CASE u # t  BY <2>2 DEF FileInv, Leaves, Same, Locked, Current, AtTheFile
  <2>3. QED  BY <2>1, <2>2
<1>2. QED  BY <1>1 DEF FileInv, Leaves

\* The verbs begin away from the key file.
LEMMA CallSteps == ASSUME FileInv, NEW t \in Task, Calls(t) PROVE FileInv'
<1>1. ASSUME NEW n \in Name, Select(t, n) PROVE FileInv'
  <2>1. CASE UNCHANGED task
    BY <1>1, <2>1 DEF Select, files, FileInv, Formed, Locked, Current
  <2>2. CASE task' = [task EXCEPT ![t] = [Idle EXCEPT !.pc = "open", !.verb = "select",
                                                     !.name = n, !.pick = n]]
    <3> DEFINE call == [Idle EXCEPT !.pc = "open", !.verb = "select", !.name = n, !.pick = n]
    <3>1. DOMAIN call = Field /\ call.slipped = FALSE /\ call.pc = "open"
      BY DEF Idle, Field
    <3>2. Leaves(t, "open")  BY <2>2, <3>1, CallLeaves
    <3>3. QED  BY <1>1, <3>2, Away DEF Select, files, AtTheFile
  <2>3. QED  BY <1>1, <2>1, <2>2 DEF Select
<1>2. ASSUME NEW k \in Key, Remove(t, k) PROVE FileInv'
  <2> DEFINE call == [Idle EXCEPT !.pc = "lock", !.verb = "remove", !.name = k]
  <2>1. DOMAIN call = Field /\ call.slipped = FALSE /\ call.pc = "lock"  BY DEF Idle, Field
  <2>2. Leaves(t, "lock")  BY <1>2, <2>1, CallLeaves DEF Remove
  <2>3. QED  BY <1>2, <2>2, Away DEF Remove, files, AtTheFile
<1>3. ASSUME NEW k \in Key, NEW to \in Key, Rename(t, k, to) PROVE FileInv'
  <2> DEFINE call == [Idle EXCEPT !.pc = "lock", !.verb = "rename", !.name = k, !.to = to]
  <2>1. DOMAIN call = Field /\ call.slipped = FALSE /\ call.pc = "lock"  BY DEF Idle, Field
  <2>2. Leaves(t, "lock")  BY <1>3, <2>1, CallLeaves DEF Rename
  <2>3. QED  BY <1>3, <2>2, Away DEF Rename, files, AtTheFile
<1>4. ASSUME NEW k \in Key, NEW p \in Provider, Add(t, k, p) PROVE FileInv'
  <2> DEFINE call == [Idle EXCEPT !.verb = "add", !.name = k, !.provider = p]
             aside == [call EXCEPT !.pc = "open", !.pick = Serving]
             plain == [call EXCEPT !.pc = "lock"]
  <2>1. /\ DOMAIN aside = Field /\ aside.slipped = FALSE /\ aside.pc = "open"
        /\ DOMAIN plain = Field /\ plain.slipped = FALSE /\ plain.pc = "lock"
    BY DEF Idle, Field
  <2>2. \/ task' = [task EXCEPT ![t] = aside]
        \/ task' = [task EXCEPT ![t] = plain]
    BY <1>4 DEF Add
  <2>3. Leaves(t, "open") \/ Leaves(t, "lock")
    <3> HIDE DEF aside, plain
    <3> QED  BY <2>1, <2>2, CallLeaves
  <2>4. QED  BY <1>4, <2>3, Away DEF Add, files, AtTheFile
<1>5. QED  BY <1>1, <1>2, <1>3, <1>4 DEF Calls

\* The writers of the selection and of the mapping's section touch no key, nor does
\* a verb that is refused.
LEMMA SelectionSteps ==
  ASSUME FileInv, NEW t \in Task,
         Open(t) \/ Fill(t) \/ Move(t) \/ Follow(t) \/ Section(t) \/ Refused(t)
  PROVE  FileInv'
<1>1. CASE Open(t)
  <2>1. PICK f : task' = [task EXCEPT ![t].pc = "fill", ![t].file = f]  BY <1>1 DEF Open
  <2>2. Leaves(t, "fill")  BY <2>1 DEF FileInv, Leaves, Formed, Same, Field
  <2>3. QED  BY <1>1, <2>2, Away DEF Open, AtTheFile
<1>2. CASE Fill(t)
  <2>1. Leaves(t, "move")  BY <1>2, GotoLeaves DEF Fill
  <2>2. QED  BY <1>2, <2>1, Away DEF Fill, AtTheFile
<1>3. CASE Move(t)
  <2>1. After(task[t].verb) \in {"lock", "section", "done"}  BY DEF After
  <2>2. \/ Leaves(t, "idle") \/ Leaves(t, "lock") \/ Leaves(t, "section")
    BY <1>3, <2>1, ChangeLastLeaves, ChangeLeaves DEF Move
  <2>3. QED  BY <1>3, <2>2, Away DEF Move, AtTheFile
<1>4. CASE Follow(t)
  <2>1. CASE task' = [task EXCEPT ![t].pc = "open", ![t].pick = task[t].to]
    <3>1. Leaves(t, "open")  BY <2>1 DEF FileInv, Leaves, Formed, Same, Field
    <3>2. QED  BY <1>4, <3>1, Away DEF Follow, AtTheFile
  <2>2. CASE Over(t) \/ ChangeLast(t) \/ Goto(t, "section")
    <3>1. Leaves(t, "idle") \/ Leaves(t, "section")
      BY <2>2, OverLeaves, ChangeLastLeaves, GotoLeaves
    <3>2. QED  BY <1>4, <3>1, Away DEF Follow, AtTheFile
  <2>3. QED  BY <1>4, <2>1, <2>2 DEF Follow
<1>5. CASE Section(t)
  <2> DEFINE call == [Idle EXCEPT !.pc = "lock", !.verb = "undo", !.name = task[t].to,
                                  !.to = task[t].name, !.overtaken = task[t].overtaken]
  <2>1. DOMAIN call = Field /\ call.slipped = FALSE /\ call.pc = "lock"  BY DEF Idle, Field
  <2>2. Over(t) \/ task' = [task EXCEPT ![t] = call]  BY <1>5 DEF Section
  <2>3. Leaves(t, "idle") \/ Leaves(t, "lock")
    <3> HIDE DEF call
    <3> QED  BY <2>1, <2>2, OverLeaves, CallLeaves
  <2>4. QED  BY <1>5, <2>3, Away DEF Section, AtTheFile
<1>6. CASE Refused(t)
  <2>1. Leaves(t, "idle")  BY <1>6, OverLeaves DEF Refused
  <2>2. UNCHANGED keys /\ (locked' = locked \/ locked = t)
    BY <1>6 DEF Refused, Unlock, files
  <2>3. QED  BY <2>1, <2>2, Away DEF AtTheFile
<1>7. QED  BY <1>1, <1>2, <1>3, <1>4, <1>5, <1>6

\* Only the holder of the lock file is at the key file.
LEMMA Alone ==
  ASSUME FileInv, NEW t \in Task, NEW u \in Task,
         task[t].pc \in AtTheFile, task[u].pc \in AtTheFile
  PROVE  t = u
  BY DEF FileInv, Locked

\* The steps under the lock file.
LEMMA LockedSteps ==
  ASSUME FileInv, NEW t \in Task, Lock(t) \/ Read(t) \/ Compare(t) \/ Swap(t)
  PROVE  FileInv'
<1>1. CASE Lock(t)
  <2>1. Leaves(t, "read")  BY <1>1 DEF Lock, FileInv, Leaves, Formed, Same, Field
  <2>2. UNCHANGED keys /\ locked = None /\ locked' = t  BY <1>1 DEF Lock, files
  <2>3. ASSUME NEW u \in Task PROVE Locked(u)' /\ Current(u)'
    <3>1. task[u].pc \notin AtTheFile
      BY <2>2, CredentialsAssumption DEF FileInv, Locked
    <3>2. CASE u = t  BY <2>1, <2>2, <3>2 DEF Leaves, Locked, Current
    <3>3. CASE u # t  BY <2>1, <3>1, <3>3 DEF Leaves, Same, Locked, Current, AtTheFile
    <3>4. QED  BY <3>2, <3>3
  <2>4. QED  BY <2>1, <2>3 DEF FileInv, Leaves
<1>2. CASE Read(t)
  <2>1. task[t].pc = "read" /\ UNCHANGED keys /\ locked = t
    BY <1>2 DEF Read, files, FileInv, Locked, AtTheFile
  <2>2. CASE Over(t) /\ Unlock(t)
    BY <2>1, <2>2, OverLeaves, Away DEF AtTheFile
  <2>3. CASE task' = [task EXCEPT ![t].pc = "compare", ![t].raw = keys] /\ UNCHANGED locked
    <3>1. Leaves(t, "compare")  BY <2>3 DEF FileInv, Leaves, Formed, Same, Field
    <3>2. ASSUME NEW u \in Task PROVE Locked(u)' /\ Current(u)'
      <4>1. CASE u = t  BY <2>1, <2>3, <3>1, <4>1 DEF Leaves, Locked, Current
      <4>2. CASE u # t
        BY <2>1, <2>3, <3>1, <4>2 DEF FileInv, Leaves, Same, Locked, Current
      <4>3. QED  BY <4>1, <4>2
    <3>3. QED  BY <3>1, <3>2 DEF FileInv, Leaves
  <2>4. QED  BY <1>2, <2>2, <2>3 DEF Read
<1>3. CASE Compare(t)
  <2>1. task[t].pc = "compare" /\ UNCHANGED keys /\ locked = t
    BY <1>3 DEF Compare, files, FileInv, Locked, AtTheFile
  <2>2. CASE Over(t) /\ Unlock(t)
    BY <2>1, <2>2, OverLeaves, Away DEF AtTheFile
  <2>3. CASE /\ keys = task[t].raw
             /\ task' = [task EXCEPT ![t].pc = "swap", ![t].slipped = FALSE]
             /\ UNCHANGED locked
    <3>1. Leaves(t, "swap") /\ task'[t].raw = task[t].raw
      BY <2>3 DEF FileInv, Leaves, Formed, Same, Field
    <3>2. ASSUME NEW u \in Task PROVE Locked(u)' /\ Current(u)'
      <4>1. CASE u = t  BY <2>1, <2>3, <3>1, <4>1 DEF Leaves, Locked, Current
      <4>2. CASE u # t
        BY <2>1, <2>3, <3>1, <4>2 DEF FileInv, Leaves, Same, Locked, Current
      <4>3. QED  BY <4>1, <4>2
    <3>3. QED  BY <3>1, <3>2 DEF FileInv, Leaves
  <2>4. CASE /\ task' = [task EXCEPT ![t].pc = "read", ![t].tries = @ + 1]
             /\ UNCHANGED locked
    <3>1. Leaves(t, "read")  BY <2>4 DEF FileInv, Leaves, Formed, Same, Field
    <3>2. ASSUME NEW u \in Task PROVE Locked(u)' /\ Current(u)'
      <4>1. CASE u = t  BY <2>1, <2>4, <3>1, <4>1 DEF Leaves, Locked, Current
      <4>2. CASE u # t
        BY <2>1, <2>4, <3>1, <4>2 DEF FileInv, Leaves, Same, Locked, Current
      <4>3. QED  BY <4>1, <4>2
    <3>3. QED  BY <3>1, <3>2 DEF FileInv, Leaves
  <2>5. QED  BY <1>3, <2>2, <2>3, <2>4 DEF Compare
<1>4. CASE Swap(t)
  <2>1. task[t].pc = "swap" /\ locked = t
    BY <1>4 DEF Swap, FileInv, Locked, AtTheFile
  <2>2. PICK pc \in {"idle", "follow"} : Leaves(t, pc)
    BY <1>4, ChangeLastLeaves, ChangeLeaves DEF Swap
  <2>3. ASSUME NEW u \in Task PROVE Locked(u)' /\ Current(u)'
    <3>1. CASE u = t  BY <2>2, <3>1 DEF Leaves, Locked, Current, AtTheFile
    <3>2. CASE u # t
      <4>1. task[u].pc \notin AtTheFile  BY <2>1, <3>2, Alone DEF AtTheFile
      <4>2. QED  BY <2>2, <3>2, <4>1 DEF Leaves, Same, Locked, Current, AtTheFile
    <3>3. QED  BY <3>1, <3>2
  <2>4. QED  BY <2>2, <2>3 DEF FileInv, Leaves
<1>5. QED  BY <1>1, <1>2, <1>3, <1>4

\* An editor slips past those who have compared, and a death releases the lock.
LEMMA OutsideSteps ==
  ASSUME FileInv, (\E k \in Key : Edit(k)) \/ (\E t \in Task : Crash(ProcessOf[t]))
  PROVE  FileInv'
<1>1. ASSUME NEW k \in Key, Edit(k) PROVE FileInv'
  <2>1. task' = [t \in Task |-> [task[t] EXCEPT !.overtaken = task[t].pc # "idle",
                                                !.slipped = task[t].pc = "swap"]]
    BY <1>1 DEF Edit
  <2>2. ASSUME NEW t \in Task
        PROVE  /\ Formed(t)' /\ task'[t].pc = task[t].pc
               /\ task'[t].slipped = (task[t].pc = "swap")
    BY <2>1 DEF FileInv, Formed, Field
  <2>3. UNCHANGED locked  BY <1>1 DEF Edit
  <2>4. QED  BY <2>1, <2>2, <2>3 DEF FileInv, Locked, Current
<1>2. ASSUME NEW t \in Task, Crash(ProcessOf[t]) PROVE FileInv'
  <2> DEFINE dead == {u \in Task : ProcessOf[u] = ProcessOf[t]}
  <2>1. /\ task' = [u \in Task |-> IF u \in dead THEN Idle ELSE task[u]]
        /\ locked' = IF locked \in dead THEN None ELSE locked
        /\ UNCHANGED keys
    BY <1>2 DEF Crash, files
  <2> HIDE DEF dead
  <2>2. ASSUME NEW u \in Task PROVE Formed(u)' /\ Locked(u)' /\ Current(u)'
    <3>1. CASE u \in dead
      BY <2>1, <3>1, IdleFormed DEF Formed, Locked, Current, AtTheFile
    <3>2. CASE u \notin dead
      BY <2>1, <3>2 DEF FileInv, Formed, Locked, Current, AtTheFile
    <3>3. QED  BY <3>1, <3>2
  <2>3. QED  BY <2>1, <2>2 DEF FileInv
<1>3. QED  BY <1>1, <1>2

\* The invariant of the key file holds in every reachable state.
THEOREM KeyFileInvariant == Spec => []FileInv
<1>1. FileInv /\ [Next]_vars => FileInv'
  <2>1. FileInv /\ UNCHANGED vars => FileInv'
    BY DEF vars, files, FileInv, Formed, Locked, Current
  <2>2. FileInv /\ Next => FileInv'
    BY CallSteps, SelectionSteps, LockedSteps, OutsideSteps DEF Next, Step
  <2>3. QED  BY <2>1, <2>2
<1>2. QED  BY <1>1, Starts, PTL DEF Spec

\* A write of the key file is the verb applied to the file as it is, whoever else
\* writes and whoever dies: the one who replaces it holds its lock and compared
\* it since anyone but an editor could have (auth/store.rs, update).
THEOREM NoKeyWriteLost == Spec => NoWriteLost
<1> DEFINE Kept == \A t \in Task :
             task[t].pc = "swap" /\ task'[t].pc # "swap" /\ keys' # keys /\ ~task[t].slipped
               => keys' = Mutate(task[t], t, keys)
<1>1. ASSUME FileInv, Next PROVE Kept
  <2> SUFFICES ASSUME NEW t \in Task, task[t].pc = "swap", task'[t].pc # "swap",
                      keys' # keys, ~task[t].slipped
               PROVE  keys' = Mutate(task[t], t, keys)
    OBVIOUS
  <2>1. ASSUME NEW u \in Task, Swap(u) PROVE keys' = Mutate(task[t], t, keys)
    <3>1. u = t  BY <1>1, <2>1, Alone DEF Swap, AtTheFile
    <3>2. keys = task[t].raw  BY <1>1 DEF FileInv, Current
    <3>3. QED  BY <2>1, <3>1, <3>2 DEF Swap
  <2>2. ASSUME NEW k \in Key, Edit(k) PROVE FALSE
    BY <1>1, <2>2 DEF Edit, FileInv, Formed, Field
  <2>3. ASSUME NEW u \in Task, Calls(u) PROVE FALSE
    BY <2>3 DEF Calls, Select, Remove, Rename, Add, files
  <2>4. ASSUME NEW u \in Task, Step(u), ~Swap(u) PROVE FALSE
    BY <2>4 DEF Step, Open, Fill, Move, Lock, Read, Compare, Follow, Section, Refused, files
  <2>5. ASSUME NEW u \in Task, Crash(ProcessOf[u]) PROVE FALSE
    BY <2>5 DEF Crash, files
  <2>6. QED  BY <1>1, <2>1, <2>2, <2>3, <2>4, <2>5 DEF Next
<1>2. FileInv /\ [Next]_vars => [Kept]_vars  BY <1>1
<1>3. QED  BY <1>2, KeyFileInvariant, PTL DEF Spec, NoWriteLost

-----------------------------------------------------------------------------
(* Who holds which lock. *)

\* A lock is held by a task that is doing what it is taken for.
WorkInv ==
  /\ LocksWorked
  /\ held # None => task[held].pc # "idle"
  /\ \A t \in Task : task[t].pc = "section" => task[t].verb = "rename"

(* Where a verb is, and what it knows there. *)

Writing == {"fill", "move"}
Choosing == {"open", "fill", "move"}
Storing == {"lock", "read", "compare", "swap"}

Placed(t) ==
  /\ task[t].overtaken \in BOOLEAN
  /\ task[t].pc \in {"idle", "follow", "section"} \cup Choosing \cup Storing
  /\ task[t].pc \in Choosing =>
       task[t].verb \in {"select", "add", "rename", "undo"} /\ task[t].pick \in Name
  /\ task[t].pc \in Storing => task[t].verb \in {"add", "remove", "rename", "undo"}
  /\ task[t].pc = "follow" => task[t].verb \in {"remove", "rename", "undo"}
  /\ task[t].pc = "section" => task[t].verb = "rename"
  /\ task[t].pc # "idle" /\ task[t].verb # "select" => task[t].name \in Key
  /\ task[t].pc # "idle" /\ task[t].verb \in {"rename", "undo"} => task[t].to \in Key
  /\ task[t].pc # "idle" /\ task[t].verb = "add" => task[t].provider \in Provider
  /\ task[t].pc \in Writing => task[t].file \in File
  /\ task[t].pc \in {"compare", "swap"} =>
       DOMAIN task[t].raw = Key /\ Allowed(task[t], task[t].raw)

\* The pending name never leads to the selection's file.
DirInv ==
  /\ DOMAIN keys = Key /\ crossed \in BOOLEAN
  /\ dir \in [selected : File \cup {None}, pending : File \cup {None}]
  /\ content \in [File -> [head : Name \cup {None}, len : Nat]]
  /\ dir.pending = None \/ dir.pending # dir.selected

\* Unless writers of the selection crossed, one writes at a time, to the pending
\* file, which holds what that one has written.
WriterInv(t) ==
  task[t].pc \in Writing =>
    /\ task[t].file = dir.pending
    /\ \A u \in Task \ {t} : task[u].pc \notin Writing
    /\ task[t].pc = "fill" => content[task[t].file].len = 0
    /\ task[t].pc = "move" =>
         content[task[t].file] = [head |-> task[t].pick, len |-> Length[task[t].pick]]

\* What a verb found stands while nobody changed it: an account that served alone,
\* or that was chosen since, and the name the selection had.
Stands(t) ==
  /\ task[t].pc \in Choosing /\ task[t].verb = "add" =>
       Chosen = None /\ Serving = task[t].pick
  /\ task[t].pc \in Storing /\ task[t].verb = "add" => Chosen # None \/ Serving = None
  /\ task[t].pc \in Choosing /\ task[t].verb \in {"rename", "undo"} => Chosen = task[t].name

PayInv ==
  /\ DirInv /\ \A t \in Task : Placed(t)
  /\ ~crossed => \A t \in Task : WriterInv(t) /\ (~task[t].overtaken => Stands(t))

\* The pending name leads to a file of its own, for there are more files than tasks.
LEMMA FreshIs ==
  ASSUME DirInv, dir.pending = None
  PROVE  /\ Fresh \in File /\ Fresh # dir.selected
         /\ \A t \in Task : task[t].file # Fresh
<1> DEFINE Used == {task[t].file : t \in Task}
           f == [t \in Task |-> task[t].file]
           Taken == Used \cup {dir.selected}
<1>1. IsFiniteSet(Task) /\ Cardinality(Task) \in Nat /\ None \notin File
  BY CredentialsAssumption, FS_CardinalityType DEF File
<1>2. f \in Surjection(Task, Used)
  BY DEF Surjection
<1>3. IsFiniteSet(Used) /\ Cardinality(Used) <= Cardinality(Task)
  BY <1>1, <1>2, FS_Surjection
<1> HIDE DEF Used, f
<1>4. IsFiniteSet(Taken) /\ Cardinality(Taken) <= Cardinality(Task) + 1
      /\ Cardinality(Taken) \in Nat
  <2>1. Cardinality(Used) \in Nat  BY <1>3, FS_CardinalityType
  <2>2. /\ IsFiniteSet(Taken)
        /\ Cardinality(Taken) = IF dir.selected \in Used THEN Cardinality(Used)
                                ELSE Cardinality(Used) + 1
    BY <1>3, FS_AddElement
  <2>3. QED  BY <1>1, <1>3, <2>1, <2>2
<1>5. Cardinality(File) = Cardinality(Task) + 2
  BY <1>1, FS_Interval DEF File
<1>6. ~(File \subseteq Taken)
  BY <1>1, <1>4, <1>5, FS_Subset
<1>7. PICK g \in File : g \notin Taken  BY <1>6
<1>8. \A t \in Task : task[t].file # g  BY <1>7 DEF Used
<1>9. g \notin {dir.selected, dir.pending} /\ \A t \in Task : task[t].file # g
  BY <1>1, <1>7, <1>8
<1>10. /\ Fresh \in File /\ Fresh \notin {dir.selected, dir.pending}
       /\ \A t \in Task : task[t].file # Fresh
  BY <1>9 DEF Fresh
<1>11. QED  BY <1>10

LEMMA ServingIs ==
  Serving \in Listed \cup {None} /\ Listed \subseteq Name /\ None \notin Listed
    /\ (Chosen # None => Serving \in {None, Chosen})
<1>1. Listed \subseteq Name /\ None \notin Name
  BY CredentialsAssumption DEF Listed, Name
<1>2. Cardinality(Listed) = 1 => Listed # {}  BY FS_EmptySet
<1>3. Listed # {} => (CHOOSE n \in Listed : TRUE) \in Listed  OBVIOUS
<1>4. QED  BY <1>1, <1>2, <1>3 DEF Serving

LEMMA ChosenKept ==
  ASSUME dir'.selected = dir.selected,
         dir.selected # None => content'[dir.selected] = content[dir.selected]
  PROVE  Chosen' = Chosen
  BY DEF Chosen, Written

LEMMA ServingKept == ASSUME Chosen' = Chosen, keys' = keys PROVE Serving' = Serving
  BY DEF Serving, Listed

\* What a step does not touch of a task it is not a step of, overtaken or not.
Kept(t) ==
  /\ task'[t].pc = task[t].pc /\ task'[t].verb = task[t].verb
  /\ task'[t].name = task[t].name /\ task'[t].to = task[t].to
  /\ task'[t].provider = task[t].provider /\ task'[t].raw = task[t].raw
  /\ task'[t].pick = task[t].pick /\ task'[t].file = task[t].file
Overtakes(t) == Kept(t) /\ task'[t].overtaken = (task[t].pc # "idle")

\* The step takes t to pc and leaves what t knows.
Moved(t, pc) ==
  /\ task'[t].pc = pc /\ task'[t].verb = task[t].verb
  /\ task'[t].name = task[t].name /\ task'[t].to = task[t].to
  /\ task'[t].provider = task[t].provider /\ task'[t].raw = task[t].raw
  /\ task'[t].pick = task[t].pick /\ task'[t].file = task[t].file
  /\ task'[t].overtaken = task[t].overtaken

\* The tasks of a step, those it overtakes, and those it leaves.
LEMMA PayStep ==
  ASSUME PayInv, NEW Who \in SUBSET Task, DirInv', \A t \in Who : Placed(t)',
         \A u \in Task \ Who :
           Kept(u) /\ (task'[u].overtaken = task[u].overtaken \/ Overtakes(u)),
         crossed => crossed',
         ~crossed' => \A t \in Who : WriterInv(t)' /\ (~task'[t].overtaken => Stands(t)'),
         ~crossed' => \A u \in Task \ Who :
           /\ task[u].pc \in Writing =>
                /\ \A t \in Who : task'[t].pc \notin Writing
                /\ dir'.pending = dir.pending
                /\ content'[dir.pending] = content[dir.pending]
           /\ Overtakes(u) \/ (Chosen' = Chosen /\ Serving' = Serving)
  PROVE  PayInv'
<1>1. ASSUME NEW u \in Task \ Who PROVE Placed(u)'
  <2>1. Placed(u) /\ Kept(u)  BY DEF PayInv
  <2>2. task'[u].overtaken \in BOOLEAN  BY <2>1 DEF Placed, Overtakes
  <2>3. QED  BY <2>1, <2>2 DEF Placed, Kept, Allowed
<1>2. ASSUME ~crossed', NEW u \in Task \ Who PROVE WriterInv(u)'
  <2> SUFFICES ASSUME task'[u].pc \in Writing
               PROVE  /\ task'[u].file = dir'.pending
                      /\ \A v \in Task \ {u} : task'[v].pc \notin Writing
                      /\ task'[u].pc = "fill" => content'[task'[u].file].len = 0
                      /\ task'[u].pc = "move" =>
                           content'[task'[u].file] =
                             [head |-> task'[u].pick, len |-> Length[task'[u].pick]]
    BY DEF WriterInv
  <2>1. WriterInv(u) /\ Kept(u) /\ task[u].pc \in Writing
    BY <1>2 DEF PayInv, Kept
  <2>2. /\ \A t \in Who : task'[t].pc \notin Writing
        /\ dir'.pending = dir.pending /\ content'[dir.pending] = content[dir.pending]
    BY <1>2, <2>1
  <2>3. ASSUME NEW v \in Task \ {u} PROVE task'[v].pc \notin Writing
    <3>1. CASE v \in Who  BY <2>2, <3>1
    <3>2. CASE v \notin Who  BY <2>1, <3>2 DEF WriterInv, Kept
    <3>3. QED  BY <3>1, <3>2
  <2>4. QED  BY <2>1, <2>2, <2>3 DEF WriterInv, Kept
<1>3. ASSUME ~crossed', NEW u \in Task \ Who, ~task'[u].overtaken PROVE Stands(u)'
  <2>1. CASE Overtakes(u)
    <3>1. task'[u].pc = "idle"  BY <1>3, <2>1 DEF Overtakes, Kept
    <3>2. QED  BY <3>1 DEF Stands, Choosing, Storing
  <2>2. CASE ~Overtakes(u)
    <3>1. ~task[u].overtaken /\ Kept(u) /\ Chosen' = Chosen /\ Serving' = Serving
      BY <1>3, <2>2
    <3>2. Stands(u)  BY <1>3, <3>1 DEF PayInv
    <3>3. QED  BY <3>1, <3>2 DEF Stands, Kept
  <2>3. QED  BY <2>1, <2>2
<1>4. QED  BY <1>1, <1>2, <1>3 DEF PayInv

LEMMA PayOne ==
  ASSUME PayInv, NEW t \in Task, DirInv', Placed(t)',
         \A u \in Task \ {t} : Overtakes(u) \/ task'[u] = task[u],
         crossed => crossed',
         ~crossed' => WriterInv(t)' /\ (~task'[t].overtaken => Stands(t)'),
         ~crossed' => \A u \in Task \ {t} :
           /\ task[u].pc \in Writing =>
                /\ task'[t].pc \notin Writing
                /\ dir'.pending = dir.pending
                /\ content'[dir.pending] = content[dir.pending]
           /\ Overtakes(u) \/ (Chosen' = Chosen /\ Serving' = Serving)
  PROVE  PayInv'
<1> DEFINE Who == {t}
<1>1. Who \in SUBSET Task /\ \A v \in Who : v = t  OBVIOUS
<1>2. \A v \in Who : Placed(v)'  OBVIOUS
<1>3. \A u \in Task \ Who :
        Kept(u) /\ (task'[u].overtaken = task[u].overtaken \/ Overtakes(u))
  BY DEF Kept, Overtakes
<1>4. ~crossed' => \A v \in Who : WriterInv(v)' /\ (~task'[v].overtaken => Stands(v)')
  OBVIOUS
<1>5. ~crossed' => \A u \in Task \ Who :
        /\ task[u].pc \in Writing =>
             /\ \A v \in Who : task'[v].pc \notin Writing
             /\ dir'.pending = dir.pending
             /\ content'[dir.pending] = content[dir.pending]
        /\ Overtakes(u) \/ (Chosen' = Chosen /\ Serving' = Serving)
  OBVIOUS
<1> HIDE DEF Who
<1>6. QED  BY <1>1, <1>2, <1>3, <1>4, <1>5, PayStep

-----------------------------------------------------------------------------
(* How each step leaves its task and the others. *)

LEMMA OverIs ==
  ASSUME FileInv, NEW t \in Task, Over(t)
  PROVE  task'[t] = Idle /\ \A u \in Task \ {t} : task'[u] = task[u]
  BY DEF FileInv, Over

LEMMA GotoIs ==
  ASSUME FileInv, NEW t \in Task, NEW pc, Goto(t, pc)
  PROVE  Moved(t, pc) /\ \A u \in Task \ {t} : task'[u] = task[u]
  BY DEF FileInv, Formed, Field, Goto, Moved

LEMMA ChangeIs ==
  ASSUME FileInv, NEW t \in Task, NEW pc, Change(t, pc)
  PROVE  Moved(t, pc) /\ \A u \in Task \ {t} : Overtakes(u)
  BY DEF FileInv, Formed, Field, Change, Moved, Overtakes, Kept

LEMMA ChangeLastIs ==
  ASSUME FileInv, NEW t \in Task, ChangeLast(t)
  PROVE  task'[t] = Idle /\ \A u \in Task \ {t} : Overtakes(u)
  BY DEF FileInv, Formed, Field, ChangeLast, Overtakes, Kept

LEMMA IdlePlaced ==
  ASSUME NEW t \in Task, task'[t] = Idle
  PROVE  Placed(t)' /\ WriterInv(t)' /\ Stands(t)' /\ task'[t].pc \notin Writing
<1>1. task'[t].pc = "idle" /\ task'[t].overtaken = FALSE  BY DEF Idle
<1>2. QED  BY <1>1 DEF Placed, WriterInv, Stands, Choosing, Storing, Writing

\* A verb that is over, and changed no file.
LEMMA Ends ==
  ASSUME PayInv, FileInv, NEW t \in Task, Over(t), UNCHANGED <<keys, dir, content>>,
         crossed => crossed', crossed' \in BOOLEAN
  PROVE  PayInv'
<1>1. task'[t] = Idle /\ \A u \in Task \ {t} : task'[u] = task[u]  BY OverIs
<1>2. Chosen' = Chosen /\ Serving' = Serving  BY ChosenKept, ServingKept
<1>3. DirInv'  BY DEF PayInv, DirInv
<1>4. QED  BY <1>1, <1>2, <1>3, IdlePlaced, PayOne

\* A step that moves its task on and touches no file.
LEMMA Proceeds ==
  ASSUME PayInv, FileInv, NEW t \in Task, Placed(t)', task'[t].pc \notin Writing,
         \A u \in Task \ {t} : task'[u] = task[u],
         UNCHANGED <<keys, dir, content, crossed>>,
         ~crossed => (~task'[t].overtaken => Stands(t)')
  PROVE  PayInv'
<1>1. Chosen' = Chosen /\ Serving' = Serving  BY ChosenKept, ServingKept
<1>2. DirInv'  BY DEF PayInv, DirInv
<1>3. WriterInv(t)'  BY DEF WriterInv
<1>4. QED  BY <1>1, <1>2, <1>3, PayOne

\* A verb refused where it is leaves the files as they are.
LEMMA RefusedPays == ASSUME PayInv, FileInv, NEW t \in Task, Refused(t) PROVE PayInv'
<1>1. Over(t) /\ UNCHANGED <<keys, dir, content, crossed>>
  BY DEF Refused, files, chosenFile
<1>2. QED  BY <1>1, Ends DEF PayInv, DirInv

LEMMA CallPays == ASSUME PayInv, FileInv, NEW t \in Task, Calls(t) PROVE PayInv'
<1>0. Chosen' = Chosen /\ Serving' = Serving /\ UNCHANGED <<keys, dir, content, crossed>>
  <2>1. UNCHANGED <<files, crossed>>
    BY DEF Calls, Select, Remove, Rename, Add, history
  <2>2. UNCHANGED <<keys, dir, content, crossed>>  BY <2>1 DEF files, chosenFile
  <2>3. QED  BY <2>2, ChosenKept, ServingKept
<1>1. ASSUME NEW n \in Name, Select(t, n) PROVE PayInv'
  <2>1. CASE UNCHANGED task
    <3>1. Placed(t)' /\ (~crossed' => WriterInv(t)' /\ (~task'[t].overtaken => Stands(t)'))
      BY <1>0, <2>1 DEF PayInv, Placed, WriterInv, Stands, Allowed
    <3>2. DirInv'  BY <1>0 DEF PayInv, DirInv
    <3>3. \A u \in Task \ {t} : task[u].pc \in Writing /\ ~crossed => task[t].pc \notin Writing
      BY DEF PayInv, WriterInv
    <3>4. QED  BY <1>0, <2>1, <3>1, <3>2, <3>3, PayOne
  <2>2. CASE task' = [task EXCEPT ![t] = [Idle EXCEPT !.pc = "open", !.verb = "select",
                                                     !.name = n, !.pick = n]]
    <3> DEFINE call == [Idle EXCEPT !.pc = "open", !.verb = "select", !.name = n, !.pick = n]
    <3>1. call.pc = "open" /\ call.verb = "select" /\ call.pick = n /\ call.overtaken = FALSE
      BY DEF Idle
    <3>2. task'[t] = call /\ \A u \in Task \ {t} : task'[u] = task[u]
      BY <2>2 DEF FileInv
    <3> HIDE DEF call
    <3>3. Placed(t)' /\ Stands(t)' /\ task'[t].pc \notin Writing
      BY <3>1, <3>2 DEF Placed, Stands, Choosing, Storing, Writing
    <3>4. QED  BY <1>0, <3>2, <3>3, Proceeds
  <2>3. QED  BY <1>1, <2>1, <2>2 DEF Select
<1>2. ASSUME NEW k \in Key, Remove(t, k) PROVE PayInv'
  <2> DEFINE call == [Idle EXCEPT !.pc = "lock", !.verb = "remove", !.name = k]
  <2>1. call.pc = "lock" /\ call.verb = "remove" /\ call.name = k /\ call.overtaken = FALSE
    BY DEF Idle
  <2>2. task'[t] = call /\ \A u \in Task \ {t} : task'[u] = task[u]
    BY <1>2 DEF FileInv, Remove
  <2> HIDE DEF call
  <2>3. Placed(t)' /\ Stands(t)' /\ task'[t].pc \notin Writing
    BY <2>1, <2>2 DEF Placed, Stands, Choosing, Storing, Writing
  <2>4. QED  BY <1>0, <2>2, <2>3, Proceeds
<1>3. ASSUME NEW k \in Key, NEW to \in Key, Rename(t, k, to) PROVE PayInv'
  <2> DEFINE call == [Idle EXCEPT !.pc = "lock", !.verb = "rename", !.name = k, !.to = to]
  <2>1. /\ call.pc = "lock" /\ call.verb = "rename" /\ call.name = k /\ call.to = to
        /\ call.overtaken = FALSE
    BY DEF Idle
  <2>2. task'[t] = call /\ \A u \in Task \ {t} : task'[u] = task[u]
    BY <1>3 DEF FileInv, Rename
  <2> HIDE DEF call
  <2>3. Placed(t)' /\ Stands(t)' /\ task'[t].pc \notin Writing
    BY <2>1, <2>2 DEF Placed, Stands, Choosing, Storing, Writing
  <2>4. QED  BY <1>0, <2>2, <2>3, Proceeds
<1>4. ASSUME NEW k \in Key, NEW p \in Provider, Add(t, k, p) PROVE PayInv'
  <2> DEFINE call == [Idle EXCEPT !.verb = "add", !.name = k, !.provider = p]
             aside == [call EXCEPT !.pc = "open", !.pick = Serving]
             plain == [call EXCEPT !.pc = "lock"]
  <2>1. /\ aside.pc = "open" /\ aside.verb = "add" /\ aside.name = k /\ aside.pick = Serving
        /\ aside.overtaken = FALSE /\ aside.provider = p
        /\ plain.pc = "lock" /\ plain.verb = "add" /\ plain.name = k
        /\ plain.overtaken = FALSE /\ plain.provider = p
    BY DEF Idle
  <2>2. \/ Chosen = None /\ Serving # None /\ task' = [task EXCEPT ![t] = aside]
        \/ ~(Chosen = None /\ Serving # None) /\ task' = [task EXCEPT ![t] = plain]
    BY <1>4 DEF Add
  <2> HIDE DEF aside, plain
  <2>3. CASE Chosen = None /\ Serving # None /\ task' = [task EXCEPT ![t] = aside]
    <3>1. task'[t] = aside /\ \A u \in Task \ {t} : task'[u] = task[u]
      BY <2>3 DEF FileInv
    <3>2. Serving \in Name  BY <2>3, ServingIs
    <3>3. Placed(t)' /\ Stands(t)' /\ task'[t].pc \notin Writing
      BY <1>0, <2>1, <2>3, <3>1, <3>2 DEF Placed, Stands, Choosing, Storing, Writing
    <3>4. QED  BY <1>0, <3>1, <3>3, Proceeds
  <2>4. CASE ~(Chosen = None /\ Serving # None) /\ task' = [task EXCEPT ![t] = plain]
    <3>1. task'[t] = plain /\ \A u \in Task \ {t} : task'[u] = task[u]
      BY <2>4 DEF FileInv
    <3>2. Placed(t)' /\ Stands(t)' /\ task'[t].pc \notin Writing
      BY <1>0, <2>1, <2>4, <3>1 DEF Placed, Stands, Choosing, Storing, Writing
    <3>3. QED  BY <1>0, <3>1, <3>2, Proceeds
  <2>5. QED  BY <2>2, <2>3, <2>4
<1>5. QED  BY <1>1, <1>2, <1>3, <1>4 DEF Calls

LEMMA LockPays == ASSUME PayInv, FileInv, NEW t \in Task, Lock(t) PROVE PayInv'
<1>1. /\ task[t].pc = "lock" /\ UNCHANGED <<keys, dir, content, crossed>>
      /\ task' = [task EXCEPT ![t].pc = "read", ![t].tries = 0]
  BY DEF Lock, files, chosenFile, history
<1>2. Moved(t, "read") /\ \A u \in Task \ {t} : task'[u] = task[u]
  BY <1>1 DEF FileInv, Formed, Field, Moved
<1>3. Chosen' = Chosen /\ Serving' = Serving  BY <1>1, ChosenKept, ServingKept
<1>4. Placed(t) /\ (~crossed => (~task[t].overtaken => Stands(t)))  BY DEF PayInv
<1>5. Placed(t)' /\ task'[t].pc \notin Writing
  BY <1>1, <1>2, <1>4 DEF Placed, Moved, Choosing, Storing, Writing
<1>6. Stands(t) => Stands(t)'
  BY <1>1, <1>2, <1>3 DEF Stands, Moved, Choosing, Storing
<1>7. QED  BY <1>1, <1>2, <1>4, <1>5, <1>6, Proceeds DEF Moved

LEMMA ReadPays == ASSUME PayInv, FileInv, NEW t \in Task, Read(t) PROVE PayInv'
<1>1. task[t].pc = "read" /\ UNCHANGED <<keys, dir, content>>
  BY DEF Read, files, chosenFile
<1>2. CASE ~Allowed(task[t], keys)
  <2>1. Over(t) /\ crossed' = (crossed \/ task[t].verb = "undo")
    BY <1>2 DEF Read
  <2>2. QED  BY <1>1, <2>1, Ends
<1>3. CASE Allowed(task[t], keys)
  <2>1. UNCHANGED crossed /\ task' = [task EXCEPT ![t].pc = "compare", ![t].raw = keys]
    BY <1>3 DEF Read
  <2>2. /\ task'[t].pc = "compare" /\ task'[t].verb = task[t].verb
        /\ task'[t].name = task[t].name /\ task'[t].to = task[t].to
        /\ task'[t].provider = task[t].provider /\ task'[t].raw = keys
        /\ task'[t].overtaken = task[t].overtaken
        /\ \A u \in Task \ {t} : task'[u] = task[u]
    BY <2>1 DEF FileInv, Formed, Field
  <2>3. Chosen' = Chosen /\ Serving' = Serving  BY <1>1, ChosenKept, ServingKept
  <2>4. Placed(t) /\ DOMAIN keys = Key /\ (~crossed => (~task[t].overtaken => Stands(t)))
    BY DEF PayInv, DirInv
  <2>5. Allowed(task'[t], task'[t].raw)  BY <1>3, <2>2 DEF Allowed
  <2>6. Placed(t)' /\ task'[t].pc \notin Writing
    BY <1>1, <2>2, <2>4, <2>5 DEF Placed, Choosing, Storing, Writing
  <2>7. Stands(t) => Stands(t)'
    BY <1>1, <2>2, <2>3 DEF Stands, Choosing, Storing
  <2>8. QED  BY <1>1, <2>1, <2>2, <2>4, <2>6, <2>7, Proceeds
<1>4. QED  BY <1>2, <1>3

LEMMA ComparePays == ASSUME PayInv, FileInv, NEW t \in Task, Compare(t) PROVE PayInv'
<1>1. task[t].pc = "compare" /\ UNCHANGED <<keys, dir, content, crossed>>
  BY DEF Compare, files, chosenFile, history
<1>2. CASE Over(t)
  BY <1>1, <1>2, Ends DEF PayInv, DirInv
<1>3. CASE \/ task' = [task EXCEPT ![t].pc = "swap", ![t].slipped = FALSE]
           \/ task' = [task EXCEPT ![t].pc = "read", ![t].tries = @ + 1]
  <2>1. /\ Moved(t, "swap") \/ Moved(t, "read")
        /\ \A u \in Task \ {t} : task'[u] = task[u]
    BY <1>3 DEF FileInv, Formed, Field, Moved
  <2>2. Chosen' = Chosen /\ Serving' = Serving  BY <1>1, ChosenKept, ServingKept
  <2>3. Placed(t) /\ (~crossed => (~task[t].overtaken => Stands(t)))  BY DEF PayInv
  <2>4. Placed(t)' /\ task'[t].pc \notin Writing
    BY <1>1, <2>1, <2>3 DEF Placed, Moved, Allowed, Choosing, Storing, Writing
  <2>5. Stands(t) => Stands(t)'
    BY <1>1, <2>1, <2>2 DEF Stands, Moved, Choosing, Storing
  <2>6. QED  BY <1>1, <2>1, <2>3, <2>4, <2>5, Proceeds DEF Moved
<1>4. QED  BY <1>2, <1>3 DEF Compare

LEMMA SwapPays == ASSUME PayInv, FileInv, NEW t \in Task, Swap(t) PROVE PayInv'
<1>1. /\ task[t].pc = "swap" /\ UNCHANGED <<dir, content, crossed>>
      /\ keys' = Mutate(task[t], t, task[t].raw)
  BY DEF Swap, chosenFile, history
<1>2. Placed(t) /\ DOMAIN task[t].raw = Key /\ task[t].verb \in {"add", "remove", "rename", "undo"}
  BY <1>1 DEF PayInv, Placed, Storing
<1>3. DOMAIN keys' = Key  BY <1>1, <1>2 DEF Mutate
<1>4. DirInv'  BY <1>1, <1>3 DEF PayInv, DirInv
<1>5. CASE task[t].verb = "add"
  <2>1. ChangeLast(t)  BY <1>5 DEF Swap
  <2>2. QED  BY <1>1, <1>4, <2>1, ChangeLastIs, IdlePlaced, PayOne
<1>6. CASE task[t].verb # "add"
  <2>1. Change(t, "follow")  BY <1>6 DEF Swap
  <2>2. Moved(t, "follow") /\ \A u \in Task \ {t} : Overtakes(u)
    BY <2>1, ChangeIs
  <2>3. Placed(t)' /\ WriterInv(t)' /\ Stands(t)' /\ task'[t].pc \notin Writing
    BY <1>1, <1>2, <1>6, <2>2
       DEF Placed, WriterInv, Stands, Moved, Choosing, Storing, Writing
  <2>4. QED  BY <1>1, <1>4, <2>2, <2>3, PayOne
<1>7. QED  BY <1>5, <1>6

LEMMA FollowPays == ASSUME PayInv, FileInv, NEW t \in Task, Follow(t) PROVE PayInv'
<1>1. /\ task[t].pc = "follow" /\ UNCHANGED <<keys, content, crossed>>
      /\ Placed(t) /\ task[t].verb \in {"remove", "rename", "undo"}
  BY DEF Follow, PayInv, Placed, history
<1>2. CASE Over(t) /\ UNCHANGED dir
  BY <1>1, <1>2, Ends DEF PayInv, DirInv
<1>3. CASE dir' = [dir EXCEPT !.selected = None] /\ ChangeLast(t)
  <2>1. DirInv'
    BY <1>1, <1>3 DEF PayInv, DirInv
  <2>2. dir'.pending = dir.pending  BY <1>3 DEF PayInv, DirInv
  <2>3. QED  BY <1>1, <1>3, <2>1, <2>2, ChangeLastIs, IdlePlaced, PayOne
<1>4. CASE /\ Chosen = task[t].name /\ task[t].verb # "remove"
           /\ task' = [task EXCEPT ![t].pc = "open", ![t].pick = task[t].to]
           /\ UNCHANGED dir
  <2>1. /\ task'[t].pc = "open" /\ task'[t].verb = task[t].verb
        /\ task'[t].name = task[t].name /\ task'[t].to = task[t].to
        /\ task'[t].pick = task[t].to /\ task'[t].overtaken = task[t].overtaken
        /\ \A u \in Task \ {t} : task'[u] = task[u]
    BY <1>4 DEF FileInv, Formed, Field
  <2>2. Chosen' = Chosen  BY <1>1, <1>4, ChosenKept
  <2>3. task[t].to \in Name  BY <1>1, <1>4 DEF Placed, Name
  <2>4. Placed(t)' /\ Stands(t)' /\ task'[t].pc \notin Writing
    BY <1>1, <1>4, <2>1, <2>2, <2>3 DEF Placed, Stands, Choosing, Storing, Writing
  <2>5. QED  BY <1>1, <1>4, <2>1, <2>4, Proceeds
<1>5. CASE task[t].verb = "rename" /\ Goto(t, "section") /\ UNCHANGED dir
  <2>1. Moved(t, "section") /\ \A u \in Task \ {t} : task'[u] = task[u]
    BY <1>5, GotoIs
  <2>2. Placed(t)' /\ Stands(t)' /\ task'[t].pc \notin Writing
    BY <1>1, <1>5, <2>1 DEF Placed, Stands, Moved, Choosing, Storing, Writing
  <2>3. QED  BY <1>1, <1>5, <2>1, <2>2, Proceeds
<1>6. QED  BY <1>2, <1>3, <1>4, <1>5 DEF Follow

LEMMA SectionPays == ASSUME PayInv, FileInv, NEW t \in Task, Section(t) PROVE PayInv'
<1> DEFINE call == [Idle EXCEPT !.pc = "lock", !.verb = "undo", !.name = task[t].to,
                                !.to = task[t].name, !.overtaken = task[t].overtaken]
<1>1. task[t].pc = "section" /\ UNCHANGED <<keys, dir, content, crossed>>
  BY DEF Section, chosenFile, history
<1>2. CASE Over(t)
  BY <1>1, <1>2, Ends DEF PayInv, DirInv
<1>3. CASE task' = [task EXCEPT ![t] = call]
  <2>1. Placed(t) /\ task[t].verb = "rename" /\ task[t].name \in Key /\ task[t].to \in Key
    BY <1>1 DEF PayInv, Placed
  <2>2. /\ call.pc = "lock" /\ call.verb = "undo" /\ call.name = task[t].to
        /\ call.to = task[t].name /\ call.overtaken = task[t].overtaken
    BY DEF Idle
  <2>3. task'[t] = call /\ \A u \in Task \ {t} : task'[u] = task[u]
    BY <1>3 DEF FileInv
  <2> HIDE DEF call
  <2>4. task[t].overtaken \in BOOLEAN  BY <2>1 DEF Placed
  <2>5. Placed(t)' /\ Stands(t)' /\ task'[t].pc \notin Writing
    BY <2>1, <2>2, <2>3, <2>4 DEF Placed, Stands, Choosing, Storing, Writing
  <2>6. QED  BY <1>1, <2>3, <2>5, Proceeds
<1>4. QED  BY <1>2, <1>3 DEF Section

-----------------------------------------------------------------------------
(* The selection is written. *)

\* Opening the pending file, and filling it, leave the selection alone.
LEMMA OpenServes ==
  ASSUME PayInv, NEW t \in Task, Open(t) PROVE Chosen' = Chosen /\ Serving' = Serving
<1> DEFINE f == IF dir.pending = None THEN Fresh ELSE dir.pending
<1>1. /\ UNCHANGED keys /\ content' = [content EXCEPT ![f] = Empty]
      /\ dir' = [dir EXCEPT !.pending = f]
  BY DEF Open
<1>2. f # dir.selected /\ DirInv  BY FreshIs DEF PayInv, DirInv
<1> HIDE DEF f
<1>3. dir'.selected = dir.selected  BY <1>1, <1>2 DEF DirInv
<1>4. dir.selected # None => content'[dir.selected] = content[dir.selected]
  BY <1>1, <1>2 DEF DirInv
<1>5. QED  BY <1>1, <1>3, <1>4, ChosenKept, ServingKept

LEMMA FillServes ==
  ASSUME PayInv, ~crossed, NEW t \in Task, Fill(t)
  PROVE  Chosen' = Chosen /\ Serving' = Serving
<1>1. /\ task[t].pc = "fill" /\ UNCHANGED <<keys, dir>> /\ DirInv
      /\ \A g \in File \ {task[t].file} : content'[g] = content[g]
  BY DEF Fill, PayInv, DirInv
<1>2. task[t].file = dir.pending /\ task[t].file \in File /\ None \notin File
  BY <1>1, CredentialsAssumption DEF PayInv, WriterInv, Placed, Writing, File
<1>3. dir.selected # None => dir.selected \in File \ {task[t].file}
  BY <1>1, <1>2 DEF DirInv
<1>4. QED  BY <1>1, <1>3, ChosenKept, ServingKept

\* What is moved over the selection names the account picked.
LEMMA MoveChooses ==
  ASSUME PayInv, NEW t \in Task, Move(t), ~crossed'
  PROVE  /\ ~crossed /\ ~task[t].overtaken /\ Chosen' = task[t].pick
         /\ \A u \in Task \ {t} : task[u].pc \notin Writing
<1>1. /\ task[t].pc = "move" /\ dir.pending # None /\ UNCHANGED content /\ Placed(t)
      /\ crossed' = (crossed \/ task[t].overtaken) /\ task[t].pick \in Name
      /\ dir' = [selected |-> dir.pending, pending |-> None]
  BY DEF Move, PayInv, Placed, Choosing
<1>2. ~crossed /\ ~task[t].overtaken  BY <1>1
<1>3. /\ content[dir.pending] = [head |-> task[t].pick, len |-> Length[task[t].pick]]
      /\ \A u \in Task \ {t} : task[u].pc \notin Writing
  BY <1>1, <1>2 DEF PayInv, WriterInv, Writing
<1>4. task[t].pick # None  BY <1>1, CredentialsAssumption
<1>5. Chosen' = task[t].pick
  BY <1>1, <1>3, <1>4 DEF Chosen, Written
<1>6. QED  BY <1>2, <1>3, <1>5

LEMMA OpenPays == ASSUME PayInv, FileInv, NEW t \in Task, Open(t) PROVE PayInv'
<1> DEFINE f == IF dir.pending = None THEN Fresh ELSE dir.pending
<1>0. DirInv /\ Placed(t) /\ None \notin File
  BY CredentialsAssumption DEF PayInv, File
<1>1. /\ task[t].pc = "open" /\ UNCHANGED keys
      /\ content' = [content EXCEPT ![f] = Empty]
      /\ dir' = [dir EXCEPT !.pending = f]
      /\ task' = [task EXCEPT ![t].pc = "fill", ![t].file = f]
      /\ crossed' = (crossed \/ \E o \in Task \ {t} : task[o].file = f)
  BY DEF Open
<1>2. f \in File /\ f # dir.selected
  BY <1>0, FreshIs DEF DirInv
<1>3. dir.pending # None => f = dir.pending  OBVIOUS
<1> HIDE DEF f
<1>4. /\ content' \in [File -> [head : Name \cup {None}, len : Nat]]
      /\ content'[f].len = 0
      /\ \A g \in File \ {f} : content'[g] = content[g]
  BY <1>0, <1>1, <1>2 DEF DirInv, Empty
<1>5. /\ dir' \in [selected : File \cup {None}, pending : File \cup {None}]
      /\ dir'.pending = f /\ dir'.selected = dir.selected
  BY <1>0, <1>1, <1>2 DEF DirInv
<1>6. DirInv'
  BY <1>0, <1>1, <1>2, <1>4, <1>5 DEF DirInv
<1>7. /\ task'[t].pc = "fill" /\ task'[t].verb = task[t].verb
      /\ task'[t].name = task[t].name /\ task'[t].to = task[t].to
      /\ task'[t].pick = task[t].pick /\ task'[t].file = f
      /\ task'[t].provider = task[t].provider /\ task'[t].overtaken = task[t].overtaken
      /\ \A u \in Task \ {t} : task'[u] = task[u]
  BY <1>1 DEF FileInv, Formed, Field
<1>8. Chosen' = Chosen /\ Serving' = Serving  BY OpenServes
<1>9. Placed(t)'
  BY <1>0, <1>1, <1>2, <1>7 DEF Placed, Choosing, Storing, Writing
<1>10. ASSUME ~crossed', NEW u \in Task \ {t} PROVE task[u].pc \notin Writing
  <2>1. task[u].file # f /\ ~crossed  BY <1>1, <1>10
  <2>2. ASSUME task[u].pc \in Writing PROVE FALSE
    <3>1. task[u].file = dir.pending /\ task[u].file \in File
      BY <2>1, <2>2 DEF PayInv, WriterInv, Placed
    <3>2. QED  BY <1>0, <1>3, <2>1, <3>1
  <2>3. QED  BY <2>2
<1>11. ASSUME ~crossed' PROVE WriterInv(t)' /\ (~task'[t].overtaken => Stands(t)')
  <2>1. WriterInv(t)'
    BY <1>4, <1>5, <1>7, <1>10, <1>11 DEF WriterInv
  <2>2. ~task[t].overtaken => Stands(t)  BY <1>1, <1>11 DEF PayInv
  <2>3. Stands(t) => Stands(t)'
    BY <1>1, <1>7, <1>8 DEF Stands, Choosing, Storing
  <2>4. QED  BY <1>7, <2>1, <2>2, <2>3
<1>12. crossed => crossed'  BY <1>1
<1>13. QED  BY <1>6, <1>7, <1>8, <1>9, <1>10, <1>11, <1>12, PayOne

\* The larger of two numbers; of nothing and one, the one.
LEMMA MaxIs ==
  ASSUME NEW a \in Nat, NEW b \in Nat
  PROVE  Max({a, b}) \in Nat /\ (a = 0 => Max({a, b}) = b)
<1> DEFINE P(m) == m \in {a, b} /\ \A y \in {a, b} : m >= y
<1>1. \E m : P(m)
  <2>1. P(a) \/ P(b)  OBVIOUS
  <2>2. QED  BY <2>1
<1>2. Max({a, b}) = CHOOSE m : P(m)  BY DEF Max
<1>3. P(Max({a, b}))  BY <1>1, <1>2
<1>4. QED  BY <1>3

LEMMA FillPays == ASSUME PayInv, FileInv, NEW t \in Task, Fill(t) PROVE PayInv'
<1> DEFINE f == task[t].file
           entry == [head |-> task[t].pick,
                     len |-> Max({content[f].len, Length[task[t].pick]})]
<1>0. /\ task[t].pc = "fill" /\ DirInv /\ Placed(t) /\ f \in File
      /\ task[t].pick \in Name /\ Length[task[t].pick] \in Nat
  BY CredentialsAssumption DEF Fill, PayInv, Placed, Choosing, Writing
<1>1. /\ content' = [content EXCEPT ![f] = entry] /\ Goto(t, "move")
      /\ UNCHANGED <<keys, dir, crossed>>
  BY DEF Fill, history
<1>2. content[f].len \in Nat  BY <1>0 DEF DirInv
<1>3. entry \in [head : Name \cup {None}, len : Nat]
      /\ (content[f].len = 0 => entry = [head |-> task[t].pick, len |-> Length[task[t].pick]])
  BY <1>0, <1>2, MaxIs
<1> HIDE DEF entry
<1>4. /\ content' \in [File -> [head : Name \cup {None}, len : Nat]] /\ content'[f] = entry
      /\ \A g \in File \ {f} : content'[g] = content[g]
  BY <1>0, <1>1, <1>3 DEF DirInv
<1>5. DirInv'  BY <1>0, <1>1, <1>4 DEF DirInv
<1>6. Moved(t, "move") /\ \A u \in Task \ {t} : task'[u] = task[u]
  BY <1>1, GotoIs
<1>7. Placed(t)'
  BY <1>0, <1>6 DEF Placed, Moved, Choosing, Storing, Writing
<1>8. ASSUME ~crossed
      PROVE  /\ f = dir.pending /\ content[f].len = 0
             /\ \A u \in Task \ {t} : task[u].pc \notin Writing
  BY <1>0, <1>8 DEF PayInv, WriterInv, Writing
<1>9. ASSUME ~crossed PROVE Chosen' = Chosen /\ Serving' = Serving
  BY <1>9, FillServes
<1>10. ASSUME ~crossed PROVE WriterInv(t)' /\ (~task'[t].overtaken => Stands(t)')
  <2>1. WriterInv(t)'
    BY <1>1, <1>3, <1>4, <1>6, <1>8, <1>10 DEF WriterInv, Moved
  <2>2. ~task[t].overtaken => Stands(t)  BY <1>10 DEF PayInv
  <2>3. Stands(t) => Stands(t)'
    BY <1>0, <1>6, <1>9, <1>10 DEF Stands, Moved, Choosing, Storing
  <2>4. QED  BY <1>6, <2>1, <2>2, <2>3 DEF Moved
<1>11. QED  BY <1>1, <1>5, <1>6, <1>7, <1>8, <1>9, <1>10, PayOne

LEMMA MovePays == ASSUME PayInv, FileInv, NEW t \in Task, Move(t) PROVE PayInv'
<1>0. /\ task[t].pc = "move" /\ DirInv /\ Placed(t) /\ None \notin File
      /\ UNCHANGED <<keys, content>> /\ crossed' = (crossed \/ task[t].overtaken)
      /\ task[t].verb \in {"select", "add", "rename", "undo"} /\ task[t].pick \in Name
      /\ task[t].overtaken \in BOOLEAN
  BY CredentialsAssumption DEF Move, PayInv, File, Placed, Choosing
<1>1. dir.pending # None  BY DEF Move
<1>2. dir' = [selected |-> dir.pending, pending |-> None]
  BY <1>1 DEF Move
<1>3. DirInv'  BY <1>0, <1>1, <1>2 DEF DirInv
<1>4. ASSUME ~crossed'
      PROVE  /\ ~task[t].overtaken /\ Chosen' = task[t].pick
             /\ \A u \in Task \ {t} : task[u].pc \notin Writing
  BY <1>1, <1>4, MoveChooses
<1>5. CASE After(task[t].verb) = "done"
  <2>1. ChangeLast(t)  BY <1>1, <1>5 DEF Move
  <2>2. QED  BY <1>0, <1>3, <1>4, <2>1, ChangeLastIs, IdlePlaced, PayOne
<1>6. CASE After(task[t].verb) # "done"
  <2>1. \/ task[t].verb = "add" /\ Change(t, "lock")
        \/ task[t].verb = "rename" /\ Change(t, "section")
    BY <1>0, <1>1, <1>6 DEF Move, After
  <2>2. /\ \/ task[t].verb = "add" /\ Moved(t, "lock")
           \/ task[t].verb = "rename" /\ Moved(t, "section")
        /\ \A u \in Task \ {t} : Overtakes(u)
    BY <2>1, ChangeIs
  <2>3. Placed(t)' /\ WriterInv(t)' /\ task'[t].pc \notin Writing
    BY <1>0, <2>2 DEF Placed, WriterInv, Moved, Choosing, Storing, Writing
  <2>4. ASSUME ~crossed' PROVE Stands(t)'
    <3>1. Chosen' # None  BY <1>0, <1>4, <2>4, CredentialsAssumption
    <3>2. QED  BY <2>2, <3>1 DEF Stands, Moved, Choosing, Storing
  <2>5. QED  BY <1>0, <1>3, <1>4, <2>2, <2>3, <2>4, PayOne
<1>7. QED  BY <1>5, <1>6

-----------------------------------------------------------------------------
(* Who pays. *)

LEMMA InitPays == Init => PayInv
<1> SUFFICES ASSUME Init PROVE PayInv  OBVIOUS
<1>1. PICK s \in Stored :
        /\ keys = s.keys
        /\ dir = [selected |-> IF s.chosen = None THEN None ELSE 1, pending |-> None]
        /\ content = [f \in File |-> IF f = 1 /\ s.chosen # None
                        THEN [head |-> s.chosen, len |-> Length[s.chosen]] ELSE Empty]
  BY DEF Init
<1>2. DOMAIN s.keys = Key /\ s.chosen \in Name \cup {None}
  BY CredentialsAssumption
<1>3. Cardinality(Task) \in Nat /\ 1 \in File /\ None \notin File
  BY CredentialsAssumption, FS_CardinalityType DEF File
<1>4. \A f \in File : content[f] \in [head : Name \cup {None}, len : Nat]
  <2>1. s.chosen # None => Length[s.chosen] \in Nat  BY <1>2, CredentialsAssumption
  <2>2. QED  BY <1>1, <1>2, <2>1 DEF Empty
<1>5. DirInv
  <2>1. content \in [File -> [head : Name \cup {None}, len : Nat]]
    BY <1>1, <1>4
  <2>2. dir \in [selected : File \cup {None}, pending : File \cup {None}]
        /\ dir.pending = None
    BY <1>1, <1>3
  <2>3. crossed \in BOOLEAN  BY DEF Init
  <2>4. QED  BY <1>1, <1>2, <2>1, <2>2, <2>3 DEF DirInv
<1>6. ASSUME NEW t \in Task PROVE Placed(t) /\ WriterInv(t) /\ Stands(t)
  <2>1. task[t].pc = "idle" /\ task[t].overtaken = FALSE  BY DEF Init, Idle
  <2>2. QED  BY <2>1 DEF Placed, WriterInv, Stands, Choosing, Storing, Writing
<1>7. QED  BY <1>5, <1>6 DEF PayInv

LEMMA EditPays == ASSUME PayInv, FileInv, NEW k \in Key, Edit(k) PROVE PayInv'
<1> DEFINE Who == {}
<1>1. /\ UNCHANGED <<dir, content, crossed>> /\ DOMAIN keys' = DOMAIN keys
      /\ task' = [t \in Task |-> [task[t] EXCEPT !.overtaken = task[t].pc # "idle",
                                                 !.slipped = task[t].pc = "swap"]]
  BY DEF Edit, chosenFile, history
<1>2. \A u \in Task : Overtakes(u)
  BY <1>1 DEF FileInv, Formed, Field, Overtakes, Kept
<1>3. DirInv'  BY <1>1 DEF PayInv, DirInv
<1>4. Who \in SUBSET Task /\ \A v : v \notin Who  OBVIOUS
<1> HIDE DEF Who
<1>5. QED  BY <1>1, <1>2, <1>3, <1>4, PayStep DEF Overtakes

LEMMA CrashPays == ASSUME PayInv, FileInv, NEW p, Crash(p) PROVE PayInv'
<1> DEFINE dead == {t \in Task : ProcessOf[t] = p}
<1>1. /\ UNCHANGED <<keys, dir, content, crossed>>
      /\ task' = [t \in Task |-> IF t \in dead THEN Idle ELSE task[t]]
  BY DEF Crash, files, chosenFile, history
<1>2. dead \in SUBSET Task  OBVIOUS
<1> HIDE DEF dead
<1>3. /\ \A t \in dead : task'[t] = Idle
      /\ \A u \in Task \ dead : task'[u] = task[u] /\ Kept(u)
  BY <1>1, <1>2 DEF Kept
<1>4. \A t \in dead : Placed(t)' /\ WriterInv(t)' /\ Stands(t)' /\ task'[t].pc \notin Writing
  BY <1>2, <1>3, IdlePlaced
<1>5. Chosen' = Chosen /\ Serving' = Serving  BY <1>1, ChosenKept, ServingKept
<1>6. DirInv'  BY <1>1 DEF PayInv, DirInv
<1>7. QED  BY <1>1, <1>2, <1>3, <1>4, <1>5, <1>6, PayStep

LEMMA StutterPays == PayInv /\ UNCHANGED vars => PayInv'
<1> SUFFICES ASSUME PayInv, UNCHANGED vars PROVE PayInv'  OBVIOUS
<1> DEFINE Who == {}
<1>1. UNCHANGED <<keys, dir, content, task, crossed>>
  BY DEF vars, files, chosenFile, history
<1>2. Chosen' = Chosen /\ Serving' = Serving  BY <1>1, ChosenKept, ServingKept
<1>3. DirInv' /\ \A u \in Task : Kept(u)  BY <1>1 DEF PayInv, DirInv, Kept
<1>4. Who \in SUBSET Task /\ \A v : v \notin Who  OBVIOUS
<1> HIDE DEF Who
<1>5. QED  BY <1>1, <1>2, <1>3, <1>4, PayStep

\* What a verb found stands until somebody changes it, and one writer at a time
\* has the pending file, unless writers crossed.
THEOREM PayInvariant == Spec => []PayInv
<1>1. FileInv /\ PayInv /\ [Next]_vars => PayInv'
  <2> SUFFICES ASSUME FileInv, PayInv, Next PROVE PayInv'
    BY StutterPays
  <2>1. ASSUME NEW t \in Task, Calls(t) PROVE PayInv'
    BY <2>1, CallPays
  <2>2. ASSUME NEW t \in Task, Step(t) PROVE PayInv'
    BY <2>2, OpenPays, FillPays, MovePays, LockPays, ReadPays, ComparePays, SwapPays,
       FollowPays, SectionPays, RefusedPays DEF Step
  <2>3. ASSUME NEW t \in Task, Crash(ProcessOf[t]) PROVE PayInv'
    BY <2>3, CrashPays
  <2>4. ASSUME NEW k \in Key, Edit(k) PROVE PayInv'
    BY <2>4, EditPays
  <2>5. QED  BY <2>1, <2>2, <2>3, <2>4 DEF Next
<1>2. QED  BY <1>1, InitPays, KeyFileInvariant, PTL DEF Spec

\* Who pays is decided by the selection, or by there being one account.
LEMMA SoleServes ==
  ASSUME Serving # None, Chosen = None
  PROVE  Listed = {Serving}
<1>1. IsFiniteSet(Listed)
  BY ServingIs, CredentialsAssumption, FS_Subset
<1>2. Cardinality(Listed) = 1 /\ Serving \in Listed
  BY ServingIs DEF Serving
<1>3. PICK n : Listed = {n}  BY <1>1, <1>2, FS_Singleton
<1>4. QED  BY <1>2, <1>3

\* A key that is stored moves nobody who was chosen, and one that goes, by name,
\* moves nobody else.
LEMMA SwapServes ==
  ASSUME PayInv, FileInv, ~crossed, NEW t \in Task, Swap(t), ~task[t].slipped,
         Serving # None, Serving' # Serving
  PROVE  \/ task[t].overtaken
         \/ task[t].verb \in {"rename", "undo", "remove"} /\ task[t].name = Serving
<1> SUFFICES ASSUME ~task[t].overtaken,
                    ~(task[t].verb \in {"rename", "undo", "remove"} /\ task[t].name = Serving)
             PROVE  Serving' = Serving
  OBVIOUS
<1> DEFINE c == task[t]
<1>1. /\ c.pc = "swap" /\ UNCHANGED <<dir, content>>
      /\ keys = c.raw /\ keys' = Mutate(c, t, keys)
  BY DEF Swap, chosenFile, FileInv, Current
<1>2. /\ c.verb \in {"add", "remove", "rename", "undo"} /\ c.name \in Key
      /\ (c.verb \in {"rename", "undo"} => c.to \in Key)
      /\ Allowed(c, keys) /\ DOMAIN keys = Key /\ Stands(t)
  BY <1>1 DEF PayInv, Placed, Storing, DirInv
<1>3. Chosen' = Chosen  BY <1>1, ChosenKept
<1>4. /\ Serving \in Listed /\ (Chosen # None => Serving = Chosen)
      /\ Serving \in Name /\ Key \cap Profile = {}
  BY ServingIs, CredentialsAssumption
<1> HIDE DEF c
<1>5. CASE c.verb = "add"
  <2>1. Chosen # None  BY <1>1, <1>2, <1>5 DEF Stands, Storing, c
  <2>2. keys' = [keys EXCEPT ![c.name] = Entry(c.provider, t)]
    BY <1>1, <1>5 DEF Mutate
  <2>3. Serving \in Listed'
    <3>1. CASE Serving \in Profile  BY <3>1 DEF Listed
    <3>2. CASE Serving \in Key
      <4>1. keys[Serving] # None /\ keys[Serving].kind = "key"
        BY <1>4, <3>2 DEF Listed
      <4>2. CASE Serving = c.name
        \* The name held a key, whose provider the new one has.
        <5>1. Entry(c.provider, t) = [kind |-> "key", provider |-> c.provider, secret |-> t]
          BY DEF Entry
        <5>2. Entry(c.provider, t) # None
          BY <1>1, <1>5, <5>1, CredentialsAssumption DEF PayInv, Placed, c
        <5>3. QED  BY <1>2, <2>2, <3>2, <4>2, <5>1, <5>2 DEF Listed
      <4>3. CASE Serving # c.name
        BY <1>2, <2>2, <3>2, <4>1, <4>3 DEF Listed
      <4>4. QED  BY <4>2, <4>3
    <3>3. QED  BY <1>4, <3>1, <3>2 DEF Name
  <2>4. QED  BY <1>3, <1>4, <2>1, <2>3 DEF Serving
<1>6. CASE c.verb # "add"
  <2>1. c.name # Serving  BY <1>2, <1>6 DEF c
  <2>2. /\ c.verb = "remove" => keys' = [keys EXCEPT ![c.name] = None]
        /\ c.verb # "remove" => keys' = [keys EXCEPT ![c.to] = keys[c.name], ![c.name] = None]
        /\ c.verb # "remove" => keys[c.to] = None /\ keys[c.name] # None
    BY <1>1, <1>2, <1>6 DEF Mutate, Allowed
  <2>3. c.verb # "remove" => c.to \in Key /\ c.to # Serving
    BY <1>2, <1>4, <1>6, <2>2 DEF Listed
  <2>4. Serving \in Listed'
    <3>1. Serving \in Key => keys'[Serving] = keys[Serving]
      BY <1>2, <2>1, <2>2, <2>3
    <3>2. QED  BY <1>4, <3>1 DEF Listed
  <2>5. CASE Chosen # None
    BY <1>3, <1>4, <2>4, <2>5 DEF Serving
  <2>6. CASE Chosen = None
    <3>1. Listed = {Serving}  BY <1>4, <2>6, CredentialsAssumption, SoleServes
    <3>2. c.name \notin Listed  BY <2>1, <3>1
    <3>3. keys[c.name] = None \/ keys[c.name].kind # "key"
      BY <1>2, <3>2 DEF Listed
    <3>4. ASSUME NEW k \in Key, k \in Listed' PROVE k \in Listed
      <4>1. keys'[k] # None /\ keys'[k].kind = "key"
        BY <1>4, <3>4 DEF Listed
      <4>2. k # c.name  BY <1>2, <2>2, <4>1
      <4>3. c.verb # "remove" => k # c.to
        BY <1>2, <2>2, <2>3, <3>3, <4>1, <4>2
      <4>4. keys'[k] = keys[k]  BY <1>2, <2>2, <2>3, <4>2, <4>3
      <4>5. QED  BY <4>1, <4>4 DEF Listed
    <3>5. Listed' = Listed
      BY <2>4, <3>1, <3>4 DEF Listed
    <3>6. QED  BY <1>3, <3>5 DEF Serving
  <2>7. QED  BY <2>5, <2>6
<1>7. QED  BY <1>5, <1>6

LEMMA FollowServes ==
  ASSUME PayInv, FileInv, NEW t \in Task, Follow(t), Serving # None, Serving' # Serving
  PROVE  task[t].verb = "remove" /\ task[t].name = Serving /\ task'[t].pc # task[t].pc
<1>1. task[t].pc = "follow" /\ UNCHANGED <<keys, content>>  BY DEF Follow
<1>2. dir' # dir  BY <1>1, ChosenKept, ServingKept
<1>3. Chosen = task[t].name /\ task[t].verb = "remove" /\ ChangeLast(t)
  BY <1>2 DEF Follow
<1>4. Chosen # None => Serving = task[t].name  BY <1>3, ServingIs
<1>5. Chosen # None
  <2>1. task[t].name \in Name  BY <1>1, <1>3 DEF PayInv, Placed, Name
  <2>2. QED  BY <1>3, <2>1, CredentialsAssumption
<1>6. task'[t].pc = "idle"  BY <1>3, ChangeLastIs DEF Idle
<1>7. QED  BY <1>1, <1>3, <1>4, <1>5, <1>6

LEMMA MoveServes ==
  ASSUME PayInv, NEW t \in Task, Move(t), ~crossed', Serving # None, Serving' # Serving
  PROVE  \/ task[t].verb = "select"
         \/ task[t].verb \in {"rename", "undo"} /\ task[t].name = Serving
<1>1. /\ task[t].pc = "move" /\ UNCHANGED <<keys, content>>
      /\ Placed(t) /\ task[t].verb \in {"select", "add", "rename", "undo"}
  BY DEF Move, PayInv, Placed, Choosing
<1>2. dir' # dir  BY <1>1, ChosenKept, ServingKept
<1>3. dir.pending # None  BY DEF Move
<1>4. ~crossed /\ ~task[t].overtaken /\ Chosen' = task[t].pick
  BY <1>3, MoveChooses
<1>5. Stands(t)  BY <1>4 DEF PayInv
<1>6. task[t].verb # "add"
  <2> SUFFICES ASSUME task[t].verb = "add" PROVE Serving' = Serving
    OBVIOUS
  <2>1. Chosen' = Serving  BY <1>1, <1>4, <1>5 DEF Stands, Choosing
  <2>2. Serving \in Listed /\ Listed' = Listed  BY <1>1, ServingIs DEF Listed
  <2>3. QED  BY <2>1, <2>2 DEF Serving
<1>7. ASSUME task[t].verb \in {"rename", "undo"} PROVE task[t].name = Serving
  <2>1. Chosen = task[t].name  BY <1>1, <1>5, <1>7 DEF Stands, Choosing
  <2>2. task[t].name \in Name  BY <1>1, <1>7 DEF Placed, Name
  <2>3. QED  BY <2>1, <2>2, ServingIs, CredentialsAssumption
<1>8. QED  BY <1>1, <1>6, <1>7

LEMMA MoveGoes ==
  ASSUME FileInv, NEW t \in Task, Move(t) \/ Swap(t) PROVE task'[t].pc # task[t].pc
<1>1. CASE Move(t)
  <2>1. task[t].pc = "move" /\ After(task[t].verb) \in {"lock", "section", "done"}
    BY <1>1 DEF Move, After
  <2>2. task'[t].pc \in {"idle", "lock", "section"}
    BY <1>1, <2>1, ChangeLastLeaves, ChangeLeaves DEF Move, Leaves
  <2>3. QED  BY <2>1, <2>2
<1>2. CASE Swap(t)
  <2>1. task[t].pc = "swap"  BY <1>2 DEF Swap
  <2>2. task'[t].pc \in {"idle", "follow"}
    BY <1>2, ChangeLastLeaves, ChangeLeaves DEF Swap, Leaves
  <2>3. QED  BY <2>1, <2>2
<1>3. QED  BY <1>1, <1>2

Counted == count \in [calls : Nat, edits : Nat, crashes : Nat]

LEMMA AlwaysCounted == Spec => []Counted
<1>1. Init => Counted  BY DEF Init, Counted
<1>2. Counted /\ [Next]_vars => Counted'
  <2> SUFFICES ASSUME Counted, [Next]_vars PROVE Counted'  OBVIOUS
  <2>1. \/ UNCHANGED count \/ count' = [count EXCEPT !.calls = @ + 1]
        \/ count' = [count EXCEPT !.edits = @ + 1]
        \/ count' = [count EXCEPT !.crashes = @ + 1]
    <3>1. ASSUME NEW t \in Task, Calls(t) PROVE count' = [count EXCEPT !.calls = @ + 1]
      BY <3>1 DEF Calls, Select, Remove, Rename, Add, Ask
    <3>2. ASSUME NEW t \in Task, Step(t) PROVE UNCHANGED count
      BY <3>2 DEF Step, Open, Fill, Move, Lock, Read, Compare, Swap, Follow, Section, Refused
    <3>3. ASSUME NEW p, Crash(p) PROVE count' = [count EXCEPT !.crashes = @ + 1]
      BY <3>3 DEF Crash
    <3>4. ASSUME NEW k \in Key, Edit(k) PROVE count' = [count EXCEPT !.edits = @ + 1]
      BY <3>4 DEF Edit
    <3>5. CASE UNCHANGED vars  BY <3>5 DEF vars
    <3>6. QED  BY <3>1, <3>2, <3>3, <3>4, <3>5 DEF Next
  <2>2. QED  BY <2>1 DEF Counted
<1>3. QED  BY <1>1, <1>2, PTL DEF Spec

\* An account that pays goes on paying until a switch, or until it is itself renamed
\* or removed, whatever keys are stored, whoever else is removed and whichever
\* process dies half way (add_key records the account that served alone before it
\* stores the key); hand edits, and writers of the selection that crossed, aside.
THEOREM PayerStays == Spec => PayerMovedByChoice
<1> DEFINE Chose ==
      /\ Serving # None /\ Serving' # Serving
      /\ count'.edits = count.edits /\ ~crossed' /\ (\A t \in Task : ~task[t].slipped)
      => \E t \in Task : /\ task'[t].pc # task[t].pc
                         /\ \/ task[t].verb = "select" \/ task[t].overtaken
                            \/ /\ task[t].verb \in {"rename", "undo", "remove"}
                               /\ task[t].name = Serving
<1>1. ASSUME PayInv, FileInv, Counted, Next PROVE Chose
  <2> SUFFICES ASSUME Serving # None, Serving' # Serving, count'.edits = count.edits,
                      ~crossed', \A t \in Task : ~task[t].slipped
               PROVE  \E t \in Task : /\ task'[t].pc # task[t].pc
                         /\ \/ task[t].verb = "select" \/ task[t].overtaken
                            \/ /\ task[t].verb \in {"rename", "undo", "remove"}
                               /\ task[t].name = Serving
    OBVIOUS
  <2>1. ~(UNCHANGED <<keys, dir, content>>)  BY ChosenKept, ServingKept
  <2>2. ASSUME NEW t \in Task, Calls(t) PROVE FALSE
    BY <2>1, <2>2 DEF Calls, Select, Remove, Rename, Add, files, chosenFile
  <2>3. ASSUME NEW t \in Task, Crash(ProcessOf[t]) PROVE FALSE
    BY <2>1, <2>3 DEF Crash, files, chosenFile
  <2>4. ASSUME NEW k \in Key, Edit(k) PROVE FALSE
    <3>1. count' = [count EXCEPT !.edits = @ + 1]  BY <2>4 DEF Edit
    <3>2. count'.edits = count.edits + 1 /\ count.edits \in Nat
      BY <1>1, <3>1 DEF Counted
    <3>3. QED  BY <3>2
  <2>5. ASSUME NEW t \in Task,
               Lock(t) \/ Read(t) \/ Compare(t) \/ Section(t) \/ Refused(t)
        PROVE  FALSE
    BY <2>1, <2>5 DEF Lock, Read, Compare, Section, Refused, files, chosenFile
  <2>6. ASSUME NEW t \in Task, Open(t) PROVE FALSE  BY <1>1, <2>6, OpenServes
  <2>7. ASSUME NEW t \in Task, Fill(t) PROVE FALSE
    <3>1. ~crossed  BY <2>7 DEF Fill, history
    <3>2. QED  BY <1>1, <2>7, <3>1, FillServes
  <2>8. ASSUME NEW t \in Task, Move(t)
        PROVE  /\ task'[t].pc # task[t].pc
               /\ \/ task[t].verb = "select"
                  \/ task[t].verb \in {"rename", "undo"} /\ task[t].name = Serving
    BY <1>1, <2>8, MoveServes, MoveGoes
  <2>9. ASSUME NEW t \in Task, Swap(t)
        PROVE  /\ task'[t].pc # task[t].pc
               /\ \/ task[t].overtaken
                  \/ task[t].verb \in {"rename", "undo", "remove"} /\ task[t].name = Serving
    <3>1. ~crossed  BY <2>9 DEF Swap, history
    <3>2. QED  BY <1>1, <2>9, <3>1, SwapServes, MoveGoes
  <2>10. ASSUME NEW t \in Task, Follow(t)
         PROVE  task[t].verb = "remove" /\ task[t].name = Serving /\ task'[t].pc # task[t].pc
    BY <1>1, <2>10, FollowServes
  <2>11. QED
    BY <1>1, <2>2, <2>3, <2>4, <2>5, <2>6, <2>7, <2>8, <2>9, <2>10 DEF Next, Step
<1>2. PayInv /\ FileInv /\ Counted /\ [Next]_vars => [Chose]_vars
  BY <1>1
<1>3. Spec => [][Chose]_vars
  BY <1>2, PayInvariant, KeyFileInvariant, AlwaysCounted, PTL DEF Spec
<1>4. QED  BY <1>3 DEF PayerMovedByChoice

-----------------------------------------------------------------------------
(* Locks. *)

\* A step of t that takes a lock only for what it is for, and gives back its own.
LEMMA WorkStep ==
  ASSUME WorkInv, NEW t \in Task,
         \A u \in Task \ {t} : task'[u].pc = task[u].pc /\ task'[u].verb = task[u].verb,
         locked' \in {locked, t, None}, held' \in {held, t, None},
         locked' = t => task'[t].pc \in AtTheFile,
         held' = t => task'[t].pc # "idle" /\ task'[t].verb \in {"select", "remove"},
         task'[t].pc = "section" => task'[t].verb = "rename"
  PROVE  WorkInv'
<1>0. None \notin Task  BY CredentialsAssumption
<1>1. /\ locked' \in Task \cup {None} /\ held' \in Task \cup {None}
  BY DEF WorkInv, LocksWorked
<1>2. locked' # None => task'[locked'].pc \in {"read", "compare", "swap"}
  BY <1>0, <1>1 DEF WorkInv, LocksWorked, AtTheFile
<1>3. held' # None =>
        task'[held'].pc # "idle" /\ task'[held'].verb \in {"select", "remove"}
  BY <1>0, <1>1 DEF WorkInv, LocksWorked
<1>4. \A u \in Task : task'[u].pc = "section" => task'[u].verb = "rename"
  BY DEF WorkInv
<1>5. LocksWorked'
  BY <1>1, <1>2, <1>3 DEF LocksWorked
<1>6. QED  BY <1>3, <1>4, <1>5 DEF WorkInv

LEMMA WorkOver ==
  ASSUME WorkInv, FileInv, NEW t \in Task, Over(t) \/ ChangeLast(t),
         Unlock(t) \/ (UNCHANGED locked /\ locked # t)
  PROVE  WorkInv'
<1>1. task'[t].pc = "idle"
      /\ \A u \in Task \ {t} : task'[u].pc = task[u].pc /\ task'[u].verb = task[u].verb
  BY OverIs, ChangeLastIs, IdleFormed DEF Overtakes, Kept
<1>2. held' = IF held = t THEN None ELSE held  BY DEF Over, ChangeLast
<1>3. locked' \in {locked, None} /\ locked' # t
  BY CredentialsAssumption DEF Unlock
<1>4. held' # t  BY <1>2, CredentialsAssumption
<1>5. QED  BY <1>1, <1>2, <1>3, <1>4, WorkStep

\* A verb that goes on keeps what it holds.
LEMMA WorkGoes ==
  ASSUME WorkInv, NEW t \in Task, UNCHANGED held,
         \A u \in Task \ {t} : task'[u].pc = task[u].pc /\ task'[u].verb = task[u].verb,
         task'[t].verb = task[t].verb, task[t].pc # "idle", task'[t].pc # "idle",
         locked' \in {locked, t, None}, locked' = t => task'[t].pc \in AtTheFile,
         task'[t].pc = "section" => task'[t].verb = "rename"
  PROVE  WorkInv'
<1>1. held = t => task[t].verb \in {"select", "remove"}
  BY CredentialsAssumption DEF WorkInv, LocksWorked
<1>2. QED  BY <1>1, WorkStep

LEMMA WorkElse ==
  ASSUME WorkInv, NEW t \in Task
  PROVE  /\ task[t].pc \notin AtTheFile => locked # t
         /\ task[t].pc = "idle" => held # t
  BY CredentialsAssumption DEF WorkInv, LocksWorked, AtTheFile

LEMMA WorkCalls == ASSUME WorkInv, FileInv, NEW t \in Task, Calls(t) PROVE WorkInv'
<1>1. task[t].pc = "idle" /\ UNCHANGED locked /\ locked # t /\ held # t
  BY WorkElse DEF Calls, Select, Remove, Rename, Add, Ask, AtTheFile
<1>2. CASE UNCHANGED <<task, held>>
  BY <1>1, <1>2, WorkStep DEF WorkInv
<1>3. ASSUME NEW call, task' = [task EXCEPT ![t] = call], call.pc \in {"open", "lock"},
             held' = held \/ (held' = t /\ call.verb \in {"select", "remove"})
      PROVE  WorkInv'
  <2>1. task'[t] = call /\ \A u \in Task \ {t} : task'[u] = task[u]
    BY <1>3 DEF FileInv
  <2>2. QED  BY <1>1, <1>3, <2>1, WorkStep
<1>4. ASSUME NEW n \in Name, Select(t, n) PROVE WorkInv'
  <2> DEFINE call == [Idle EXCEPT !.pc = "open", !.verb = "select", !.name = n, !.pick = n]
  <2>1. call.pc = "open" /\ call.verb = "select"  BY DEF Idle
  <2>2. UNCHANGED <<task, held>> \/ (task' = [task EXCEPT ![t] = call] /\ held' = t)
    BY <1>4 DEF Select
  <2> HIDE DEF call
  <2>3. QED  BY <1>2, <1>3, <2>1, <2>2
<1>5. ASSUME NEW k \in Key, Remove(t, k) PROVE WorkInv'
  <2> DEFINE call == [Idle EXCEPT !.pc = "lock", !.verb = "remove", !.name = k]
  <2>1. call.pc = "lock" /\ call.verb = "remove"  BY DEF Idle
  <2>2. task' = [task EXCEPT ![t] = call] /\ held' = t  BY <1>5 DEF Remove
  <2> HIDE DEF call
  <2>3. QED  BY <1>3, <2>1, <2>2
<1>6. ASSUME NEW k \in Key, NEW to \in Key, Rename(t, k, to) PROVE WorkInv'
  <2> DEFINE call == [Idle EXCEPT !.pc = "lock", !.verb = "rename", !.name = k, !.to = to]
  <2>1. call.pc = "lock"  BY DEF Idle
  <2>2. task' = [task EXCEPT ![t] = call] /\ held' = held  BY <1>6 DEF Rename
  <2> HIDE DEF call
  <2>3. QED  BY <1>3, <2>1, <2>2
<1>7. ASSUME NEW k \in Key, NEW p \in Provider, Add(t, k, p) PROVE WorkInv'
  <2> DEFINE call == [Idle EXCEPT !.verb = "add", !.name = k, !.provider = p]
             aside == [call EXCEPT !.pc = "open", !.pick = Serving]
             plain == [call EXCEPT !.pc = "lock"]
  <2>1. aside.pc = "open" /\ plain.pc = "lock"  BY DEF Idle
  <2>2. held' = held /\ \/ task' = [task EXCEPT ![t] = aside]
                        \/ task' = [task EXCEPT ![t] = plain]
    BY <1>7 DEF Add
  <2> HIDE DEF aside, plain
  <2>3. QED  BY <1>3, <2>1, <2>2
<1>8. QED  BY <1>4, <1>5, <1>6, <1>7 DEF Calls

LEMMA WorkSteps == ASSUME WorkInv, FileInv, NEW t \in Task, Step(t) PROVE WorkInv'
<1>0. \A pc : Moved(t, pc) => task'[t].pc = pc /\ task'[t].verb = task[t].verb
  BY DEF Moved
<1>1. CASE Open(t)
  <2>1. /\ task[t].pc = "open" /\ task'[t].pc = "fill" /\ task'[t].verb = task[t].verb
        /\ \A u \in Task \ {t} : task'[u] = task[u]
    BY <1>1 DEF Open, FileInv, Formed, Field
  <2>2. UNCHANGED <<locked, held>>  BY <1>1 DEF Open
  <2>3. QED  BY <2>1, <2>2, WorkElse, WorkGoes DEF AtTheFile
<1>2. CASE Fill(t)
  <2>1. task[t].pc = "fill" /\ UNCHANGED <<locked, held>> /\ Goto(t, "move")
    BY <1>2 DEF Fill
  <2>2. QED  BY <1>0, <2>1, GotoIs, WorkElse, WorkGoes DEF AtTheFile
<1>3. CASE Move(t)
  <2>1. task[t].pc = "move" /\ UNCHANGED locked /\ locked # t
    BY <1>3, WorkElse DEF Move, AtTheFile
  <2>2. CASE ChangeLast(t)
    BY <2>1, <2>2, WorkOver
  <2>3. CASE Change(t, After(task[t].verb)) /\ UNCHANGED held /\ After(task[t].verb) # "done"
    <3>1. \/ After(task[t].verb) = "lock"
          \/ After(task[t].verb) = "section" /\ task[t].verb = "rename"
      BY <2>3 DEF After
    <3>2. /\ Moved(t, After(task[t].verb))
          /\ \A u \in Task \ {t} : task'[u].pc = task[u].pc /\ task'[u].verb = task[u].verb
      BY <2>3, ChangeIs DEF Overtakes, Kept
    <3>3. QED  BY <1>0, <2>1, <2>3, <3>1, <3>2, WorkGoes
  <2>4. QED  BY <1>3, <2>2, <2>3 DEF Move
<1>4. CASE Lock(t)
  <2>1. /\ task[t].pc = "lock" /\ task'[t].pc = "read" /\ task'[t].verb = task[t].verb
        /\ \A u \in Task \ {t} : task'[u] = task[u]
    BY <1>4 DEF Lock, FileInv, Formed, Field
  <2>2. UNCHANGED held /\ locked' = t  BY <1>4 DEF Lock
  <2>3. QED  BY <2>1, <2>2, WorkGoes DEF AtTheFile
<1>5. CASE Read(t)
  <2>1. task[t].pc = "read"  BY <1>5 DEF Read
  <2>2. CASE Over(t) /\ Unlock(t)  BY <2>2, WorkOver
  <2>3. CASE /\ task' = [task EXCEPT ![t].pc = "compare", ![t].raw = keys]
             /\ UNCHANGED <<locked, held>>
    <3>1. /\ task'[t].pc = "compare" /\ task'[t].verb = task[t].verb
          /\ \A u \in Task \ {t} : task'[u] = task[u]
      BY <2>3 DEF FileInv, Formed, Field
    <3>2. QED  BY <2>1, <2>3, <3>1, WorkGoes DEF AtTheFile
  <2>4. QED  BY <1>5, <2>2, <2>3 DEF Read
<1>6. CASE Compare(t)
  <2>1. task[t].pc = "compare"  BY <1>6 DEF Compare
  <2>2. CASE Over(t) /\ Unlock(t)  BY <2>2, WorkOver
  <2>3. CASE /\ \/ task' = [task EXCEPT ![t].pc = "swap", ![t].slipped = FALSE]
                \/ task' = [task EXCEPT ![t].pc = "read", ![t].tries = @ + 1]
             /\ UNCHANGED <<locked, held>>
    <3>1. /\ task'[t].pc \in {"swap", "read"} /\ task'[t].verb = task[t].verb
          /\ \A u \in Task \ {t} : task'[u] = task[u]
      BY <2>3 DEF FileInv, Formed, Field
    <3>2. QED  BY <2>1, <2>3, <3>1, WorkGoes DEF AtTheFile
  <2>4. QED  BY <1>6, <2>2, <2>3 DEF Compare
<1>7. CASE Swap(t)
  <2>1. task[t].pc = "swap" /\ Unlock(t)  BY <1>7 DEF Swap
  <2>2. CASE ChangeLast(t)  BY <2>1, <2>2, WorkOver
  <2>3. CASE Change(t, "follow") /\ UNCHANGED held
    <3>1. /\ Moved(t, "follow")
          /\ \A u \in Task \ {t} : task'[u].pc = task[u].pc /\ task'[u].verb = task[u].verb
      BY <2>3, ChangeIs DEF Overtakes, Kept
    <3>2. locked' \in {locked, None} /\ locked' # t
      BY <2>1, CredentialsAssumption DEF Unlock
    <3>3. QED  BY <1>0, <2>1, <2>3, <3>1, <3>2, WorkGoes
  <2>4. QED  BY <1>7, <2>2, <2>3 DEF Swap
<1>8. CASE Follow(t)
  <2>1. task[t].pc = "follow" /\ UNCHANGED locked /\ locked # t
    BY <1>8, WorkElse DEF Follow, AtTheFile
  <2>2. CASE Over(t) \/ ChangeLast(t)  BY <2>1, <2>2, WorkOver
  <2>3. CASE task' = [task EXCEPT ![t].pc = "open", ![t].pick = task[t].to] /\ UNCHANGED held
    <3>1. /\ task'[t].pc = "open" /\ task'[t].verb = task[t].verb
          /\ \A u \in Task \ {t} : task'[u] = task[u]
      BY <2>3 DEF FileInv, Formed, Field
    <3>2. QED  BY <2>1, <2>3, <3>1, WorkGoes
  <2>4. CASE task[t].verb = "rename" /\ Goto(t, "section") /\ UNCHANGED held
    BY <1>0, <2>1, <2>4, GotoIs, WorkGoes
  <2>5. QED  BY <1>8, <2>2, <2>3, <2>4 DEF Follow
<1>9. CASE Section(t)
  <2> DEFINE call == [Idle EXCEPT !.pc = "lock", !.verb = "undo", !.name = task[t].to,
                                  !.to = task[t].name, !.overtaken = task[t].overtaken]
  <2>1. task[t].pc = "section" /\ UNCHANGED locked /\ locked # t /\ held # t
    BY <1>9, CredentialsAssumption DEF Section, WorkInv, LocksWorked
  <2>2. CASE Over(t)  BY <2>1, <2>2, WorkOver
  <2>3. CASE task' = [task EXCEPT ![t] = call] /\ UNCHANGED held
    <3>1. call.pc = "lock"  BY DEF Idle
    <3>2. task'[t] = call /\ \A u \in Task \ {t} : task'[u] = task[u]
      BY <2>3 DEF FileInv
    <3> HIDE DEF call
    <3>3. QED  BY <2>1, <2>3, <3>1, <3>2, WorkStep
  <2>4. QED  BY <1>9, <2>2, <2>3 DEF Section
<1>10. CASE Refused(t)
  BY <1>10, WorkOver DEF Refused
<1>11. QED  BY <1>1, <1>2, <1>3, <1>4, <1>5, <1>6, <1>7, <1>8, <1>9, <1>10 DEF Step

\* No lock outlives the work it is taken for: the lock of the key file is held by a
\* task that is reading, comparing or replacing it, the lock of moves by one that is
\* switching or removing, whatever was refused and whichever process died
\* (FileStore::update; the guard of a move in select_account and remove_account).
THEOREM LocksReleased == Spec => []LocksWorked
<1>1. Init => WorkInv
  <2> SUFFICES ASSUME Init PROVE WorkInv  OBVIOUS
  <2>1. locked = None /\ held = None /\ \A t \in Task : task[t].pc = "idle"
    BY IdleFormed DEF Init
  <2>2. QED  BY <2>1 DEF WorkInv, LocksWorked
<1>2. WorkInv /\ FileInv /\ [Next]_vars => WorkInv'
  <2> SUFFICES ASSUME WorkInv, FileInv, [Next]_vars PROVE WorkInv'  OBVIOUS
  <2>1. ASSUME NEW t \in Task, Calls(t) PROVE WorkInv'  BY <2>1, WorkCalls
  <2>2. ASSUME NEW t \in Task, Step(t) PROVE WorkInv'  BY <2>2, WorkSteps
  <2>3. ASSUME NEW p, Crash(p) PROVE WorkInv'
    <3> DEFINE dead == {t \in Task : ProcessOf[t] = p}
    <3>1. /\ task' = [t \in Task |-> IF t \in dead THEN Idle ELSE task[t]]
          /\ locked' = IF locked \in dead THEN None ELSE locked
          /\ held' = IF held \in dead THEN None ELSE held
      BY <2>3 DEF Crash
    <3> HIDE DEF dead
    <3>2. QED  BY <3>1, IdleFormed DEF WorkInv, LocksWorked
  <2>4. ASSUME NEW k \in Key, Edit(k) PROVE WorkInv'
    <3>1. \A t \in Task : task'[t].pc = task[t].pc /\ task'[t].verb = task[t].verb
      BY <2>4 DEF Edit, FileInv, Formed, Field
    <3>2. UNCHANGED <<locked, held>>  BY <2>4 DEF Edit
    <3>3. QED  BY <3>1, <3>2 DEF WorkInv, LocksWorked
  <2>5. CASE UNCHANGED vars
    BY <2>5 DEF vars, WorkInv, LocksWorked
  <2>6. QED  BY <2>1, <2>2, <2>3, <2>4, <2>5 DEF Next
<1>3. WorkInv => LocksWorked  BY DEF WorkInv
<1>4. QED  BY <1>1, <1>2, <1>3, KeyFileInvariant, PTL DEF Spec
=============================================================================
