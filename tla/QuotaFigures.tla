---------------------------- MODULE QuotaFigures ----------------------------
(***************************************************************************)
(* The quota figures a daemon holds, one per account, and quota.json: the  *)
(* rest of UsageStore (usage.rs), with the turn, the sweep and the status  *)
(* line that measure an account and the verbs that rename and remove one   *)
(* (ingress.rs, control/handler.rs).                                       *)
(*                                                                         *)
(* Two daemons may share the file, and the threads of one daemon write it  *)
(* with neither a lock nor a comparison across reading and replacing it.   *)
(* A figure is the windows stated for an account and when; what a window   *)
(* says is when it resets.                                                 *)
(***************************************************************************)
EXTENDS Integers, FiniteSets, FiniteSetsExt

CONSTANTS
  Account, Daemon,
  Task, DaemonOf,    \* turns, sweeps, status lines and verbs, and their daemon
  Every,             \* ASK_EVERY_SECS, in ticks
  MaxClock, MaxWork, MaxFaults, \* bounds: the last of failed writes and deaths
  None

ASSUME QuotaAssumption ==
  /\ Every \in Nat \ {0} /\ None \notin Account \cup Task
  /\ DaemonOf \in [Task -> Daemon]

VARIABLES
  clock,
  declared,   \* the accounts there are
  serving,    \* the one selected
  memory,     \* per daemon: by_account
  unplaced,   \* per daemon: unattributed
  asked,      \* per daemon: when each account was last asked for
  askedFile,  \* asked.json
  file,       \* quota.json
  task,
  past        \* history

figures == <<memory, unplaced>>
asks    == <<asked, askedFile>>
vars == <<clock, declared, serving, figures, asks, file, task, past>>

\* Windows of a stated length are restated by every source; a model's own is
\* named, and by the usage endpoint alone.
Window == [name : {"hours", "model"}, resets : Int]
Nothing == [at |-> 0, windows |-> {}]
Empty == [a \in Account |-> Nothing]
Unasked == [a \in Account |-> 0 - Every]

Idle == [pc |-> "idle", name |-> None, windows |-> {}, read |-> Empty,
         dropped |-> None, body |-> Empty, late |-> FALSE]

Init == /\ clock = 1
        /\ declared \in (SUBSET Account) \ {{}} /\ serving \in declared
        /\ memory = [d \in Daemon |-> Empty]
        /\ unplaced = [d \in Daemon |-> Nothing]
        /\ asked = [d \in Daemon |-> Unasked]
        /\ askedFile = Unasked
        /\ file = Empty
        /\ task = [t \in Task |-> Idle]
        /\ past = [work |-> 0, faults |-> 0, ghosts |-> {},
                   asks |-> [d \in Daemon |-> Unasked],
                   unremembered |-> {}, tooSoon |-> FALSE]

Here(t) == DaemonOf[t]
Work == past.work < MaxWork
Worked == past' = [past EXCEPT !.work = @ + 1]
Goto(t, pc) == task' = [task EXCEPT ![t].pc = pc]

\* has_reset, is_stale_at.
HasReset(w) == clock >= w.resets

\* Mutant: a window is carried after its reset.
CarryingReset(windows, previous) ==
  windows \cup {w \in previous : w.name = "model" /\ \A v \in windows : v.name # w.name}

\* Snapshot::carrying: a named window not restated is kept until it resets.
Carrying(windows, previous) ==
  windows \cup {w \in previous : /\ w.name = "model" /\ ~HasReset(w)
                                 /\ \A v \in windows : v.name # w.name}

-----------------------------------------------------------------------------
(* What measures an account. *)

Hours == [name |-> "hours", resets |-> clock + 1]
Model == [name |-> "model", resets |-> clock + 1]

\* The backend states the windows of the account a turn is made as, or the turn
\* names none and they are the serving account's.
Turn(t) ==
  /\ task[t].pc = "idle" /\ Work
  /\ \E a \in declared \cup {None} :
       task' = [task EXCEPT ![t] = [Idle EXCEPT !.pc = "record", !.name = a, !.windows = {Hours}]]
  /\ Worked
  /\ UNCHANGED <<clock, declared, serving, figures, asks, file>>

\* usage.refresh takes up an account of the list it has read.
Sweep(t) ==
  /\ task[t].pc = "idle" /\ Work
  /\ \E a \in declared : task' = [task EXCEPT ![t] = [Idle EXCEPT !.pc = "claim", !.name = a]]
  /\ Worked
  /\ UNCHANGED <<clock, declared, serving, figures, asks, file>>

Held(t) == clock - asked[Here(t)][task[t].name] < Every

\* Asking again within the hour is what the claim is for.  What a daemon has on
\* file is overwritten by another that asks, and is not there after a failed write.
Asking(t, unwritten) ==
  LET d == Here(t)
      soon == d \notin past.unremembered /\ clock - past.asks[d][task[t].name] < Every
      lost == IF unwritten THEN Daemon ELSE Daemon \ {d}
  IN past' = [past EXCEPT !.asks[d][task[t].name] = clock, !.tooSoon = @ \/ soon,
                          !.faults = @ + IF unwritten THEN 1 ELSE 0,
                          !.unremembered = @ \cup {e \in lost : asked[e] # Unasked \/ e = d}]

\* Mutant: the ask is counted from its answer.
ClaimUncounted(t) ==
  /\ task[t].pc = "claim"
  /\ IF Held(t)
     THEN /\ task' = [task EXCEPT ![t] = Idle]
          /\ UNCHANGED past
     ELSE Asking(t, FALSE) /\ Goto(t, "fetch")
  /\ UNCHANGED <<clock, declared, serving, figures, asks, file>>

\* The one ask of the hour, on file before it is made; a failure to write it is
\* ignored.
ClaimAsk(t) ==
  /\ task[t].pc = "claim"
  /\ IF Held(t)
     THEN /\ task' = [task EXCEPT ![t] = Idle]
          /\ UNCHANGED <<asks, past>>
     ELSE /\ asked' = [asked EXCEPT ![Here(t)][task[t].name] = clock]
          /\ \/ askedFile' = asked'[Here(t)] /\ Asking(t, FALSE)
             \/ /\ past.faults < MaxFaults
                /\ Asking(t, TRUE)
                /\ UNCHANGED askedFile
          /\ Goto(t, "fetch")
  /\ UNCHANGED <<clock, declared, serving, figures, file>>

\* The endpoint answers with every window, or does not answer.
Fetched(t) ==
  /\ task[t].pc = "fetch"
  /\ \/ task' = [task EXCEPT ![t].pc = "record", ![t].windows = {Hours, Model}]
     \/ task' = [task EXCEPT ![t] = Idle]
  /\ UNCHANGED <<clock, declared, serving, figures, asks, file, past>>

\* usage.record: the figure held, its hours replaced, its reset windows dropped.
StatusLine(t) ==
  /\ task[t].pc = "idle" /\ Work
  /\ \E a \in declared :
       LET kept == {w \in memory[Here(t)][a].windows : w.name # "hours" /\ ~HasReset(w)}
       IN task' = [task EXCEPT ![t] = [Idle EXCEPT !.pc = "record", !.name = a,
                                                   !.windows = kept \cup {Hours}]]
  /\ Worked
  /\ UNCHANGED <<clock, declared, serving, figures, asks, file>>

\* record_for: a figure is filed under its account, or the one serving by now.
Record(t) ==
  /\ task[t].pc = "record"
  /\ LET name == IF task[t].name # None THEN task[t].name ELSE serving
         figure == [at |-> clock, windows |-> task[t].windows]
     IN IF name = None
        THEN /\ unplaced' = [unplaced EXCEPT ![Here(t)] = figure]
             /\ task' = [task EXCEPT ![t] = Idle]
             /\ UNCHANGED memory
        ELSE /\ memory' = [memory EXCEPT ![Here(t)][name] =
                  [figure EXCEPT !.windows = Carrying(@, memory[Here(t)][name].windows)]]
             /\ task' = [task EXCEPT ![t] = [Idle EXCEPT !.pc = "read"]]
             /\ UNCHANGED unplaced
  /\ UNCHANGED <<clock, declared, serving, asks, file, past>>

-----------------------------------------------------------------------------
(* The verbs.  An account is renamed or removed among the credentials first. *)

\* An account that goes comes back by what is being measured under its name, and
\* by another daemon that holds a figure for it.
Returns(t, a) == \/ \E o \in Task : task[o].name = a /\ task[o].pc \in {"claim", "fetch", "record"}
                 \/ \E d \in Daemon \ {Here(t)} : memory[d][a] # Nothing
Gone(t, a) == past' = [past EXCEPT !.work = @ + 1,
                                   !.ghosts = IF Returns(t, a) THEN @ \cup {a} ELSE @]

Forget(t, a) ==
  /\ task[t].pc = "idle" /\ Work /\ a \in declared
  /\ declared' = declared \ {a}
  /\ serving' \in IF serving = a THEN declared' \cup {None} ELSE {serving}
  /\ unplaced' = [d \in Daemon |-> IF serving = a /\ d = Here(t) THEN Nothing ELSE unplaced[d]]
  /\ memory' = [memory EXCEPT ![Here(t)][a] = Nothing]
  /\ task' = [task EXCEPT ![t] = [Idle EXCEPT !.pc = "read", !.dropped = a]]
  /\ Gone(t, a)
  /\ UNCHANGED <<clock, asks, file>>

Rename(t, a, b) ==
  /\ task[t].pc = "idle" /\ Work /\ a \in declared /\ b \in Account \ declared
  /\ declared' = (declared \ {a}) \cup {b}
  /\ serving' = IF serving = a THEN b ELSE serving
  /\ LET held == memory[Here(t)]
     IN memory' = [memory EXCEPT ![Here(t)] =
          IF held[a] = Nothing THEN held ELSE [held EXCEPT ![b] = held[a], ![a] = Nothing]]
  /\ task' = [task EXCEPT ![t] = [Idle EXCEPT !.pc = "read", !.dropped = a]]
  /\ Gone(t, a)
  /\ UNCHANGED <<clock, unplaced, asks, file>>

\* Another account is selected, and what is filed under nobody is forgotten.
Select(t, a) ==
  /\ task[t].pc = "idle" /\ Work /\ a \in declared \ {serving}
  /\ serving' = a
  /\ unplaced' = [unplaced EXCEPT ![Here(t)] = Nothing]
  /\ Worked
  /\ UNCHANGED <<clock, declared, memory, asks, file, task>>

-----------------------------------------------------------------------------
(* write_quota. *)

Read(t) ==
  /\ task[t].pc = "read"
  /\ task' = [task EXCEPT ![t].pc = "merge", ![t].read = file]
  /\ UNCHANGED <<clock, declared, serving, figures, asks, file, past>>

\* Mutant: what this daemon holds is written, be it the older.
HeldOver(read, held) == [a \in Account |-> IF held[a] # Nothing THEN held[a] ELSE read[a]]

\* The later record of each account.
Later(read, held) ==
  [a \in Account |-> IF held[a] # Nothing /\ read[a].at <= held[a].at THEN held[a] ELSE read[a]]

\* Mutant: the account dropped is merged back from the file.
MergeDropping(t) ==
  /\ task[t].pc = "merge"
  /\ task' = [task EXCEPT ![t].pc = "replace", ![t].body = Later(task[t].read, memory[Here(t)])]
  /\ UNCHANGED <<clock, declared, serving, figures, asks, file, past>>

Merge(t) ==
  /\ task[t].pc = "merge"
  /\ LET merged == Later(task[t].read, memory[Here(t)])
     IN task' = [task EXCEPT ![t].pc = "replace", ![t].read = Empty,
          ![t].body = [a \in Account |-> IF a = task[t].dropped THEN Nothing ELSE merged[a]]]
  /\ UNCHANGED <<clock, declared, serving, figures, asks, file, past>>

\* Threads of one daemon fill one pending file.
Crossing(t) == {o \in Task \ {t} : Here(o) = Here(t) /\ task[o].pc = "replace"}
Reading == {o \in Task : task[o].pc \in {"merge", "replace"}}
Brings(o, a) == task[o].read[a] # Nothing \/ task[o].body[a] # Nothing

\* The file is replaced whatever it has become: by this thread's body, by that of
\* one that filled the same pending file, or by a mix that parses into nothing.
\* Or the write fails in silence, the pending file gone among other reasons.
Replace(t) ==
  /\ task[t].pc = "replace"
  /\ \/ /\ file' \in {task[t].body} \cup {task[o].body : o \in Crossing(t)}
                       \cup (IF Crossing(t) = {} THEN {} ELSE {Empty})
        /\ task' = [o \in Task |-> IF o = t THEN Idle
                                   ELSE IF o \in Reading THEN [task[o] EXCEPT !.late = TRUE]
                                   ELSE task[o]]
        /\ past' = [past EXCEPT !.ghosts = @ \cup
             {a \in {task[t].dropped} \ {None} : \E o \in Reading \ {t} : Brings(o, a)}]
     \/ /\ past.faults < MaxFaults \/ task[t].late
        /\ past' = [past EXCEPT !.faults = @ + IF task[t].late THEN 0 ELSE 1,
                                !.ghosts = @ \cup ({task[t].dropped} \ {None})]
        /\ task' = [task EXCEPT ![t] = Idle]
        /\ UNCHANGED file
  /\ UNCHANGED <<clock, declared, serving, figures, asks>>

\* restore: what has not been reset since.
Restored(figure) ==
  LET kept == {w \in figure.windows : ~HasReset(w)}
  IN IF figure.at = 0 \/ kept = {} THEN Nothing ELSE [figure EXCEPT !.windows = kept]

\* A daemon dies and is started again: remembering_at and asking_at.
Restart(d) ==
  /\ past.faults < MaxFaults
  /\ memory' = [memory EXCEPT ![d] = [a \in Account |-> Restored(file[a])]]
  /\ unplaced' = [unplaced EXCEPT ![d] = Nothing]
  /\ asked' = [asked EXCEPT ![d] = askedFile]
  /\ task' = [t \in Task |-> IF Here(t) = d THEN Idle ELSE task[t]]
  /\ past' = [past EXCEPT !.faults = @ + 1,
       !.ghosts = @ \cup ({task[t].dropped : t \in Task} \ {None})]
  /\ UNCHANGED <<clock, declared, serving, askedFile, file>>

\* Half an hour passes, but not between an answer and its being recorded.
Tick == /\ clock < MaxClock /\ \A t \in Task : task[t].pc # "record"
        /\ clock' = clock + 1
        /\ UNCHANGED <<declared, serving, figures, asks, file, task, past>>

Measures(t) == Turn(t) \/ Sweep(t) \/ ClaimAsk(t) \/ Fetched(t) \/ StatusLine(t) \/ Record(t)
Writes(t) == Read(t) \/ Merge(t) \/ Replace(t)
Verbs(t) == \E a \in Account : Forget(t, a) \/ Select(t, a) \/ \E b \in Account : Rename(t, a, b)

Next == \/ \E t \in Task : Measures(t) \/ Writes(t) \/ Verbs(t)
        \/ \E d \in Daemon : Restart(d)
        \/ Tick

Spec == Init /\ [][Next]_vars

-----------------------------------------------------------------------------
(* Properties. *)

\* A write leaves no account out but the one dropped, and puts no earlier record
\* over a later one, whatever daemons share the file (usage.rs, write_quota).
\* Writers that were reading or filling at the same time are set apart.
LaterKept ==
  [][\A t \in Task, a \in Account :
       /\ task[t].pc = "replace" /\ task'[t].pc = "idle" /\ file' # file
       /\ ~task[t].late /\ Crossing(t) = {} /\ a # task[t].dropped
       => file'[a].at >= file[a].at]_vars

\* A daemon asks for an account at most once an hour, answered or not, through
\* restarts (usage.rs, claim_ask).  A failed write of the claims, and another
\* daemon's claims written over them, are set apart.
AskedHourly == ~past.tooSoon

\* "a forgotten account is gone, and must not come back off the disk" (usage.rs,
\* write_quota), nor a renamed one under its old name: but for what was being
\* measured or written as it went, and what another daemon holds.
GoneStaysGone ==
  \A a \in Account \ (declared \cup past.ghosts) :
    /\ \A d \in Daemon : memory[d][a] = Nothing
    /\ file[a] = Nothing \/ \E t \in Task : task[t].dropped = a

\* A figure is given a fresh age only with windows that have not reset: neither
\* what is carried from an older one nor what a status line keeps (usage.rs,
\* carrying; control/handler.rs, record_usage).
FreshFigureHolds ==
  \A d \in Daemon, a \in Account :
    memory[d][a].at = clock => \A w \in memory[d][a].windows : ~HasReset(w)
=============================================================================
