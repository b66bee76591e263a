----------------------------- MODULE SpendTally -----------------------------
(***************************************************************************)
(* What turns spend, counted per account and kept in spend.json: record_   *)
(* spend, rename, forget and write_tally of UsageStore (usage.rs), with    *)
(* the turns of ingress.rs and the verbs of control/handler.rs that call   *)
(* them.                                                                   *)
(*                                                                         *)
(* Two daemons may share the file and take no lock on it: a write merges,  *)
(* compares and replaces, and counts as written what it added.  In one     *)
(* daemon the turns that finish together are threads, and each count, the  *)
(* memory and the unwritten part, has a lock of its own.  Tokens are       *)
(* counted in turns.                                                       *)
(***************************************************************************)
EXTENDS Integers, FiniteSets, FiniteSetsExt

CONSTANTS
  Account, Daemon,
  Task, DaemonOf,    \* the turns and verbs, and the daemon each is a thread of
  Attempts,          \* TALLY_WRITE_ATTEMPTS, 5
  Verbs,             \* the verbs run beside the turns
  MaxTurns, MaxVerbs, MaxFaults, \* bounds: the last of failed writes and deaths
  None

ASSUME TallyAssumption == Attempts \in Nat \ {0} /\ None \notin Account \cup Task

VARIABLES
  file,       \* spend.json
  spent,      \* per daemon: the file after its last write, and what is unwritten
  unflushed,  \* per daemon: what it counted since its last write
  writing,    \* per daemon: the task that holds tally_writing
  serving,    \* the account selected
  task,
  ledger      \* history: turns that spent, and where what they spent went

counted == <<spent, unflushed>>
vars == <<file, counted, writing, serving, task, ledger>>

Zero == [a \in Account |-> 0]
Total(tally) == SumFunction(tally)
Plus(f, g) == [a \in Account |-> f[a] + g[a]]
Less(f, g) == [a \in Account |-> IF f[a] > g[a] THEN f[a] - g[a] ELSE 0]
One(a) == [Zero EXCEPT ![a] = 1]

NoChange == [kind |-> "none", from |-> None, to |-> None]
Idle == [pc |-> "idle", change |-> NoChange, payer |-> None, read |-> Zero, body |-> Zero,
         adding |-> Zero, attempt |-> 0, slipped |-> 0]

Init == /\ file = Zero
        /\ spent = [d \in Daemon |-> Zero]
        /\ unflushed = [d \in Daemon |-> Zero]
        /\ writing = [d \in Daemon |-> None]
        /\ serving \in Account
        /\ task = [t \in Task |-> Idle]
        /\ ledger = [turns |-> 0, verbs |-> 0, faults |-> 0, overwritten |-> 0,
                     crashed |-> 0, forgotten |-> 0, crossed |-> FALSE, halfway |-> FALSE]

Here(t) == DaemonOf[t]

\* A turn of the daemon is between its two counts.
Halfway(d) == \E o \in Task : Here(o) = d /\ task[o].pc = "count"

Goto(t, pc) == task' = [task EXCEPT ![t].pc = pc]

\* TallyChange::apply.
Changed(change, tally) ==
  CASE change.kind = "forget" -> [tally EXCEPT ![change.from] = 0]
    [] change.kind = "rename" ->
         [tally EXCEPT ![change.from] = 0, ![change.to] = @ + tally[change.from]]
    [] OTHER -> tally

-----------------------------------------------------------------------------
(* A turn, and the verbs. *)

\* A turn begins, as a pinned account or as the one serving.
Begin(t) ==
  /\ task[t].pc = "idle" /\ ledger.turns < MaxTurns
  /\ \E pinned \in BOOLEAN :
       task' = [task EXCEPT ![t] = [Idle EXCEPT !.pc = IF pinned THEN "pinned" ELSE "turn",
                                               !.payer = serving]]
  /\ ledger' = [ledger EXCEPT !.turns = @ + 1]
  /\ UNCHANGED <<file, counted, writing, serving>>

\* The accounts a turn's spend may be filed under as it ends.
FiledUnder(t) == IF task[t].pc = "pinned" THEN task[t].payer ELSE serving

\* The turn ends: its counts go to the memory of the daemon,
RecordSpent(t) ==
  /\ task[t].pc \in {"turn", "pinned"}
  /\ spent' = [spent EXCEPT ![Here(t)] = Plus(@, One(FiledUnder(t)))]
  /\ task' = [task EXCEPT ![t].pc = "count", ![t].payer = FiledUnder(t)]
  /\ UNCHANGED <<file, unflushed, writing, serving, ledger>>

\* and to what it has yet to write.
RecordUnflushed(t) ==
  /\ task[t].pc = "count"
  /\ unflushed' = [unflushed EXCEPT ![Here(t)] = Plus(@, One(task[t].payer))]
  /\ Goto(t, "write")
  /\ UNCHANGED <<file, spent, writing, serving, ledger>>

\* accounts.rename and accounts.remove change both counts, then the file.
Verb(t, change) ==
  /\ task[t].pc = "idle" /\ change.kind \in Verbs /\ ledger.verbs < MaxVerbs
  /\ change.kind = "rename" => change.from # change.to
  /\ task' = [task EXCEPT ![t] = [Idle EXCEPT !.pc = "memory", !.change = change]]
  /\ ledger' = [ledger EXCEPT !.verbs = @ + 1]
  /\ UNCHANGED <<file, counted, writing, serving>>

ChangeSpent(t) ==
  /\ task[t].pc = "memory"
  /\ spent' = [spent EXCEPT ![Here(t)] = Changed(task[t].change, @)]
  /\ Goto(t, "unwritten")
  /\ UNCHANGED <<file, unflushed, writing, serving, ledger>>

\* A turn counted under the old name since is moved with it; one counted after
\* is not.  A write under way goes on with the names it has read.
ChangeUnflushed(t) ==
  /\ task[t].pc = "unwritten"
  /\ unflushed' = [unflushed EXCEPT ![Here(t)] = Changed(task[t].change, @)]
  /\ ledger' = [ledger EXCEPT
       !.forgotten = @ + IF task[t].change.kind = "forget"
                         THEN unflushed[Here(t)][task[t].change.from] ELSE 0,
       !.crossed = @ \/ \E o \in Task : Here(o) = Here(t) /\ task[o].pc \in {"compare", "replace", "flush"},
       !.halfway = @ \/ Halfway(Here(t))]
  /\ Goto(t, "write")
  /\ UNCHANGED <<file, spent, writing, serving>>

\* Another account is selected while turns stream.
Switch(a) ==
  /\ a # serving
  /\ serving' = a
  /\ UNCHANGED <<file, counted, writing, task, ledger>>

-----------------------------------------------------------------------------
(* write_tally. *)

\* Mutant: two turns of one daemon write at the same time.
WaitForNobody(t) ==
  /\ task[t].pc = "write"
  /\ writing' = [writing EXCEPT ![Here(t)] = t]
  /\ task' = [task EXCEPT ![t].pc = "read", ![t].attempt = 1]
  /\ UNCHANGED <<file, counted, serving, ledger>>

\* One write at a time in a process.
Wait(t) ==
  /\ task[t].pc = "write" /\ writing[Here(t)] = None
  /\ writing' = [writing EXCEPT ![Here(t)] = t]
  /\ task' = [task EXCEPT ![t].pc = "read", ![t].attempt = 1]
  /\ UNCHANGED <<file, counted, serving, ledger>>

\* The file is read, changed, and what is unwritten added.
Merge(t) ==
  /\ task[t].pc = "read"
  /\ LET adding == unflushed[Here(t)]
     IN task' = [task EXCEPT ![t].pc = "compare", ![t].read = file, ![t].adding = adding,
                             ![t].slipped = 0,
                             ![t].body = Plus(Changed(task[t].change, file), adding)]
  /\ UNCHANGED <<file, counted, writing, serving, ledger>>

\* A file that moved is read again; the last attempt does not look.
Compare(t) ==
  /\ task[t].pc = "compare"
  /\ IF task[t].attempt < Attempts /\ file # task[t].read
     THEN task' = [task EXCEPT ![t].pc = "read", ![t].attempt = @ + 1]
     ELSE task' = [task EXCEPT ![t].pc = "replace",
                               ![t].slipped = Total(file) - Total(task[t].read)]
  /\ UNCHANGED <<file, counted, writing, serving, ledger>>

Release(t) == /\ writing' = [writing EXCEPT ![Here(t)] = None]
              /\ task' = [task EXCEPT ![t] = Idle]

\* The file is replaced, whatever another daemon wrote since it was compared;
\* or the write fails, and what was to be added stays unwritten.
Replace(t) ==
  /\ task[t].pc = "replace"
  /\ \/ /\ file' = task[t].body
        /\ LET change == task[t].change
               gone == IF change.kind = "forget" THEN task[t].read[change.from] ELSE 0
           IN ledger' = [ledger EXCEPT !.overwritten = @ + task[t].slipped,
                                       !.forgotten = @ + gone]
        /\ task' = [o \in Task |->
             IF o = t THEN [task[o] EXCEPT !.pc = "flush"]
             ELSE IF task[o].pc = "replace"
             THEN [task[o] EXCEPT !.slipped = @ + Total(file') - Total(file)]
             ELSE task[o]]
        /\ UNCHANGED writing
     \/ /\ ledger.faults < MaxFaults
        /\ ledger' = [ledger EXCEPT !.faults = @ + 1]
        /\ Release(t)
        /\ UNCHANGED file
  /\ UNCHANGED <<counted, serving>>

\* What was added is written; a turn counted since is not.
Flush(t) ==
  /\ task[t].pc = "flush"
  /\ LET left == Less(unflushed[Here(t)], task[t].adding)
     IN /\ unflushed' = [unflushed EXCEPT ![Here(t)] = left]
        /\ spent' = [spent EXCEPT ![Here(t)] = Plus(task[t].body, left)]
  /\ Release(t)
  /\ ledger' = [ledger EXCEPT !.halfway = @ \/ Halfway(Here(t))]
  /\ UNCHANGED <<file, serving>>

\* A daemon dies and is started again: tallying_at reads the file.
Crash(d) ==
  /\ ledger.faults < MaxFaults
  /\ \A t \in Task : Here(t) = d => task[t].pc # "flush"
  /\ spent' = [spent EXCEPT ![d] = file]
  /\ unflushed' = [unflushed EXCEPT ![d] = Zero]
  /\ writing' = [writing EXCEPT ![d] = None]
  /\ ledger' = [ledger EXCEPT
       !.faults = @ + 1,
       !.crashed = @ + Total(unflushed[d])
                     + Cardinality({t \in Task : Here(t) = d /\ task[t].pc \in {"turn", "pinned", "count"}})]
  /\ task' = [t \in Task |-> IF Here(t) = d THEN Idle ELSE task[t]]
  /\ UNCHANGED <<file, serving>>

Step(t) == \/ Begin(t) \/ RecordSpent(t) \/ RecordUnflushed(t)
           \/ ChangeSpent(t) \/ ChangeUnflushed(t)
           \/ Wait(t) \/ Merge(t) \/ Compare(t) \/ Replace(t) \/ Flush(t)

Change == [kind : {"rename"}, from : Account, to : Account]
            \cup [kind : {"forget"}, from : Account, to : {None}]

Next == \/ \E t \in Task : Step(t) \/ \E change \in Change : Verb(t, change)
        \/ \E a \in Account : Switch(a)
        \/ \E d \in Daemon : Crash(d)

Spec == Init /\ [][Next]_vars

-----------------------------------------------------------------------------
(* Properties. *)

\* Turns under way have spent nothing yet that could be written.
Spending == {t \in Task : task[t].pc \in {"turn", "pinned", "count"}}
Flushing == {t \in Task : task[t].pc = "flush"}

\* What the daemons have yet to write, without what a write has just added.
Unwritten ==
  SumFunction([d \in Daemon |->
    Total(IF \E t \in Flushing : Here(t) = d
          THEN Less(unflushed[d], task[CHOOSE t \in Flushing : Here(t) = d].adding)
          ELSE unflushed[d])])

\* What every turn spent is in the file once, or is yet to be written once: two
\* daemons, failed writes, changed names and deaths lose what the file held when
\* it was replaced after being compared, what died unwritten, and nothing else
\* (usage.rs, write_tally).  A change of names across a write is set apart.
Conserved ==
  ledger.crossed \/
    Total(file) + Unwritten + Cardinality(Spending)
      + ledger.overwritten + ledger.crashed + ledger.forgotten = ledger.turns

\* What is stated is never more than what was spent: "The tally is a floor"
\* (proxy-behavior.md 6.1).
TallyIsFloor == Total(file) <= ledger.turns

\* What a daemon states counts every turn it has yet to write, and no turn that
\* was not made: a write that replaces what is stated by what it filed leaves out
\* no turn counted meanwhile.  A verb, or the end of a write, that came between
\* the two counts of a turn is set apart, and so is a verb across a write.
StatedAsHeld ==
  ledger.crossed \/ ledger.halfway \/
    \A d \in Daemon :
      /\ Total(spent[d]) <= ledger.turns
      /\ (\A t \in Task : Here(t) = d => task[t].pc \notin {"memory", "unwritten"})
           => Total(unflushed[d]) <= Total(spent[d])

\* A turn is counted once: in the file and what is yet to be written, and in what a
\* daemon states meanwhile.
CountedOnce == Conserved /\ StatedAsHeld

\* What a turn spent is filed under the account it was made as (proxy-behavior.md
\* 6.1, "added to the account that served it").
FiledUnderPayer ==
  [][\A t \in Task : task[t].pc = "turn" /\ task'[t].pc = "count" =>
       task'[t].payer = task[t].payer]_vars
=============================================================================
