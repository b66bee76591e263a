------------------------- MODULE QuotaFigures_proofs ------------------------
(***************************************************************************)
(* For any number of accounts, daemons, turns, sweeps, status lines and    *)
(* verbs: a figure is fresh only with windows that have not reset, an      *)
(* account is asked for once an hour, what is gone stays gone, and a write *)
(* keeps the later record.                                                 *)
(***************************************************************************)
EXTENDS QuotaFigures, TLAPS

Label == {"idle", "record", "claim", "fetch", "read", "merge", "replace"}

Figure == [at : Nat, windows : SUBSET Window]
Table  == [Account -> Figure]
Doing  == [pc : Label, name : Account \cup {None}, windows : SUBSET Window, read : Table,
           dropped : Account \cup {None}, body : Table, late : BOOLEAN]

TypeOK ==
  /\ clock \in Nat /\ declared \subseteq Account /\ serving \in Account \cup {None}
  /\ memory \in [Daemon -> Table] /\ file \in Table /\ task \in [Task -> Doing]

\* No record is of a later time than now.
Dated(table) == \A a \in Account : table[a].at <= clock

\* What a task has read or will write, and what it has just measured.
Measured(t) ==
  /\ Dated(task[t].read) /\ Dated(task[t].body)
  /\ task[t].pc = "record" => \A w \in task[t].windows : ~HasReset(w)

FreshInv == /\ TypeOK /\ FreshFigureHolds /\ Dated(file)
            /\ \A d \in Daemon : Dated(memory[d])
            /\ \A t \in Task : Measured(t)

LEMMA EmptyTable == Empty \in Table /\ Nothing \in Figure /\ (clock \in Nat => Dated(Empty))
  BY DEF Empty, Nothing, Table, Figure, Dated, Window

LEMMA IdleTask ==
  /\ Idle \in Doing /\ Idle.pc = "idle" /\ Idle.read = Empty /\ Idle.body = Empty
  BY EmptyTable DEF Idle, Doing, Label

LEMMA Starts == Init => FreshInv
<1> SUFFICES ASSUME Init PROVE FreshInv
  OBVIOUS
<1>1. TypeOK  BY EmptyTable, IdleTask DEF Init, TypeOK
<1>2. FreshFigureHolds  BY DEF Init, FreshFigureHolds, Empty, Nothing
<1>3. Dated(file) /\ \A d \in Daemon : Dated(memory[d])  BY EmptyTable DEF Init, TypeOK
<1>4. \A t \in Task : Measured(t)  BY <1>1, EmptyTable, IdleTask DEF Init, Measured, TypeOK
<1>5. QED  BY <1>1, <1>2, <1>3, <1>4 DEF FreshInv

\* Windows that are stated now have not reset.
LEMMA StatedNow ==
  ASSUME clock \in Nat
  PROVE  {Hours, Model} \subseteq Window /\ ~HasReset(Hours) /\ ~HasReset(Model)
  BY DEF Hours, Model, Window, HasReset

\* A step of one task that leaves the figures and the file alone.
LEMMA TaskAlone ==
  ASSUME FreshInv, NEW t \in Task, UNCHANGED <<clock, memory, file>>,
         declared' \subseteq Account, serving' \in Account \cup {None},
         NEW r \in Doing, task' = [task EXCEPT ![t] = r],
         Dated(r.read), Dated(r.body),
         r.pc = "record" => \A w \in r.windows : ~HasReset(w)
  PROVE  FreshInv'
<1>1. task'[t] = r /\ \A u \in Task \ {t} : task'[u] = task[u]  BY DEF FreshInv, TypeOK
<1>2. TypeOK'  BY DEF FreshInv, TypeOK
<1>3. \A u \in Task : Measured(u)'
  BY <1>1 DEF FreshInv, Measured, Dated, HasReset
<1>4. QED  BY <1>2, <1>3 DEF FreshInv, FreshFigureHolds, Dated, HasReset

\* A step that changes the figures of one daemon, to fresh ones of no later time,
\* and ends a task's measure.
LEMMA FiguresChange ==
  ASSUME FreshInv, NEW d \in Daemon, NEW table \in Table,
         memory' = [memory EXCEPT ![d] = table], Dated(table),
         \A a \in Account : table[a].at = clock => \A w \in table[a].windows : ~HasReset(w),
         NEW t \in Task, NEW r \in Doing, task' = [task EXCEPT ![t] = r],
         Dated(r.read), Dated(r.body), r.pc # "record",
         UNCHANGED <<clock, file>>,
         declared' \subseteq Account, serving' \in Account \cup {None}
  PROVE  FreshInv'
<1>1. task'[t] = r /\ \A u \in Task \ {t} : task'[u] = task[u]  BY DEF FreshInv, TypeOK
<1>2. memory'[d] = table /\ \A e \in Daemon \ {d} : memory'[e] = memory[e]
  BY DEF FreshInv, TypeOK
<1>3. TypeOK'  BY DEF FreshInv, TypeOK
<1>4. \A u \in Task : Measured(u)'
  BY <1>1 DEF FreshInv, Measured, Dated, HasReset
<1>5. FreshFigureHolds' /\ (\A e \in Daemon : Dated(memory[e]))'
  BY <1>2 DEF FreshInv, FreshFigureHolds, Dated, HasReset
<1>6. QED  BY <1>3, <1>4, <1>5 DEF FreshInv, Dated

LEMMA HereIsDaemon == ASSUME NEW t \in Task PROVE Here(t) \in Daemon
  BY QuotaAssumption DEF Here

\* A task, with some of its fields.
LEMMA TaskFields ==
  ASSUME FreshInv, NEW t \in Task
  PROVE  /\ task[t] \in Doing /\ Here(t) \in Daemon /\ memory[Here(t)] \in Table
         /\ Dated(task[t].read) /\ Dated(task[t].body) /\ Dated(memory[Here(t)])
  BY HereIsDaemon DEF FreshInv, TypeOK, Measured

\* What measures an account.
LEMMA MeasureSteps == ASSUME FreshInv, NEW t \in Task, Measures(t) PROVE FreshInv'
<1>0. clock \in Nat /\ declared \subseteq Account /\ serving \in Account \cup {None}
  BY DEF FreshInv, TypeOK
<1>1. CASE Turn(t)
  <2>1. PICK a \in declared \cup {None} :
          task' = [task EXCEPT ![t] = [Idle EXCEPT !.pc = "record", !.name = a,
                                                   !.windows = {Hours}]]
    BY <1>1 DEF Turn
  <2> DEFINE r == [Idle EXCEPT !.pc = "record", !.name = a, !.windows = {Hours}]
  <2>2. /\ r \in Doing /\ r.read = Empty /\ r.body = Empty /\ r.windows = {Hours}
    BY <1>0, <2>1, IdleTask, StatedNow DEF Doing, Label
  <2>3. UNCHANGED <<clock, memory, file, declared, serving>>  BY <1>1 DEF Turn, figures
  <2> HIDE DEF r
  <2>4. QED  BY <1>0, <2>1, <2>2, <2>3, EmptyTable, StatedNow, TaskAlone DEF r
<1>2. CASE Sweep(t)
  <2>1. PICK a \in declared :
          task' = [task EXCEPT ![t] = [Idle EXCEPT !.pc = "claim", !.name = a]]
    BY <1>2 DEF Sweep
  <2> DEFINE r == [Idle EXCEPT !.pc = "claim", !.name = a]
  <2>2. r \in Doing /\ r.read = Empty /\ r.body = Empty /\ r.pc = "claim"
    BY <1>0, <2>1, IdleTask DEF Doing, Label
  <2>3. UNCHANGED <<clock, memory, file, declared, serving>>  BY <1>2 DEF Sweep, figures
  <2> HIDE DEF r
  <2>4. QED  BY <1>0, <2>1, <2>2, <2>3, EmptyTable, TaskAlone DEF r
<1>3. CASE ClaimAsk(t)
  <2>1. UNCHANGED <<clock, memory, file, declared, serving>>  BY <1>3 DEF ClaimAsk, figures
  <2>2. CASE task' = [task EXCEPT ![t] = Idle]
    BY <1>0, <2>1, <2>2, EmptyTable, IdleTask, TaskAlone
  <2>3. CASE Goto(t, "fetch")
    <3> DEFINE r == [task[t] EXCEPT !.pc = "fetch"]
    <3>1. /\ r \in Doing /\ r.read = task[t].read /\ r.body = task[t].body /\ r.pc = "fetch"
      BY TaskFields DEF Doing, Label
    <3>2. task' = [task EXCEPT ![t] = r]  BY <2>3 DEF Goto
    <3> HIDE DEF r
    <3>3. QED  BY <1>0, <2>1, <3>1, <3>2, TaskFields, TaskAlone
  <2>4. QED  BY <1>3, <2>2, <2>3 DEF ClaimAsk
<1>4. CASE Fetched(t)
  <2>1. UNCHANGED <<clock, memory, file, declared, serving>>  BY <1>4 DEF Fetched, figures
  <2>2. CASE task' = [task EXCEPT ![t] = Idle]
    BY <1>0, <2>1, <2>2, EmptyTable, IdleTask, TaskAlone
  <2>3. CASE task' = [task EXCEPT ![t].pc = "record", ![t].windows = {Hours, Model}]
    <3> DEFINE r == [task[t] EXCEPT !.pc = "record", !.windows = {Hours, Model}]
    <3>1. /\ r \in Doing /\ r.read = task[t].read /\ r.body = task[t].body
          /\ r.windows = {Hours, Model}
      BY <1>0, TaskFields, StatedNow DEF Doing, Label
    <3>2. task' = [task EXCEPT ![t] = r]  BY <2>3
    <3> HIDE DEF r
    <3>3. QED  BY <1>0, <2>1, <3>1, <3>2, TaskFields, StatedNow, TaskAlone
  <2>4. QED  BY <1>4, <2>2, <2>3 DEF Fetched
<1>5. CASE StatusLine(t)
  <2>1. PICK a \in declared :
          LET kept == {w \in memory[Here(t)][a].windows : w.name # "hours" /\ ~HasReset(w)}
          IN task' = [task EXCEPT ![t] = [Idle EXCEPT !.pc = "record", !.name = a,
                                                      !.windows = kept \cup {Hours}]]
    BY <1>5 DEF StatusLine
  <2> DEFINE kept == {w \in memory[Here(t)][a].windows : w.name # "hours" /\ ~HasReset(w)}
             r == [Idle EXCEPT !.pc = "record", !.name = a, !.windows = kept \cup {Hours}]
  <2>2. memory[Here(t)][a] \in Figure  BY <1>0, <2>1, TaskFields DEF Table
  <2>3. kept \subseteq Window /\ \A w \in kept : ~HasReset(w)  BY <2>2 DEF Figure
  <2>4. task' = [task EXCEPT ![t] = r]  BY <2>1
  <2> HIDE DEF kept
  <2>5. /\ r \in Doing /\ r.read = Empty /\ r.body = Empty /\ r.windows = kept \cup {Hours}
    BY <1>0, <2>1, <2>3, IdleTask, StatedNow DEF Doing, Label
  <2>6. UNCHANGED <<clock, memory, file, declared, serving>>  BY <1>5 DEF StatusLine, figures
  <2> HIDE DEF r
  <2>7. QED  BY <1>0, <2>3, <2>4, <2>5, <2>6, EmptyTable, StatedNow, TaskAlone
<1>6. CASE Record(t)
  <2> DEFINE name == IF task[t].name # None THEN task[t].name ELSE serving
             figure == [at |-> clock, windows |-> task[t].windows]
             held == memory[Here(t)]
             filed == [figure EXCEPT !.windows = Carrying(@, held[name].windows)]
  <2>1. /\ name \in Account \cup {None} /\ task[t].windows \subseteq Window
        /\ \A w \in task[t].windows : ~HasReset(w)
    BY <1>0, <1>6, TaskFields DEF Record, Doing, FreshInv, Measured
  <2>2. UNCHANGED <<clock, file, declared, serving>>  BY <1>6 DEF Record
  <2>3. CASE name = None /\ task' = [task EXCEPT ![t] = Idle] /\ UNCHANGED memory
    BY <1>0, <2>2, <2>3, EmptyTable, IdleTask, TaskAlone
  <2>4. CASE /\ name # None
             /\ memory' = [memory EXCEPT ![Here(t)][name] = filed]
             /\ task' = [task EXCEPT ![t] = [Idle EXCEPT !.pc = "read"]]
    <3> DEFINE r == [Idle EXCEPT !.pc = "read"]
               table == [held EXCEPT ![name] = filed]
    <3>1. /\ r \in Doing /\ r.read = Empty /\ r.body = Empty /\ r.pc = "read"
      BY IdleTask DEF Doing, Label
    <3>2. held[name] \in Figure  BY <2>1, <2>4, TaskFields DEF Table
    <3>3. /\ filed.at = clock /\ filed.windows \subseteq Window /\ filed \in Figure
          /\ \A w \in filed.windows : ~HasReset(w)
      BY <1>0, <2>1, <3>2 DEF Carrying, Figure
    <3>4. memory' = [memory EXCEPT ![Here(t)] = table]  BY <2>4
    <3> HIDE DEF filed, r, name, held
    <3>5. held \in Table /\ Dated(held)  BY TaskFields DEF held
    <3>6. \A a \in Account : table[a] = IF a = name THEN filed ELSE held[a]
      BY <3>5 DEF Table
    <3>7. table \in Table  BY <3>3, <3>5 DEF Table
    <3>8. table \in Table /\ Dated(table)  BY <1>0, <3>3, <3>5, <3>6, <3>7 DEF Dated
    <3>9. \A a \in Account : table[a].at = clock => \A w \in table[a].windows : ~HasReset(w)
      BY <3>3, <3>6, TaskFields DEF FreshInv, FreshFigureHolds, held
    <3> HIDE DEF table
    <3>10. QED
      BY <1>0, <2>2, <2>4, <3>1, <3>4, <3>8, <3>9, TaskFields, EmptyTable, FiguresChange DEF r
  <2>5. QED  BY <1>6, <2>3, <2>4 DEF Record
<1>7. QED  BY <1>1, <1>2, <1>3, <1>4, <1>5, <1>6 DEF Measures

\* The verbs: an account goes with its figure, or takes it to its new name.
LEMMA VerbSteps == ASSUME FreshInv, NEW t \in Task, Verbs(t) PROVE FreshInv'
<1> DEFINE held == memory[Here(t)]
           r(a) == [Idle EXCEPT !.pc = "read", !.dropped = a]
<1>0. /\ clock \in Nat /\ declared \subseteq Account /\ serving \in Account \cup {None}
      /\ held \in Table /\ Dated(held)
      /\ \A a \in Account : held[a].at = clock => \A w \in held[a].windows : ~HasReset(w)
  BY TaskFields DEF FreshInv, TypeOK, FreshFigureHolds
<1>1. ASSUME NEW a \in Account
      PROVE  r(a) \in Doing /\ r(a).read = Empty /\ r(a).body = Empty /\ r(a).pc = "read"
  BY IdleTask DEF Doing, Label
<1> HIDE DEF held, r
<1>2. ASSUME NEW a \in Account, Forget(t, a) PROVE FreshInv'
  <2> DEFINE table == [held EXCEPT ![a] = Nothing]
  <2>1. \A b \in Account : table[b] = IF b = a THEN Nothing ELSE held[b]  BY <1>0 DEF Table
  <2>2. table \in Table  BY <1>0, EmptyTable DEF Table
  <2>3. Dated(table)
    <3> HIDE DEF table
    <3>1. Nothing.at = 0  BY DEF Nothing
    <3>2. QED  BY <1>0, <2>1, <3>1 DEF Dated
  <2>4. \A b \in Account : table[b].at = clock => \A w \in table[b].windows : ~HasReset(w)
    BY <1>0, <2>1 DEF Nothing
  <2>5. memory' = [memory EXCEPT ![Here(t)] = table]  BY <1>2 DEF Forget, held
  <2>6. /\ task' = [task EXCEPT ![t] = r(a)] /\ UNCHANGED <<clock, file>>
        /\ declared' \subseteq Account /\ serving' \in Account \cup {None}
    BY <1>0, <1>2 DEF Forget, r
  <2> HIDE DEF table
  <2>7. QED
    BY <1>0, <1>1, <2>2, <2>3, <2>4, <2>5, <2>6, TaskFields, EmptyTable, FiguresChange
<1>3. ASSUME NEW a \in Account, NEW b \in Account, Rename(t, a, b) PROVE FreshInv'
  <2> DEFINE table == IF held[a] = Nothing THEN held
                      ELSE [held EXCEPT ![b] = held[a], ![a] = Nothing]
  <2>1. \A c \in Account : table[c] \in {held[c], held[a], Nothing}  BY <1>0 DEF Table
  <2>2. table \in Table  BY <1>0, EmptyTable DEF Table
  <2>3. Dated(table)
    <3> HIDE DEF table
    <3>1. Nothing.at = 0  BY DEF Nothing
    <3>2. QED  BY <1>0, <2>1, <3>1 DEF Dated
  <2>4. \A c \in Account : table[c].at = clock => \A w \in table[c].windows : ~HasReset(w)
    BY <1>0, <2>1 DEF Nothing
  <2>5. memory' = [memory EXCEPT ![Here(t)] = table]  BY <1>3 DEF Rename, held
  <2>6. /\ task' = [task EXCEPT ![t] = r(a)] /\ UNCHANGED <<clock, file>>
        /\ declared' \subseteq Account /\ serving' \in Account \cup {None}
    BY <1>0, <1>3 DEF Rename, r
  <2> HIDE DEF table
  <2>7. QED
    BY <1>0, <1>1, <2>2, <2>3, <2>4, <2>5, <2>6, TaskFields, EmptyTable, FiguresChange
<1>4. ASSUME NEW a \in Account, Select(t, a) PROVE FreshInv'
  <2>1. UNCHANGED <<clock, declared, memory, file, task>> /\ serving' \in Account
    BY <1>4 DEF Select, asks
  <2>2. QED
    BY <2>1 DEF FreshInv, TypeOK, FreshFigureHolds, Dated, Measured, HasReset
<1>5. QED  BY <1>2, <1>3, <1>4 DEF Verbs

\* A write of the file files records of no later time than it was given.
LEMMA WriteSteps == ASSUME FreshInv, NEW t \in Task, Writes(t) PROVE FreshInv'
<1>0. /\ clock \in Nat /\ declared \subseteq Account /\ serving \in Account \cup {None}
      /\ file \in Table /\ Dated(file)
  BY DEF FreshInv, TypeOK
<1>1. CASE Read(t)
  <2> DEFINE r == [task[t] EXCEPT !.pc = "merge", !.read = file]
  <2>1. /\ r \in Doing /\ r.read = file /\ r.body = task[t].body /\ r.pc = "merge"
    BY <1>0, TaskFields DEF Doing, Label
  <2>2. task' = [task EXCEPT ![t] = r] /\ UNCHANGED <<clock, memory, file, declared, serving>>
    BY <1>1 DEF Read, figures
  <2> HIDE DEF r
  <2>3. QED  BY <1>0, <2>1, <2>2, TaskFields, TaskAlone
<1>2. CASE Merge(t)
  <2> DEFINE merged == Later(task[t].read, memory[Here(t)])
             body == [a \in Account |-> IF a = task[t].dropped THEN Nothing ELSE merged[a]]
             r == [task[t] EXCEPT !.pc = "replace", !.read = Empty, !.body = body]
  <2>1. task[t].read \in Table  BY TaskFields DEF Doing
  <2>2. \A a \in Account : merged[a] \in {task[t].read[a], memory[Here(t)][a]}  BY DEF Later
  <2>3. \A a \in Account : merged[a] \in Figure /\ merged[a].at <= clock
    BY <2>1, <2>2, TaskFields DEF Table, Dated
  <2> HIDE DEF merged
  <2>4. body \in Table  BY <2>3, EmptyTable DEF Table
  <2>5. Dated(body)  BY <1>0, <2>3 DEF Dated, Nothing
  <2>6. task' = [task EXCEPT ![t] = r] /\ UNCHANGED <<clock, memory, file, declared, serving>>
    BY <1>2 DEF Merge, figures, merged
  <2> HIDE DEF body
  <2>7. /\ r \in Doing /\ r.read = Empty /\ r.body = body /\ r.pc = "replace"
    BY <2>4, TaskFields, EmptyTable DEF Doing, Label
  <2> HIDE DEF r
  <2>8. QED  BY <1>0, <2>5, <2>6, <2>7, EmptyTable, TaskAlone
<1>3. CASE Replace(t)
  <2>1. UNCHANGED <<clock, memory, declared, serving>>  BY <1>3 DEF Replace, figures
  <2>2. CASE task' = [task EXCEPT ![t] = Idle] /\ UNCHANGED file
    BY <1>0, <2>1, <2>2, EmptyTable, IdleTask, TaskAlone
  <2>3. CASE /\ file' \in {task[t].body} \cup {task[o].body : o \in Crossing(t)}
                            \cup (IF Crossing(t) = {} THEN {} ELSE {Empty})
             /\ task' = [o \in Task |-> IF o = t THEN Idle
                                        ELSE IF o \in Reading THEN [task[o] EXCEPT !.late = TRUE]
                                        ELSE task[o]]
    <3>1. file' \in Table /\ Dated(file')
      <4>1. file' = Empty \/ \E o \in Task : file' = task[o].body  BY <2>3 DEF Crossing
      <4>2. \A o \in Task : task[o].body \in Table /\ Dated(task[o].body)
        BY TaskFields DEF Doing
      <4>3. QED  BY <1>0, <4>1, <4>2, EmptyTable
    <3>2. ASSUME NEW o \in Task
          PROVE  /\ task'[o] \in Doing
                 /\ \/ task'[o] = Idle
                    \/ /\ task'[o].pc = task[o].pc /\ task'[o].windows = task[o].windows
                       /\ task'[o].read = task[o].read /\ task'[o].body = task[o].body
      <4>1. task[o] \in Doing  BY TaskFields
      <4>2. CASE o = t  BY <2>3, <4>2, IdleTask
      <4>3. CASE o # t  BY <2>3, <4>1, <4>3 DEF Doing
      <4>4. QED  BY <4>2, <4>3
    <3>3. DOMAIN task' = Task /\ task' = [o \in Task |-> task'[o]]  BY <2>3
    <3>4. TypeOK'
      <4>1. task' \in [Task -> Doing]  BY <3>2, <3>3
      <4>2. QED  BY <2>1, <3>1, <4>1 DEF FreshInv, TypeOK
    <3>5. ASSUME NEW o \in Task PROVE Measured(o)'
      <4>1. CASE task'[o] = Idle
        BY <1>0, <2>1, <4>1, IdleTask, EmptyTable DEF Measured, Dated
      <4>2. CASE task'[o] # Idle
        BY <2>1, <3>2, <4>2 DEF FreshInv, Measured, Dated, HasReset
      <4>3. QED  BY <4>1, <4>2
    <3>6. QED
      BY <2>1, <3>1, <3>4, <3>5 DEF FreshInv, FreshFigureHolds, Dated, HasReset
  <2>4. QED  BY <1>3, <2>2, <2>3 DEF Replace
<1>4. QED  BY <1>1, <1>2, <1>3 DEF Writes

\* What a daemon restores has not reset; and a figure is not of the time to come.
LEMMA WorldSteps ==
  ASSUME FreshInv, Tick \/ \E d \in Daemon : Restart(d) PROVE FreshInv'
<1>0. clock \in Nat /\ file \in Table /\ Dated(file)  BY DEF FreshInv, TypeOK
<1>1. CASE Tick
  <2>1. clock' = clock + 1 /\ UNCHANGED <<declared, serving, memory, file, task>>
    BY <1>1 DEF Tick, figures
  <2>2. TypeOK'  BY <1>0, <2>1 DEF FreshInv, TypeOK
  <2>3. ASSUME NEW table \in Table, Dated(table)
        PROVE  \A a \in Account : table[a].at <= clock' /\ table[a].at # clock'
    BY <1>0, <2>1, <2>3 DEF Dated, Table, Figure
  <2>4. ASSUME NEW d \in Daemon
        PROVE  \A a \in Account : memory'[d][a].at <= clock' /\ memory'[d][a].at # clock'
    <3>1. memory[d] \in Table /\ Dated(memory[d])  BY DEF FreshInv, TypeOK
    <3>2. QED  BY <2>1, <2>3, <3>1
  <2>5. FreshFigureHolds' /\ (\A d \in Daemon : Dated(memory[d]))'
    BY <2>4 DEF FreshFigureHolds, Dated
  <2>6. Dated(file)'  BY <1>0, <2>1, <2>3 DEF Dated
  <2>7. ASSUME NEW t \in Task PROVE Measured(t)'
    <3>1. task[t].read \in Table /\ task[t].body \in Table  BY TaskFields DEF Doing
    <3>2. (Dated(task[t].read) /\ Dated(task[t].body))'
      BY <2>1, <2>3, <3>1, TaskFields DEF Dated
    <3>3. task'[t].pc # "record"  BY <1>1, <2>1 DEF Tick
    <3>4. QED  BY <3>2, <3>3 DEF Measured
  <2>8. QED  BY <2>2, <2>5, <2>6, <2>7 DEF FreshInv
<1>2. ASSUME NEW d \in Daemon, Restart(d) PROVE FreshInv'
  <2> DEFINE table == [a \in Account |-> Restored(file[a])]
  <2>1. ASSUME NEW a \in Account
        PROVE  /\ Restored(file[a]) \in Figure /\ Restored(file[a]).at <= clock
               /\ \A w \in Restored(file[a]).windows : ~HasReset(w)
    <3>1. file[a] \in Figure /\ file[a].at <= clock  BY <1>0 DEF Table, Dated
    <3>2. Nothing \in Figure /\ Nothing.at <= clock /\ Nothing.windows = {}
      BY <1>0, EmptyTable DEF Nothing
    <3>3. QED  BY <3>1, <3>2 DEF Restored, Figure
  <2>2. table \in Table /\ Dated(table)  BY <2>1 DEF Table, Dated
  <2>3. /\ memory' = [memory EXCEPT ![d] = table]
        /\ task' = [t \in Task |-> IF Here(t) = d THEN Idle ELSE task[t]]
        /\ UNCHANGED <<clock, declared, serving, file>>
    BY <1>2 DEF Restart
  <2>4. \A a \in Account : \A w \in table[a].windows : ~HasReset(w)  BY <2>1
  <2> HIDE DEF table
  <2>5. memory'[d] = table /\ \A e \in Daemon \ {d} : memory'[e] = memory[e]
    BY <2>3 DEF FreshInv, TypeOK
  <2>6. TypeOK'  BY <2>2, <2>3, IdleTask DEF FreshInv, TypeOK
  <2>7. FreshFigureHolds' /\ (\A e \in Daemon : Dated(memory[e]))'
    BY <2>2, <2>3, <2>4, <2>5 DEF FreshInv, FreshFigureHolds, Dated, HasReset
  <2>8. ASSUME NEW t \in Task PROVE Measured(t)'
    <3>1. CASE task'[t] = Idle
      BY <1>0, <2>3, <3>1, IdleTask, EmptyTable DEF Measured, Dated
    <3>2. CASE task'[t] = task[t]
      BY <2>3, <3>2 DEF FreshInv, Measured, Dated, HasReset
    <3>3. QED  BY <2>3, <3>1, <3>2
  <2>9. Dated(file)'  BY <1>0, <2>3 DEF Dated
  <2>10. QED  BY <2>6, <2>7, <2>8, <2>9 DEF FreshInv
<1>3. QED  BY <1>1, <1>2

\* The invariant of the figures holds in every reachable state.
THEOREM FiguresInvariant == Spec => []FreshInv
<1>1. FreshInv /\ [Next]_vars => FreshInv'
  <2>1. FreshInv /\ UNCHANGED vars => FreshInv'
    BY DEF vars, figures, FreshInv, TypeOK, FreshFigureHolds, Dated, Measured, HasReset
  <2>2. FreshInv /\ Next => FreshInv'
    BY MeasureSteps, VerbSteps, WriteSteps, WorldSteps DEF Next
  <2>3. QED  BY <2>1, <2>2
<1>2. QED  BY <1>1, Starts, PTL DEF Spec

\* A figure is given a fresh age only with windows that have not reset, whichever
\* of a turn, a sweep, a status line, a rename or a restart gave it one (usage.rs,
\* carrying; control/handler.rs, record_usage).
THEOREM FreshFigures == Spec => []FreshFigureHolds
<1>1. FreshInv => FreshFigureHolds  BY DEF FreshInv
<1>2. QED  BY <1>1, FiguresInvariant, PTL
-----------------------------------------------------------------------------
(***************************************************************************)
(* One ask an hour.                                                        *)
(***************************************************************************)

\* When each account was asked for, never before a daemon could have.
Times == [Account -> {n \in Int : n >= 0 - Every}]

History == [work : Nat, faults : Nat, ghosts : SUBSET Account, asks : [Daemon -> Times],
            unremembered : SUBSET Daemon, tooSoon : BOOLEAN]

\* What a daemon remembers of its asks, and would be told by the file, is never
\* older than the ask, unless the file has lost it.
AskInv ==
  /\ asked \in [Daemon -> Times] /\ askedFile \in Times /\ past \in History
  /\ \A t \in Task : task[t].pc = "claim" => task[t].name \in Account
  /\ \A d \in Daemon \ past.unremembered, a \in Account :
       past.asks[d][a] <= asked[d][a] /\ past.asks[d][a] <= askedFile[a]
  /\ ~past.tooSoon

LEMMA AskStarts == Init => AskInv
<1> SUFFICES ASSUME Init PROVE AskInv
  OBVIOUS
<1>1. Unasked \in Times /\ \A a \in Account : Unasked[a] = 0 - Every
  BY QuotaAssumption DEF Unasked, Times
<1>2. past \in History  BY <1>1 DEF Init, History
<1>3. \A d \in Daemon, a \in Account :
        past.asks[d][a] <= asked[d][a] /\ past.asks[d][a] <= askedFile[a]
  BY <1>1, QuotaAssumption DEF Init
<1>4. QED  BY <1>1, <1>2, <1>3, IdleTask DEF Init, AskInv

\* A step that asks nothing, whatever else it counts.
LEMMA AsksKept ==
  ASSUME AskInv, UNCHANGED <<asked, askedFile>>, past' \in History,
         past'.asks = past.asks, past'.unremembered = past.unremembered,
         past'.tooSoon = past.tooSoon,
         \A t \in Task : task'[t].pc = "claim" => task'[t].name \in Account
  PROVE  AskInv'
  BY DEF AskInv

\* A step of one task that asks nothing.
LEMMA AsksKeptBy ==
  ASSUME FreshInv, AskInv, UNCHANGED <<asked, askedFile>>, past' \in History,
         past'.asks = past.asks, past'.unremembered = past.unremembered,
         past'.tooSoon = past.tooSoon,
         NEW t \in Task, NEW r, task' = [task EXCEPT ![t] = r],
         r.pc = "claim" => r.name \in Account
  PROVE  AskInv'
<1>1. \A u \in Task : task'[u].pc = "claim" => task'[u].name \in Account
  BY DEF FreshInv, TypeOK, AskInv
<1>2. QED  BY <1>1, AsksKept

\* A claim that is made: at the time of its asking the hour is over.
LEMMA ClaimStep == ASSUME FreshInv, AskInv, NEW t \in Task, ClaimAsk(t) PROVE AskInv'
<1> DEFINE d == Here(t)
           a == task[t].name
<1>0. /\ clock \in Nat /\ d \in Daemon /\ a \in Account /\ Every \in Nat \ {0}
      /\ task \in [Task -> Doing] /\ asked \in [Daemon -> Times] /\ past \in History
  BY TaskFields, QuotaAssumption DEF ClaimAsk, AskInv, FreshInv, TypeOK
<1>1. CASE UNCHANGED <<asks, past>> /\ task' = [task EXCEPT ![t] = Idle]
  BY <1>1, IdleTask, AsksKeptBy DEF asks, AskInv
<1>2. ASSUME NEW unwritten \in BOOLEAN, Asking(t, unwritten), ~Held(t), Goto(t, "fetch"),
             asked' = [asked EXCEPT ![d][a] = clock],
             IF unwritten THEN UNCHANGED askedFile ELSE askedFile' = asked'[d]
      PROVE  AskInv'
  <2> DEFINE soon == d \notin past.unremembered /\ clock - past.asks[d][a] < Every
             lost == IF unwritten THEN Daemon ELSE Daemon \ {d}
             left == {e \in lost : asked[e] # Unasked \/ e = d}
  <2>1. past' = [past EXCEPT !.asks[d][a] = clock, !.tooSoon = @ \/ soon,
                             !.faults = @ + IF unwritten THEN 1 ELSE 0,
                             !.unremembered = @ \cup left]
    BY <1>2 DEF Asking
  <2>2. ~soon
    <3>1. /\ clock - asked[d][a] >= Every
          /\ asked[d][a] \in Int /\ past.asks[d][a] \in Int
      BY <1>0, <1>2 DEF Held, Times, History
    <3>2. d \notin past.unremembered => past.asks[d][a] <= asked[d][a]  BY <1>0 DEF AskInv
    <3>3. QED  BY <1>0, <3>1, <3>2
  <2>3. left \subseteq Daemon  OBVIOUS
  <2> HIDE DEF soon
  <2>4. /\ past.asks \in [Daemon -> Times] /\ past.asks[d] \in Times /\ clock \in {n \in Int : n >= 0 - Every}
        /\ past.tooSoon = FALSE
    BY <1>0 DEF History, AskInv
  <2>5. /\ past'.asks = [past.asks EXCEPT ![d] = [@ EXCEPT ![a] = clock]]
        /\ past'.unremembered = past.unremembered \cup left
        /\ past'.tooSoon = FALSE
    <3> HIDE DEF left
    <3>1. QED  BY <1>0, <2>1, <2>2, <2>4 DEF History
  <2>6. past'.asks \in [Daemon -> Times] /\ asked' \in [Daemon -> Times]
    BY <1>0, <1>2, <2>4, <2>5 DEF Times
  <2>7. past' \in History
    <3> HIDE DEF left
    <3> DEFINE more == IF unwritten THEN 1 ELSE 0
    <3>1. more \in Nat  OBVIOUS
    <3>2. past' = [past EXCEPT !.asks = past'.asks, !.tooSoon = past'.tooSoon,
                               !.faults = @ + more, !.unremembered = past'.unremembered]
      <4> HIDE DEF more
      <4>1. past' = [past EXCEPT !.asks[d][a] = clock, !.tooSoon = @ \/ soon,
                                 !.faults = @ + more, !.unremembered = @ \cup left]
        BY <2>1 DEF more
      <4>2. QED  BY <1>0, <4>1 DEF History
    <3> HIDE DEF more
    <3>3. past.faults + more \in Nat  BY <1>0, <3>1 DEF History
    <3>4. past'.unremembered \subseteq Daemon
      <4>1. past.unremembered \subseteq Daemon  BY <1>0 DEF History
      <4>2. QED  BY <2>3, <2>5, <4>1
    <3>5. past'.tooSoon \in BOOLEAN  BY <2>5
    <3>6. QED  BY <1>0, <2>6, <3>2, <3>3, <3>4, <3>5 DEF History
  <2>8. askedFile' \in Times  BY <1>0, <1>2, <2>6 DEF AskInv
  <2>9. ASSUME NEW e \in Daemon \ past'.unremembered, NEW b \in Account
        PROVE  past'.asks[e][b] <= asked'[e][b] /\ past'.asks[e][b] <= askedFile'[b]
    <3>1. e \notin past.unremembered /\ e \notin left  BY <2>5
    <3>2. IF e = d THEN ~unwritten ELSE asked[e] = Unasked  BY <3>1
    <3>3. e = d => askedFile' = asked'[d]  BY <1>2, <3>2
    <3>4. past.asks[e][b] <= asked[e][b] /\ past.asks[e][b] \in Int /\ asked[e][b] \in Int
      BY <1>0, <2>4, <3>1 DEF AskInv, Times
    <3>5. CASE e = d
      <4>1. past'.asks[e][b] = IF b = a THEN clock ELSE past.asks[e][b]
        BY <1>0, <2>4, <2>5, <3>5 DEF Times
      <4>2. asked'[e][b] = IF b = a THEN clock ELSE asked[e][b]
        BY <1>0, <1>2, <3>5 DEF Times
      <4>3. QED  BY <1>0, <3>3, <3>4, <3>5, <4>1, <4>2
    <3>6. CASE e # d
      <4>1. past'.asks[e][b] = past.asks[e][b] /\ asked'[e][b] = asked[e][b]
        BY <1>0, <1>2, <2>4, <2>5, <3>6
      <4>2. asked[e][b] = 0 - Every  BY <3>2, <3>6 DEF Unasked
      <4>3. askedFile'[b] >= 0 - Every /\ askedFile'[b] \in Int  BY <2>8 DEF Times
      <4>4. QED  BY <1>0, <3>4, <4>1, <4>2, <4>3
    <3>7. QED  BY <3>5, <3>6
  <2>10. \A u \in Task : task'[u].pc = "claim" => task'[u].name \in Account
    BY <1>0, <1>2 DEF Goto, AskInv, Doing
  <2>11. QED  BY <2>5, <2>6, <2>7, <2>8, <2>9, <2>10 DEF AskInv
<1>3. QED
  <2>1. CASE Held(t)  BY <1>1, <2>1 DEF ClaimAsk
  <2>2. CASE ~Held(t)
    <3>1. asked' = [asked EXCEPT ![d][a] = clock] /\ Goto(t, "fetch")
      BY <2>2 DEF ClaimAsk
    <3>2. \/ askedFile' = asked'[d] /\ Asking(t, FALSE)
          \/ Asking(t, TRUE) /\ UNCHANGED askedFile
      BY <2>2 DEF ClaimAsk
    <3>3. QED  BY <1>2, <2>2, <3>1, <3>2
  <2>3. QED  BY <2>1, <2>2

\* What a step writes down that asks nothing.
LEMMA WrittenDown ==
  ASSUME past \in History, NEW w \in Nat, NEW f \in Nat, NEW ghosts \in SUBSET Account,
         past' = [past EXCEPT !.work = w, !.faults = f, !.ghosts = ghosts]
  PROVE  /\ past' \in History /\ past'.asks = past.asks
         /\ past'.unremembered = past.unremembered /\ past'.tooSoon = past.tooSoon
         /\ past'.ghosts = ghosts
  BY DEF History

LEMMA WorkedDown ==
  ASSUME past \in History, Worked
  PROVE  /\ past' \in History /\ past'.asks = past.asks
         /\ past'.unremembered = past.unremembered /\ past'.tooSoon = past.tooSoon
         /\ past'.ghosts = past.ghosts
  BY DEF Worked, History

\* What a task drops is an account.
LEMMA Droppings ==
  ASSUME FreshInv
  PROVE  \A t \in Task : {task[t].dropped} \ {None} \subseteq Account
  BY TaskFields DEF Doing

LEMMA AskSteps == ASSUME FreshInv, AskInv, NEW t \in Task, Measures(t) PROVE AskInv'
<1>0. /\ past \in History /\ declared \subseteq Account /\ task \in [Task -> Doing]
  BY DEF AskInv, FreshInv, TypeOK
<1>1. CASE Turn(t)
  <2>1. PICK a \in declared \cup {None} :
          task' = [task EXCEPT ![t] = [Idle EXCEPT !.pc = "record", !.name = a,
                                                   !.windows = {Hours}]]
    BY <1>1 DEF Turn
  <2> DEFINE r == [Idle EXCEPT !.pc = "record", !.name = a, !.windows = {Hours}]
  <2>2. r.pc = "record"  BY DEF Idle
  <2>3. UNCHANGED <<asked, askedFile>> /\ Worked  BY <1>1 DEF Turn, asks
  <2> HIDE DEF r
  <2>4. QED  BY <1>0, <2>1, <2>2, <2>3, WorkedDown, AsksKeptBy DEF r
<1>2. CASE Sweep(t)
  <2>1. PICK a \in declared :
          task' = [task EXCEPT ![t] = [Idle EXCEPT !.pc = "claim", !.name = a]]
    BY <1>2 DEF Sweep
  <2> DEFINE r == [Idle EXCEPT !.pc = "claim", !.name = a]
  <2>2. r.name \in Account  BY <1>0, <2>1 DEF Idle
  <2>3. UNCHANGED <<asked, askedFile>> /\ Worked  BY <1>2 DEF Sweep, asks
  <2> HIDE DEF r
  <2>4. QED  BY <1>0, <2>1, <2>2, <2>3, WorkedDown, AsksKeptBy DEF r
<1>3. CASE ClaimAsk(t)  BY <1>3, ClaimStep
<1>4. CASE Fetched(t)
  <2> DEFINE r == [task[t] EXCEPT !.pc = "record", !.windows = {Hours, Model}]
  <2>1. /\ UNCHANGED <<asked, askedFile, past>>
        /\ task' = [task EXCEPT ![t] = r] \/ task' = [task EXCEPT ![t] = Idle]
    BY <1>4 DEF Fetched, asks
  <2>2. r.pc = "record"  BY <1>0 DEF Doing
  <2> HIDE DEF r
  <2>3. QED  BY <1>0, <2>1, <2>2, IdleTask, AsksKeptBy
<1>5. CASE StatusLine(t)
  <2>1. PICK a \in declared :
          LET kept == {w \in memory[Here(t)][a].windows : w.name # "hours" /\ ~HasReset(w)}
          IN task' = [task EXCEPT ![t] = [Idle EXCEPT !.pc = "record", !.name = a,
                                                      !.windows = kept \cup {Hours}]]
    BY <1>5 DEF StatusLine
  <2> DEFINE kept == {w \in memory[Here(t)][a].windows : w.name # "hours" /\ ~HasReset(w)}
             r == [Idle EXCEPT !.pc = "record", !.name = a, !.windows = kept \cup {Hours}]
  <2>2. r.pc = "record"  BY DEF Idle
  <2>3. task' = [task EXCEPT ![t] = r] /\ UNCHANGED <<asked, askedFile>> /\ Worked
    BY <1>5, <2>1 DEF StatusLine, asks
  <2> HIDE DEF r
  <2>4. QED  BY <1>0, <2>2, <2>3, WorkedDown, AsksKeptBy
<1>6. CASE Record(t)
  <2>1. /\ UNCHANGED <<asked, askedFile, past>>
        /\ \E r : task' = [task EXCEPT ![t] = r] /\ r.pc # "claim"
    BY <1>6, IdleTask DEF Record, asks, Idle
  <2>2. QED  BY <1>0, <2>1, AsksKeptBy
<1>7. QED  BY <1>1, <1>2, <1>3, <1>4, <1>5, <1>6 DEF Measures

\* An account that goes is counted, and with what may return.
LEMMA GoneDown ==
  ASSUME past \in History, NEW t \in Task, NEW a \in Account, Gone(t, a)
  PROVE  /\ past' \in History /\ past'.asks = past.asks
         /\ past'.unremembered = past.unremembered /\ past'.tooSoon = past.tooSoon
         /\ past'.ghosts = IF Returns(t, a) THEN past.ghosts \cup {a} ELSE past.ghosts
<1> DEFINE ghosts == IF Returns(t, a) THEN past.ghosts \cup {a} ELSE past.ghosts
<1>1. past' = [past EXCEPT !.work = past.work + 1, !.faults = past.faults, !.ghosts = ghosts]
  BY DEF Gone, History
<1>2. ghosts \in SUBSET Account /\ past.work + 1 \in Nat /\ past.faults \in Nat  BY DEF History
<1>3. /\ past' \in History /\ past'.asks = past.asks
      /\ past'.unremembered = past.unremembered /\ past'.tooSoon = past.tooSoon
      /\ past'.ghosts = ghosts
  <2> HIDE DEF ghosts
  <2>1. QED  BY <1>1, <1>2, WrittenDown
<1>4. QED  BY <1>3

\* A file replaced or not, and a daemon's death, leave the asks as they were.
LEMMA ReplaceDown ==
  ASSUME FreshInv, past \in History, NEW t \in Task, Replace(t)
  PROVE  /\ past' \in History /\ past'.asks = past.asks
         /\ past'.unremembered = past.unremembered /\ past'.tooSoon = past.tooSoon
<1> DEFINE crossed == {a \in {task[t].dropped} \ {None} : \E o \in Reading \ {t} : Brings(o, a)}
<1>1. {task[t].dropped} \ {None} \subseteq Account /\ crossed \subseteq Account
  BY Droppings
<1>2. past.work \in Nat /\ past.faults \in Nat /\ past.ghosts \subseteq Account
  BY DEF History
<1>3. CASE past' = [past EXCEPT !.ghosts = @ \cup crossed]
  <2> HIDE DEF crossed
  <2>1. past' = [past EXCEPT !.work = past.work, !.faults = past.faults,
                             !.ghosts = past.ghosts \cup crossed]
    BY <1>3 DEF History
  <2>2. past.ghosts \cup crossed \in SUBSET Account  BY <1>1, <1>2
  <2>3. QED  BY <1>2, <2>1, <2>2, WrittenDown
<1>4. CASE past' = [past EXCEPT !.faults = @ + IF task[t].late THEN 0 ELSE 1,
                                !.ghosts = @ \cup ({task[t].dropped} \ {None})]
  <2> DEFINE more == IF task[t].late THEN 0 ELSE 1
             ghosts == past.ghosts \cup ({task[t].dropped} \ {None})
  <2>1. past' = [past EXCEPT !.work = past.work, !.faults = past.faults + more,
                             !.ghosts = ghosts]
    BY <1>4 DEF History
  <2>2. ghosts \in SUBSET Account /\ past.faults + more \in Nat  BY <1>1, <1>2
  <2> HIDE DEF more, ghosts
  <2>3. QED  BY <1>2, <2>1, <2>2, WrittenDown
<1>5. QED  BY <1>3, <1>4 DEF Replace

LEMMA OtherAsks ==
  ASSUME FreshInv, AskInv, NEW t \in Task, Writes(t) \/ Verbs(t)
  PROVE  AskInv'
<1>0. /\ past \in History /\ task \in [Task -> Doing]
  BY DEF AskInv, FreshInv, TypeOK
<1>1. CASE Read(t)
  <2> DEFINE r == [task[t] EXCEPT !.pc = "merge", !.read = file]
  <2>1. UNCHANGED <<asked, askedFile, past>> /\ task' = [task EXCEPT ![t] = r]
    BY <1>1 DEF Read, asks
  <2>2. r.pc = "merge"  BY <1>0 DEF Doing
  <2> HIDE DEF r
  <2>3. QED  BY <1>0, <2>1, <2>2, AsksKeptBy
<1>2. CASE Merge(t)
  <2>1. PICK body : task' = [task EXCEPT ![t].pc = "replace", ![t].read = Empty, ![t].body = body]
    BY <1>2 DEF Merge
  <2> DEFINE r == [task[t] EXCEPT !.pc = "replace", !.read = Empty, !.body = body]
  <2>2. task' = [task EXCEPT ![t] = r] /\ UNCHANGED <<asked, askedFile, past>>
    BY <1>2, <2>1 DEF Merge, asks
  <2>3. r.pc = "replace"  BY <1>0 DEF Doing
  <2> HIDE DEF r
  <2>4. QED  BY <1>0, <2>2, <2>3, AsksKeptBy
<1>3. CASE Replace(t)
  <2>1. UNCHANGED <<asked, askedFile>>  BY <1>3 DEF Replace, asks
  <2>2. ASSUME NEW o \in Task PROVE task'[o].pc = "claim" => task'[o].name \in Account
    <3>1. \/ task'[o] = Idle \/ task'[o] = task[o]
          \/ task'[o] = [task[o] EXCEPT !.late = TRUE]
      BY <1>0, <1>3 DEF Replace
    <3>2. QED  BY <1>0, <3>1, IdleTask DEF AskInv, Doing
  <2>3. QED  BY <1>0, <1>3, <2>1, <2>2, ReplaceDown, AsksKept
<1>4. ASSUME NEW a \in Account, Forget(t, a) \/ \E b \in Account : Rename(t, a, b)
      PROVE  AskInv'
  <2>1. /\ UNCHANGED <<asked, askedFile>> /\ Gone(t, a)
        /\ task' = [task EXCEPT ![t] = [Idle EXCEPT !.pc = "read", !.dropped = a]]
    BY <1>4 DEF Forget, Rename, asks
  <2>2. [Idle EXCEPT !.pc = "read", !.dropped = a].pc # "claim"  BY DEF Idle
  <2>3. QED  BY <1>0, <2>1, <2>2, GoneDown, AsksKeptBy
<1>5. ASSUME NEW a \in Account, Select(t, a) PROVE AskInv'
  <2>1. UNCHANGED <<asked, askedFile, task>> /\ Worked  BY <1>5 DEF Select, asks
  <2>2. \A u \in Task : task'[u].pc = "claim" => task'[u].name \in Account
    BY <2>1 DEF AskInv
  <2>3. QED  BY <1>0, <2>1, <2>2, WorkedDown, AsksKept
<1>6. QED  BY <1>1, <1>2, <1>3, <1>4, <1>5 DEF Writes, Verbs

LEMMA RestartDown ==
  ASSUME FreshInv, past \in History, NEW d \in Daemon, Restart(d)
  PROVE  /\ past' \in History /\ past'.asks = past.asks
         /\ past'.unremembered = past.unremembered /\ past'.tooSoon = past.tooSoon
         /\ past'.ghosts = past.ghosts \cup ({task[t].dropped : t \in Task} \ {None})
<1> DEFINE ghosts == past.ghosts \cup ({task[t].dropped : t \in Task} \ {None})
<1>1. past' = [past EXCEPT !.work = past.work, !.faults = past.faults + 1, !.ghosts = ghosts]
  BY DEF Restart, History
<1>2. past.work \in Nat /\ past.faults + 1 \in Nat /\ ghosts \in SUBSET Account
  BY Droppings DEF History
<1> HIDE DEF ghosts
<1>3. QED  BY <1>1, <1>2, WrittenDown DEF ghosts

\* A daemon started again knows what the file knows.
LEMMA WorldAsks ==
  ASSUME FreshInv, AskInv, Tick \/ \E d \in Daemon : Restart(d)
  PROVE  AskInv'
<1>1. CASE Tick  BY <1>1 DEF Tick, asks, AskInv
<1>2. ASSUME NEW d \in Daemon, Restart(d) PROVE AskInv'
  <2>0. past \in History  BY DEF AskInv
  <2>1. /\ asked' = [asked EXCEPT ![d] = askedFile] /\ askedFile' = askedFile
        /\ task' = [t \in Task |-> IF Here(t) = d THEN Idle ELSE task[t]]
    BY <1>2 DEF Restart
  <2>2. /\ past' \in History /\ past'.asks = past.asks
        /\ past'.unremembered = past.unremembered /\ past'.tooSoon = past.tooSoon
    BY <1>2, <2>0, RestartDown
  <2>3. \A t \in Task : task'[t].pc = "claim" => task'[t].name \in Account
    BY <2>1, IdleTask DEF AskInv
  <2>4. QED  BY <2>1, <2>2, <2>3 DEF AskInv
<1>3. QED  BY <1>1, <1>2

\* The claims that a daemon, its tasks and the file hold of each account are
\* no older than the last ask, unless the file lost it (usage.rs, claim_ask).
THEOREM AsksInvariant == Spec => []AskInv
<1>1. FreshInv /\ AskInv /\ [Next]_vars => AskInv'
  <2>1. AskInv /\ UNCHANGED vars => AskInv'  BY DEF vars, asks, AskInv
  <2>2. FreshInv /\ AskInv /\ Next => AskInv'
    BY AskSteps, OtherAsks, WorldAsks DEF Next
  <2>3. QED  BY <2>1, <2>2
<1>2. QED  BY <1>1, AskStarts, FiguresInvariant, PTL DEF Spec

\* A daemon asks for an account at most once an hour, answered or not, through
\* restarts, for any number of daemons and sweeps (usage.rs, claim_ask).
THEOREM AskedOnceAnHour == Spec => []AskedHourly
<1>1. AskInv => AskedHourly  BY DEF AskInv, AskedHourly
<1>2. QED  BY <1>1, AsksInvariant, PTL

-----------------------------------------------------------------------------
(***************************************************************************)
(* What is gone stays gone, and what is later is kept.                     *)
(***************************************************************************)

\* A task that is not writing the file holds nothing of it, and what it drops is
\* not in what it writes.
Handles(t) ==
  /\ task[t].pc \notin {"merge", "replace"} => task[t].read = Empty
  /\ task[t].pc # "replace" => task[t].body = Empty
  /\ task[t].dropped # None =>
       /\ task[t].pc \in {"read", "merge", "replace"}
       /\ task[t].body[task[t].dropped] = Nothing

\* Nothing that measures or writes can bring an account back, but for a task still
\* to drop it from the file.
Buried(a) ==
  /\ \A d \in Daemon : memory[d][a] = Nothing
  /\ \A t \in Task : task[t].pc \in {"claim", "fetch", "record"} => task[t].name # a
  /\ \/ \E t \in Task : task[t].dropped = a
     \/ file[a] = Nothing /\ \A t \in Task : ~Brings(t, a)

GoneInv ==
  /\ serving \in declared \cup {None}
  /\ \A t \in Task : Handles(t)
  /\ \A a \in Account \ (declared \cup past.ghosts) : Buried(a)

LEMMA IdleHolds ==
  /\ Idle.pc = "idle" /\ Idle.dropped = None
  /\ \A a \in Account : Idle.read[a] = Nothing /\ Idle.body[a] = Nothing /\ a # None
  BY QuotaAssumption DEF Idle, Empty

LEMMA GoneStarts == Init => GoneInv
<1> SUFFICES ASSUME Init PROVE GoneInv
  OBVIOUS
<1>1. \A t \in Task : task[t] = Idle  BY DEF Init
<1>2. \A t \in Task : Handles(t)  BY <1>1, IdleHolds, IdleTask DEF Handles
<1>3. \A a \in Account : Buried(a)  BY <1>1, IdleHolds DEF Init, Buried, Brings, Empty
<1>4. QED  BY <1>2, <1>3 DEF Init, GoneInv

\* A task changes: what was gone is still gone, if the task neither measures it nor
\* has it in hand.
LEMMA BuriedStill ==
  ASSUME task \in [Task -> Doing], NEW a \in Account, Buried(a),
         UNCHANGED file, \A d \in Daemon : memory'[d][a] = Nothing,
         NEW t \in Task, NEW r, task' = [task EXCEPT ![t] = r],
         r.pc \in {"claim", "fetch", "record"} => r.name # a,
         task[t].dropped = a => r.dropped = a,
         file[a] = Nothing /\ ~Brings(t, a) => r.read[a] = Nothing /\ r.body[a] = Nothing
  PROVE  Buried(a)'
<1>1. task'[t] = r /\ \A u \in Task \ {t} : task'[u] = task[u]  OBVIOUS
<1>2. (\A u \in Task : task[u].pc \in {"claim", "fetch", "record"} => task[u].name # a)'
  BY <1>1 DEF Buried
<1>3. CASE \E u \in Task : task[u].dropped = a
  BY <1>1, <1>2, <1>3 DEF Buried
<1>4. CASE file[a] = Nothing /\ \A u \in Task : ~Brings(u, a)
  <2>1. (\A u \in Task : ~Brings(u, a))'  BY <1>1, <1>4 DEF Brings
  <2>2. QED  BY <1>2, <1>4, <2>1 DEF Buried
<1>5. QED  BY <1>3, <1>4 DEF Buried

LEMMA HandlesStill ==
  ASSUME task \in [Task -> Doing], \A u \in Task : Handles(u),
         NEW t \in Task, NEW r, task' = [task EXCEPT ![t] = r],
         r.pc \notin {"merge", "replace"} => r.read = Empty,
         r.pc # "replace" => r.body = Empty,
         r.dropped # None =>
           r.pc \in {"read", "merge", "replace"} /\ r.body[r.dropped] = Nothing
  PROVE  (\A u \in Task : Handles(u))'
<1>1. task'[t] = r /\ \A u \in Task \ {t} : task'[u] = task[u]  OBVIOUS
<1>2. QED  BY <1>1 DEF Handles

\* The step of a task that takes up nothing but what is declared, or goes on with
\* what it has.
LEMMA GoneStillBy ==
  ASSUME FreshInv, GoneInv, UNCHANGED <<file, declared>>, past.ghosts \subseteq past'.ghosts,
         serving' \in declared \cup {None},
         \A d \in Daemon, a \in Account \ (declared \cup past.ghosts) :
           memory'[d][a] = memory[d][a],
         NEW t \in Task, NEW r, task' = [task EXCEPT ![t] = r],
         r.pc \notin {"merge", "replace"} => r.read = Empty,
         r.pc # "replace" => r.body = Empty,
         r.dropped # None =>
           r.pc \in {"read", "merge", "replace"} /\ r.body[r.dropped] = Nothing,
         r.pc \in {"claim", "fetch", "record"} =>
           \/ r.name \in declared \cup {None}
           \/ r.name = task[t].name /\ task[t].pc \in {"claim", "fetch", "record"},
         \A a \in Account \ past'.ghosts :
           /\ task[t].dropped = a => r.dropped = a
           /\ file[a] = Nothing /\ ~Brings(t, a) =>
                r.read[a] = Nothing /\ r.body[a] = Nothing
  PROVE  GoneInv'
<1>0. task \in [Task -> Doing]  BY DEF FreshInv, TypeOK
<1>1. (\A u \in Task : Handles(u))'  BY <1>0, HandlesStill DEF GoneInv
<1>2. ASSUME NEW a \in Account \ (declared \cup past'.ghosts) PROVE Buried(a)'
  <2>1. a \in Account \ (declared \cup past.ghosts) /\ Buried(a)  BY DEF GoneInv
  <2>2. \A d \in Daemon : memory'[d][a] = Nothing  BY <2>1 DEF Buried
  <2>3. r.pc \in {"claim", "fetch", "record"} => r.name # a  BY <2>1, IdleHolds DEF Buried
  <2>4. QED  BY <1>0, <2>1, <2>2, <2>3, BuriedStill
<1>3. QED  BY <1>1, <1>2 DEF GoneInv

\* What a task that measures nothing, or nothing yet, has in hand.
LEMMA InHand ==
  ASSUME FreshInv, GoneInv, NEW t \in Task
  PROVE  /\ task[t] \in Doing /\ Handles(t)
         /\ task[t].pc \notin {"read", "merge", "replace"} => task[t].dropped = None
  BY TaskFields DEF GoneInv, Handles

LEMMA GoneMeasures ==
  ASSUME FreshInv, AskInv, GoneInv, NEW t \in Task, Measures(t)
  PROVE  GoneInv'
<1>0. /\ declared \subseteq Account /\ serving \in declared \cup {None}
      /\ task \in [Task -> Doing] /\ memory \in [Daemon -> Table] /\ past \in History
  BY DEF FreshInv, TypeOK, AskInv, GoneInv
<1>1. /\ task[t].pc \in {"idle", "claim", "fetch", "record"} => task[t].dropped = None
      /\ \A a \in Account : task[t].dropped = a =>
           task[t].pc \notin {"idle", "claim", "fetch", "record"}
  BY InHand, IdleHolds
\* The task goes idle, or on.
<1>2. ASSUME UNCHANGED <<file, declared, serving, memory>>, past'.ghosts = past.ghosts,
             task[t].pc \in {"idle", "claim", "fetch", "record"},
             NEW r, task' = [task EXCEPT ![t] = r], r.read = Empty, r.body = Empty,
             r.dropped = None,
             r.pc \in {"claim", "fetch", "record"} =>
               \/ r.name \in declared \cup {None}
               \/ r.name = task[t].name /\ task[t].pc \in {"claim", "fetch", "record"}
      PROVE  GoneInv'
  BY <1>0, <1>1, <1>2, IdleHolds, GoneStillBy DEF Empty
<1>3. CASE Turn(t)
  <2>1. PICK a \in declared \cup {None} :
          task' = [task EXCEPT ![t] = [Idle EXCEPT !.pc = "record", !.name = a,
                                                   !.windows = {Hours}]]
    BY <1>3 DEF Turn
  <2> DEFINE r == [Idle EXCEPT !.pc = "record", !.name = a, !.windows = {Hours}]
  <2>2. r.name = a /\ r.read = Empty /\ r.body = Empty /\ r.dropped = None  BY DEF Idle
  <2>3. UNCHANGED <<file, declared, serving, memory>> /\ Worked /\ task[t].pc = "idle"
    BY <1>3 DEF Turn, figures
  <2> HIDE DEF r
  <2>4. QED  BY <1>0, <1>2, <2>1, <2>2, <2>3, WorkedDown DEF r
<1>4. CASE Sweep(t)
  <2>1. PICK a \in declared :
          task' = [task EXCEPT ![t] = [Idle EXCEPT !.pc = "claim", !.name = a]]
    BY <1>4 DEF Sweep
  <2> DEFINE r == [Idle EXCEPT !.pc = "claim", !.name = a]
  <2>2. r.name = a /\ r.read = Empty /\ r.body = Empty /\ r.dropped = None  BY DEF Idle
  <2>3. UNCHANGED <<file, declared, serving, memory>> /\ Worked /\ task[t].pc = "idle"
    BY <1>4 DEF Sweep, figures
  <2> HIDE DEF r
  <2>4. QED  BY <1>0, <1>2, <2>1, <2>2, <2>3, WorkedDown DEF r
<1>5. CASE ClaimAsk(t)
  <2>1. UNCHANGED <<file, declared, serving, memory>> /\ task[t].pc = "claim"
    BY <1>5 DEF ClaimAsk, figures
  <2>2. past'.ghosts = past.ghosts  BY <1>0, <1>5 DEF ClaimAsk, Asking, History
  <2>3. CASE task' = [task EXCEPT ![t] = Idle]
    BY <1>2, <2>1, <2>2, <2>3, IdleHolds, IdleTask
  <2>4. CASE Goto(t, "fetch")
    <3> DEFINE r == [task[t] EXCEPT !.pc = "fetch"]
    <3>1. /\ r.name = task[t].name /\ r.read = task[t].read /\ r.body = task[t].body
          /\ r.dropped = task[t].dropped
      BY InHand DEF Doing
    <3>2. task[t].read = Empty /\ task[t].body = Empty  BY <2>1, InHand DEF Handles
    <3>3. task' = [task EXCEPT ![t] = r]  BY <2>4 DEF Goto
    <3> HIDE DEF r
    <3>4. QED  BY <1>1, <1>2, <2>1, <2>2, <3>1, <3>2, <3>3
  <2>5. QED  BY <1>5, <2>3, <2>4 DEF ClaimAsk
<1>6. CASE Fetched(t)
  <2>1. UNCHANGED <<file, declared, serving, memory, past>> /\ task[t].pc = "fetch"
    BY <1>6 DEF Fetched, figures
  <2>2. CASE task' = [task EXCEPT ![t] = Idle]
    BY <1>2, <2>1, <2>2, IdleHolds, IdleTask
  <2>3. CASE task' = [task EXCEPT ![t].pc = "record", ![t].windows = {Hours, Model}]
    <3> DEFINE r == [task[t] EXCEPT !.pc = "record", !.windows = {Hours, Model}]
    <3>1. /\ r.name = task[t].name /\ r.read = task[t].read /\ r.body = task[t].body
          /\ r.dropped = task[t].dropped
      BY InHand DEF Doing
    <3>2. task[t].read = Empty /\ task[t].body = Empty  BY <2>1, InHand DEF Handles
    <3>3. task' = [task EXCEPT ![t] = r]  BY <2>3
    <3> HIDE DEF r
    <3>4. QED  BY <1>1, <1>2, <2>1, <3>1, <3>2, <3>3
  <2>4. QED  BY <1>6, <2>2, <2>3 DEF Fetched
<1>7. CASE StatusLine(t)
  <2>1. PICK a \in declared :
          LET kept == {w \in memory[Here(t)][a].windows : w.name # "hours" /\ ~HasReset(w)}
          IN task' = [task EXCEPT ![t] = [Idle EXCEPT !.pc = "record", !.name = a,
                                                      !.windows = kept \cup {Hours}]]
    BY <1>7 DEF StatusLine
  <2> DEFINE kept == {w \in memory[Here(t)][a].windows : w.name # "hours" /\ ~HasReset(w)}
             r == [Idle EXCEPT !.pc = "record", !.name = a, !.windows = kept \cup {Hours}]
  <2>2. r.name = a /\ r.read = Empty /\ r.body = Empty /\ r.dropped = None  BY DEF Idle
  <2>3. /\ task' = [task EXCEPT ![t] = r] /\ UNCHANGED <<file, declared, serving, memory>>
        /\ Worked /\ task[t].pc = "idle"
    BY <1>7, <2>1 DEF StatusLine, figures
  <2> HIDE DEF r
  <2>4. QED  BY <1>0, <1>2, <2>1, <2>2, <2>3, WorkedDown
\* What is filed is filed under a name that has not gone.
<1>8. CASE Record(t)
  <2> DEFINE name == IF task[t].name # None THEN task[t].name ELSE serving
  <2>1. UNCHANGED <<file, declared, serving, past>> /\ task[t].pc = "record"
    BY <1>8 DEF Record
  <2>2. CASE name = None
    <3>1. task' = [task EXCEPT ![t] = Idle] /\ UNCHANGED memory  BY <1>8, <2>2 DEF Record
    <3>2. QED  BY <1>2, <2>1, <3>1, IdleHolds, IdleTask
  <2>3. CASE name # None
    <3> DEFINE r == [Idle EXCEPT !.pc = "read"]
    <3>1. PICK filed : memory' = [memory EXCEPT ![Here(t)][name] = filed]
      BY <1>8, <2>3 DEF Record
    <3>2. task' = [task EXCEPT ![t] = r]  BY <1>8, <2>3 DEF Record
    <3>3. \A a \in Account \ (declared \cup past.ghosts) : name # a
      BY <1>0, <2>1, <2>3 DEF GoneInv, Buried
    <3>4. r.pc = "read" /\ r.read = Empty /\ r.body = Empty /\ r.dropped = None  BY DEF Idle
    <3> HIDE DEF name, r
    <3>5. \A d \in Daemon, a \in Account \ (declared \cup past.ghosts) :
            memory'[d][a] = memory[d][a]
      BY <1>0, <3>1, <3>3, HereIsDaemon DEF Table
    <3>6. QED  BY <1>0, <1>1, <2>1, <3>2, <3>4, <3>5, IdleHolds, GoneStillBy DEF Empty
  <2>4. QED  BY <2>2, <2>3
<1>9. QED  BY <1>3, <1>4, <1>5, <1>6, <1>7, <1>8 DEF Measures

\* An account goes: what could bring it back is set apart, and the task is to drop
\* it from the file.
LEMMA GoneGoes ==
  ASSUME FreshInv, AskInv, GoneInv, NEW t \in Task, NEW a \in declared, task[t].pc = "idle",
         NEW named, declared' = (declared \ {a}) \cup named, Gone(t, a), UNCHANGED file,
         serving' \in declared' \cup {None},
         task' = [task EXCEPT ![t] = [Idle EXCEPT !.pc = "read", !.dropped = a]],
         \A d \in Daemon \ {Here(t)} : memory'[d] = memory[d],
         memory'[Here(t)][a] = Nothing,
         \A b \in Account \ (named \cup {a}) : memory'[Here(t)][b] = memory[Here(t)][b]
  PROVE  GoneInv'
<1> DEFINE r == [Idle EXCEPT !.pc = "read", !.dropped = a]
<1>0. /\ task \in [Task -> Doing] /\ past \in History /\ a \in Account
      /\ task' = [task EXCEPT ![t] = r]
      /\ \A b \in Account : task[t].dropped # b
  BY InHand, IdleHolds DEF FreshInv, TypeOK, AskInv
<1>1. /\ r.pc = "read" /\ r.read = Empty /\ r.body = Empty /\ r.dropped = a
      /\ r.body[r.dropped] = Nothing
  BY <1>0 DEF Idle, Empty
<1> HIDE DEF r
<1>2. (\A u \in Task : Handles(u))'  BY <1>0, <1>1, HandlesStill DEF GoneInv
<1>3. past'.ghosts = IF Returns(t, a) THEN past.ghosts \cup {a} ELSE past.ghosts
  BY <1>0, GoneDown
<1>4. ASSUME NEW b \in Account \ (declared' \cup past'.ghosts) PROVE Buried(b)'
  <2>1. CASE b = a
    <3>1. ~Returns(t, a)  BY <1>3, <2>1
    <3>2. \A d \in Daemon : memory'[d][b] = Nothing  BY <2>1, <3>1 DEF Returns
    <3>3. \A u \in Task : task'[u].pc \in {"claim", "fetch", "record"} => task'[u].name # b
      BY <1>0, <1>1, <2>1, <3>1 DEF Returns
    <3>4. task'[t].dropped = b  BY <1>0, <1>1, <2>1
    <3>5. QED  BY <3>2, <3>3, <3>4 DEF Buried
  <2>2. CASE b # a
    <3>1. b \notin named /\ b \in Account \ (declared \cup past.ghosts)  BY <1>3, <2>2
    <3>2. Buried(b)  BY <3>1 DEF GoneInv
    <3>3. \A d \in Daemon : memory'[d][b] = memory[d][b]  BY <2>2, <3>1, HereIsDaemon
    <3>4. \A d \in Daemon : memory'[d][b] = Nothing  BY <3>2, <3>3 DEF Buried
    <3>5. r.read[b] = Nothing /\ r.body[b] = Nothing  BY <1>1 DEF Empty
    <3>6. /\ b \in Account /\ UNCHANGED file /\ task[t].dropped # b
          /\ r.pc \notin {"claim", "fetch", "record"}
      BY <1>0, <1>1
    <3>7. QED  BY <1>0, <3>2, <3>4, <3>5, <3>6, BuriedStill
  <2>3. QED  BY <2>1, <2>2
<1>5. QED  BY <1>2, <1>4 DEF GoneInv

LEMMA GoneVerbs ==
  ASSUME FreshInv, AskInv, GoneInv, NEW t \in Task, Verbs(t)
  PROVE  GoneInv'
<1>0. /\ declared \subseteq Account /\ serving \in declared \cup {None}
      /\ memory \in [Daemon -> Table] /\ past \in History /\ Here(t) \in Daemon
      /\ memory[Here(t)] \in Table
  BY HereIsDaemon DEF FreshInv, TypeOK, AskInv, GoneInv
<1>1. ASSUME NEW a \in Account, Forget(t, a) PROVE GoneInv'
  <2>1. /\ declared' = (declared \ {a}) \cup {} /\ a \in declared /\ task[t].pc = "idle"
        /\ Gone(t, a) /\ UNCHANGED file
        /\ task' = [task EXCEPT ![t] = [Idle EXCEPT !.pc = "read", !.dropped = a]]
        /\ memory' = [memory EXCEPT ![Here(t)][a] = Nothing]
    BY <1>1 DEF Forget
  <2>2. serving' \in declared' \cup {None}  BY <1>0, <1>1, <2>1 DEF Forget
  <2>3. /\ \A d \in Daemon \ {Here(t)} : memory'[d] = memory[d]
        /\ memory'[Here(t)][a] = Nothing
        /\ \A b \in Account \ ({} \cup {a}) : memory'[Here(t)][b] = memory[Here(t)][b]
    BY <1>0, <2>1 DEF Table
  <2>4. QED  BY <2>1, <2>2, <2>3, GoneGoes
<1>2. ASSUME NEW a \in Account, NEW b \in Account, Rename(t, a, b) PROVE GoneInv'
  <2>1. /\ declared' = (declared \ {a}) \cup {b} /\ a \in declared /\ b \notin declared
        /\ task[t].pc = "idle" /\ Gone(t, a) /\ UNCHANGED file
        /\ task' = [task EXCEPT ![t] = [Idle EXCEPT !.pc = "read", !.dropped = a]]
        /\ serving' = IF serving = a THEN b ELSE serving
    BY <1>2 DEF Rename
  <2>2. serving' \in declared' \cup {None}  BY <1>0, <2>1
  <2>3. /\ \A d \in Daemon \ {Here(t)} : memory'[d] = memory[d]
        /\ memory'[Here(t)][a] = Nothing
        /\ \A c \in Account \ ({b} \cup {a}) : memory'[Here(t)][c] = memory[Here(t)][c]
    <3> DEFINE held == memory[Here(t)]
               table == IF held[a] = Nothing THEN held
                        ELSE [held EXCEPT ![b] = held[a], ![a] = Nothing]
    <3>1. memory' = [memory EXCEPT ![Here(t)] = table]  BY <1>2 DEF Rename
    <3>2. table[a] = Nothing /\ \A c \in Account \ {a, b} : table[c] = held[c]
      BY <1>0, <2>1 DEF Table
    <3> HIDE DEF table
    <3>3. QED  BY <1>0, <3>1, <3>2
  <2>4. QED  BY <2>1, <2>2, <2>3, GoneGoes
<1>3. ASSUME NEW a \in Account, Select(t, a) PROVE GoneInv'
  <2>1. UNCHANGED <<declared, memory, file, task>> /\ Worked /\ serving' \in declared
    BY <1>3 DEF Select, asks
  <2>2. past'.ghosts = past.ghosts  BY <1>0, <2>1, WorkedDown
  <2>3. (\A u \in Task : Handles(u))'  BY <2>1 DEF GoneInv, Handles
  <2>4. \A c \in Account \ (declared' \cup past'.ghosts) : Buried(c)'
    BY <2>1, <2>2 DEF GoneInv, Buried, Brings
  <2>5. QED  BY <2>1, <2>3, <2>4 DEF GoneInv
<1>4. QED  BY <1>1, <1>2, <1>3 DEF Verbs

LEMMA GoneWrites ==
  ASSUME FreshInv, AskInv, GoneInv, NEW t \in Task, Writes(t)
  PROVE  GoneInv'
<1>0. /\ task \in [Task -> Doing] /\ past \in History /\ serving \in declared \cup {None}
      /\ task[t] \in Doing /\ file \in Table
  BY DEF FreshInv, TypeOK, AskInv, GoneInv
<1>1. CASE Read(t)
  <2> DEFINE r == [task[t] EXCEPT !.pc = "merge", !.read = file]
  <2>1. /\ r.pc = "merge" /\ r.read = file /\ r.body = task[t].body
        /\ r.dropped = task[t].dropped
    BY <1>0 DEF Doing
  <2>2. /\ task' = [task EXCEPT ![t] = r] /\ task[t].pc = "read"
        /\ UNCHANGED <<memory, file, declared, serving, past>>
    BY <1>1 DEF Read, figures
  <2>3. task[t].body = Empty  BY <2>2, InHand DEF Handles
  <2> HIDE DEF r
  <2>4. r.dropped # None => r.body[r.dropped] = Nothing
    BY <2>1, <2>3, InHand DEF Handles
  <2>5. \A a \in Account : r.body[a] = Nothing  BY <2>1, <2>3 DEF Empty
  <2>6. QED  BY <1>0, <2>1, <2>2, <2>3, <2>4, <2>5, GoneStillBy
<1>2. CASE Merge(t)
  <2> DEFINE merged == Later(task[t].read, memory[Here(t)])
             body == [a \in Account |-> IF a = task[t].dropped THEN Nothing ELSE merged[a]]
             r == [task[t] EXCEPT !.pc = "replace", !.read = Empty, !.body = body]
  <2>1. /\ task' = [task EXCEPT ![t] = r] /\ task[t].pc = "merge"
        /\ UNCHANGED <<memory, file, declared, serving, past>>
    BY <1>2 DEF Merge, figures
  <2>2. \A a \in Account : body[a] \in {Nothing, task[t].read[a], memory[Here(t)][a]}
    BY DEF Later
  <2>3. task[t].dropped # None => task[t].dropped \in Account /\ body[task[t].dropped] = Nothing
    BY <1>0 DEF Doing
  <2> HIDE DEF body
  <2>4. /\ r.pc = "replace" /\ r.read = Empty /\ r.body = body /\ r.dropped = task[t].dropped
    BY <1>0 DEF Doing
  <2> HIDE DEF r
  <2>5. (\A u \in Task : Handles(u))'  BY <1>0, <2>1, <2>3, <2>4, HandlesStill DEF GoneInv
  <2>6. ASSUME NEW a \in Account \ (declared \cup past.ghosts) PROVE Buried(a)'
    <3>1. Buried(a)  BY DEF GoneInv
    <3>2. memory[Here(t)][a] = Nothing  BY <3>1, HereIsDaemon DEF Buried
    <3>3. ~Brings(t, a) => body[a] = Nothing  BY <2>2, <3>2 DEF Brings
    <3>4. r.read[a] = Nothing  BY <2>4 DEF Empty
    <3>5. \A d \in Daemon : memory'[d][a] = Nothing  BY <2>1, <3>1 DEF Buried
    <3>6. QED  BY <1>0, <2>1, <2>4, <3>1, <3>3, <3>4, <3>5, BuriedStill
  <2>7. QED  BY <1>0, <2>1, <2>5, <2>6 DEF GoneInv
<1>3. CASE Replace(t)
  <2>0. UNCHANGED <<memory, declared, serving>> /\ task[t].pc = "replace"
    BY <1>3 DEF Replace, figures
  <2>1. ASSUME past' = [past EXCEPT !.faults = @ + IF task[t].late THEN 0 ELSE 1,
                                    !.ghosts = @ \cup ({task[t].dropped} \ {None})],
               task' = [task EXCEPT ![t] = Idle], UNCHANGED file
        PROVE  GoneInv'
    <3>1. past'.ghosts = past.ghosts \cup ({task[t].dropped} \ {None})
      BY <1>0, <2>1 DEF History
    <3>2. \A a \in Account \ past'.ghosts : task[t].dropped # a  BY <3>1, IdleHolds
    <3>3. QED  BY <1>0, <2>0, <2>1, <3>1, <3>2, IdleHolds, IdleTask, GoneStillBy
  <2>2. ASSUME file' \in {task[t].body} \cup {task[o].body : o \in Crossing(t)}
                           \cup (IF Crossing(t) = {} THEN {} ELSE {Empty}),
               task' = [o \in Task |-> IF o = t THEN Idle
                                       ELSE IF o \in Reading THEN [task[o] EXCEPT !.late = TRUE]
                                       ELSE task[o]],
               past' = [past EXCEPT !.ghosts = @ \cup
                 {a \in {task[t].dropped} \ {None} : \E o \in Reading \ {t} : Brings(o, a)}]
        PROVE  GoneInv'
    <3>1. past'.ghosts = past.ghosts \cup
            {a \in {task[t].dropped} \ {None} : \E o \in Reading \ {t} : Brings(o, a)}
      BY <1>0, <2>2 DEF History
    <3>2. task'[t] = Idle  BY <2>2
    <3>3. ASSUME NEW o \in Task \ {t}
          PROVE  /\ task'[o].pc = task[o].pc /\ task'[o].name = task[o].name
                 /\ task'[o].read = task[o].read /\ task'[o].body = task[o].body
                 /\ task'[o].dropped = task[o].dropped
      <4>1. task'[o] = task[o] \/ task'[o] = [task[o] EXCEPT !.late = TRUE]  BY <2>2
      <4>2. QED  BY <1>0, <4>1 DEF Doing
    <3>4. file' = Empty \/ file' = task[t].body \/ \E o \in Reading \ {t} : file' = task[o].body
      BY <2>2 DEF Crossing, Reading
    <3>5. (\A u \in Task : Handles(u))'
      BY <3>2, <3>3, IdleHolds, IdleTask DEF GoneInv, Handles
    <3>6. ASSUME NEW a \in Account \ (declared \cup past'.ghosts) PROVE Buried(a)'
      <4>1. Buried(a) /\ a # None  BY <3>1, IdleHolds DEF GoneInv
      <4>2. /\ \A d \in Daemon : memory'[d][a] = Nothing
            /\ \A u \in Task : task'[u].pc \in {"claim", "fetch", "record"} => task'[u].name # a
        BY <2>0, <3>2, <3>3, <4>1, IdleHolds DEF Buried
      <4>3. CASE \E u \in Task \ {t} : task[u].dropped = a
        BY <3>3, <4>2, <4>3 DEF Buried
      <4>4. CASE ~\E u \in Task \ {t} : task[u].dropped = a
        <5>1. task[t].body[a] = Nothing /\ \A o \in Reading \ {t} : ~Brings(o, a)
          <6>1. CASE task[t].dropped = a
            BY <3>1, <4>1, <6>1, InHand DEF Handles
          <6>2. CASE task[t].dropped # a
            BY <4>1, <4>4, <6>2 DEF Buried, Brings, Reading
          <6>3. QED  BY <6>1, <6>2
        <5>2. \A o \in Task \ {t} : ~Brings(o, a)
          BY <5>1, InHand DEF Handles, Reading, Brings, Empty
        <5>3. file'[a] = Nothing  BY <3>4, <5>1 DEF Brings, Empty, Reading
        <5>4. (\A u \in Task : ~Brings(u, a))'  BY <3>2, <3>3, <5>2, IdleHolds DEF Brings
        <5>5. QED  BY <4>2, <5>3, <5>4 DEF Buried
      <4>5. QED  BY <4>3, <4>4
    <3>7. QED  BY <1>0, <2>0, <3>5, <3>6 DEF GoneInv
  <2>3. QED  BY <1>3, <2>1, <2>2 DEF Replace
<1>4. QED  BY <1>1, <1>2, <1>3 DEF Writes

\* A daemon started again restores what the file says, and drops what it was
\* dropping no more.
LEMMA GoneWorld ==
  ASSUME FreshInv, AskInv, GoneInv, Tick \/ \E d \in Daemon : Restart(d)
  PROVE  GoneInv'
<1>1. CASE Tick
  <2>1. UNCHANGED <<memory, declared, serving, file, task, past>>  BY <1>1 DEF Tick, figures
  <2>2. QED  BY <2>1 DEF GoneInv, Handles, Buried, Brings
<1>2. ASSUME NEW d \in Daemon, Restart(d) PROVE GoneInv'
  <2>0. past \in History /\ memory \in [Daemon -> Table]  BY DEF AskInv, FreshInv, TypeOK
  <2>1. /\ memory' = [memory EXCEPT ![d] = [a \in Account |-> Restored(file[a])]]
        /\ task' = [t \in Task |-> IF Here(t) = d THEN Idle ELSE task[t]]
        /\ UNCHANGED <<declared, serving, file>>
    BY <1>2 DEF Restart
  <2>2. past'.ghosts = past.ghosts \cup ({task[t].dropped : t \in Task} \ {None})
    BY <1>2, <2>0, RestartDown
  <2>3. \A t \in Task : task'[t] \in {Idle, task[t]}  BY <2>1
  <2>4. (\A u \in Task : Handles(u))'  BY <2>3, IdleHolds, IdleTask DEF GoneInv, Handles
  <2>5. ASSUME NEW a \in Account \ (declared' \cup past'.ghosts) PROVE Buried(a)'
    <3>1. Buried(a) /\ \A t \in Task : task[t].dropped # a
      BY <2>1, <2>2, IdleHolds DEF GoneInv
    <3>2. file[a] = Nothing /\ \A t \in Task : ~Brings(t, a)  BY <3>1 DEF Buried
    <3>3. Restored(file[a]) = Nothing  BY <3>2 DEF Restored, Nothing
    <3>4. \A e \in Daemon : memory'[e][a] = Nothing  BY <2>0, <2>1, <3>1, <3>3 DEF Buried
    <3>5. /\ \A t \in Task : task'[t].pc \in {"claim", "fetch", "record"} => task'[t].name # a
          /\ (\A t \in Task : ~Brings(t, a))'
      BY <2>3, <3>1, <3>2, IdleHolds DEF Buried, Brings
    <3>6. QED  BY <2>1, <3>2, <3>4, <3>5 DEF Buried
  <2>6. QED  BY <2>1, <2>4, <2>5 DEF GoneInv
<1>3. QED  BY <1>1, <1>2

\* Of an account that went, nothing is held by a file, a daemon or a task but what
\* was under way as it went, in every reachable state (usage.rs, forget, rename).
THEOREM GoneInvariant == Spec => []GoneInv
<1>1. FreshInv /\ AskInv /\ GoneInv /\ [Next]_vars => GoneInv'
  <2>1. GoneInv /\ UNCHANGED vars => GoneInv'
    BY DEF vars, figures, GoneInv, Handles, Buried, Brings
  <2>2. FreshInv /\ AskInv /\ GoneInv /\ Next => GoneInv'
    BY GoneMeasures, GoneVerbs, GoneWrites, GoneWorld DEF Next
  <2>3. QED  BY <2>1, <2>2
<1>2. QED  BY <1>1, GoneStarts, FiguresInvariant, AsksInvariant, PTL DEF Spec

\* A forgotten account's figure does not come back off the disk, nor a renamed one's
\* under its old name, for any number of daemons, turns and verbs (usage.rs,
\* write_quota).
THEOREM GoneForGood == Spec => []GoneStaysGone
<1>1. GoneInv => GoneStaysGone  BY DEF GoneInv, Buried, GoneStaysGone
<1>2. QED  BY <1>1, GoneInvariant, PTL

\* A task the file was not replaced under has read it as it is, and will write no
\* earlier record over a later one.
Abreast(t) ==
  /\ task[t].pc = "merge" /\ ~task[t].late => task[t].read = file
  /\ task[t].pc = "replace" /\ ~task[t].late =>
       \A a \in Account : a # task[t].dropped => task[t].body[a].at >= file[a].at

KeptInv == \A t \in Task : Abreast(t)
-----------------------------------------------------------------------------

LEMMA AbreastStill ==
  ASSUME FreshInv, KeptInv, UNCHANGED file, NEW t \in Task, NEW r,
         task' = [task EXCEPT ![t] = r],
         r.pc = "merge" /\ ~r.late => r.read = file,
         r.pc = "replace" /\ ~r.late =>
           \A a \in Account : a # r.dropped => r.body[a].at >= file[a].at
  PROVE  KeptInv'
<1>1. task'[t] = r /\ \A u \in Task \ {t} : task'[u] = task[u]  BY DEF FreshInv, TypeOK
<1>2. QED  BY <1>1 DEF KeptInv, Abreast

LEMMA KeptReplace == ASSUME FreshInv, NEW t \in Task, Replace(t), file' # file
  PROVE /\ file' \in {task[t].body} \cup {task[o].body : o \in Crossing(t)}
                       \cup (IF Crossing(t) = {} THEN {} ELSE {Empty})
        /\ task[t].pc = "replace" /\ task'[t] = Idle
        /\ \A o \in Task \ {t} :
             /\ task'[o].pc = task[o].pc
             /\ task[o].pc \in {"merge", "replace"} => task'[o].late
<1>1. task \in [Task -> Doing]  BY DEF FreshInv, TypeOK
<1>2. /\ file' \in {task[t].body} \cup {task[o].body : o \in Crossing(t)}
                     \cup (IF Crossing(t) = {} THEN {} ELSE {Empty})
      /\ task[t].pc = "replace"
      /\ task' = [o \in Task |-> IF o = t THEN Idle
                                 ELSE IF o \in Reading THEN [task[o] EXCEPT !.late = TRUE]
                                 ELSE task[o]]
  BY DEF Replace
<1>3. ASSUME NEW o \in Task \ {t}
      PROVE  /\ task'[o].pc = task[o].pc
             /\ task[o].pc \in {"merge", "replace"} => task'[o].late
  BY <1>1, <1>2 DEF Reading, Doing
<1>4. QED  BY <1>2, <1>3

LEMMA KeptSteps == ASSUME FreshInv, KeptInv, Next PROVE KeptInv'
<1>0. /\ task \in [Task -> Doing] /\ memory \in [Daemon -> Table] /\ file \in Table
  BY DEF FreshInv, TypeOK
<1>1. ASSUME NEW t \in Task, Measures(t) PROVE KeptInv'
  <2>1. UNCHANGED file
    BY <1>1 DEF Measures, Turn, Sweep, ClaimAsk, Fetched, StatusLine, Record
  <2>2. \A u \in Task \ {t} : task'[u] = task[u]
    BY <1>0, <1>1 DEF Measures, Turn, Sweep, ClaimAsk, Fetched, StatusLine, Record, Goto
  <2>3. task'[t].pc \notin {"merge", "replace"}
    <3>1. CASE Turn(t) \/ Sweep(t) \/ StatusLine(t)
      BY <1>0, <3>1 DEF Turn, Sweep, StatusLine, Idle
    <3>2. CASE ClaimAsk(t)  BY <1>0, <3>2, IdleTask DEF ClaimAsk, Goto, Doing
    <3>3. CASE Fetched(t)  BY <1>0, <3>3, IdleTask DEF Fetched, Doing
    <3>4. CASE Record(t)  BY <1>0, <3>4, IdleTask DEF Record, Idle
    <3>5. QED  BY <1>1, <3>1, <3>2, <3>3, <3>4 DEF Measures
  <2>4. QED  BY <2>1, <2>2, <2>3 DEF KeptInv, Abreast
<1>2. ASSUME NEW t \in Task, Verbs(t) PROVE KeptInv'
  <2>1. /\ UNCHANGED file
        /\ \/ UNCHANGED task
           \/ \E a \in Account : task' = [task EXCEPT ![t] = [Idle EXCEPT !.pc = "read", !.dropped = a]]
    BY <1>2 DEF Verbs, Forget, Rename, Select
  <2>2. CASE UNCHANGED task  BY <2>1, <2>2 DEF KeptInv, Abreast
  <2>3. ASSUME NEW a \in Account,
               task' = [task EXCEPT ![t] = [Idle EXCEPT !.pc = "read", !.dropped = a]]
        PROVE  KeptInv'
    <3>1. [Idle EXCEPT !.pc = "read", !.dropped = a].pc = "read"  BY DEF Idle
    <3>2. QED  BY <2>1, <2>3, <3>1, AbreastStill
  <2>4. QED  BY <2>1, <2>2, <2>3
<1>3. ASSUME NEW t \in Task, Read(t) PROVE KeptInv'
  <2> DEFINE r == [task[t] EXCEPT !.pc = "merge", !.read = file]
  <2>1. r.pc = "merge" /\ r.read = file  BY <1>0 DEF Doing
  <2>2. task' = [task EXCEPT ![t] = r] /\ UNCHANGED file  BY <1>3 DEF Read
  <2> HIDE DEF r
  <2>3. QED  BY <2>1, <2>2, AbreastStill
\* What is merged is no earlier than what was read.
<1>4. ASSUME NEW t \in Task, Merge(t) PROVE KeptInv'
  <2> DEFINE merged == Later(task[t].read, memory[Here(t)])
             body == [a \in Account |-> IF a = task[t].dropped THEN Nothing ELSE merged[a]]
             r == [task[t] EXCEPT !.pc = "replace", !.read = Empty, !.body = body]
  <2>1. task' = [task EXCEPT ![t] = r] /\ task[t].pc = "merge" /\ UNCHANGED file
    BY <1>4 DEF Merge
  <2>2. task[t].read \in Table /\ memory[Here(t)] \in Table  BY TaskFields DEF Doing
  <2>3. ASSUME NEW a \in Account, a # task[t].dropped
        PROVE  body[a].at >= task[t].read[a].at
    <3>1. task[t].read[a].at \in Nat /\ memory[Here(t)][a].at \in Nat
      BY <2>2 DEF Table, Figure
    <3>2. body[a] = merged[a]  BY <2>3
    <3>3. QED  BY <3>1, <3>2 DEF Later
  <2>4. ~task[t].late => task[t].read = file  BY <2>1 DEF KeptInv, Abreast
  <2> HIDE DEF body
  <2>5. /\ r.pc = "replace" /\ r.body = body /\ r.dropped = task[t].dropped
        /\ r.late = task[t].late
    BY <1>0 DEF Doing
  <2> HIDE DEF r
  <2>6. QED  BY <2>1, <2>3, <2>4, <2>5, AbreastStill
<1>5. ASSUME NEW t \in Task, Replace(t) PROVE KeptInv'
  <2>1. CASE UNCHANGED file
    <3>1. \A o \in Task :
            \/ task'[o] = Idle \/ task'[o] = task[o]
            \/ task'[o] = [task[o] EXCEPT !.late = TRUE]
      BY <1>0, <1>5 DEF Replace
    <3>2. ASSUME NEW o \in Task PROVE Abreast(o)'
      <4>1. CASE task'[o] = Idle  BY <4>1, IdleTask DEF Abreast
      <4>2. CASE task'[o] = task[o]  BY <2>1, <4>2 DEF KeptInv, Abreast
      <4>3. CASE task'[o] = [task[o] EXCEPT !.late = TRUE]
        BY <1>0, <4>3 DEF Abreast, Doing
      <4>4. QED  BY <3>1, <4>1, <4>2, <4>3
    <3>3. QED  BY <3>2 DEF KeptInv
  <2>2. CASE file' # file
    BY <1>5, <2>2, KeptReplace, IdleTask DEF KeptInv, Abreast
  <2>3. QED  BY <2>1, <2>2
<1>6. CASE Tick  BY <1>6 DEF Tick, KeptInv, Abreast
<1>7. ASSUME NEW d \in Daemon, Restart(d) PROVE KeptInv'
  <2>1. UNCHANGED file /\ \A t \in Task : task'[t] \in {Idle, task[t]}
    BY <1>7 DEF Restart
  <2>2. QED  BY <2>1, IdleTask DEF KeptInv, Abreast
<1>8. QED  BY <1>1, <1>2, <1>3, <1>4, <1>5, <1>6, <1>7 DEF Next, Writes

\* Only a task that replaces the file changes it.
LEMMA OnlyReplaced == ASSUME Next, file' # file PROVE \E t \in Task : Replace(t)
<1>1. ASSUME NEW t \in Task, Measures(t) PROVE UNCHANGED file
  <2>1. CASE Turn(t)  BY <2>1 DEF Turn
  <2>2. CASE Sweep(t)  BY <2>2 DEF Sweep
  <2>3. CASE ClaimAsk(t)  BY <2>3 DEF ClaimAsk
  <2>4. CASE Fetched(t)  BY <2>4 DEF Fetched
  <2>5. CASE StatusLine(t)  BY <2>5 DEF StatusLine
  <2>6. CASE Record(t)  BY <2>6 DEF Record
  <2>7. QED  BY <1>1, <2>1, <2>2, <2>3, <2>4, <2>5, <2>6 DEF Measures
<1>2. ASSUME NEW t \in Task, Writes(t) PROVE UNCHANGED file \/ Replace(t)
  <2>1. CASE Read(t)  BY <2>1 DEF Read
  <2>2. CASE Merge(t)  BY <2>2 DEF Merge
  <2>3. QED  BY <1>2, <2>1, <2>2 DEF Writes
<1>3. ASSUME NEW t \in Task, NEW a \in Account, Forget(t, a) PROVE UNCHANGED file
  BY <1>3 DEF Forget
<1>4. ASSUME NEW t \in Task, NEW a \in Account, Select(t, a) PROVE UNCHANGED file
  BY <1>4 DEF Select
<1>5. ASSUME NEW t \in Task, NEW a \in Account, NEW b \in Account, Rename(t, a, b)
      PROVE UNCHANGED file
  BY <1>5 DEF Rename
<1>6. ASSUME NEW d \in Daemon, Restart(d) PROVE UNCHANGED file  BY <1>6 DEF Restart
<1>7. CASE Tick  BY <1>7 DEF Tick
<1>8. QED  BY <1>1, <1>2, <1>3, <1>4, <1>5, <1>6, <1>7 DEF Next, Verbs

\* A write that no other overlapped leaves no account out but the one dropped, and
\* puts no earlier record over a later one, for any number of daemons and writers
\* (usage.rs, write_quota).
THEOREM LaterIsKept == Spec => LaterKept
<1> DEFINE Keeping(t, a) ==
      /\ task[t].pc = "replace" /\ task'[t].pc = "idle" /\ file' # file
      /\ ~task[t].late /\ Crossing(t) = {} /\ a # task[t].dropped
      => file'[a].at >= file[a].at
<1>1. Init => KeptInv
  BY IdleTask DEF Init, KeptInv, Abreast
<1>2. FreshInv /\ KeptInv /\ [Next]_vars => KeptInv'
  <2>1. KeptInv /\ UNCHANGED vars => KeptInv'  BY DEF vars, KeptInv, Abreast
  <2>2. QED  BY <2>1, KeptSteps
<1>3. ASSUME FreshInv, KeptInv, [Next]_vars, NEW t \in Task, NEW a \in Account
      PROVE  Keeping(t, a)
  <2> SUFFICES ASSUME task[t].pc = "replace", task'[t].pc = "idle", file' # file,
                      ~task[t].late, Crossing(t) = {}, a # task[t].dropped
               PROVE  file'[a].at >= file[a].at
    OBVIOUS
  <2>1. PICK u \in Task : Replace(u)  BY <1>3, OnlyReplaced DEF vars
  <2>2. t = u  BY <1>3, <2>1, KeptReplace
  <2>3. file' = task[t].body  BY <1>3, <2>1, <2>2, KeptReplace
  <2>4. QED  BY <1>3, <2>3 DEF KeptInv, Abreast
<1>4. FreshInv /\ KeptInv /\ [Next]_vars => [\A t \in Task, a \in Account : Keeping(t, a)]_vars
  BY <1>3
<1>5. QED  BY <1>1, <1>2, <1>4, FiguresInvariant, PTL DEF Spec, LaterKept
=============================================================================
