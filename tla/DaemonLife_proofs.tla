------------------------- MODULE DaemonLife_proofs --------------------------
(***************************************************************************)
(* Whatever dies at whatever step of an update, the path the supervisor    *)
(* executes holds a whole binary: for any number of processes, requests,   *)
(* ports and releases.                                                     *)
(***************************************************************************)
EXTENDS DaemonLife, TLAPS

ProcField == {"pc", "runs", "port", "supervised", "asked", "permit", "control", "updating",
              "promised"}
AskField == {"pc", "kind", "to", "http", "version", "left", "ok"}

\* How far an update is: judged, claimed, and with a staged file that has stated
\* the release that was asked for.
Stated  == {"verified", "unlinked", "linked"}
Working == {"fetching", "fetched", "staging", "staged", "installed"} \cup Stated
Cleared == {"cleared"} \cup Working

ProcFormed == DOMAIN proc = Slot /\ \A s \in Slot : DOMAIN proc[s] = ProcField
AskFormed == DOMAIN ask = Client /\ \A c \in Client : DOMAIN ask[c] = AskField
DiskFormed == DOMAIN disk = {"installed", "previous", "staged"}
UnitFormed == DOMAIN unit = {"file", "loaded", "job"}
Formed == ProcFormed /\ AskFormed /\ DiskFormed /\ UnitFormed

\* The supervisor has one process at most.
OneJob == \A s \in Slot : Alive(s) /\ proc[s].supervised => unit.job = s

\* A request is at a process there is, an update at the supervisor's, and one
\* that works on the disk is the one that process has claimed.
AskPlaced(c) ==
  /\ ask[c].pc # "idle" => ask[c].to \in Slot /\ Alive(ask[c].to) /\ ask[c].version \in Release
  /\ ask[c].pc \in Cleared => proc[ask[c].to].supervised
  /\ ask[c].pc \in Working => proc[ask[c].to].updating = c

\* What has stated its release is what is staged still.
AskStaged(c) == ask[c].pc \in Stated => disk.staged = ask[c].version

UpdateInv == /\ Formed /\ OneJob /\ Bootable
             /\ \A c \in Client : AskPlaced(c) /\ AskStaged(c)

LEMMA Starts == Init => UpdateInv
<1> SUFFICES ASSUME Init PROVE UpdateInv
  OBVIOUS
<1>1. Formed
  BY DEF Init, Formed, ProcFormed, AskFormed, DiskFormed, UnitFormed, Gone, Nothing, ProcField,
         AskField
<1>2. OneJob  BY DEF Init, OneJob, Alive, Gone
<1>3. Bootable  BY ReleasesAssumption DEF Init, Bootable, Release
<1>4. \A c \in Client : ask[c].pc = "idle"  BY DEF Init, Nothing
<1>5. QED
  BY <1>1, <1>2, <1>3, <1>4 DEF UpdateInv, AskPlaced, AskStaged, Cleared, Working, Stated

\* One update at most works on the disk, whatever processes there are.
LEMMA OneWorker ==
  ASSUME UpdateInv, NEW c \in Client, NEW d \in Client,
         ask[c].pc \in Working, ask[d].pc \in Working
  PROVE  c = d
<1>1. ask[c].to = unit.job /\ ask[d].to = unit.job
  BY DEF UpdateInv, OneJob, AskPlaced, Cleared, Working, Stated
<1>2. QED  BY <1>1 DEF UpdateInv, AskPlaced

\* A request is where it was, or further from the disk, or gone.
Stays(c) ==
  \/ ask'[c].pc = "idle"
  \/ /\ ask[c].pc # "idle" /\ ask'[c].to = ask[c].to /\ ask'[c].version = ask[c].version
     /\ Alive(ask[c].to)'
     /\ ask'[c].pc = ask[c].pc \/ ask'[c].pc \notin Cleared

\* A process that is there was, with the same claim on it.
Lasts(s) == Alive(s)' => /\ Alive(s) /\ proc'[s].supervised = proc[s].supervised
                         /\ proc'[s].updating = proc[s].updating

\* A step that starts no process, judges no update and leaves the disk alone.
LEMMA Elsewhere ==
  ASSUME UpdateInv, Formed', UNCHANGED disk, unit'.job = unit.job,
         \A s \in Slot : Lasts(s), \A c \in Client : Stays(c)
  PROVE  UpdateInv'
<1>1. OneJob'  BY DEF UpdateInv, OneJob, Lasts
<1>2. Bootable'  BY DEF UpdateInv, Bootable
<1>3. ASSUME NEW c \in Client PROVE AskPlaced(c)' /\ AskStaged(c)'
  <2>1. CASE ask'[c].pc = "idle"  BY <2>1 DEF AskPlaced, AskStaged, Cleared, Working, Stated
  <2>2. CASE ask'[c].pc # "idle"
    <3>1. /\ ask[c].pc # "idle" /\ ask'[c].to = ask[c].to /\ ask'[c].version = ask[c].version
          /\ Alive(ask[c].to)' /\ (ask'[c].pc = ask[c].pc \/ ask'[c].pc \notin Cleared)
      BY <2>2 DEF Stays
    <3>2. ask[c].to \in Slot /\ ask[c].version \in Release  BY <3>1 DEF UpdateInv, AskPlaced
    <3>3. /\ proc'[ask[c].to].supervised = proc[ask[c].to].supervised
          /\ proc'[ask[c].to].updating = proc[ask[c].to].updating
      BY <3>1, <3>2 DEF Lasts
    <3>4. AskPlaced(c)'
      BY <3>1, <3>2, <3>3 DEF UpdateInv, AskPlaced, Cleared, Working
    <3>5. AskStaged(c)'
      BY <3>1 DEF UpdateInv, AskStaged, Cleared, Working
    <3>6. QED  BY <3>4, <3>5
  <2>3. QED  BY <2>1, <2>2
<1>4. QED  BY <1>1, <1>2, <1>3 DEF UpdateInv

\* A step of the update that works on the disk.
LEMMA AtTheDisk ==
  ASSUME UpdateInv, NEW c \in Client, ask[c].pc \in Working, Formed', UNCHANGED unit,
         \A s \in Slot : Alive(s)' = Alive(s) /\ proc'[s].supervised = proc[s].supervised,
         \A d \in Client \ {c} : ask'[d] = ask[d],
         \/ ask'[c].pc = "idle"
         \/ ask'[c].to = ask[c].to /\ ask'[c].version = ask[c].version,
         ask'[c].pc \in Working => proc'[ask[c].to].updating = c,
         ask'[c].pc \in Stated => disk'.staged = ask[c].version,
         Bootable'
  PROVE  UpdateInv'
<1>1. OneJob'  BY DEF UpdateInv, OneJob
<1>2. ASSUME NEW d \in Client \ {c} PROVE AskPlaced(d)' /\ AskStaged(d)'
  <2>1. ask[d].pc \notin Working  BY OneWorker
  <2>2. ask'[d] = ask[d]  OBVIOUS
  <2>3. QED
    BY <2>1, <2>2 DEF UpdateInv, AskPlaced, AskStaged, Cleared, Working
<1>3. AskPlaced(c)' /\ AskStaged(c)'
  <2>1. /\ ask[c].to \in Slot /\ Alive(ask[c].to) /\ ask[c].version \in Release
        /\ proc[ask[c].to].supervised
    BY DEF UpdateInv, AskPlaced, Cleared, Working, Stated
  <2>2. CASE ask'[c].pc = "idle"
    BY <2>2 DEF AskPlaced, AskStaged, Cleared, Working, Stated
  <2>3. CASE ask'[c].to = ask[c].to /\ ask'[c].version = ask[c].version
    BY <2>1, <2>3 DEF AskPlaced, AskStaged
  <2>4. QED  BY <2>2, <2>3
<1>4. QED  BY <1>1, <1>2, <1>3 DEF UpdateInv

\* A process that ends, and what it was asked, leave the others as they were.
LEMMA EndedElsewhere ==
  ASSUME UpdateInv, NEW s \in Slot, Ended(s), UNCHANGED disk, UnitFormed', unit'.job = unit.job
  PROVE  UpdateInv'
<1>1. Formed'
  BY DEF UpdateInv, Formed, ProcFormed, AskFormed, DiskFormed, Ended, Gone, Nothing, ProcField,
         AskField
<1>2. ~Alive(s)' /\ \A t \in Slot \ {s} : proc'[t] = proc[t]
  BY DEF UpdateInv, Formed, ProcFormed, Ended, Alive, Gone
<1>3. \A t \in Slot : Lasts(t)  BY <1>2 DEF Lasts, Alive
<1>4. ASSUME NEW c \in Client PROVE Stays(c)
  <2>1. CASE ask[c].to = s  BY <2>1 DEF Ended, Nothing, Stays
  <2>2. CASE ask[c].to # s
    BY <1>2, <2>2 DEF UpdateInv, AskPlaced, Ended, Stays, Alive
  <2>3. QED  BY <2>1, <2>2
<1>5. QED  BY <1>1, <1>3, <1>4, Elsewhere

\* A process that goes on, with the claim it has.
LEMMA GoesOn ==
  ASSUME UpdateInv, NEW s \in Slot, NEW r, Alive(s), Set(s, r), DOMAIN r = ProcField,
         r.pc # "gone", r.supervised = proc[s].supervised, r.updating = proc[s].updating
  PROVE  /\ ProcFormed' /\ \A t \in Slot : Lasts(t) /\ Alive(t)' = Alive(t)
         /\ UNCHANGED ask => \A c \in Client : Stays(c)
<1>1. proc'[s] = r /\ \A t \in Slot \ {s} : proc'[t] = proc[t]
  BY DEF UpdateInv, Formed, ProcFormed, Set
<1>2. ProcFormed'  BY <1>1 DEF UpdateInv, Formed, ProcFormed, Set
<1>3. \A t \in Slot : Lasts(t) /\ Alive(t)' = Alive(t)  BY <1>1 DEF Lasts, Alive
<1>4. ASSUME UNCHANGED ask, NEW c \in Client PROVE Stays(c)
  BY <1>3, <1>4 DEF UpdateInv, AskPlaced, Stays
<1>5. QED  BY <1>2, <1>3, <1>4

\* The same, where nothing else changes.
LEMMA GoesOnAlone ==
  ASSUME UpdateInv, NEW s \in Slot, NEW r, Alive(s), Set(s, r), DOMAIN r = ProcField,
         r.pc # "gone", r.supervised = proc[s].supervised, r.updating = proc[s].updating,
         UNCHANGED <<ask, disk>>, UnitFormed', unit'.job = unit.job
  PROVE  UpdateInv'
<1>1. /\ ProcFormed' /\ \A t \in Slot : Lasts(t)
      /\ \A c \in Client : Stays(c)
  BY GoesOn
<1>2. Formed'  BY <1>1 DEF UpdateInv, Formed, AskFormed, DiskFormed
<1>3. QED  BY <1>1, <1>2, Elsewhere

LEMMA UnitStays == ASSUME UpdateInv, UNCHANGED unit PROVE UnitFormed' /\ unit'.job = unit.job
  BY DEF UpdateInv, Formed, UnitFormed

\* The steps of a process.
LEMMA ProcessSteps ==
  ASSUME UpdateInv, NEW s \in Slot, Process(s) PROVE UpdateInv'
<1>0. DOMAIN proc[s] = ProcField  BY DEF UpdateInv, Formed, ProcFormed
<1>1. CASE Bind(s)
  <2>1. CASE Ended(s)  BY <1>1, <2>1, EndedElsewhere, UnitStays DEF Bind, supervision
  <2>2. CASE Move(s, "bound") /\ UNCHANGED <<socket, ask>>
    <3> DEFINE r == [proc[s] EXCEPT !.pc = "bound"]
    <3>1. /\ DOMAIN r = ProcField /\ r.pc = "bound" /\ r.supervised = proc[s].supervised
          /\ r.updating = proc[s].updating
      BY <1>0 DEF ProcField
    <3>2. Alive(s) /\ Set(s, r) /\ UNCHANGED <<ask, disk, unit>>
      BY <1>1, <2>2 DEF Bind, Move, Alive, supervision
    <3> HIDE DEF r
    <3>3. QED  BY <3>1, <3>2, GoesOnAlone, UnitStays
  <2>3. QED  BY <1>1, <2>1, <2>2 DEF Bind
<1>2. CASE Look(s)
  <2>1. PICK control : Set(s, [proc[s] EXCEPT !.control = control])  BY <1>2 DEF Look
  <2> DEFINE r == [proc[s] EXCEPT !.control = control]
  <2>2. Alive(s) /\ Set(s, r) /\ UNCHANGED <<ask, disk, unit>>  BY <1>2, <2>1 DEF Look, Alive
  <2>3. /\ DOMAIN r = ProcField /\ r.pc = proc[s].pc /\ r.supervised = proc[s].supervised
        /\ r.updating = proc[s].updating
    BY <1>0 DEF ProcField
  <2> HIDE DEF r
  <2>4. QED  BY <2>2, <2>3, GoesOnAlone, UnitStays DEF Alive
<1>3. CASE Take(s)
  <2> DEFINE r == [proc[s] EXCEPT !.control = "bound"]
  <2>1. Alive(s) /\ Set(s, r) /\ UNCHANGED <<ask, disk, unit>>  BY <1>3 DEF Take, Alive
  <2>2. /\ DOMAIN r = ProcField /\ r.pc = proc[s].pc /\ r.supervised = proc[s].supervised
        /\ r.updating = proc[s].updating
    BY <1>0 DEF ProcField
  <2> HIDE DEF r
  <2>3. QED  BY <2>1, <2>2, GoesOnAlone, UnitStays DEF Alive
<1>4. ASSUME NEW pc \in {"serving", "ending"}, Move(s, pc), Alive(s), UNCHANGED <<ask, disk, unit>>
      PROVE  UpdateInv'
  <2> DEFINE r == [proc[s] EXCEPT !.pc = pc]
  <2>1. /\ DOMAIN r = ProcField /\ r.pc = pc /\ r.supervised = proc[s].supervised
        /\ r.updating = proc[s].updating
    BY <1>0 DEF ProcField
  <2>2. Set(s, r)  BY <1>4 DEF Move
  <2> HIDE DEF r
  <2>3. QED  BY <1>4, <2>1, <2>2, GoesOnAlone, UnitStays
<1>5. CASE Serve(s) \/ Drained(s) \/ Wake(s)
  BY <1>4, <1>5 DEF Serve, Drained, Wake, Alive
<1>6. CASE Exit(s)  BY <1>6, EndedElsewhere, UnitStays DEF Exit, supervision
<1>7. QED  BY <1>1, <1>2, <1>3, <1>5, <1>6 DEF Process

\* A signal, the death of a process, and what the supervisor is told.
LEMMA SignalledKeeps ==
  ASSUME UpdateInv, NEW s \in Slot, Alive(s), Signalled(s), UNCHANGED disk, UnitFormed',
         unit'.job = unit.job
  PROVE  UpdateInv'
<1>1. CASE Ended(s)  BY <1>1, EndedElsewhere
<1>2. CASE Move(s, "draining") /\ UNCHANGED <<socket, ask>>
  <2> DEFINE r == [proc[s] EXCEPT !.pc = "draining"]
  <2>1. /\ DOMAIN r = ProcField /\ r.pc = "draining" /\ r.supervised = proc[s].supervised
        /\ r.updating = proc[s].updating
    BY DEF UpdateInv, Formed, ProcFormed, ProcField
  <2>2. Set(s, r)  BY <1>2 DEF Move
  <2> HIDE DEF r
  <2>3. QED  BY <1>2, <2>1, <2>2, GoesOnAlone
<1>3. CASE UNCHANGED <<proc, socket, ask>>
  BY <1>3, Elsewhere
  DEF UpdateInv, Formed, ProcFormed, AskFormed, DiskFormed, Lasts, Stays, Alive, AskPlaced
<1>4. QED  BY <1>1, <1>2, <1>3 DEF Signalled

LEMMA UnitAlone ==
  ASSUME UpdateInv, UNCHANGED <<proc, ask, disk>>, UnitFormed', unit'.job = unit.job
  PROVE  UpdateInv'
  BY Elsewhere
  DEF UpdateInv, Formed, ProcFormed, AskFormed, DiskFormed, Lasts, Stays, Alive, AskPlaced

LEMMA UnloadKeeps ==
  ASSUME UpdateInv, NEW file, Unload(file), UNCHANGED disk PROVE UpdateInv'
<1>1. UnitFormed' /\ unit'.job = unit.job  BY DEF UpdateInv, Formed, UnitFormed, Unload
<1>2. CASE unit.loaded /\ \E s \in Slot : Job(s)
  <2>1. unit.job \in Slot /\ Alive(unit.job)  BY <1>2 DEF Job
  <2>2. QED  BY <1>1, <1>2, <2>1, SignalledKeeps DEF Unload
<1>3. CASE ~(unit.loaded /\ \E s \in Slot : Job(s))
  BY <1>1, <1>3, UnitAlone DEF Unload
<1>4. QED  BY <1>2, <1>3

LEMMA OutsideSteps ==
  ASSUME UpdateInv,
         \/ \E s \in Slot : Term(s) \/ Die(s)
         \/ Install \/ WriteUnit \/ Load \/ Uninstall
  PROVE  UpdateInv'
<1>1. ASSUME NEW s \in Slot, Term(s) PROVE UpdateInv'
  BY <1>1, SignalledKeeps, UnitStays DEF Term, Alive, supervision
<1>2. ASSUME NEW s \in Slot, Die(s) PROVE UpdateInv'
  BY <1>2, EndedElsewhere, UnitStays DEF Die, supervision
<1>3. CASE Install
  BY <1>3, UnloadKeeps, UnitAlone, UnitStays DEF Install
<1>4. CASE WriteUnit
  <2>1. UnitFormed' /\ unit'.job = unit.job  BY <1>4 DEF WriteUnit, UpdateInv, Formed, UnitFormed
  <2>2. QED  BY <1>4, <2>1, UnitAlone DEF WriteUnit
<1>5. CASE Load
  <2>1. UnitFormed' /\ unit'.job = unit.job  BY <1>5 DEF Load, UpdateInv, Formed, UnitFormed
  <2>2. QED  BY <1>5, <2>1, UnitAlone DEF Load
<1>6. CASE Uninstall  BY <1>6, UnloadKeeps DEF Uninstall
<1>7. QED  BY <1>1, <1>2, <1>3, <1>4, <1>5, <1>6

\* A process that begins has been asked nothing, and has claimed nothing.
LEMMA SpawnKeeps ==
  ASSUME UpdateInv, NEW s \in Slot, NEW supervised \in BOOLEAN, NEW p \in Port,
         Spawn(s, supervised, p), UNCHANGED <<disk, ask>>, UnitFormed',
         supervised => unit'.job = s /\ \A t \in Slot : ~Job(t),
         ~supervised => unit'.job = unit.job
  PROVE  UpdateInv'
<1>1. /\ proc'[s].pc = "loading" /\ proc'[s].supervised = supervised
      /\ DOMAIN proc'[s] = ProcField /\ ProcFormed'
      /\ \A t \in Slot \ {s} : proc'[t] = proc[t]
  BY DEF UpdateInv, Formed, ProcFormed, Spawn, Set, Gone, ProcField
<1>2. OneJob'
  <2>1. CASE supervised
    <3>1. \A t \in Slot : ~(Alive(t) /\ proc[t].supervised)
      BY <2>1 DEF UpdateInv, OneJob, Job
    <3>2. QED  BY <1>1, <2>1, <3>1 DEF OneJob, Alive
  <2>2. CASE ~supervised  BY <1>1, <2>2 DEF UpdateInv, OneJob, Alive
  <2>3. QED  BY <2>1, <2>2
<1>3. ASSUME NEW c \in Client PROVE AskPlaced(c)' /\ AskStaged(c)'
  <2>1. ask[c].pc # "idle" => ask[c].to # s  BY DEF UpdateInv, AskPlaced, Spawn
  <2>2. "idle" \notin Cleared  BY DEF Cleared, Working, Stated
  <2>3. QED
    BY <1>1, <2>1, <2>2 DEF UpdateInv, AskPlaced, AskStaged, Alive, Cleared, Working
<1>4. Formed'  BY <1>1 DEF UpdateInv, Formed, AskFormed, DiskFormed
<1>5. Bootable'  BY DEF UpdateInv, Bootable
<1>6. QED  BY <1>2, <1>3, <1>4, <1>5 DEF UpdateInv

LEMMA SpawnSteps ==
  ASSUME UpdateInv,
         \E s \in Slot : Respawn(s) \/ \E p \in Port : Run(s, p) \/ Start(s, p)
  PROVE  UpdateInv'
<1>1. ASSUME NEW s \in Slot, Respawn(s) PROVE UpdateInv'
  <2>1. PICK p \in Port : Spawn(s, TRUE, p)  BY <1>1 DEF Respawn
  <2>2. UnitFormed' /\ unit'.job = s  BY <1>1 DEF Respawn, UpdateInv, Formed, UnitFormed
  <2>3. QED  BY <1>1, <2>1, <2>2, SpawnKeeps DEF Respawn
<1>2. ASSUME NEW s \in Slot, NEW p \in Port, Run(s, p) PROVE UpdateInv'
  BY <1>2, SpawnKeeps, UnitStays DEF Run
<1>3. QED  BY <1>1, <1>2 DEF Start

\* A request is moved to pc by a step that changes nothing else of where it is.
LEMMA AskMoves ==
  ASSUME UpdateInv, NEW c \in Client, NEW pc,
         Go(c, pc) \/ (pc = "answered" /\ \E ok \in BOOLEAN : Answer(c, ok))
  PROVE  /\ AskFormed' /\ ask'[c].pc = pc /\ ask'[c].to = ask[c].to
         /\ ask'[c].version = ask[c].version
         /\ \A d \in Client \ {c} : ask'[d] = ask[d]
  BY DEF UpdateInv, Formed, AskFormed, AskField, Go, Answer

\* A request that is sent is at a process that answers.
LEMMA SendKeeps == ASSUME UpdateInv, NEW c \in Client, Send(c) PROVE UpdateInv'
<1>1. PICK s \in Slot, http \in OverHttp[c], kind \in {"status", "stop", "update"}, v \in Release :
        /\ IF http THEN proc[s].pc = "serving" ELSE Reachable(s)
        /\ (kind = "update") = (v > 1)
        /\ kind = "status" => ~http
        /\ ask' = [ask EXCEPT ![c] = [Nothing EXCEPT !.pc = Read(kind), !.kind = kind,
                                        !.to = s, !.http = http, !.version = v]]
  BY Zenon DEF Send
<1>2. Alive(s)  BY <1>1 DEF Alive, Reachable, Answers
<1>3. /\ DOMAIN ask'[c] = AskField /\ ask'[c].pc \in {"answered", "sent"} /\ ask'[c].to = s
      /\ ask'[c].version = v /\ DOMAIN ask' = Client
      /\ \A d \in Client \ {c} : ask'[d] = ask[d]
  BY <1>1 DEF UpdateInv, Formed, AskFormed, AskField, Nothing, Read
<1>4. UNCHANGED <<proc, disk, unit>>  BY DEF Send, supervision
<1>5. Formed'
  BY <1>3, <1>4 DEF UpdateInv, Formed, ProcFormed, AskFormed, DiskFormed, UnitFormed
<1>6. AskPlaced(c)' /\ AskStaged(c)'
  BY <1>2, <1>3, <1>4 DEF AskPlaced, AskStaged, Alive, Cleared, Working, Stated
<1>7. \A d \in Client \ {c} : AskPlaced(d)' /\ AskStaged(d)'
  BY <1>3, <1>4 DEF UpdateInv, AskPlaced, AskStaged, Alive
<1>8. QED
  BY <1>4, <1>5, <1>6, <1>7 DEF UpdateInv, OneJob, Alive, Bootable

\* A request that leaves, that is answered, and that is let go of.
LEMMA AskSteps ==
  ASSUME UpdateInv, NEW c \in Client, Send(c) \/ Leave(c) \/ Stop(c) \/ Reply(c)
  PROVE  UpdateInv'
<1>1. CASE Leave(c)
  <2>1. /\ AskFormed' /\ ask'[c].pc = ask[c].pc /\ ask'[c].to = ask[c].to
        /\ ask'[c].version = ask[c].version
        /\ \A d \in Client \ {c} : ask'[d] = ask[d]
    BY <1>1 DEF Leave, UpdateInv, Formed, AskFormed, AskField
  <2>2. UNCHANGED <<proc, disk, unit>>  BY <1>1 DEF Leave, supervision
  <2>3. QED
    BY <2>1, <2>2, Elsewhere
    DEF UpdateInv, Formed, ProcFormed, DiskFormed, UnitFormed, Lasts, Stays, Alive, AskPlaced
<1>2. ASSUME NEW r, Set(Asked(c), r), DOMAIN r = ProcField, r.pc = proc[Asked(c)].pc,
             r.supervised = proc[Asked(c)].supervised, r.updating = proc[Asked(c)].updating,
             AskFormed', \A d \in Client \ {c} : ask'[d] = ask[d], UNCHANGED <<disk, unit>>,
             ask[c].pc # "idle",
             \/ ask'[c].pc = "idle"
             \/ /\ ask'[c].pc = "answered" /\ ask'[c].to = ask[c].to
                /\ ask'[c].version = ask[c].version
      PROVE  UpdateInv'
  <2>1. Asked(c) \in Slot /\ Alive(Asked(c))  BY <1>2 DEF UpdateInv, AskPlaced, Asked
  <2>2. ProcFormed' /\ \A t \in Slot : Lasts(t) /\ Alive(t)' = Alive(t)
    BY <1>2, <2>1, GoesOn DEF Alive
  <2>3. Stays(c)
    BY <1>2, <2>1, <2>2 DEF Stays, Asked, Cleared, Working, Stated
  <2>4. \A d \in Client \ {c} : Stays(d)  BY <1>2, <2>2 DEF UpdateInv, AskPlaced, Stays
  <2>5. Formed'  BY <1>2, <2>2 DEF UpdateInv, Formed, DiskFormed, UnitFormed
  <2>6. QED  BY <1>2, <2>2, <2>3, <2>4, <2>5, UnitStays, Elsewhere
<1>3. CASE Stop(c)
  <2> DEFINE r == [proc[Asked(c)] EXCEPT !.asked = TRUE]
  <2>1. Asked(c) \in Slot  BY <1>3 DEF Stop, UpdateInv, AskPlaced, Asked
  <2>2. /\ DOMAIN r = ProcField /\ r.pc = proc[Asked(c)].pc
        /\ r.supervised = proc[Asked(c)].supervised /\ r.updating = proc[Asked(c)].updating
    BY <2>1 DEF UpdateInv, Formed, ProcFormed, ProcField
  <2>3. Set(Asked(c), r) /\ ask[c].pc # "idle" /\ Answer(c, TRUE) /\ UNCHANGED <<disk, unit>>
    BY <1>3 DEF Stop, Request, supervision
  <2> HIDE DEF r
  <2>4. QED  BY <1>2, <2>2, <2>3, AskMoves
<1>4. CASE Reply(c)
  <2> DEFINE written == ~ask[c].left
             stopping == ask[c].ok /\ written
             said == [proc[Asked(c)] EXCEPT !.promised = @ \/ stopping]
             let == [said EXCEPT !.permit = TRUE]
  <2>1. Asked(c) \in Slot  BY <1>4 DEF Reply, UpdateInv, AskPlaced, Asked
  <2>2. /\ DOMAIN said = ProcField /\ said.pc = proc[Asked(c)].pc
        /\ said.supervised = proc[Asked(c)].supervised
        /\ said.updating = proc[Asked(c)].updating
        /\ DOMAIN let = ProcField /\ let.pc = proc[Asked(c)].pc
        /\ let.supervised = proc[Asked(c)].supervised
        /\ let.updating = proc[Asked(c)].updating
    BY <2>1 DEF UpdateInv, Formed, ProcFormed, ProcField
  <2>3. /\ Set(Asked(c), said) \/ Set(Asked(c), let)
        /\ ask[c].pc # "idle" /\ UNCHANGED <<disk, unit>>
        /\ ask' = [ask EXCEPT ![c] = Nothing]
    BY <1>4 DEF Reply, Released, supervision
  <2>4. AskFormed' /\ ask'[c].pc = "idle" /\ \A d \in Client \ {c} : ask'[d] = ask[d]
    BY <2>3 DEF UpdateInv, Formed, AskFormed, AskField, Nothing
  <2> HIDE DEF said, let
  <2>5. QED  BY <1>2, <2>2, <2>3, <2>4
<1>5. QED  BY <1>1, <1>3, <1>4, SendKeeps

\* What a working update changes of its process: the claim, or that it is asked
\* to stop.
LEMMA ClaimChanges ==
  ASSUME UpdateInv, NEW s \in Slot, NEW r, Set(s, r), DOMAIN r = ProcField,
         r.pc = proc[s].pc, r.supervised = proc[s].supervised
  PROVE  /\ ProcFormed' /\ proc'[s] = r
         /\ \A t \in Slot : Alive(t)' = Alive(t) /\ proc'[t].supervised = proc[t].supervised
         /\ \A t \in Slot \ {s} : proc'[t] = proc[t]
  BY DEF UpdateInv, Formed, ProcFormed, Set, Alive

LEMMA UnclaimedFormed ==
  ASSUME UpdateInv, NEW s \in Slot
  PROVE  /\ DOMAIN Unclaimed(s) = ProcField /\ Unclaimed(s).pc = proc[s].pc
         /\ Unclaimed(s).supervised = proc[s].supervised
  BY DEF UpdateInv, Formed, ProcFormed, Unclaimed, ProcField

LEMMA WorkerPlaced ==
  ASSUME UpdateInv, NEW c \in Client, ask[c].pc \in Cleared
  PROVE  /\ ask[c].to \in Slot /\ Alive(ask[c].to) /\ ask[c].version \in Release
         /\ proc[ask[c].to].supervised
  BY DEF UpdateInv, AskPlaced, Cleared, Working, Stated

\* An update that fails lets go of its claim, and of what it staged.
LEMMA FailKeeps ==
  ASSUME UpdateInv, NEW c \in Client, ask[c].pc \in Working, Fail(c), UNCHANGED unit,
         UNCHANGED disk \/ Unstaged
  PROVE  UpdateInv'
<1>1. /\ AskFormed' /\ ask'[c].pc = "answered" /\ ask'[c].to = ask[c].to
      /\ ask'[c].version = ask[c].version
      /\ \A d \in Client \ {c} : ask'[d] = ask[d]
  BY AskMoves DEF Fail
<1>2. /\ ProcFormed'
      /\ \A t \in Slot : Alive(t)' = Alive(t) /\ proc'[t].supervised = proc[t].supervised
  BY WorkerPlaced, UnclaimedFormed, ClaimChanges DEF Fail, Asked, Cleared
<1>3. DiskFormed' /\ Bootable'  BY DEF UpdateInv, Formed, DiskFormed, Bootable, Unstaged
<1>4. Formed'  BY <1>1, <1>2, <1>3 DEF UpdateInv, Formed, UnitFormed
<1>5. ask'[c].pc \notin Working  BY <1>1 DEF Working, Stated
<1>6. QED  BY <1>1, <1>2, <1>3, <1>4, <1>5, AtTheDisk DEF Working

\* An update that goes on at the disk, its staged file stating the release once
\* it has been asked.
LEMMA GoKeeps ==
  ASSUME UpdateInv, NEW c \in Client, ask[c].pc \in Working, NEW pc \in Working, Go(c, pc),
         UNCHANGED <<proc, unit>>, DiskFormed', Bootable',
         pc \in Stated => disk'.staged = ask[c].version
  PROVE  UpdateInv'
<1>1. /\ AskFormed' /\ ask'[c].pc = pc /\ ask'[c].to = ask[c].to
      /\ ask'[c].version = ask[c].version
      /\ \A d \in Client \ {c} : ask'[d] = ask[d]
  BY AskMoves
<1>2. Formed'  BY <1>1 DEF UpdateInv, Formed, ProcFormed, UnitFormed
<1>3. proc'[ask[c].to].updating = c  BY DEF UpdateInv, AskPlaced
<1>4. \A s \in Slot : Alive(s)' = Alive(s) /\ proc'[s].supervised = proc[s].supervised
  BY DEF Alive
<1>5. QED  BY <1>1, <1>2, <1>3, <1>4, AtTheDisk

\* What an update does before and after it works on the disk.
LEMMA ClaimSteps ==
  ASSUME UpdateInv, NEW c \in Client, Judge(c) \/ Claim(c) \/ Fetch(c) \/ Replaced(c)
  PROVE  UpdateInv'
<1>1. ASSUME Answer(c, FALSE), ask[c].pc # "idle", UNCHANGED <<proc, disk, unit>>
      PROVE  UpdateInv'
  <2>1. /\ AskFormed' /\ ask'[c].pc = "answered" /\ ask'[c].to = ask[c].to
        /\ ask'[c].version = ask[c].version
        /\ \A d \in Client \ {c} : ask'[d] = ask[d]
    BY <1>1, AskMoves
  <2>2. "answered" \notin Cleared  BY DEF Cleared, Working, Stated
  <2>3. QED
    BY <1>1, <2>1, <2>2, Elsewhere
    DEF UpdateInv, Formed, ProcFormed, DiskFormed, UnitFormed, Lasts, Stays, Alive, AskPlaced
<1>2. CASE Judge(c)
  <2>1. CASE Answer(c, FALSE)  BY <1>1, <1>2, <2>1 DEF Judge, supervision
  <2>2. CASE ~Refuse(c) /\ Go(c, "cleared")
    <3>1. /\ AskFormed' /\ ask'[c].pc = "cleared" /\ ask'[c].to = ask[c].to
          /\ ask'[c].version = ask[c].version
          /\ \A d \in Client \ {c} : ask'[d] = ask[d]
      BY <2>2, AskMoves
    <3>2. proc[ask[c].to].supervised /\ ask[c].pc # "idle"
      BY <1>2, <2>2 DEF Judge, Refuse, Asked
    <3>3. UNCHANGED <<proc, disk, unit>>  BY <1>2 DEF Judge, supervision
    <3>4. Formed' /\ OneJob' /\ Bootable'
      BY <3>1, <3>3 DEF UpdateInv, Formed, ProcFormed, DiskFormed, UnitFormed, OneJob, Alive,
                        Bootable
    <3>5. AskPlaced(c)' /\ AskStaged(c)'
      BY <3>1, <3>2, <3>3 DEF UpdateInv, AskPlaced, AskStaged, Alive, Working, Stated
    <3>6. \A d \in Client \ {c} : AskPlaced(d)' /\ AskStaged(d)'
      BY <3>1, <3>3 DEF UpdateInv, AskPlaced, AskStaged, Alive
    <3>7. QED  BY <3>4, <3>5, <3>6 DEF UpdateInv
  <2>3. QED  BY <1>2, <2>1, <2>2 DEF Judge
<1>3. CASE Claim(c)
  <2>1. CASE Answer(c, FALSE) /\ UNCHANGED proc  BY <1>1, <1>3, <2>1 DEF Claim, supervision
  <2>2. CASE /\ ~Claimed(c) /\ Go(c, "fetching")
             /\ Set(Asked(c), [proc[Asked(c)] EXCEPT !.updating = c])
    <3> DEFINE r == [proc[Asked(c)] EXCEPT !.updating = c]
    <3>1. /\ Asked(c) \in Slot /\ Alive(Asked(c)) /\ ask[c].version \in Release
          /\ proc[Asked(c)].supervised
      BY <1>3, WorkerPlaced DEF Claim, Asked, Cleared
    <3>2. /\ DOMAIN r = ProcField /\ r.pc = proc[Asked(c)].pc
          /\ r.supervised = proc[Asked(c)].supervised /\ r.updating = c
      BY <3>1 DEF UpdateInv, Formed, ProcFormed, ProcField
    <3>3. Set(Asked(c), r)  BY <2>2
    <3> HIDE DEF r
    <3>4. /\ ProcFormed' /\ proc'[Asked(c)] = r
          /\ \A t \in Slot : Alive(t)' = Alive(t) /\ proc'[t].supervised = proc[t].supervised
          /\ \A t \in Slot \ {Asked(c)} : proc'[t] = proc[t]
      BY <3>1, <3>2, <3>3, ClaimChanges
    <3>5. /\ AskFormed' /\ ask'[c].pc = "fetching" /\ ask'[c].to = ask[c].to
          /\ ask'[c].version = ask[c].version
          /\ \A d \in Client \ {c} : ask'[d] = ask[d]
      BY <2>2, AskMoves
    <3>6. UNCHANGED <<disk, unit>>  BY <1>3 DEF Claim, supervision
    <3>7. Formed' /\ OneJob' /\ Bootable'
      BY <3>4, <3>5, <3>6 DEF UpdateInv, Formed, DiskFormed, UnitFormed, OneJob, Bootable
    <3>8. AskPlaced(c)' /\ AskStaged(c)'
      BY <3>1, <3>2, <3>4, <3>5 DEF AskPlaced, AskStaged, Asked, Stated
    <3>9. ASSUME NEW d \in Client \ {c} PROVE AskPlaced(d)' /\ AskStaged(d)'
      <4>1. ask[d].pc \in Working => ask[d].to # Asked(c)
        BY <2>2, SlotAssumption DEF UpdateInv, AskPlaced, Claimed
      <4>2. ask'[d] = ask[d]  BY <3>5
      <4>3. QED
        BY <3>4, <3>6, <4>1, <4>2
        DEF UpdateInv, AskPlaced, AskStaged, Cleared, Working, Stated
    <3>10. QED  BY <3>7, <3>8, <3>9 DEF UpdateInv
  <2>3. QED  BY <1>3, <2>1, <2>2 DEF Claim
<1>4. CASE Fetch(c)
  <2>1. ask[c].pc \in Working /\ UNCHANGED <<disk, unit>>
    BY <1>4 DEF Fetch, Working, supervision
  <2>2. CASE Go(c, "fetched") /\ UNCHANGED proc
    BY <2>1, <2>2, GoKeeps DEF UpdateInv, Formed, DiskFormed, Bootable, Working, Stated
  <2>3. CASE Fail(c)  BY <2>1, <2>3, FailKeeps
  <2>4. CASE ask' = [ask EXCEPT ![c] = Nothing] /\ Set(Asked(c), Unclaimed(Asked(c)))
    <3>1. AskFormed' /\ ask'[c].pc = "idle" /\ \A d \in Client \ {c} : ask'[d] = ask[d]
      BY <2>4 DEF UpdateInv, Formed, AskFormed, AskField, Nothing
    <3>2. /\ ProcFormed'
          /\ \A t \in Slot : Alive(t)' = Alive(t) /\ proc'[t].supervised = proc[t].supervised
      BY <2>1, <2>4, WorkerPlaced, UnclaimedFormed, ClaimChanges DEF Asked, Cleared
    <3>3. Formed' /\ Bootable'
      BY <2>1, <3>1, <3>2 DEF UpdateInv, Formed, DiskFormed, UnitFormed, Bootable
    <3>4. "idle" \notin Working /\ "idle" \notin Stated  BY DEF Working, Stated
    <3>5. QED  BY <2>1, <3>1, <3>2, <3>3, <3>4, AtTheDisk
  <2>5. QED  BY <1>4, <2>2, <2>3, <2>4 DEF Fetch
<1>5. CASE Replaced(c)
  <2> DEFINE r == [Unclaimed(Asked(c)) EXCEPT !.asked = TRUE]
  <2>1. ask[c].pc \in Working /\ UNCHANGED <<disk, unit>>
    BY <1>5 DEF Replaced, Working, supervision
  <2>2. Asked(c) \in Slot  BY <2>1, WorkerPlaced DEF Asked, Cleared
  <2>3. /\ DOMAIN r = ProcField /\ r.pc = proc[Asked(c)].pc
        /\ r.supervised = proc[Asked(c)].supervised
    BY <2>2, UnclaimedFormed DEF ProcField
  <2>4. Set(Asked(c), r)  BY <1>5 DEF Replaced
  <2> HIDE DEF r
  <2>5. /\ ProcFormed'
        /\ \A t \in Slot : Alive(t)' = Alive(t) /\ proc'[t].supervised = proc[t].supervised
    BY <2>2, <2>3, <2>4, ClaimChanges
  <2>6. /\ AskFormed' /\ ask'[c].pc = "answered" /\ ask'[c].to = ask[c].to
        /\ ask'[c].version = ask[c].version
        /\ \A d \in Client \ {c} : ask'[d] = ask[d]
    BY <1>5, AskMoves DEF Replaced
  <2>7. Formed' /\ Bootable'
    BY <2>1, <2>5, <2>6 DEF UpdateInv, Formed, DiskFormed, UnitFormed, Bootable
  <2>8. "answered" \notin Working /\ "answered" \notin Stated  BY DEF Working, Stated
  <2>9. QED  BY <2>1, <2>5, <2>6, <2>7, <2>8, AtTheDisk
<1>6. QED  BY <1>2, <1>3, <1>4, <1>5

\* The steps of install: the installed file changes by the last rename alone, and
\* what is renamed over it has stated the release that was asked for.
LEMMA InstallSteps ==
  ASSUME UpdateInv, NEW c \in Client,
         Stage(c) \/ Copied(c) \/ Verify(c) \/ Unlink(c) \/ Link(c) \/ Rename(c)
  PROVE  UpdateInv'
<1>1. /\ ask[c].pc \in Working /\ UNCHANGED unit
      /\ ask[c].pc \in Stated => disk.staged = ask[c].version
  BY DEF Stage, Copied, Verify, Unlink, Link, Rename, Working, Stated, supervision, UpdateInv,
         AskStaged
<1>2. {"staging", "staged", "verified", "unlinked", "linked", "installed"} \subseteq Working
      /\ {"staging", "staged", "installed"} \cap Stated = {}
      /\ {"verified", "unlinked", "linked"} \subseteq Stated
  BY DEF Working, Stated
<1> USE DEF UpdateInv, Formed, DiskFormed, Bootable
<1>3. CASE Stage(c)
  <2>1. DiskFormed' /\ Bootable'  BY <1>3 DEF Stage
  <2>2. QED  BY <1>1, <1>2, <1>3, <2>1, GoKeeps DEF Stage
<1>4. CASE Copied(c)
  <2>1. CASE Fail(c) /\ UNCHANGED disk  BY <1>1, <2>1, FailKeeps
  <2>2. CASE /\ \E v \in {ask[c].version, Other} : disk' = [disk EXCEPT !.staged = v]
             /\ Go(c, "staged") /\ UNCHANGED proc
    <3>1. DiskFormed' /\ Bootable'  BY <2>2
    <3>2. QED  BY <1>1, <1>2, <2>2, <3>1, GoKeeps
  <2>3. QED  BY <1>4, <2>1, <2>2 DEF Copied
<1>5. CASE Verify(c)
  <2>1. CASE Fail(c) /\ Unstaged  BY <1>1, <2>1, FailKeeps
  <2>2. CASE States(c) /\ Go(c, "verified") /\ UNCHANGED <<proc, disk>>
    BY <1>1, <1>2, <2>2, GoKeeps DEF States
  <2>3. QED  BY <1>5, <2>1, <2>2 DEF Verify
<1>6. CASE Unlink(c)
  <2>1. CASE Unstaged /\ Fail(c)  BY <1>1, <2>1, FailKeeps
  <2>2. CASE disk' = [disk EXCEPT !.previous = None] /\ Go(c, "unlinked") /\ UNCHANGED proc
    <3>1. DiskFormed' /\ Bootable' /\ disk'.staged = ask[c].version
      BY <1>1, <1>2, <1>6, <2>2 DEF Unlink
    <3>2. QED  BY <1>1, <1>2, <2>2, <3>1, GoKeeps
  <2>3. QED  BY <1>6, <2>1, <2>2 DEF Unlink
<1>7. CASE Link(c)
  <2>1. CASE Unstaged /\ Fail(c)  BY <1>1, <2>1, FailKeeps
  <2>2. CASE /\ disk' = [disk EXCEPT !.previous = disk.installed]
             /\ Go(c, "linked") /\ UNCHANGED proc
    <3>1. DiskFormed' /\ Bootable' /\ disk'.staged = ask[c].version
      BY <1>1, <1>2, <1>7, <2>2 DEF Link
    <3>2. QED  BY <1>1, <1>2, <2>2, <3>1, GoKeeps
  <2>3. QED  BY <1>7, <2>1, <2>2 DEF Link
<1>8. CASE Rename(c)
  <2>1. CASE Unstaged /\ Fail(c)  BY <1>1, <2>1, FailKeeps
  <2>2. CASE /\ disk' = [disk EXCEPT !.installed = disk.staged, !.staged = None]
             /\ Go(c, "installed") /\ UNCHANGED proc
    <3>1. disk.staged \in Release
      BY <1>1, <1>2, <1>8, WorkerPlaced DEF Rename, Cleared
    <3>2. DiskFormed' /\ Bootable'  BY <2>2, <3>1
    <3>3. QED  BY <1>1, <1>2, <2>2, <3>2, GoKeeps
  <2>3. QED  BY <1>8, <2>1, <2>2 DEF Rename
<1>9. QED  BY <1>3, <1>4, <1>5, <1>6, <1>7, <1>8

\* The invariant of updates holds in every reachable state.
THEOREM UpdateInvariant == Spec => []UpdateInv
<1>1. UpdateInv /\ [Next]_vars => UpdateInv'
  <2>1. UpdateInv /\ UNCHANGED vars => UpdateInv'
    BY UnitAlone DEF vars, supervision, UpdateInv, Formed, UnitFormed
  <2>2. UpdateInv /\ Next => UpdateInv'
    BY ProcessSteps, OutsideSteps, SpawnSteps, AskSteps, ClaimSteps, InstallSteps
    DEF Next, Handle
  <2>3. QED  BY <2>1, <2>2
<1>2. QED  BY <1>1, Starts, PTL DEF Spec

\* Whatever is killed at whatever step of an update, and however many are asked
\* for, what the supervisor executes next is a whole binary of a release: the
\* staged file is one update's until it has been renamed, and is renamed only
\* once it has stated its release (update.rs, install).
THEOREM AlwaysBootable == Spec => []Bootable
<1>1. UpdateInv => Bootable  BY DEF UpdateInv
<1>2. QED  BY <1>1, UpdateInvariant, PTL
=============================================================================
