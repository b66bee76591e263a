----------------------- MODULE BorrowedGrants_proofs -----------------------
(***************************************************************************)
(* One client for a profile, one run for a grant, and one long wait for a  *)
(* sweep, for any number of daemons, sweeps and profiles, whatever the     *)
(* owner does meanwhile.                                                   *)
(***************************************************************************)
EXTENDS BorrowedGrants, TLAPS

Label == {"idle", "next", "decide", "lock", "needed", "spawn", "run", "authorize"}

TypeOK ==
  /\ declared \subseteq Profile
  /\ lock \in [Profile -> Sweep \cup {None}]
  /\ client \in [Sweep -> [of : Profile \cup {None}, state : {"none", "running", "exited"}]]
  /\ sweep \in [Sweep -> [pc : Label, left : SUBSET Profile, profile : Profile \cup {None},
                          spent : BOOLEAN, ran : Nat, killed : Nat]]

\* A sweep at work on a profile has one, and holds its lock from the second
\* decision until its client is done with.
AtWork(s) ==
  /\ sweep[s].pc \in {"decide", "lock", "needed", "spawn", "run", "authorize"}
       => sweep[s].profile \in Profile
  /\ sweep[s].pc \in {"needed", "spawn", "run"} => lock[sweep[s].profile] = s

\* A client is run for the profile its sweep holds the lock of.
Running(s) ==
  client[s].of # None => sweep[s].pc = "run" /\ client[s].of = sweep[s].profile

\* A sweep that has waited a client out runs no other.
Patience(s) ==
  /\ sweep[s].killed <= 1
  /\ sweep[s].killed # 0 => sweep[s].spent /\ sweep[s].pc \in {"next", "authorize"}

GrantsInv == TypeOK /\ \A s \in Sweep : AtWork(s) /\ Running(s) /\ Patience(s)

\* The sweep starts as it ends: at nothing.
LEMMA Starts == Init => GrantsInv
  BY GrantsAssumption
  DEF Init, GrantsInv, TypeOK, AtWork, Running, Patience, Idle, NoClient, Label

\* A step that changes sweep s, its client, and no lock but one of its own or one
\* nobody holds leaves the other sweeps as they were.
LEMMA OthersKeep ==
  ASSUME GrantsInv, NEW s \in Sweep, NEW u \in Sweep, u # s,
         sweep'[u] = sweep[u], client'[u] = client[u],
         \A p \in Profile : lock'[p] = lock[p] \/ lock[p] \in {None, s}
  PROVE  AtWork(u)' /\ Running(u)' /\ Patience(u)'
  BY GrantsAssumption DEF GrantsInv, TypeOK, AtWork, Running, Patience

\* Every step of a sweep keeps the invariant.
LEMMA SweepSteps ==
  ASSUME GrantsInv, NEW s \in Sweep,
         Begin(s) \/ Step(s) \/ LockFails(s) \/ Elapse(s) \/ WaitFails(s)
  PROVE  GrantsInv'
<1> USE GrantsAssumption DEF GrantsInv, profiles
<1>0. /\ DOMAIN sweep = Sweep /\ DOMAIN client = Sweep /\ DOMAIN lock = Profile
      /\ sweep[s] \in [pc : Label, left : SUBSET Profile, profile : Profile \cup {None},
                       spent : BOOLEAN, ran : Nat, killed : Nat]
      /\ AtWork(s) /\ Running(s) /\ Patience(s)
  BY DEF TypeOK
<1>a. ASSUME TypeOK', AtWork(s)', Running(s)', Patience(s)',
             \A u \in Sweep \ {s} : sweep'[u] = sweep[u] /\ client'[u] = client[u],
             \A p \in Profile : lock'[p] = lock[p] \/ lock[p] \in {None, s}
      PROVE  GrantsInv'
  <2>1. \A u \in Sweep \ {s} : AtWork(u)' /\ Running(u)' /\ Patience(u)'
    BY <1>a, OthersKeep
  <2>2. QED  BY <1>a, <2>1
<1>1. CASE Begin(s)
  <2>1. PICK accounts \in SUBSET declared :
          sweep' = [sweep EXCEPT ![s] = [Idle EXCEPT !.pc = "next", !.left = accounts]]
    BY <1>1 DEF Begin
  <2>2. sweep'[s] = [pc |-> "next", left |-> accounts, profile |-> None, spent |-> FALSE,
                     ran |-> 0, killed |-> 0]
    BY <1>0, <2>1 DEF Idle
  <2>3. sweep'[s] \in [pc : Label, left : SUBSET Profile, profile : Profile \cup {None},
                       spent : BOOLEAN, ran : Nat, killed : Nat]
    BY <2>2 DEF TypeOK, Label
  <2>4. sweep[s].pc = "idle" /\ UNCHANGED <<declared, lock, client>>  BY <1>1 DEF Begin
  <2>5. TypeOK'  BY <2>1, <2>3, <2>4 DEF TypeOK
  <2>6. AtWork(s)' /\ Running(s)' /\ Patience(s)'
    <3>1. sweep'[s].pc = "next" /\ sweep'[s].killed = 0  BY <2>2
    <3>2. client'[s].of = None  BY <1>0, <2>4 DEF Running
    <3>3. QED  BY <3>1, <3>2 DEF AtWork, Running, Patience
  <2>7. QED  BY <1>a, <2>1, <2>4, <2>5, <2>6
<1>2. CASE Take(s)
  <2>1. First(sweep[s].left) \in Profile  BY <1>0, <1>2 DEF Take, First
  <2>2. TypeOK'  BY <1>0, <1>2, <2>1 DEF Take, TypeOK, Label
  <2>3. AtWork(s)' /\ Running(s)' /\ Patience(s)'
    BY <1>0, <1>2, <2>1 DEF Take, AtWork, Running, Patience, TypeOK
  <2>4. QED  BY <1>a, <1>0, <1>2, <2>2, <2>3 DEF Take
<1>3. CASE Decide(s)
  <2>1. TypeOK'  BY <1>0, <1>3 DEF Decide, Goto, TypeOK, Label
  <2>2. AtWork(s)' /\ Running(s)' /\ Patience(s)'
    BY <1>0, <1>3 DEF Decide, Goto, AtWork, Running, Patience, TypeOK
  <2>3. QED  BY <1>a, <1>0, <1>3, <2>1, <2>2 DEF Decide, Goto
<1>4. CASE Lock(s)
  <2>1. TypeOK'  BY <1>0, <1>4 DEF Lock, Goto, TypeOK, AtWork, Label
  <2>2. AtWork(s)' /\ Running(s)' /\ Patience(s)'
    BY <1>0, <1>4 DEF Lock, Goto, AtWork, Running, Patience, TypeOK
  <2>3. \A p \in Profile : lock'[p] = lock[p] \/ lock[p] \in {None, s}
    BY <1>0, <1>4 DEF Lock
  <2>4. QED  BY <1>a, <1>0, <1>4, <2>1, <2>2, <2>3 DEF Lock, Goto
<1>5. CASE Needed(s)
  <2>0. sweep[s].pc = "needed" /\ sweep[s].profile \in Profile /\ lock[sweep[s].profile] = s
    BY <1>0, <1>5 DEF Needed, AtWork
  <2>1. /\ \/ Goto(s, "spawn") /\ UNCHANGED lock
           \/ lock' = Unlocked(s) /\ Goto(s, "authorize")
        /\ UNCHANGED <<declared, client>>
    BY <1>5 DEF Needed
  <2>2. TypeOK'
    <3>1. CASE Goto(s, "spawn") /\ UNCHANGED lock
      BY <1>0, <2>1, <3>1 DEF Goto, TypeOK, Label
    <3>2. CASE lock' = Unlocked(s) /\ Goto(s, "authorize")
      BY <1>0, <2>0, <2>1, <3>2 DEF Unlocked, Goto, TypeOK, Label
    <3>3. QED  BY <2>1, <3>1, <3>2
  <2>3. AtWork(s)' /\ Running(s)' /\ Patience(s)'
    <3>1. CASE Goto(s, "spawn") /\ UNCHANGED lock
      BY <1>0, <2>0, <2>1, <3>1 DEF Goto, AtWork, Running, Patience
    <3>2. CASE lock' = Unlocked(s) /\ Goto(s, "authorize")
      BY <1>0, <2>0, <2>1, <3>2 DEF Goto, AtWork, Running, Patience
    <3>3. QED  BY <2>1, <3>1, <3>2
  <2>4. \A p \in Profile : lock'[p] = lock[p] \/ lock[p] \in {None, s}
    BY <1>0, <2>0, <2>1 DEF Unlocked
  <2>5. \A u \in Sweep \ {s} : sweep'[u] = sweep[u] /\ client'[u] = client[u]
    BY <1>0, <2>1 DEF Goto
  <2>6. QED  BY <1>a, <2>2, <2>3, <2>4, <2>5
<1>6. CASE Exited(s)
  <2>1. TypeOK'  BY <1>0, <1>6 DEF Exited, Unlocked, Goto, TypeOK, NoClient, Label
  <2>2. AtWork(s)' /\ Running(s)' /\ Patience(s)'
    BY <1>0, <1>6 DEF Exited, Unlocked, Goto, AtWork, Running, Patience, TypeOK, NoClient
  <2>3. \A p \in Profile : lock'[p] = lock[p] \/ lock[p] \in {None, s}
    BY <1>0, <1>6 DEF Exited, Unlocked, AtWork
  <2>4. QED  BY <1>a, <1>0, <1>6, <2>1, <2>2, <2>3 DEF Exited, Goto
<1>7. CASE Kill(s)
  <2>1. TypeOK'  BY <1>0, <1>7 DEF Kill, Unlocked, TypeOK, NoClient, Label
  <2>2. AtWork(s)' /\ Running(s)' /\ Patience(s)'
    BY <1>0, <1>7 DEF Kill, Unlocked, AtWork, Running, Patience, TypeOK, NoClient
  <2>3. \A p \in Profile : lock'[p] = lock[p] \/ lock[p] \in {None, s}
    BY <1>0, <1>7 DEF Kill, Unlocked, AtWork
  <2>4. QED  BY <1>a, <1>0, <1>7, <2>1, <2>2, <2>3 DEF Kill
<1>8. CASE Authorize(s)
  <2>1. TypeOK'
    <3>1. UNCHANGED <<declared, lock, client>>  BY <1>8 DEF Authorize
    <3>2. CASE Goto(s, "next")  BY <1>0, <3>1, <3>2 DEF Goto, TypeOK, Label
    <3>3. CASE sweep' = [sweep EXCEPT ![s].pc = "next", ![s].spent = TRUE]
      BY <1>0, <3>1, <3>3 DEF TypeOK, Label
    <3>4. QED  BY <1>8, <3>2, <3>3 DEF Authorize
  <2>2. AtWork(s)' /\ Running(s)' /\ Patience(s)'
    BY <1>0, <1>8 DEF Authorize, Goto, AtWork, Running, Patience, TypeOK
  <2>3. \A u \in Sweep \ {s} : sweep'[u] = sweep[u]  BY <1>0, <1>8 DEF Authorize, Goto
  <2>4. QED  BY <1>a, <1>8, <2>1, <2>2, <2>3 DEF Authorize
<1>9. CASE End(s)
  <2>1. TypeOK'  BY <1>0, <1>9 DEF End, TypeOK, Idle, Label
  <2>2. AtWork(s)' /\ Running(s)' /\ Patience(s)'
    BY <1>0, <1>9 DEF End, AtWork, Running, Patience, Idle, TypeOK
  <2>3. QED  BY <1>a, <1>0, <1>9, <2>1, <2>2 DEF End
<1>10. CASE LockFails(s)
  <2>1. TypeOK'  BY <1>0, <1>10 DEF LockFails, Goto, TypeOK, Label
  <2>2. AtWork(s)' /\ Running(s)' /\ Patience(s)'
    BY <1>0, <1>10 DEF LockFails, Goto, AtWork, Running, Patience, TypeOK
  <2>3. QED  BY <1>a, <1>0, <1>10, <2>1, <2>2 DEF LockFails, Goto
<1>11. CASE Elapse(s)
  <2>1. TypeOK'  BY <1>0, <1>11 DEF Elapse, TypeOK, Label
  <2>2. AtWork(s)' /\ Running(s)' /\ Patience(s)'
    BY <1>0, <1>11 DEF Elapse, AtWork, Running, Patience, TypeOK
  <2>3. QED  BY <1>a, <1>0, <1>11, <2>1, <2>2 DEF Elapse
<1>12. CASE Spawn(s)
  <2>0. sweep[s].profile \in Profile  BY <1>0, <1>12 DEF Spawn, AtWork
  <2>1. TypeOK'
    <3>1. CASE /\ client' = [client EXCEPT ![s] = [of |-> sweep[s].profile, state |-> "running"]]
               /\ sweep' = [sweep EXCEPT ![s].pc = "run", ![s].ran = @ + 1]
               /\ UNCHANGED lock
      <4>1. UNCHANGED declared  BY <1>12 DEF Spawn
      <4>2. QED  BY <1>0, <2>0, <3>1, <4>1 DEF TypeOK, Label
    <3>2. CASE lock' = Unlocked(s) /\ Goto(s, "next") /\ UNCHANGED client
      <4>1. UNCHANGED declared  BY <1>12 DEF Spawn
      <4>2. QED  BY <1>0, <2>0, <3>2, <4>1 DEF Unlocked, Goto, TypeOK, Label
    <3>3. QED  BY <1>12, <3>1, <3>2 DEF Spawn
  <2>2. AtWork(s)' /\ Running(s)' /\ Patience(s)'
    BY <1>0, <1>12 DEF Spawn, Unlocked, Goto, AtWork, Running, Patience, TypeOK
  <2>3. \A p \in Profile : lock'[p] = lock[p] \/ lock[p] \in {None, s}
    BY <1>0, <1>12 DEF Spawn, Unlocked, Goto, AtWork
  <2>4. \A u \in Sweep \ {s} : sweep'[u] = sweep[u] /\ client'[u] = client[u]
    BY <1>0, <1>12 DEF Spawn, Goto
  <2>5. QED  BY <1>a, <2>1, <2>2, <2>3, <2>4
<1>13. CASE WaitFails(s)
  <2>1. TypeOK'  BY <1>0, <1>13 DEF WaitFails, Unlocked, Goto, TypeOK, AtWork, NoClient, Label
  <2>2. AtWork(s)' /\ Running(s)' /\ Patience(s)'
    BY <1>0, <1>13 DEF WaitFails, Unlocked, Goto, AtWork, Running, Patience, TypeOK, NoClient
  <2>3. \A p \in Profile : lock'[p] = lock[p] \/ lock[p] \in {None, s}
    BY <1>0, <1>13 DEF WaitFails, Unlocked, Goto, AtWork
  <2>4. \A u \in Sweep \ {s} : sweep'[u] = sweep[u] /\ client'[u] = client[u]
    BY <1>0, <1>13 DEF WaitFails, Goto
  <2>5. QED  BY <1>a, <2>1, <2>2, <2>3, <2>4
<1>14. QED
  BY <1>1, <1>2, <1>3, <1>4, <1>5, <1>6, <1>7, <1>8, <1>9, <1>10, <1>11, <1>12, <1>13 DEF Step

\* What the owner, its clients, the clock and a death do keeps it too.
LEMMA WorldSteps ==
  ASSUME GrantsInv,
         \/ \E s \in Sweep : ClientExchanges(s) \/ ClientExits(s)
         \/ \E p \in Profile : Owner(p) \/ OrphanEnds(p)
         \/ \E d \in Daemon : Crash(d)
         \/ Tick
  PROVE  GrantsInv'
<1> USE GrantsAssumption DEF GrantsInv, profiles
<1>a. ASSUME declared' \subseteq Profile, UNCHANGED <<lock, client, sweep>>
      PROVE  GrantsInv'
  BY <1>a DEF TypeOK, AtWork, Running, Patience
<1>1. ASSUME NEW s \in Sweep, ClientExchanges(s)
      PROVE  GrantsInv'
  BY <1>a, <1>1 DEF ClientExchanges, TypeOK
<1>2. ASSUME NEW s \in Sweep, ClientExits(s)
      PROVE  GrantsInv'
  <2>1. TypeOK'  BY <1>2 DEF ClientExits, TypeOK
  <2>2. \A u \in Sweep : client'[u].of = client[u].of  BY <1>2 DEF ClientExits, TypeOK
  <2>3. QED  BY <1>2, <2>1, <2>2 DEF ClientExits, AtWork, Running, Patience
<1>3. ASSUME NEW p \in Profile, Owner(p)
      PROVE  GrantsInv'
  <2>1. declared' \subseteq Profile  BY <1>3 DEF Owner, TypeOK
  <2>2. QED  BY <1>a, <1>3, <2>1 DEF Owner
<1>4. ASSUME NEW p \in Profile, OrphanEnds(p)
      PROVE  GrantsInv'
  BY <1>a, <1>4 DEF OrphanEnds, TypeOK
<1>5. ASSUME NEW d \in Daemon, Crash(d)
      PROVE  GrantsInv'
  <2>1. TypeOK'
    BY <1>5 DEF Crash, TypeOK, NoClient, Idle, Label
  <2>2. ASSUME NEW s \in Sweep
        PROVE  AtWork(s)' /\ Running(s)' /\ Patience(s)'
    <3>1. CASE DaemonOf[s] = d
      BY <1>5, <3>1 DEF Crash, AtWork, Running, Patience, NoClient, Idle
    <3>2. CASE DaemonOf[s] # d
      <4>1. sweep'[s] = sweep[s] /\ client'[s] = client[s]  BY <1>5, <3>2 DEF Crash
      <4>2. \A p \in Profile : lock[p] = s => lock'[p] = s  BY <1>5, <3>2 DEF Crash
      <4>3. QED  BY <4>1, <4>2 DEF AtWork, Running, Patience
    <3>3. QED  BY <3>1, <3>2
  <2>3. QED  BY <2>1, <2>2
<1>6. CASE Tick  BY <1>a, <1>6 DEF Tick, TypeOK
<1>7. QED  BY <1>1, <1>2, <1>3, <1>4, <1>5, <1>6

\* The invariant of the sweeps holds in every reachable state.
THEOREM GrantsInvariant == Spec => []GrantsInv
<1>1. GrantsInv /\ [Next]_vars => GrantsInv'
  <2>1. GrantsInv /\ UNCHANGED vars => GrantsInv'
    BY DEF vars, profiles, GrantsInv, TypeOK, AtWork, Running, Patience
  <2>2. GrantsInv /\ Next => GrantsInv'  BY SweepSteps, WorldSteps DEF Next
  <2>3. QED  BY <2>1, <2>2
<1>2. QED  BY <1>1, Starts, PTL DEF Spec

\* Ten callers at once produce one client, and a sweep waits out one that does
\* not finish: the first because two clients of one profile would be two holders
\* of its lock, the second because the budget a wait spends is not given back
\* (auth/borrowed/poke.rs, under_lock; control/handler.rs, REFRESH_BUDGET).
THEOREM OneClientAtATime == Spec => []OneClient
<1>1. GrantsInv => OneClient
  <2>1. ASSUME GrantsInv, NEW s \in Sweep, NEW t \in Sweep,
               client[s].of # None, client[s].of = client[t].of
        PROVE  s = t
    <3>1. lock[client[s].of] = s /\ lock[client[t].of] = t
      BY <2>1 DEF GrantsInv, Running, AtWork
    <3>2. QED  BY <2>1, <3>1
  <2>2. QED  BY <2>1 DEF OneClient, OneRun, OneLongRun, GrantsInv, Patience
<1>2. QED  BY <1>1, GrantsInvariant, PTL

-----------------------------------------------------------------------------
(* One run for a grant. *)

\* What a place keeps.
Keeps == [access : Nat \cup {Unknown}, refresh : Nat \cup {Unknown}] \cup {None, Blank}

KeepsOK ==
  /\ clock \in Nat
  /\ kept \in [Profile -> [Place -> Keeps]]
  /\ wrote \in [Profile -> {None, "client", "owner", "orphan"}]

\* What a client renewed is not usable while a sweep has decided, under the lock,
\* to run another: nobody else's client comes between.
Fresh(s) ==
  sweep[s].pc = "spawn" /\ wrote[sweep[s].profile] = "client"
    => Decision(sweep[s].profile) # "usable"

RunsInv == KeepsOK /\ \A s \in Sweep : Fresh(s)

\* What has lapsed has lapsed by any later time.
LEMMA Later ==
  ASSUME NEW now \in Nat, NEW then \in Nat, now <= then, NEW margin \in Nat
  PROVE  now + margin \in Nat /\ then + margin \in Nat /\ now + margin <= then + margin
  OBVIOUS

\* Nothing but time has passed for a profile, and what was not usable is not.
LEMMA LapsedStays ==
  ASSUME KeepsOK, KeepsOK', NEW p \in Profile, clock' \in {clock, clock + 1},
         kept'[p] = kept[p], p \in sealed' <=> p \in sealed,
         p \in declared' <=> p \in declared, Decision(p) # "usable"
  PROVE  (Decision(p) # "usable")'
<1> USE GrantsAssumption
<1>1. Located(p)' = Located(p)  BY DEF Located
<1>2. Readable(p)' = Readable(p)  BY <1>1 DEF Readable
<1>3. CASE ~Readable(p)  BY <1>2, <1>3 DEF Decision
<1>4. CASE Readable(p)
  <2>1. ~Usable(p)  BY <1>4 DEF Decision
  <2>2. Located(p) \in [access : Nat \cup {Unknown}, refresh : Nat \cup {Unknown}]
    BY <1>4 DEF Readable, Located, KeepsOK, Keeps, Place
  <2>3. Located(p).access \in Nat \cup {Unknown}  BY <2>2
  <2>4. clock + Margin \in Nat /\ clock' + Margin \in Nat /\ clock + Margin <= clock' + Margin
    <3>1. clock \in Nat /\ clock' \in Nat /\ clock <= clock'  BY DEF KeepsOK
    <3>2. Margin \in Nat  BY DEF GrantsAssumption
    <3>3. QED  BY <3>1, <3>2, Later
  <2>5. ~Usable(p)'  BY <1>1, <2>1, <2>3, <2>4 DEF Usable
  <2>6. QED  BY <1>2, <1>4, <2>5 DEF Decision
<1>5. QED  BY <1>3, <1>4

\* The profiles keep what they may at first, and nobody has written.
LEMMA RunsStart == Init => RunsInv
  BY GrantsAssumption DEF Init, RunsInv, KeepsOK, Keeps, Place, Fresh, Idle

\* Whoever writes to a profile writes what a place may keep.
LEMMA WrittenKeeps ==
  ASSUME KeepsOK, NEW p \in Profile, NEW grant \in Keeps, Written(p, grant)
  PROVE  /\ kept' \in [Profile -> [Place -> Keeps]]
         /\ \A q \in Profile \ {p} : kept'[q] = kept[q]
  BY DEF Written, KeepsOK, Place

LEMMA ExchangeKeeps ==
  ASSUME KeepsOK, NEW p \in Profile, Exchange(p)
  PROVE  /\ kept' \in [Profile -> [Place -> Keeps]]
         /\ \A q \in Profile \ {p} : kept'[q] = kept[q]
<1> USE GrantsAssumption
<1>1. Renewed \in Keeps  BY DEF Renewed, Keeps, KeepsOK
<1>2. Blank \in Keeps  BY DEF Keeps
<1>3. PICK grant \in Keeps : Written(p, grant)
  <2>1. CASE Hopeless(p)  BY <1>2, <2>1 DEF Exchange
  <2>2. CASE ~Hopeless(p)  BY <1>1, <2>2 DEF Exchange
  <2>3. QED  BY <2>1, <2>2
<1>4. QED  BY <1>3, WrittenKeeps

\* A step of a sweep, of its client's end or of a death writes nothing, and a
\* sweep is at its client only by the decision it takes under the lock.
LEMMA SweepsFresh ==
  ASSUME GrantsInv, RunsInv, UNCHANGED <<clock, profiles>>,
         \A s \in Sweep : sweep'[s].pc = "spawn" =>
           \/ sweep'[s] = sweep[s]
           \/ sweep'[s].profile = sweep[s].profile /\ Decision(sweep[s].profile) = "ask"
  PROVE  RunsInv'
<1>1. KeepsOK'  BY DEF RunsInv, KeepsOK, profiles
<1>2. ASSUME NEW p
      PROVE  Decision(p)' = Decision(p)
  <2>1. Located(p)' = Located(p)  BY DEF Located, profiles
  <2>2. QED  BY <2>1 DEF Decision, Readable, Usable, Hopeless, profiles
<1>3. ASSUME NEW s \in Sweep
      PROVE  Fresh(s)'
  <2>1. SUFFICES ASSUME sweep'[s].pc = "spawn", wrote[sweep'[s].profile] = "client"
                 PROVE  (Decision(sweep[s].profile) # "usable")'
    BY DEF Fresh, profiles
  <2>2. PICK q : q = sweep'[s].profile  OBVIOUS
  <2>3. Decision(q) # "usable"
    <3>1. CASE sweep'[s] = sweep[s]  BY <2>1, <2>2, <3>1 DEF RunsInv, Fresh
    <3>2. CASE sweep'[s].profile = sweep[s].profile /\ Decision(sweep[s].profile) = "ask"
      BY <2>2, <3>2
    <3>3. QED  BY <2>1, <3>1, <3>2
  <2>4. (Decision(q) # "usable")'  BY <1>2, <2>3
  <2>5. QED  BY <2>2, <2>4
<1>4. QED  BY <1>1, <1>3 DEF RunsInv

\* A write to a profile no sweep is about to run a client for, or one that is not
\* a client's, keeps the others as they were.
LEMMA WriteFresh ==
  ASSUME GrantsInv, RunsInv, UNCHANGED <<clock, sweep>>, NEW p \in Profile, KeepsOK',
         \A q \in Profile \ {p} :
           /\ kept'[q] = kept[q] /\ wrote'[q] = wrote[q]
           /\ (q \in sealed' <=> q \in sealed) /\ (q \in declared' <=> q \in declared),
         \/ wrote'[p] # "client"
         \/ \A s \in Sweep : sweep[s].pc = "spawn" => sweep[s].profile # p
  PROVE  RunsInv'
<1>1. ASSUME NEW s \in Sweep, sweep[s].pc = "spawn", wrote'[sweep[s].profile] = "client"
      PROVE  Decision(sweep[s].profile)' # "usable"
  <2>1. sweep[s].profile \in Profile \ {p}  BY <1>1 DEF GrantsInv, AtWork
  <2>2. wrote[sweep[s].profile] = "client"  BY <1>1, <2>1
  <2>3. Decision(sweep[s].profile) # "usable"  BY <1>1, <2>2 DEF RunsInv, Fresh
  <2>4. PICK q \in Profile \ {p} : q = sweep[s].profile  BY <2>1
  <2>5. (Decision(q) # "usable")'  BY <2>3, <2>4, LapsedStays DEF RunsInv
  <2>6. QED  BY <2>4, <2>5
<1>2. QED  BY <1>1 DEF RunsInv, Fresh

\* Every step keeps it.
LEMMA RunsSteps ==
  ASSUME GrantsInv, RunsInv, Next
  PROVE  RunsInv'
<1> USE GrantsAssumption
<1>0. /\ DOMAIN sweep = Sweep /\ DOMAIN wrote = Profile /\ KeepsOK
      /\ \A s \in Sweep : sweep[s] \in [pc : Label, left : SUBSET Profile,
           profile : Profile \cup {None}, spent : BOOLEAN, ran : Nat, killed : Nat]
  BY DEF GrantsInv, TypeOK, RunsInv, KeepsOK
<1>1. ASSUME NEW s \in Sweep, Begin(s) \/ Step(s) \/ LockFails(s) \/ Elapse(s) \/ WaitFails(s)
      PROVE  RunsInv'
  <2>1. UNCHANGED <<clock, profiles>>
    BY <1>1 DEF Begin, Step, Take, Decide, Lock, Needed, Spawn, Exited, Kill, Authorize, End,
       LockFails, Elapse, WaitFails
  <2>2. \A u \in Sweep \ {s} : sweep'[u] = sweep[u]
    BY <1>0, <1>1 DEF Begin, Step, Take, Decide, Lock, Needed, Spawn, Exited, Kill, Authorize,
       End, LockFails, Elapse, WaitFails, Goto
  <2>3. sweep'[s].pc = "spawn" =>
          sweep'[s].profile = sweep[s].profile /\ Decision(sweep[s].profile) = "ask"
    <3>1. CASE Needed(s)  BY <1>0, <3>1 DEF Needed, Goto
    <3>2. CASE Begin(s)
      <4>1. PICK accounts \in SUBSET declared :
              sweep' = [sweep EXCEPT ![s] = [Idle EXCEPT !.pc = "next", !.left = accounts]]
        BY <3>2 DEF Begin
      <4>2. sweep'[s] = [Idle EXCEPT !.pc = "next", !.left = accounts]  BY <1>0, <4>1
      <4>3. sweep'[s].pc = "next"  BY <4>2 DEF Idle
      <4>4. QED  BY <4>3
    <3>3. CASE Take(s) \/ Decide(s) \/ Lock(s) \/ LockFails(s) \/ Elapse(s)
      BY <1>0, <3>3 DEF Take, Decide, Lock, LockFails, Elapse, Goto
    <3>4. CASE Spawn(s) \/ Exited(s) \/ Kill(s) \/ Authorize(s) \/ WaitFails(s)
      BY <1>0, <3>4 DEF Spawn, Exited, Kill, Authorize, WaitFails, Goto
    <3>5. CASE End(s)
      <4>1. sweep'[s] = Idle  BY <1>0, <3>5 DEF End
      <4>2. sweep'[s].pc = "idle"  BY <4>1 DEF Idle
      <4>3. QED  BY <4>2
    <3>6. QED  BY <1>1, <3>1, <3>2, <3>3, <3>4, <3>5 DEF Step
  <2>4. QED  BY <2>1, <2>2, <2>3, SweepsFresh
<1>2. ASSUME NEW s \in Sweep, ClientExchanges(s)
      PROVE  RunsInv'
  <2>1. PICK p \in Profile : p = client[s].of /\ lock[p] = s /\ sweep[s].pc = "run"
    BY <1>2 DEF GrantsInv, TypeOK, AtWork, Running, ClientExchanges, Exchange, Readable
  <2>2. /\ Exchange(p) /\ wrote' = [wrote EXCEPT ![p] = "client"]
        /\ UNCHANGED <<clock, declared, sealed, sweep>>
    BY <1>2, <2>1 DEF ClientExchanges
  <2>3. /\ kept' \in [Profile -> [Place -> Keeps]]
        /\ \A q \in Profile \ {p} : kept'[q] = kept[q]
    BY <1>0, <2>2, ExchangeKeeps
  <2>4. KeepsOK'  BY <1>0, <2>2, <2>3 DEF KeepsOK
  <2>5. \A u \in Sweep : sweep[u].pc = "spawn" => sweep[u].profile # p
    BY <2>1 DEF GrantsInv, AtWork
  <2>6. QED  BY <1>0, <2>2, <2>3, <2>4, <2>5, WriteFresh
<1>3. ASSUME NEW p \in Profile, OrphanEnds(p)
      PROVE  RunsInv'
  <2>1. UNCHANGED <<clock, declared, sealed, sweep>>  BY <1>3 DEF OrphanEnds
  <2>2. CASE Exchange(p) /\ wrote' = [wrote EXCEPT ![p] = "orphan"]
    <3>1. /\ kept' \in [Profile -> [Place -> Keeps]]
          /\ \A q \in Profile \ {p} : kept'[q] = kept[q]
      BY <1>0, <2>2, ExchangeKeeps
    <3>2. KeepsOK'  BY <1>0, <2>1, <2>2, <3>1 DEF KeepsOK
    <3>3. QED  BY <1>0, <2>1, <2>2, <3>1, <3>2, WriteFresh
  <2>3. CASE UNCHANGED <<kept, wrote>>
    BY <2>1, <2>3, SweepsFresh DEF profiles
  <2>4. QED  BY <1>3, <2>2, <2>3 DEF OrphanEnds
<1>4. ASSUME NEW p \in Profile, Owner(p)
      PROVE  RunsInv'
  <2>1. wrote' = [wrote EXCEPT ![p] = "owner"] /\ UNCHANGED <<clock, sweep>>
    BY <1>4 DEF Owner
  <2>2. Renewed \in Keeps /\ None \in Keeps  BY <1>0 DEF Renewed, Keeps, KeepsOK
  <2>3. /\ kept' \in [Profile -> [Place -> Keeps]]
        /\ \A q \in Profile \ {p} : kept'[q] = kept[q]
    BY <1>0, <1>4, <2>2, WrittenKeeps DEF Owner, KeepsOK
  <2>4. \A q \in Profile \ {p} :
          (q \in sealed' <=> q \in sealed) /\ (q \in declared' <=> q \in declared)
    BY <1>4 DEF Owner
  <2>5. KeepsOK'  BY <1>0, <2>1, <2>3 DEF KeepsOK
  <2>6. QED  BY <1>0, <2>1, <2>3, <2>4, <2>5, WriteFresh
<1>5. CASE Tick
  <2>1. clock' = clock + 1 /\ UNCHANGED <<kept, sealed, declared, wrote, sweep>>
    BY <1>5 DEF Tick, profiles
  <2>2. KeepsOK'  BY <1>0, <2>1 DEF KeepsOK
  <2>3. ASSUME NEW s \in Sweep, sweep[s].pc = "spawn", wrote[sweep[s].profile] = "client"
        PROVE  Decision(sweep[s].profile)' # "usable"
    <3>1. PICK q \in Profile : q = sweep[s].profile  BY <2>3 DEF GrantsInv, AtWork
    <3>2. Decision(q) # "usable"  BY <2>3, <3>1 DEF RunsInv, Fresh
    <3>3. (Decision(q) # "usable")'  BY <1>0, <2>1, <2>2, <3>2, LapsedStays
    <3>4. QED  BY <2>1, <3>1, <3>3
  <2>4. QED  BY <2>1, <2>2, <2>3 DEF RunsInv, Fresh
<1>6. ASSUME NEW s \in Sweep, ClientExits(s)
      PROVE  RunsInv'
  BY <1>6, SweepsFresh DEF ClientExits
<1>7. ASSUME NEW d \in Daemon, Crash(d)
      PROVE  RunsInv'
  <2>1. \A s \in Sweep : sweep'[s] \in {sweep[s], Idle}  BY <1>7 DEF Crash
  <2>2. UNCHANGED <<clock, profiles>>  BY <1>7 DEF Crash
  <2>3. QED  BY <2>1, <2>2, SweepsFresh DEF Idle
<1>8. QED  BY <1>1, <1>2, <1>3, <1>4, <1>5, <1>6, <1>7 DEF Next

\* A client newly run is not run for what another has renewed.
LEMMA RunStep ==
  ASSUME GrantsInv, RunsInv, [Next]_vars, NEW s \in Sweep,
         client[s].of = None, client'[s].of # None
  PROVE  ~(wrote[client'[s].of] = "client" /\ Decision(client'[s].of) = "usable")
<1>0. /\ DOMAIN client = Sweep
      /\ \A u \in Sweep : client[u] \in [of : Profile \cup {None},
                                         state : {"none", "running", "exited"}]
  BY DEF GrantsInv, TypeOK
<1>1. client' # client  OBVIOUS
<1>2. ASSUME NEW u \in Sweep, Spawn(u)
      PROVE  ~(wrote[client'[s].of] = "client" /\ Decision(client'[s].of) = "usable")
  <2>1. client' = [client EXCEPT ![u] = [of |-> sweep[u].profile, state |-> "running"]]
    BY <1>1, <1>2 DEF Spawn
  <2>2. u = s  BY <1>0, <2>1
  <2>3. client'[s].of = sweep[s].profile  BY <1>0, <2>1, <2>2
  <2>4. QED  BY <1>2, <2>2, <2>3 DEF Spawn, RunsInv, Fresh
<1>3. ASSUME NEW u \in Sweep, Exited(u) \/ Kill(u) \/ WaitFails(u)
      PROVE  FALSE
  <2>1. client' = [client EXCEPT ![u] = NoClient]  BY <1>3 DEF Exited, Kill, WaitFails
  <2>2. client'[s].of = None  BY <1>0, <2>1 DEF NoClient
  <2>3. QED  BY <2>2
<1>4. ASSUME NEW u \in Sweep, ClientExits(u)
      PROVE  FALSE
  <2>1. client' = [client EXCEPT ![u].state = "exited"]  BY <1>4 DEF ClientExits
  <2>2. client'[s].of = None  BY <1>0, <2>1
  <2>3. QED  BY <2>2
<1>5. ASSUME NEW d \in Daemon, Crash(d)
      PROVE  FALSE
  <2>1. client'[s] \in {client[s], NoClient}  BY <1>5 DEF Crash
  <2>2. QED  BY <2>1 DEF NoClient
<1>6. \/ \E u \in Sweep : Spawn(u) \/ Exited(u) \/ Kill(u) \/ WaitFails(u) \/ ClientExits(u)
      \/ \E d \in Daemon : Crash(d)
  BY <1>1 DEF Next, Step, Begin, Take, Decide, Lock, Needed, Authorize, End, LockFails, Elapse,
     ClientExchanges, Owner, OrphanEnds, Tick, vars
<1>7. QED  BY <1>2, <1>3, <1>4, <1>5, <1>6

\* Ten callers at once produce one run, not ten in turn: nobody's client renews
\* what another's has, however long the lock is waited for and however late the
\* client starts, because the decision is taken again under the lock, only the
\* holder's client writes until it is let go, and what has lapsed stays so
\* (auth/borrowed/poke.rs, under_lock).
THEOREM RunsAreOnce == Spec => RunsOnce
<1>1. RunsInv /\ GrantsInv /\ [Next]_vars => RunsInv'
  <2>1. RunsInv /\ UNCHANGED vars => RunsInv'
    BY DEF vars, profiles, RunsInv, KeepsOK, Fresh, Decision, Readable, Usable, Hopeless, Located
  <2>2. QED  BY <2>1, RunsSteps
<1>2. GrantsInv /\ RunsInv /\ [Next]_vars =>
        [\A s \in Sweep : client[s].of = None /\ client'[s].of # None
           => ~(wrote[client'[s].of] = "client" /\ Decision(client'[s].of) = "usable")]_vars
  BY RunStep
<1>3. Spec => []RunsInv  BY <1>1, RunsStart, GrantsInvariant, PTL DEF Spec
<1>4. QED  BY <1>2, <1>3, GrantsInvariant, PTL DEF Spec, RunsOnce
=============================================================================
