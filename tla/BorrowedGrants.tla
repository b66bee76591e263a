--------------------------- MODULE BorrowedGrants ---------------------------
(***************************************************************************)
(* Grants that belong to other programs: auth/borrowed/ and refresh_       *)
(* borrowed (auth/accounts.rs), asked for by the sweep of usage.refresh    *)
(* (control/handler.rs) and by auth/authorize.rs.                          *)
(*                                                                         *)
(* The daemon reads a profile's grant where its owner keeps it, and when   *)
(* it has lapsed runs the owner's client, under a lock of the profile, and *)
(* kills it at a deadline.  The owner renews, signs out and locks its      *)
(* keychain when it likes.  A claim of the hour that is refused            *)
(* (QuotaFigures) leaves an account out of a sweep.                        *)
(***************************************************************************)
EXTENDS Integers, FiniteSets

CONSTANTS
  Profile, Sweep, Daemon,
  DaemonOf,        \* the daemon a sweep is a task of
  InitialKept,     \* what the profiles may keep at first
  Margin, Life, RefreshLife, \* the expiry margin, and what a renewed grant lasts
  MaxClock, MaxSweeps,
  MaxEvents,       \* bounds deaths, failed waits and what the owner does
  None, Unknown, Blank

ASSUME GrantsAssumption ==
  /\ Margin \in Nat /\ Life \in Nat /\ RefreshLife \in Nat
  /\ None \notin Profile \cup Sweep
  /\ InitialKept \subseteq [Profile -> [{"keychain", "file"} ->
       [access : Nat \cup {Unknown}, refresh : Nat \cup {Unknown}] \cup {None, Blank}]]

VARIABLES
  clock,
  declared,    \* the profiles declared or discovered
  kept,        \* per profile: the keychain's item, the file beside it
  sealed,      \* the profiles whose keychain cannot be read
  lock,        \* per profile: who holds its lock
  client,      \* per sweep: the client it runs
  wrote,       \* history: who last had a hand in a profile
  orphan,      \* the profiles with a client whose daemon died or let go of it
  sweep,
  past         \* history and bounds

profiles == <<declared, kept, sealed, wrote>>
vars == <<clock, profiles, lock, client, orphan, sweep, past>>

\* A grant states when its access token lapses, or does not, and when its refresh
\* token does, or does not.  A client that failed to refresh leaves it blank.
Grant == [access : Nat \cup {Unknown}, refresh : Nat \cup {Unknown}]
Place == {"keychain", "file"}

NoClient == [of |-> None, state |-> "none"]
Idle == [pc |-> "idle", left |-> {}, profile |-> None, spent |-> FALSE, ran |-> 0, killed |-> 0]

Init == /\ clock = 0
        /\ declared = Profile
        /\ kept \in InitialKept
        /\ sealed = {}
        /\ wrote = [p \in Profile |-> None]
        /\ lock = [p \in Profile |-> None]
        /\ client = [s \in Sweep |-> NoClient]
        /\ orphan = {}
        /\ sweep = [s \in Sweep |-> Idle]
        /\ past = [sweeps |-> 0, events |-> 0]

-----------------------------------------------------------------------------
(* Reading a profile. *)

\* locate: the keychain's item, and the file where there is none or it cannot be
\* read.
Located(p) ==
  IF p \notin sealed /\ kept[p]["keychain"] # None THEN kept[p]["keychain"] ELSE kept[p]["file"]

\* grant: a blank item is refused, and the file beside it is not tried.
Readable(p) == p \in declared /\ Located(p) \notin {None, Blank}

\* poke::decide.
Usable(p) == Located(p).access # Unknown /\ Located(p).access > clock + Margin
Hopeless(p) == Located(p).refresh # Unknown /\ Located(p).refresh <= clock
Decision(p) == CASE ~Readable(p) -> "unreadable"
                 [] Readable(p) /\ Usable(p) -> "usable"
                 [] Readable(p) /\ ~Usable(p) /\ Hopeless(p) -> "hopeless"
                 [] OTHER -> "ask"

\* Credentials::needs_refresh: what a turn and a sweep are refused for.
NeedsRefresh(p) == Located(p).access = Unknown \/ clock + Margin >= Located(p).access

-----------------------------------------------------------------------------
(* The sweep. *)

Goto(s, pc) == sweep' = [sweep EXCEPT ![s].pc = pc]

\* The accounts are listed once, before any is asked for.
Begin(s) ==
  /\ sweep[s].pc = "idle" /\ past.sweeps < MaxSweeps
  /\ \E accounts \in (SUBSET declared) \ {{}} :
       sweep' = [sweep EXCEPT ![s] = [Idle EXCEPT !.pc = "next", !.left = accounts]]
  /\ past' = [past EXCEPT !.sweeps = @ + 1]
  /\ UNCHANGED <<clock, profiles, lock, client, orphan>>

\* The accounts are listed in one order.
First(accounts) == CHOOSE p \in accounts : TRUE

\* may_ask: once the budget has elapsed no client is run.
Take(s) ==
  /\ sweep[s].pc = "next" /\ sweep[s].left # {}
  /\ LET p == First(sweep[s].left)
     IN sweep' = [sweep EXCEPT ![s].profile = p, ![s].left = @ \ {p},
                            ![s].pc = IF sweep[s].spent THEN "authorize" ELSE "decide"]
  /\ UNCHANGED <<clock, profiles, lock, client, orphan, past>>

\* The budget elapses while the sweep waits for a lock or a client.
Elapse(s) ==
  /\ sweep[s].pc \in {"lock", "run"} /\ ~sweep[s].spent
  /\ sweep' = [sweep EXCEPT ![s].spent = TRUE]
  /\ UNCHANGED <<clock, profiles, lock, client, orphan, past>>

\* refresh_borrowed reads the profile and decides.
Decide(s) ==
  /\ sweep[s].pc = "decide"
  /\ LET decision == Decision(sweep[s].profile)
     IN Goto(s, CASE decision = "ask" -> "lock"
                  [] decision = "usable" -> "authorize"
                  [] OTHER -> "next")
  /\ UNCHANGED <<clock, profiles, lock, client, orphan, past>>

\* Mutant: the lock keeps nobody out.
LockShared(s) ==
  /\ sweep[s].pc = "lock"
  /\ lock' = [lock EXCEPT ![sweep[s].profile] = s]
  /\ Goto(s, "needed")
  /\ UNCHANGED <<clock, profiles, client, orphan, past>>

\* under_lock: one caller for a profile, whichever daemon it is of.
Lock(s) ==
  /\ sweep[s].pc = "lock" /\ lock[sweep[s].profile] = None
  /\ lock' = [lock EXCEPT ![sweep[s].profile] = s]
  /\ Goto(s, "needed")
  /\ UNCHANGED <<clock, profiles, client, orphan, past>>

\* The lock file cannot be made.
LockFails(s) ==
  /\ sweep[s].pc = "lock" /\ Goto(s, "next")
  /\ UNCHANGED <<clock, profiles, lock, client, orphan, past>>

Unlocked(s) == [lock EXCEPT ![sweep[s].profile] = None]

\* Mutant: what was decided before the lock was waited for stands.
NeededStill(s) ==
  /\ sweep[s].pc = "needed" /\ Goto(s, "spawn")
  /\ UNCHANGED <<clock, profiles, lock, client, orphan, past>>

\* still_needed: asked again under the lock.
Needed(s) ==
  /\ sweep[s].pc = "needed"
  /\ \/ Decision(sweep[s].profile) = "ask" /\ Goto(s, "spawn") /\ UNCHANGED lock
     \/ /\ Decision(sweep[s].profile) # "ask"
        /\ lock' = Unlocked(s) /\ Goto(s, "authorize")
  /\ UNCHANGED <<clock, profiles, client, orphan, past>>

\* The client is run, whatever has become of the profile, or could not be.
Spawn(s) ==
  /\ sweep[s].pc = "spawn"
  /\ \/ /\ client' = [client EXCEPT ![s] = [of |-> sweep[s].profile, state |-> "running"]]
        /\ sweep' = [sweep EXCEPT ![s].pc = "run", ![s].ran = @ + 1]
        /\ UNCHANGED lock
     \/ lock' = Unlocked(s) /\ Goto(s, "next") /\ UNCHANGED client
  /\ UNCHANGED <<clock, profiles, orphan, past>>

\* It cannot be waited for: the lock is let go, and it goes on.
WaitFails(s) ==
  /\ sweep[s].pc = "run" /\ client[s].state = "running" /\ past.events < MaxEvents
  /\ client' = [client EXCEPT ![s] = NoClient]
  /\ orphan' = orphan \cup {client[s].of}
  /\ lock' = Unlocked(s)
  /\ Goto(s, "next")
  /\ past' = [past EXCEPT !.events = @ + 1]
  /\ UNCHANGED <<clock, profiles>>

\* The client has exited, whatever it did.
Exited(s) ==
  /\ sweep[s].pc = "run" /\ client[s].state = "exited"
  /\ client' = [client EXCEPT ![s] = NoClient]
  /\ lock' = Unlocked(s)
  /\ Goto(s, "authorize")
  /\ UNCHANGED <<clock, profiles, orphan, past>>

\* Mutant: the lock is held past a run that failed.
KillHolding(s) ==
  /\ sweep[s].pc = "run" /\ client[s].state = "running"
  /\ client' = [client EXCEPT ![s] = NoClient]
  /\ sweep' = [sweep EXCEPT ![s].pc = "next", ![s].spent = TRUE, ![s].killed = @ + 1]
  /\ UNCHANGED <<clock, profiles, lock, orphan, past>>

\* At its deadline it is killed; the budget is as long.
Kill(s) ==
  /\ sweep[s].pc = "run" /\ client[s].state = "running"
  /\ client' = [client EXCEPT ![s] = NoClient]
  /\ lock' = Unlocked(s)
  /\ sweep' = [sweep EXCEPT ![s].pc = "next", ![s].spent = TRUE, ![s].killed = @ + 1]
  /\ UNCHANGED <<clock, profiles, orphan, past>>

\* The grant is read again, and one that has lapsed is a refusal; or the endpoint
\* is asked, and answers or times out, which may take the rest of the budget.
Authorize(s) ==
  /\ sweep[s].pc = "authorize"
  /\ \/ Goto(s, "next")
     \/ /\ Readable(sweep[s].profile) /\ ~NeedsRefresh(sweep[s].profile)
        /\ sweep' = [sweep EXCEPT ![s].pc = "next", ![s].spent = TRUE]
  /\ UNCHANGED <<clock, profiles, lock, client, orphan, past>>

End(s) ==
  /\ sweep[s].pc = "next" /\ sweep[s].left = {}
  /\ sweep' = [sweep EXCEPT ![s] = Idle]
  /\ UNCHANGED <<clock, profiles, lock, client, orphan, past>>

-----------------------------------------------------------------------------
(* The owner's client, the owner, and the world. *)

\* The client writes where its own read would look first.
Written(p, grant) ==
  LET place == IF p \notin sealed /\ kept[p]["keychain"] # None THEN "keychain" ELSE "file"
  IN kept' = [kept EXCEPT ![p][place] = grant]

Renewed == [access |-> clock + Margin + Life, refresh |-> clock + RefreshLife]

\* What a client does to the profile: renews it, or blanks what it cannot renew.
Exchange(p) ==
  /\ Readable(p)
  /\ Written(p, IF Hopeless(p) THEN Blank ELSE Renewed)

ClientExchanges(s) ==
  /\ client[s].state = "running" /\ Exchange(client[s].of)
  /\ wrote' = [wrote EXCEPT ![client[s].of] = "client"]
  /\ UNCHANGED <<clock, declared, sealed, lock, client, orphan, sweep, past>>

ClientExits(s) ==
  /\ client[s].state = "running"
  /\ client' = [client EXCEPT ![s].state = "exited"]
  /\ UNCHANGED <<clock, profiles, lock, orphan, sweep, past>>

OrphanEnds(p) ==
  /\ p \in orphan
  /\ orphan' = orphan \ {p}
  /\ \/ Exchange(p) /\ wrote' = [wrote EXCEPT ![p] = "orphan"]
     \/ UNCHANGED <<kept, wrote>>
  /\ UNCHANGED <<clock, declared, sealed, lock, client, sweep, past>>

\* The owner signs in or out, seals or unseals its keychain, and the operator
\* declares the profile or no longer does.
Owner(p) ==
  /\ past.events < MaxEvents
  /\ past' = [past EXCEPT !.events = @ + 1]
  /\ wrote' = [wrote EXCEPT ![p] = "owner"]
  /\ \/ Written(p, Renewed) /\ UNCHANGED <<sealed, declared>>
     \/ Written(p, None) /\ UNCHANGED <<sealed, declared>>
     \/ /\ sealed' = IF p \in sealed THEN sealed \ {p} ELSE sealed \cup {p}
        /\ UNCHANGED <<kept, declared>>
     \/ /\ declared' = IF p \in declared THEN declared \ {p} ELSE declared \cup {p}
        /\ UNCHANGED <<kept, sealed>>
  /\ UNCHANGED <<clock, lock, client, orphan, sweep>>

\* A daemon dies: its locks go with it, its clients go on.
Crash(d) ==
  /\ past.events < MaxEvents
  /\ LET gone == {s \in Sweep : DaemonOf[s] = d}
     IN /\ lock' = [p \in Profile |-> IF lock[p] \in gone THEN None ELSE lock[p]]
        /\ orphan' = orphan \cup {client[s].of : s \in {t \in gone : client[t].state = "running"}}
        /\ client' = [s \in Sweep |-> IF s \in gone THEN NoClient ELSE client[s]]
        /\ sweep' = [s \in Sweep |-> IF s \in gone THEN Idle ELSE sweep[s]]
  /\ past' = [past EXCEPT !.events = @ + 1]
  /\ UNCHANGED <<clock, profiles>>

Tick == /\ clock < MaxClock /\ clock' = clock + 1
        /\ UNCHANGED <<profiles, lock, client, orphan, sweep, past>>

Step(s) == \/ Take(s) \/ Decide(s) \/ Lock(s) \/ Needed(s) \/ Spawn(s) \/ Exited(s)
           \/ Kill(s) \/ Authorize(s) \/ End(s)

Next == \/ \E s \in Sweep : \/ Begin(s) \/ Step(s) \/ LockFails(s) \/ Elapse(s)
                           \/ WaitFails(s) \/ ClientExchanges(s) \/ ClientExits(s)
        \/ \E p \in Profile : Owner(p) \/ OrphanEnds(p)
        \/ \E d \in Daemon : Crash(d)
        \/ Tick

\* A blocking task goes on, a deadline passes, and a lock that is free is taken.
Spec == Init /\ [][Next]_vars /\ \A s \in Sweep : WF_vars(Step(s))

-----------------------------------------------------------------------------
(* Properties. *)

\* A run holds a per-profile lock for its whole duration: ten callers at once
\* produce one client (auth/borrowed/poke.rs, under_lock).  A client that outlives
\* its daemon, or could not be waited for, is set apart.
OneRun == \A s, t \in Sweep : client[s].of # None /\ client[s].of = client[t].of => s = t

\* "By the time it acquires the lock the first run has already written whatever
\* it was going to write" (auth/borrowed/poke.rs, under_lock): what one caller's
\* client has renewed, and nobody else touched since, no other caller's client
\* renews again, however many decided to before it, and however long they wait
\* between their second decision and their client.
RunsOnce ==
  [][\A s \in Sweep : client[s].of = None /\ client'[s].of # None
       => ~(wrote[client'[s].of] = "client" /\ Decision(client'[s].of) = "usable")]_vars

\* A sweep waits out one client that does not finish, whatever number of profiles
\* have lapsed (control/handler.rs, REFRESH_BUDGET).
OneLongRun == \A s \in Sweep : sweep[s].killed <= 1

\* Neither a profile nor a sweep is made to wait on more than one client.
OneClient == OneRun /\ OneLongRun

\* "one sweep spends at most one client run" (control/handler.rs, NOT_ASKED).
OneRunPerSweep == \A s \in Sweep : sweep[s].ran <= 1

\* Every sweep answers, whoever holds a lock and however clients fail: "a lock
\* held past a failure would make the next caller wait for a run that is not
\* happening" (auth/borrowed/poke.rs).
SweepsEnd == \A s \in Sweep : sweep[s].pc # "idle" ~> sweep[s].pc = "idle"
=============================================================================
