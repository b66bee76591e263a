---------------------------- MODULE SessionStore ----------------------------
(***************************************************************************)
(* Which session a request belongs to: SessionStore of session.rs, as the  *)
(* translated turns of ingress.rs use it.  Clients carry no identifier, so *)
(* a request is matched by content; the store is bounded and forgets.      *)
(* What overlapping turns of one session do to each other is SessionTurns; *)
(* here the turns of several conversations meet in the store.              *)
(*                                                                         *)
(* A client has one turn at a time and replays what it was shown.  Clients *)
(* may open with the same words (two runs of one prompt).                  *)
(*                                                                         *)
(* No name is one of SessionTurns', so that one module may prove about     *)
(* both.                                                                   *)
(***************************************************************************)
EXTENDS Conversation, Naturals

CONSTANTS Clients,
          Opener,       \* [Clients -> words]: what a client opens with
          Scope,        \* [Clients -> scopes]: its model and account
          Capacity,     \* CAPACITY, 64
          MaxRequests,  \* bound: requests made, whoever makes them
          MaxSweeps     \* bound: times an hour passes, or the operator switches

ASSUME CapacityAssumption == Capacity \in Nat \ {0}

ASSUME BoundsAssumption == MaxRequests \in Nat /\ MaxSweeps \in Nat

ASSUME NobodyAssumption == "nobody" \notin Clients

NoSession == 0

VARIABLES
  store,    \* the sessions held, the front first
  sessions, \* every session made: its baseline, scope, and when it was used
  clock,    \* resolves so far: the time of use
  horizon,  \* sessions last used by then have been idle for an hour
  lock,     \* the client whose request holds the store, the sessions it has
            \* filtered, and whether one of those has been written since
  client,   \* what each client holds, and how far its turn is
  sweeps

storeVars == <<store, sessions, clock, horizon, lock, client, sweeps>>

ItemOf(kind, who, at, part) == [kind |-> kind, who |-> who, at |-> at, part |-> part]

\* The next request of a client: its history and one more thing said.
Request(k) ==
  client[k].history \o
    << ItemOf("message", IF client[k].history = <<>> THEN Opener[k] ELSE k,
            Len(client[k].history), "asked") >>

Nobody == [by |-> "nobody", matched |-> {}, moved |-> FALSE]

\* The baseline of a session is written while a request may be matching it.
Written(s) == lock' = [lock EXCEPT !.moved = @ \/ s \in lock.matched]

InitStore ==
  /\ store = <<>>
  /\ sessions = <<>>
  /\ clock = 0
  /\ horizon = 0
  /\ lock = Nobody
  /\ client = [k \in Clients |-> [phase |-> "idle", history |-> <<>>,
                                  input |-> <<>>, home |-> NoSession]]
  /\ sweeps = 0

-----------------------------------------------------------------------------
(* resolve, under the store's lock. *)

Recent == Picked(store, {i \in DOMAIN store : sessions[store[i]].used > horizon})

\* best_match reads each baseline twice, and a turn may close in between: the
\* sessions the input continues are filtered first,
Filter(k) ==
  /\ lock = Nobody /\ client[k].phase = "idle" /\ clock < MaxRequests
  /\ store' = Recent
  /\ lock' = [by |-> k, moved |-> FALSE,
              matched |-> {s \in ToSet(Recent) : /\ sessions[s].scope = Scope[k]
                                                 /\ Reconciles(sessions[s].baseline, Request(k))}]
  /\ client' = [client EXCEPT ![k].phase = "resolving", ![k].input = Request(k)]
  /\ UNCHANGED <<sessions, clock, horizon, sweeps>>

Position(s) == CHOOSE i \in DOMAIN store : store[i] = s

\* Mutant: the first session that matches, however short.
NearestTheFront(matched) ==
  CHOOSE s \in matched : \A o \in matched : Position(s) <= Position(o)

\* and the longest is taken, the last of them where they are equal.
Longest(matched) ==
  CHOOSE s \in matched : \A o \in matched :
    \/ Len(sessions[o].baseline) < Len(sessions[s].baseline)
    \/ /\ Len(sessions[o].baseline) = Len(sessions[s].baseline)
       /\ Position(o) <= Position(s)

Use(k, s) == client' = [client EXCEPT ![k].phase = "resolved", ![k].home = s]

Reuse(k) ==
  /\ lock.by = k /\ lock.matched # {}
  /\ LET s == Longest(lock.matched)
     IN /\ store' = <<s>> \o Picked(store, {i \in DOMAIN store : store[i] # s})
        /\ sessions' = [sessions EXCEPT ![s].used = clock + 1]
        /\ Use(k, s)
  /\ clock' = clock + 1
  /\ lock' = Nobody
  /\ UNCHANGED <<horizon, sweeps>>

\* Mutant: the session is made empty, and seeded once its turn gets that far.
CreateUnclaimed(k) ==
  /\ lock.by = k /\ lock.matched = {}
  /\ LET s == Len(sessions) + 1
     IN /\ sessions' = Append(sessions, [baseline |-> <<>>, confirmed |-> FALSE,
                                       scope |-> Scope[k], used |-> clock + 1, by |-> k])
        /\ store' = SubSeq(<<s>> \o store, 1, Min({Capacity, Len(store) + 1}))
        /\ Use(k, s)
  /\ clock' = clock + 1
  /\ lock' = Nobody
  /\ UNCHANGED <<horizon, sweeps>>

\* The session nobody has yet, seeded before the lock is let go of.
Create(k) ==
  /\ lock.by = k /\ lock.matched = {}
  /\ LET s == Len(sessions) + 1
     IN /\ sessions' = Append(sessions, [baseline |-> client[k].input, confirmed |-> FALSE,
                                       scope |-> Scope[k], used |-> clock + 1, by |-> k])
        /\ store' = SubSeq(<<s>> \o store, 1, Min({Capacity, Len(store) + 1}))
        /\ Use(k, s)
  /\ clock' = clock + 1
  /\ lock' = Nobody
  /\ UNCHANGED <<horizon, sweeps>>

-----------------------------------------------------------------------------
(* The rest of a turn, on the session it was given: in the store or not. *)

\* The baseline is read, the replay reconciled with it, and an unconfirmed
\* session takes what is about to be sent.
Claim(k) ==
  /\ client[k].phase = "resolved"
  /\ LET s     == client[k].home
         input == FullInput(sessions[s].baseline, client[k].input)
     IN /\ client' = [client EXCEPT ![k].phase = "sent", ![k].input = input]
        /\ IF sessions[s].confirmed THEN UNCHANGED <<sessions, lock>>
           ELSE /\ sessions' = [sessions EXCEPT ![s].baseline = input, ![s].by = k]
                /\ Written(s)
  /\ UNCHANGED <<store, clock, horizon, sweeps>>

\* The turn completes, with reasoning the client is not shown or without.
Answer(k) ==
  /\ client[k].phase = "sent"
  /\ \E thought \in BOOLEAN :
       LET at(kind) == <<ItemOf(kind, k, Len(client[k].history), "answered")>>
           whole    == client[k].input
                         \o (IF thought THEN at("reasoning") ELSE <<>>) \o at("message")
       IN /\ sessions' = [sessions EXCEPT ![client[k].home].baseline = whole,
                                        ![client[k].home].confirmed = TRUE,
                                        ![client[k].home].by = k]
          /\ client' = [client EXCEPT ![k].phase = "idle", ![k].input = <<>>,
                                      ![k].history = Replayable(whole)]
  /\ Written(client[k].home)
  /\ UNCHANGED <<store, clock, horizon, sweeps>>

\* The turn fails or is given up: the client asks again, or goes on from what
\* it said and the part of an answer it saw.
Fail(k) ==
  /\ client[k].phase = "sent"
  /\ LET heard == Append(Replayable(client[k].input),
                         ItemOf("message", k, Len(client[k].history), "cut off"))
     IN \E kept \in {client[k].history, heard} :
          client' = [client EXCEPT ![k].phase = "idle", ![k].input = <<>>, ![k].history = kept]
  /\ UNCHANGED <<store, sessions, clock, horizon, lock, sweeps>>

\* An hour passes since some of the uses.
Hour == /\ sweeps < MaxSweeps /\ lock = Nobody
        /\ \E t \in (horizon + 1)..clock : horizon' = t
        /\ sweeps' = sweeps + 1
        /\ UNCHANGED <<store, sessions, clock, lock, client>>

\* The serving account changes.
Clear == /\ sweeps < MaxSweeps /\ lock = Nobody
         /\ store' = <<>>
         /\ sweeps' = sweeps + 1
         /\ UNCHANGED <<sessions, clock, horizon, lock, client>>

NextStore ==
  \/ \E k \in Clients :
       Filter(k) \/ Reuse(k) \/ Create(k) \/ Claim(k) \/ Answer(k) \/ Fail(k)
  \/ Hour \/ Clear

StoreSpec == InitStore /\ [][NextStore]_storeVars

-----------------------------------------------------------------------------
(* Properties. *)

Items == [kind : {"message", "reasoning"}, who : Clients \cup {Opener[k] : k \in Clients},
          at : Nat, part : {"asked", "answered", "cut off"}]

Sessions == [baseline : Seq(Items), confirmed : BOOLEAN,
             scope : {Scope[k] : k \in Clients}, used : Nat, by : Clients]

Positions == [phase : {"idle", "resolving", "resolved", "sent"},
              history : Seq(Items), input : Seq(Items),
              home : DOMAIN sessions \cup {NoSession}]

StoreTypeOK ==
  /\ sessions \in Seq(Sessions)
  /\ store \in Seq(DOMAIN sessions) /\ IsInjective(store) /\ Len(store) <= Capacity
  /\ clock \in Nat /\ horizon \in 0..clock /\ sweeps \in 0..MaxSweeps
  /\ \A s \in DOMAIN sessions : sessions[s].used \in 1..clock
  /\ lock \in [by : Clients \cup {"nobody"}, matched : SUBSET ToSet(store),
               moved : BOOLEAN]
  /\ client \in [Clients -> Positions]

\* No two conversations share a session, whatever their first requests overlap
\* with: one that opened with other words, for another model or as another
\* account, is never given the session of this one.
NeverJoined ==
  \A j, k \in Clients :
    client[j].home = client[k].home /\ client[k].home # NoSession =>
      Opener[j] = Opener[k] /\ Scope[j] = Scope[k]

\* The inductive strengthening of NeverJoined: every conversation begins with the
\* words of those who have it, wherever it is held, and the sessions a request is
\* matched to begin with its client's.
Begins(items, k) ==
  items # <<>> /\ items[1] = ItemOf("message", Opener[k], 0, "asked")

Belongs(s, k) == Begins(sessions[s].baseline, k) /\ sessions[s].scope = Scope[k]

OriginInv ==
  /\ \A s \in DOMAIN sessions : \E k \in Clients : Begins(sessions[s].baseline, k)
  /\ \A k \in Clients :
       /\ client[k].history # <<>> => Begins(client[k].history, k)
       /\ client[k].phase # "idle" => Begins(client[k].input, k)
       /\ client[k].phase \in {"resolved", "sent"} => client[k].home # NoSession
       /\ client[k].home # NoSession => Belongs(client[k].home, k)
  /\ lock.by # "nobody" =>
       /\ client[lock.by].phase = "resolving"
       /\ \A s \in lock.matched : Belongs(s, lock.by)

\* The front of the store is what was used last.
RecentFirst ==
  \A i, j \in DOMAIN store :
    i < j => sessions[store[i]].used > sessions[store[j]].used

\* A client whose session is still held, and which was the last to say anything in
\* it and in no other session held, comes back to it, even when another session of
\* the store would match its request too.  The exceptions are a baseline that moves
\* between the two reads of best_match, and a session in which nothing has been said
\* but the opening words: it ties with every other such session.
ComesBack ==
  \A k \in Clients :
    /\ client[k].phase = "resolving" /\ client'[k].phase = "resolved"
    /\ ~lock.moved
    /\ client[k].home \in ToSet(store) /\ sessions[client[k].home].by = k
    /\ \A o \in ToSet(store) : sessions[o].by = k => o = client[k].home
    /\ Len(sessions[client[k].home].baseline) > 1
    => client'[k].home = client[k].home

\* The inductive strengthening of ComesBack: past the opening words, what a client
\* holds it said or was told itself; its next request continues every session it was
\* the last to speak in, the request that resolves has matched those that are held,
\* and until a baseline moves it continues all it has matched.
Speaks(items, k) ==
  Len(items) > 1 => /\ ~ServerOnly(items[Len(items)])
                    /\ items[Len(items)].who = k

ReturnInv ==
  /\ \A k \in Clients :
       /\ \A i \in DOMAIN client[k].history :
            /\ ~ServerOnly(client[k].history[i])
            /\ i > 1 => client[k].history[i].who = k
       /\ client[k].phase \in {"resolving", "resolved"} => client[k].input = Request(k)
       /\ client[k].phase = "sent" => /\ Replayable(client[k].input) = Request(k)
                                      /\ Speaks(client[k].input, k)
  /\ \A s \in DOMAIN sessions :
       LET k == sessions[s].by
       IN /\ IsPrefix(Replayable(sessions[s].baseline), Request(k))
          /\ Speaks(sessions[s].baseline, k)
          /\ sessions[s].scope = Scope[k]
  /\ lock.by # "nobody" =>
       /\ \A s \in ToSet(store) : sessions[s].by = lock.by => s \in lock.matched
       /\ ~lock.moved => \A s \in lock.matched :
                           Reconciles(sessions[s].baseline, Request(lock.by))

\* What the store forgets to make room, or for having been idle, is what was
\* asked for least recently.
DropsLeastRecent ==
  store' # <<>> =>
    \A d \in ToSet(store) \ ToSet(store'), e \in ToSet(store') :
      sessions[d].used < sessions'[e].used

\* A conversation is not split: neither by being given another session while its
\* own is held, nor by its own being dropped for one used less recently
\* (session.rs, resolve and best_match).
KeepsItsSession == [][ComesBack /\ DropsLeastRecent]_storeVars
=============================================================================
