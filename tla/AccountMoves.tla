---------------------------- MODULE AccountMoves ----------------------------
(***************************************************************************)
(* Moving the account that serves turns: accounts.select, accounts.remove, *)
(* config.reload and the follow loop (crates/proxy/src/control/handler.rs, *)
(* catalog.rs, auth/accounts.rs), against the turns made meanwhile.        *)
(*                                                                         *)
(* The daemon serves one account at a time.  With it go the model list     *)
(* (the catalog, one account's menu), the tier mapping in force, and the   *)
(* sockets the conversations pool, each of which authenticated once, when  *)
(* it was opened.  A control request runs on a task of its own: it is      *)
(* split where it awaits (the lock every move holds, and each fetch), and  *)
(* what it does between two awaits is one step.                            *)
(*                                                                         *)
(* A subscription is read from a profile another program owns, so who a    *)
(* profile's name stands for (owner) changes behind the daemon's back.  An *)
(* identity is who is billed: a subscription's account id, or a key, which *)
(* carries no id.  All accounts here are on the translating provider.      *)
(***************************************************************************)
EXTENDS Naturals, FiniteSets

CONSTANTS
  Profile, Key,  \* names of borrowed subscriptions, names of stored keys
  Id,            \* account ids
  Model,
  MappingOf,     \* what config.toml maps a tier to, for each account serving
  Menu,          \* the models each identity is offered
  Files,         \* the sets of profiles the operator may write in config.toml
  Operator,      \* control connections that may each make a request
  Ops,           \* the requests made in this run
  Follower,      \* the task that follows the serving account
  Turn, Session,
  Pin,           \* accounts a tier is pinned to; None is a tier with no pin
  Startup,       \* how the fetch at the daemon's start may end, and
  Fetches,       \* any later one: TRUE is an answer
  Swaps,         \* how often an owning program signs in as somebody else
  None

Name == Profile \union Key
Identity == Id \union Key

ASSUME NamesAssumption ==
  /\ IsFiniteSet(Name)
  /\ Profile \intersect Key = {} /\ Id \intersect Key = {}
  /\ None \notin Name \union Identity \union Session \union Operator
  /\ Follower \notin Operator \union {None}
  /\ Pin \subseteq Name \union {None}
  /\ Files \subseteq SUBSET Profile
  /\ Startup \subseteq BOOLEAN /\ Fetches \subseteq BOOLEAN /\ Swaps \in Nat
  /\ MappingOf \in [Name \union {None} -> Model]
  /\ Menu \in [Identity -> SUBSET Model]

VARIABLES
  listed,     \* the accounts the store answers for
  selection,  \* selected.json
  owner,      \* who each profile is signed in as (external)
  catalog,    \* whose menu is in force, None for the list built in
  tiers,      \* the mapping in force: whose, its model, whether it is marked
  holder,     \* who holds the lock of every move
  op,         \* each control task: where it is and what it remembers
  live,       \* the session the store holds for a conversation of each pin
  pool,       \* the identity each session's pooled socket was opened as
  turn,       \* each turn: where it is, its session, its pin, its socket
  judged,     \* history: whose list last refused or marked whose mapping
  past,       \* history: what the exceptions of the properties below are
  swaps

accounts == <<listed, selection, owner, swaps>>
inForce  == <<catalog, tiers, holder, judged, past>>
sockets  == <<live, pool, turn>>
vars     == <<accounts, inForce, op, sockets>>

IdentityOf(n) == IF n \in Key THEN n ELSE owner[n]

\* The account id a list or a listing carries; a key's carries none.
Claim(i) == IF i \in Id THEN i ELSE None

\* Who serves turns when the store lists names and sel is recorded: the one
\* recorded, or the only one there is.
ServingOf(names, sel) ==
  IF sel # None THEN IF sel \in names THEN sel ELSE None
  ELSE IF Cardinality(names) = 1 THEN CHOOSE n \in names : TRUE ELSE None

Serving == ServingOf(listed, selection)

\* is_stale_for, asked about the account n.
Stale(list, n) ==
  /\ Claim(list) # None
  /\ n # None /\ Claim(IdentityOf(n)) # None
  /\ Claim(IdentityOf(n)) # Claim(list)

\* Mutant: the list is not asked whose it is.
AbsentFromAny(list, serving, n) ==
  list # None /\ MappingOf[n] \notin Menu[list]

\* put_mapping_in_force finds n's mapping absent from a list it takes to be the
\* serving account's.
Absent(list, serving, n) ==
  /\ list # None /\ ~Stale(list, serving)
  /\ MappingOf[n] \notin Menu[list]

Mapping(list, serving, n) ==
  [of |-> n, model |-> MappingOf[n], missing |-> Absent(list, serving, n)]

Judge(list, serving, n) ==
  judged' = IF Absent(list, serving, n)
            THEN [by |-> list, of |-> IF serving = None THEN None
                                      ELSE IdentityOf(serving)]
            ELSE judged

\* put_mapping_in_force for whoever serves, marking what the list lacks.
Mark(list, serving) ==
  /\ tiers' = Mapping(list, serving, serving)
  /\ Judge(list, serving, serving)

Idle == [pc |-> "idle", target |-> None, previous |-> None, fetching |-> None,
         before |-> None]
NoTurn == [pc |-> "idle", session |-> None, pin |-> None, sock |-> None,
           asked |-> None]

\* The daemon has started: everything stored is listed, one account is selected
\* and its list is fetched if the backend answers.
Init ==
  /\ listed = Name /\ selection \in Name
  /\ owner \in {f \in [Profile -> Id] :
                  \A p, q \in Profile : f[p] = f[q] => p = q}
  /\ \E ok \in Startup :
       catalog = IF ok THEN IdentityOf(selection) ELSE None
  /\ tiers = Mapping(catalog, selection, selection)
  /\ holder = None
  /\ op = [o \in Operator \union {Follower} |-> Idle]
  /\ live = [p \in Pin |-> None]
  /\ pool = [s \in Session |-> None]
  /\ turn = [t \in Turn |-> NoTurn]
  /\ judged = [by |-> None, of |-> None]
  /\ past = {}
  /\ swaps = 0

\* Mutant: a move leaves the conversations bound to the account before it.
ClearNothing == UNCHANGED live

\* SessionStore::clear.
ClearSessions == live' = [p \in Pin |-> None]

\* A fetch begun as identity i answers, or leaves the list in force alone.
Landed(i) == {IF ok THEN i ELSE catalog : ok \in Fetches}
-----------------------------------------------------------------------------
(***************************************************************************)
(* accounts.select                                                         *)
(***************************************************************************)

\* What to go back to is read, then the lock is waited for.
SelectAsk(o, n) ==
  /\ "select" \in Ops /\ op[o].pc = "idle"
  /\ n # Serving
  /\ op' = [op EXCEPT ![o] = [Idle EXCEPT !.pc = "waiting", !.target = n,
                                          !.previous = Serving]]
  /\ UNCHANGED <<accounts, inForce, sockets>>

\* The lock is held: the store is moved, and the account it now names is read
\* to ask for its list.
SelectMove(o) ==
  /\ op[o].pc = "waiting" /\ holder = None
  /\ IF op[o].target \in listed
     THEN /\ selection' = op[o].target
          /\ holder' = o
          /\ op' = [op EXCEPT ![o].pc = "fetching",
                              ![o].fetching = IdentityOf(op[o].target),
                              ![o].before = [serving |-> Serving, tiers |-> tiers]]
          /\ past' = IF op[o].previous # Serving THEN past \union {"overlapped"} ELSE past
     ELSE /\ op' = [op EXCEPT ![o] = Idle]
          /\ UNCHANGED <<selection, holder, past>>
  /\ UNCHANGED <<listed, owner, swaps, catalog, tiers, judged, sockets>>

Release(o) == holder' = None /\ op' = [op EXCEPT ![o] = Idle]

\* The mapping of the account named goes in force, and every conversation is
\* dropped.
Switch(o, list) ==
  /\ tiers' = Mapping(list, Serving, op[o].target)
  /\ ClearSessions
  /\ Release(o)
  /\ UNCHANGED <<selection, past>>

\* What is remembered of a refusal, for the properties that except it.
Refused(how) == past' = past \union how

\* Mutants: a refused switch leaves the store where it was moved, or puts the
\* mapping in force before it is judged.
RefuseStaying(o) ==
  /\ Release(o)
  /\ Refused({"refused"})
  /\ UNCHANGED <<selection, tiers, live>>

RefuseApplied(o) ==
  /\ op[o].previous \in listed
  /\ selection' = op[o].previous
  /\ op' = [op EXCEPT ![o].pc = "restoring",
                      ![o].fetching = IdentityOf(op[o].previous)]
  /\ tiers' = [tiers EXCEPT !.of = op[o].target,
                             !.model = MappingOf[op[o].target]]
  /\ Refused({"refused"})
  /\ UNCHANGED <<holder, live>>

\* The switch is refused, and the store moved back if it can be.
Refuse(o) ==
  /\ IF op[o].previous \in listed
     THEN /\ selection' = op[o].previous
          /\ op' = [op EXCEPT ![o].pc = "restoring",
                              ![o].fetching = IdentityOf(op[o].previous)]
          /\ Refused({"refused"})
          /\ UNCHANGED holder
     ELSE Release(o) /\ Refused({"refused", "stranded"}) /\ UNCHANGED selection
  /\ UNCHANGED <<tiers, live>>

\* The fetch ends, and the mapping of the account named is judged.
SelectLand(o) ==
  /\ op[o].pc = "fetching"
  /\ \E list \in Landed(op[o].fetching) :
       /\ catalog' = list
       /\ Judge(list, Serving, op[o].target)
       /\ IF Absent(list, Serving, op[o].target) THEN Refuse(o) ELSE Switch(o, list)
  /\ UNCHANGED <<listed, owner, swaps, pool, turn>>

\* The list of the account put back is fetched again, and the refusal returned.
SelectRestored(o) ==
  /\ op[o].pc = "restoring"
  /\ catalog' \in Landed(op[o].fetching)
  /\ Release(o)
  /\ UNCHANGED <<accounts, tiers, judged, past, sockets>>

(***************************************************************************)
(* accounts.remove and config.reload                                       *)
(***************************************************************************)

\* A key is dropped and a selection naming it forgotten; a declared profile
\* leaves config.toml, which is then reloaded.  Where that hands over, every
\* conversation is dropped and the list fetched for whoever serves next.
Remove(o, n) ==
  LET names == listed \ {n}
      sel   == IF n \in Key /\ selection = n THEN None ELSE selection
      next  == ServingOf(names, sel)
      handsOver == n = Serving
  IN
  /\ "remove" \in Ops /\ op[o].pc = "idle" /\ holder = None /\ n \in listed
  /\ listed' = names /\ selection' = sel
  /\ IF n \in Profile
     THEN Mark(catalog, next)
     ELSE UNCHANGED <<tiers, judged>>
  /\ IF handsOver \/ (n \in Profile /\ next # Serving)
     THEN ClearSessions ELSE UNCHANGED live
  /\ IF handsOver /\ next # None
     THEN /\ holder' = o
          /\ op' = [op EXCEPT ![o].pc = "handing", ![o].fetching = IdentityOf(next)]
     ELSE UNCHANGED <<holder, op>>
  /\ past' = IF handsOver /\ n \in Key THEN past \union {"handed"} ELSE past
  /\ UNCHANGED <<owner, swaps, catalog, pool, turn>>

\* The mapping in force is left as it was.
RemoveLand(o) ==
  /\ op[o].pc = "handing"
  /\ catalog' \in Landed(op[o].fetching)
  /\ Release(o)
  /\ UNCHANGED <<accounts, tiers, judged, past, sockets>>

\* The profiles of the file as it is now are swapped in, conversations dropped
\* if that changed who serves, and the mapping of whoever serves put in force
\* over the list already held.  No lock is taken.
Reload(o) ==
  /\ "reload" \in Ops /\ op[o].pc = "idle"
  /\ \E file \in Files :
       LET names == file \union (listed \intersect Key)
           next  == ServingOf(names, selection)
       IN  /\ listed' = names
           /\ IF next # Serving THEN ClearSessions ELSE UNCHANGED live
           /\ Mark(catalog, next)
  /\ past' = IF holder \in Operator THEN past \union {"overlapped"} ELSE past
  /\ UNCHANGED <<selection, owner, swaps, catalog, holder, op, pool, turn>>

(***************************************************************************)
(* follow_serving_account                                                  *)
(***************************************************************************)

\* Mutant: the list is asked for again as the account it was fetched for.
FollowStandingStill ==
  /\ holder = None /\ op[Follower].pc = "idle"
  /\ Stale(catalog, Serving)
  /\ holder' = Follower
  /\ op' = [op EXCEPT ![Follower].pc = "following", ![Follower].fetching = catalog]
  /\ ClearSessions
  /\ UNCHANGED <<accounts, catalog, tiers, judged, past, pool, turn>>

\* The list describes another account than the grant serving turns: every
\* conversation is dropped at once, and the list asked for again.
Follow ==
  /\ holder = None /\ op[Follower].pc = "idle"
  /\ Stale(catalog, Serving)
  /\ holder' = Follower
  /\ op' = [op EXCEPT ![Follower].pc = "following",
                      ![Follower].fetching = IdentityOf(Serving)]
  /\ ClearSessions
  /\ UNCHANGED <<accounts, catalog, tiers, judged, past, pool, turn>>

FollowLand ==
  /\ op[Follower].pc = "following"
  /\ \E ok \in Fetches :
       IF ok
       THEN /\ catalog' = op[Follower].fetching
            /\ Mark(catalog', Serving)
       ELSE UNCHANGED <<catalog, tiers, judged>>
  /\ Release(Follower)
  /\ UNCHANGED <<accounts, past, sockets>>

\* The program that owns a profile signs in as somebody else (external), who may
\* be whom a list was fetched for.
OwnerSignsIn(p) ==
  /\ swaps < Swaps
  /\ \E i \in Id \ {owner[q] : q \in Profile} :
       /\ owner' = [owner EXCEPT ![p] = i]
       /\ past' = IF i = catalog \/ \E o \in Operator \union {Follower} : i = op[o].fetching
                  THEN past \union {"returned"} ELSE past
  /\ swaps' = swaps + 1
  /\ UNCHANGED <<listed, selection, catalog, tiers, holder, judged, op, sockets>>
-----------------------------------------------------------------------------
(***************************************************************************)
(* Turns: resolving a session, and a socket for it.                        *)
(***************************************************************************)

\* The account a turn is made as, if it is there to be spent.
Payer(p) == IF p = None THEN Serving ELSE IF p \in listed THEN p ELSE None
Asked(p) == IF Payer(p) = None THEN None ELSE IdentityOf(Payer(p))

Unused(s) == /\ \A p \in Pin : live[p] # s
             /\ \A t \in Turn : turn[t].session # s

TurnBegins(t, p) ==
  /\ turn[t].pc = "idle"
  /\ \E s \in Session :
       /\ IF live[p] # None THEN s = live[p] /\ UNCHANGED <<live, pool>>
          ELSE /\ Unused(s)
               /\ live' = [live EXCEPT ![p] = s]
               /\ pool' = [pool EXCEPT ![s] = None]
       /\ turn' = [turn EXCEPT ![t] = [NoTurn EXCEPT !.pc = "begun",
                                         !.session = s, !.pin = p]]
  /\ UNCHANGED <<accounts, inForce, op>>

\* A pooled socket opened under the same name is reused without authorizing.
TurnReuses(t) ==
  LET s == turn[t].session
  IN
  /\ turn[t].pc = "begun" /\ pool[s] # None
  /\ turn' = [turn EXCEPT ![t].pc = "reusing", ![t].sock = pool[s],
                          ![t].asked = Asked(turn[t].pin)]
  /\ pool' = [pool EXCEPT ![s] = None]
  /\ UNCHANGED <<accounts, inForce, op, live>>

\* With none pooled, or one that proves stale, one is dialled, authenticated as
\* whoever the account is now.
TurnDials(t) ==
  /\ turn[t].pc \in {"begun", "reusing"}
  /\ turn[t].pc = "begun" => pool[turn[t].session] = None
  /\ turn' = [turn EXCEPT ![t] =
       IF Payer(turn[t].pin) = None THEN NoTurn
       ELSE [@ EXCEPT !.pc = "dialled", !.sock = Asked(turn[t].pin),
                      !.asked = Asked(turn[t].pin)]]
  /\ UNCHANGED <<accounts, inForce, op, live, pool>>

\* The turn is over: its socket is parked where the session holds none, or was
\* dropped on the way.
TurnEnds(t) ==
  /\ turn[t].pc \in {"reusing", "dialled"}
  /\ \E parks \in BOOLEAN :
       pool' = IF parks /\ pool[turn[t].session] = None
               THEN [pool EXCEPT ![turn[t].session] = turn[t].sock] ELSE pool
  /\ turn' = [turn EXCEPT ![t] = NoTurn]
  /\ UNCHANGED <<accounts, inForce, op, live>>

Next ==
  \/ \E o \in Operator, n \in Name : SelectAsk(o, n) \/ Remove(o, n)
  \/ \E o \in Operator :
       SelectMove(o) \/ SelectLand(o) \/ SelectRestored(o)
         \/ RemoveLand(o) \/ Reload(o)
  \/ Follow \/ FollowLand
  \/ \E p \in Profile : OwnerSignsIn(p)
  \/ \E t \in Turn : (\E p \in Pin : TurnBegins(t, p))
                       \/ TurnReuses(t) \/ TurnDials(t) \/ TurnEnds(t)

Spec == Init /\ [][Next]_vars
-----------------------------------------------------------------------------
TypeOK ==
  /\ listed \subseteq Name /\ selection \in Name \union {None}
  /\ owner \in [Profile -> Id]
  /\ catalog \in Identity \union {None}
  /\ tiers \in [of : Name \union {None}, model : Model, missing : BOOLEAN]
  /\ holder \in Operator \union {Follower, None}
  /\ op \in [Operator \union {Follower} ->
               [pc : {"idle", "waiting", "fetching", "restoring", "handing",
                      "following"},
                target : Name \union {None}, previous : Name \union {None},
                fetching : Identity \union {None},
                before : [serving : Name \union {None},
                          tiers : [of : Name \union {None}, model : Model,
                                   missing : BOOLEAN]] \union {None}]]
  /\ live \in [Pin -> Session \union {None}]
  /\ pool \in [Session -> Identity \union {None}]
  /\ turn \in [Turn -> [pc : {"idle", "begun", "reusing", "dialled"},
                        session : Session \union {None}, pin : Pin \union {None},
                        sock : Identity \union {None},
                        asked : Identity \union {None}]]
  /\ judged \in [by : Identity \union {None}, of : Identity \union {None}]
  /\ swaps \in 0..Swaps
  /\ past \subseteq {"refused", "handed", "stranded", "overlapped", "returned"}

\* No move is under way.
Settled == holder = None /\ \A o \in Operator : op[o].pc \in {"idle", "waiting"}

\* The mapping in force is the serving account's whenever no move is under way
\* (proxy-behavior.md 7.1, "the mapping belongs to an account"), unless a key
\* that served was removed, which hands over without it (MCMovesHandOver.cfg), or
\* a switch was refused that had no account to go back to, or another than the
\* one it moved from: a move that overlapped it had changed who serves.
MappingFollowsSelection ==
  Settled /\ Serving # None
          /\ {"handed", "stranded"} \intersect past = {}
          /\ ~({"refused", "overlapped"} \subseteq past) =>
    tiers.of = Serving

\* The same, a removed key that hands over included (remove_account).
MappingFollowsHandOver == Settled /\ Serving # None => tiers.of = Serving

\* A refused switch leaves the daemon where it was, catalog included: the
\* account it was serving, the mapping that was in force, and that account's
\* list, or one that says it is another's (proxy-behavior.md 7.1); a key carries no
\* id to say it by.  Unless moves overlapped: what a switch goes back to is read
\* before it holds the lock, and a reload takes none.
RefusalChangesNothing ==
  [][\A o \in Operator :
       op[o].pc = "restoring" /\ op'[o].pc = "idle" /\ "overlapped" \notin past =>
       /\ Serving' = op[o].before.serving
       /\ tiers' = op[o].before.tiers
       /\ \/ catalog' = IdentityOf(Serving)' \/ Stale(catalog, Serving)'
          \/ {catalog, Serving}' \intersect Key # {}]_vars

\* Once the list in force is the serving account's own, what is in force was
\* measured against it: a mapping it does not carry is marked.  Unless a switch
\* was refused or a removed key handed over, either of which fetches a list and
\* leaves the mapping in force unmeasured against it, moves overlapped, or a
\* profile became again whom the list describes before it was followed.
Servable ==
  Settled /\ past = {} /\ Serving # None /\ tiers.of = Serving
          /\ catalog = IdentityOf(Serving) =>
    tiers.missing \/ tiers.model \in Menu[catalog]

\* A mapping is refused or marked over the menu of the account it is for, and
\* over nobody else's (proxy-behavior.md 7.1, "an unavailable catalog skips the
\* check"); a key carries no id, so its list and it cannot be told from others.
JudgedByOwnMenu ==
  Claim(judged.by) # None /\ Claim(judged.of) # None => judged.by = judged.of

\* The check of a mapping against a list marks what the list lacks and, however
\* the accounts move meanwhile, nothing else (control/handler.rs,
\* put_mapping_in_force).
JudgedRightly == Servable /\ JudgedByOwnMenu

\* Where the daemon takes its list, of a known id, to describe the account
\* serving, and so has nothing to follow, no conversation pools a socket opened
\* as anyone else, unless a switch was refused: a turn made while it was decided
\* keeps its socket, as MCMovesWindow.cfg shows; or a profile became again whom the
\* list describes, before it was followed.
SocketsFollow ==
  Settled /\ {"refused", "returned"} \intersect past = {} /\ Serving # None
          /\ catalog \in Id /\ ~Stale(catalog, Serving)
          /\ None \in Pin /\ live[None] # None =>
    pool[live[None]] \in {None, IdentityOf(Serving)}

\* The same, refused switches included.
SocketsFollowRefusal ==
  Settled /\ Serving # None /\ catalog # None /\ ~Stale(catalog, Serving)
          /\ None \in Pin /\ live[None] # None =>
    pool[live[None]] \in {None, IdentityOf(Serving)}

\* Requests finish, the follow loop goes round, and a fetch that is asked again
\* and again is sometimes answered (FOLLOW, FOLLOW_RETRY; the lock is fair).
Fairness ==
  /\ \A o \in Operator : WF_vars(SelectLand(o) \/ SelectRestored(o) \/ RemoveLand(o))
  /\ SF_vars(Follow) /\ WF_vars(FollowLand)
  /\ SF_vars(FollowLand /\ catalog' = op[Follower].fetching)

FairSpec == Spec /\ Fairness

\* A list that describes another account is always followed (proxy-behavior.md
\* 7.0, "a grant that becomes another account is followed").
StaleIsFollowed == []<>(~Stale(catalog, Serving))
=============================================================================
