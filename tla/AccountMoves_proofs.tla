------------------------- MODULE AccountMoves_proofs -------------------------
(***************************************************************************)
(* Mapping, list and sockets follow the account that serves, and a refused *)
(* switch changes nothing: for any number of requests at once, accounts,   *)
(* turns, sessions and owners who sign in as somebody else.                *)
(***************************************************************************)
EXTENDS AccountMoves, FiniteSetTheorems, TLAPS

Task == Operator \union {Follower}
Moving == {"fetching", "restoring", "handing", "following"}
Tiers == [of : Name \union {None}, model : Model, missing : BOOLEAN]
Before == [serving : Name \union {None}, tiers : Tiers]

\* Whoever moves holds the lock, and what a switch moved to is selected.
LockInv ==
  /\ \A o \in Task : op[o].pc \in Moving <=> holder = o
  /\ op[Follower].pc \in {"idle", "following"}
  /\ \A o \in Operator : op[o].pc # "following"
  /\ \A o \in Task :
       /\ op[o].pc \in Moving => op[o].fetching \in Identity
       /\ op[o].pc \in {"waiting", "fetching"} => op[o].target \in Name
       /\ op[o].pc = "handing" => "handed" \in past
  /\ "handed" \notin past => selection \in Name

\* What a switch remembers is what it found, where no other move overlapped it.
SwitchInv ==
  \A o \in Operator :
    /\ op[o].pc = "fetching" =>
         /\ selection = op[o].target /\ op[o].before \in Before
         /\ "overlapped" \notin past =>
              /\ op[o].before = [serving |-> op[o].previous, tiers |-> tiers]
              /\ selection \in listed
    /\ op[o].pc = "restoring" =>
         /\ op[o].before \in Before /\ catalog # None /\ "refused" \in past
         /\ "overlapped" \notin past =>
              /\ op[o].before = [serving |-> op[o].previous, tiers |-> tiers]
              /\ selection = op[o].previous /\ selection \in listed

Fetching == \E o \in Operator : op[o].pc = "fetching"

\* The mapping is of whoever serves, or served before the switch under way.
MappingInv ==
  /\ tiers.model = MappingOf[tiers.of]
  /\ {"handed", "stranded", "overlapped"} \intersect past = {} =>
       /\ ~Fetching => tiers.of = Serving
       /\ \A o \in Operator : op[o].pc = "fetching" => tiers.of = op[o].previous
  /\ {"handed", "stranded", "refused"} \intersect past = {} =>
       Fetching \/ Serving = None \/ tiers.of = Serving

\* A mapping that its own account's list does not carry is marked.
MarkedInv ==
  past = {} /\ Serving # None /\ tiers.of = Serving /\ catalog = IdentityOf(Serving) =>
    tiers.missing \/ tiers.model \in Menu[catalog]

\* A session is one pin's, and its turns are that pin's.
SessionsInv ==
  /\ \A t \in Turn : turn[t].pc # "idle" => turn[t].session \in Session
  /\ \A p, q \in Pin : live[p] = live[q] /\ live[p] # None => p = q
  /\ \A t \in Turn : \A p \in Pin :
       turn[t].session = live[p] /\ live[p] # None => turn[t].pin = p

\* A socket of the conversation was opened as x.
Opened(x) == \/ pool[live[None]] = x
             \/ \E t \in Turn : turn[t].session = live[None] /\ turn[t].sock = x

\* It was opened as whoever serves, or whoever serves has become one whom no list
\* describes, or will.
Follows(x) ==
  /\ Serving # None
  /\ \/ x = IdentityOf(Serving)
     \/ /\ IdentityOf(Serving) \in Id \ {catalog}
        /\ \A o \in Task : op[o].pc \in Moving => IdentityOf(Serving) # op[o].fetching

SocketsInv ==
  {"refused", "returned"} \intersect past = {} /\ ~Fetching
      /\ None \in Pin /\ live[None] # None =>
    \A x \in Identity : Opened(x) => Follows(x)

Inv == /\ TypeOK /\ LockInv /\ SwitchInv /\ MappingInv /\ MarkedInv /\ JudgedByOwnMenu
       /\ SessionsInv /\ SocketsInv

-----------------------------------------------------------------------------
(* Names, identities, and who serves. *)

Request ==
  [pc : {"idle", "waiting", "fetching", "restoring", "handing", "following"},
   target : Name \union {None}, previous : Name \union {None},
   fetching : Identity \union {None}, before : Before \union {None}]
TurnState ==
  [pc : {"idle", "begun", "reusing", "dialled"}, session : Session \union {None},
   pin : Pin \union {None}, sock : Identity \union {None}, asked : Identity \union {None}]

LEMMA Types ==
  TypeOK <=>
    /\ listed \subseteq Name /\ selection \in Name \union {None}
    /\ owner \in [Profile -> Id]
    /\ catalog \in Identity \union {None} /\ tiers \in Tiers
    /\ holder \in Task \union {None} /\ op \in [Task -> Request]
    /\ live \in [Pin -> Session \union {None}]
    /\ pool \in [Session -> Identity \union {None}]
    /\ turn \in [Turn -> TurnState]
    /\ judged \in [by : Identity \union {None}, of : Identity \union {None}]
    /\ swaps \in 0..Swaps
    /\ past \subseteq {"refused", "handed", "stranded", "overlapped", "returned"}
  BY DEF TypeOK, Task, Request, TurnState, Before, Tiers

LEMMA TypesNext ==
  ASSUME listed' \subseteq Name, selection' \in Name \union {None},
         owner' \in [Profile -> Id],
         catalog' \in Identity \union {None}, tiers' \in Tiers,
         holder' \in Task \union {None}, op' \in [Task -> Request],
         live' \in [Pin -> Session \union {None}],
         pool' \in [Session -> Identity \union {None}],
         turn' \in [Turn -> TurnState],
         judged' \in [by : Identity \union {None}, of : Identity \union {None}],
         swaps' \in 0..Swaps,
         past' \subseteq {"refused", "handed", "stranded", "overlapped", "returned"}
  PROVE  TypeOK'
  BY DEF TypeOK, Task, Request, TurnState, Before, Tiers

LEMMA IdentityIs ==
  ASSUME owner \in [Profile -> Id], NEW n \in Name
  PROVE  /\ IdentityOf(n) \in Identity /\ IdentityOf(n) # None
         /\ n \in Key => IdentityOf(n) = n /\ IdentityOf(n) \notin Id
         /\ n \notin Key => n \in Profile /\ IdentityOf(n) = owner[n] /\ IdentityOf(n) \in Id
  BY NamesAssumption DEF IdentityOf, Identity, Name

LEMMA ServingIs ==
  ASSUME NEW names \in SUBSET Name, NEW sel \in Name \union {None}
  PROVE  /\ ServingOf(names, sel) \in names \union {None}
         /\ sel \in names => ServingOf(names, sel) = sel
         /\ sel \in Name \ names => ServingOf(names, sel) = None
<1>1. None \notin Name  BY NamesAssumption
<1>2. Cardinality(names) = 1 => names # {}  BY FS_EmptySet
<1>3. names # {} => (CHOOSE n \in names : TRUE) \in names  OBVIOUS
<1>4. QED  BY <1>1, <1>2, <1>3 DEF ServingOf

LEMMA MappingIs ==
  ASSUME NEW list, NEW serving, NEW n \in Name \union {None}
  PROVE  /\ Mapping(list, serving, n) \in Tiers
         /\ Mapping(list, serving, n).of = n
         /\ Mapping(list, serving, n).model = MappingOf[n]
         /\ Mapping(list, serving, n).missing <=> Absent(list, serving, n)
<1>1. MappingOf[n] \in Model  BY NamesAssumption
<1>2. Absent(list, serving, n) \in BOOLEAN  BY DEF Absent
<1>3. QED  BY <1>1, <1>2 DEF Mapping, Tiers

\* A list is not held to be stale for the account it is of.
LEMMA OwnIsNotStale ==
  ASSUME NEW list, NEW n, list = IdentityOf(n) PROVE ~Stale(list, n)
  BY DEF Stale

\* A verdict over a list of a known id is over that account's own.
LEMMA JudgesOwn ==
  ASSUME TypeOK, JudgedByOwnMenu, NEW list \in Identity \union {None},
         NEW serving \in Name \union {None}, NEW n, Judge(list, serving, n)
  PROVE  /\ judged' \in [by : Identity \union {None}, of : Identity \union {None}]
         /\ JudgedByOwnMenu'
<1>1. owner \in [Profile -> Id] /\ judged \in [by : Identity \union {None}, of : Identity \union {None}]
  BY DEF TypeOK
<1>2. CASE ~Absent(list, serving, n)
  <2>1. judged' = judged  BY <1>2 DEF Judge
  <2>2. QED  BY <1>1, <2>1 DEF JudgedByOwnMenu
<1>3. CASE Absent(list, serving, n)
  <2> DEFINE whose == IF serving = None THEN None ELSE IdentityOf(serving)
  <2>1. judged' = [by |-> list, of |-> whose]  BY <1>3 DEF Judge
  <2>2. whose \in Identity \union {None}
    BY <1>1, IdentityIs
  <2>3. ~Stale(list, serving)  BY <1>3 DEF Absent
  <2>4. Claim(list) # None /\ Claim(whose) # None => list = whose
    <3>1. None \notin Id  BY NamesAssumption DEF Identity
    <3>2. QED  BY <2>3, <3>1 DEF Stale, Claim
  <2> HIDE DEF whose
  <2>5. QED  BY <2>1, <2>2, <2>4 DEF JudgedByOwnMenu
<1>4. QED  BY <1>2, <1>3

\* What is in force once a mapping is marked over the list in force.
LEMMA Marks ==
  ASSUME TypeOK, JudgedByOwnMenu, NEW list \in Identity \union {None},
         NEW n \in Name \union {None}, Mark(list, n)
  PROVE  /\ tiers' \in Tiers /\ tiers'.of = n /\ tiers'.model = MappingOf[n]
         /\ judged' \in [by : Identity \union {None}, of : Identity \union {None}]
         /\ JudgedByOwnMenu'
         /\ n # None /\ list = IdentityOf(n) => tiers'.missing \/ MappingOf[n] \in Menu[list]
<1>1. tiers' = Mapping(list, n, n) /\ Judge(list, n, n)  BY DEF Mark
<1>2. /\ tiers' \in Tiers /\ tiers'.of = n /\ tiers'.model = MappingOf[n]
      /\ tiers'.missing <=> Absent(list, n, n)
  BY <1>1, MappingIs
<1>3. owner \in [Profile -> Id]  BY DEF TypeOK
<1>4. ASSUME n # None, list = IdentityOf(n) PROVE tiers'.missing \/ MappingOf[n] \in Menu[list]
  BY <1>2, <1>3, <1>4, IdentityIs, OwnIsNotStale DEF Absent
<1>5. QED  BY <1>1, <1>2, <1>4, JudgesOwn

-----------------------------------------------------------------------------
(* A turn's steps. *)

LEMMA TurnElsewhere ==
  ASSUME Inv, UNCHANGED <<accounts, inForce, op>>
  PROVE  /\ LockInv' /\ SwitchInv' /\ MappingInv' /\ MarkedInv' /\ JudgedByOwnMenu'
         /\ UNCHANGED <<listed, selection, owner, catalog, tiers, holder, judged, past, swaps>>
         /\ Serving' = Serving /\ (Fetching' => Fetching) /\ (Fetching => Fetching')
         /\ \A n : IdentityOf(n)' = IdentityOf(n)
         /\ \A x : Follows(x) => Follows(x)'
<1>1. UNCHANGED <<listed, selection, owner, catalog, tiers, holder, judged, past, swaps>>
  BY DEF accounts, inForce
<1>2. Serving' = Serving /\ \A n : IdentityOf(n)' = IdentityOf(n)
  BY <1>1 DEF Serving, IdentityOf
<1>3. (Fetching' => Fetching) /\ (Fetching => Fetching')  BY DEF Fetching
<1>4. LockInv' /\ SwitchInv'  BY <1>1 DEF Inv, LockInv, SwitchInv
<1>5. MappingInv' /\ MarkedInv' /\ JudgedByOwnMenu'
  BY <1>1, <1>2, <1>3 DEF Inv, MappingInv, MarkedInv, JudgedByOwnMenu
<1>6. \A x : Follows(x) => Follows(x)'  BY <1>1, <1>2 DEF Follows, IdentityOf
<1>7. QED  BY <1>1, <1>2, <1>3, <1>4, <1>5, <1>6

\* A turn may find a socket where there was one, or open its own.
LEMMA TurnStep ==
  ASSUME Inv, UNCHANGED <<accounts, inForce, op, live>>, NEW t \in Turn,
         pool' \in [Session -> Identity \union {None}], NEW r \in TurnState,
         turn' = [turn EXCEPT ![t] = r],
         r.pc # "idle" => r.session \in Session,
         r.session # None => r.session = turn[t].session /\ r.pin = turn[t].pin,
         \A s \in Session : pool'[s] # None =>
           pool'[s] = pool[s] \/ (turn[t].session = s /\ turn[t].sock = pool'[s]),
         r.sock # None /\ r.session # None =>
           r.sock \in {pool[r.session], turn[t].sock, Asked(r.pin)}
  PROVE  Inv'
<1>0. /\ TypeOK /\ turn \in [Turn -> TurnState] /\ live \in [Pin -> Session \union {None}]
      /\ pool \in [Session -> Identity \union {None}]
      /\ owner \in [Profile -> Id] /\ listed \subseteq Name /\ selection \in Name \union {None}
  BY Types DEF Inv
<1>1. /\ turn' \in [Turn -> TurnState] /\ turn'[t] = r
      /\ \A u \in Turn \ {t} : turn'[u] = turn[u]
  BY <1>0
<1>2. TypeOK'  BY <1>0, <1>1, Types, TurnElsewhere DEF accounts, inForce, TypeOK, TurnState
<1>3. SessionsInv'
  <2>1. ASSUME NEW u \in Turn, NEW p \in Pin, turn'[u].session = live[p], live[p] # None
        PROVE  turn'[u].pin = p
    BY <1>1, <2>1 DEF Inv, SessionsInv
  <2>2. \A u \in Turn : turn'[u].pc # "idle" => turn'[u].session \in Session
    BY <1>1 DEF Inv, SessionsInv
  <2>3. QED  BY <2>1, <2>2 DEF Inv, SessionsInv
<1>4. SocketsInv'
  <2> SUFFICES ASSUME {"refused", "returned"} \intersect past' = {}, ~Fetching',
                      None \in Pin, live[None] # None, NEW x \in Identity, Opened(x)'
               PROVE  Follows(x)'
    BY DEF SocketsInv
  <2>1. /\ {"refused", "returned"} \intersect past = {} /\ ~Fetching
        /\ \A y \in Identity : Opened(y) => Follows(y)
    BY TurnElsewhere DEF Inv, SocketsInv
  <2>2. live[None] \in Session /\ x # None
    BY <1>0, NamesAssumption
  <2>3. Opened(x) \/ (r.session = live[None] /\ r.sock = Asked(r.pin) /\ x = r.sock)
    <3>1. CASE pool'[live[None]] = x
      BY <2>2, <3>1 DEF Opened
    <3>2. CASE \E u \in Turn : turn'[u].session = live[None] /\ turn'[u].sock = x
      <4>1. PICK u \in Turn : turn'[u].session = live[None] /\ turn'[u].sock = x
        BY <3>2
      <4>2. CASE u # t  BY <1>1, <4>1, <4>2 DEF Opened
      <4>3. CASE u = t
        <5>1. /\ r.session = live[None] /\ r.sock = x
              /\ turn[t].session = live[None]
          BY <1>1, <2>2, <4>1, <4>3
        <5>2. QED  BY <2>2, <5>1 DEF Opened
      <4>4. QED  BY <4>2, <4>3
    <3>3. QED  BY <3>1, <3>2 DEF Opened
  <2>4. ASSUME r.session = live[None], r.sock = Asked(r.pin), x = r.sock PROVE Follows(x)
    <3>1. r.pin = None
      BY <1>0, <2>2, <2>4 DEF Inv, SessionsInv
    <3>2. Serving # None /\ x = IdentityOf(Serving)
      BY <2>2, <2>4, <3>1 DEF Asked, Payer
    <3>3. QED  BY <3>2 DEF Follows
  <2>5. Follows(x)  BY <2>1, <2>3, <2>4
  <2>6. QED  BY <2>5, TurnElsewhere
<1>5. QED  BY <1>2, <1>3, <1>4, TurnElsewhere DEF Inv

LEMMA TurnReusesStep == ASSUME Inv, NEW t \in Turn, TurnReuses(t) PROVE Inv'
<1> DEFINE s == turn[t].session
           r == [turn[t] EXCEPT !.pc = "reusing", !.sock = pool[s], !.asked = Asked(turn[t].pin)]
<1>0. /\ turn \in [Turn -> TurnState] /\ pool \in [Session -> Identity \union {None}]
      /\ owner \in [Profile -> Id] /\ listed \subseteq Name /\ selection \in Name \union {None}
  BY Types DEF Inv
<1>1. turn' = [turn EXCEPT ![t] = r] /\ pool' = [pool EXCEPT ![s] = None]
      /\ UNCHANGED <<accounts, inForce, op, live>>
  BY DEF TurnReuses
<1>2. Asked(turn[t].pin) \in Identity \union {None}
  <2>1. Payer(turn[t].pin) \in Name \union {None}
    BY <1>0, ServingIs DEF Payer, Serving
  <2>2. QED  BY <1>0, <2>1, IdentityIs DEF Asked
<1>3. s \in Session  BY DEF TurnReuses, Inv, SessionsInv
<1>4. /\ r \in TurnState /\ r.session = s /\ r.pin = turn[t].pin /\ r.sock = pool[s]
  BY <1>0, <1>2, <1>3 DEF TurnState
<1> HIDE DEF r
<1>5. pool' \in [Session -> Identity \union {None}]
      /\ \A q \in Session : pool'[q] # None => pool'[q] = pool[q]
  BY <1>0, <1>1, <1>3
<1>6. QED  BY <1>1, <1>3, <1>4, <1>5, TurnStep

LEMMA NoTurnIs ==
  NoTurn \in TurnState /\ NoTurn.pc = "idle" /\ NoTurn.session = None /\ NoTurn.sock = None
  BY DEF NoTurn, TurnState

LEMMA TurnDialsStep == ASSUME Inv, NEW t \in Turn, TurnDials(t) PROVE Inv'
<1> DEFINE r == [turn[t] EXCEPT !.pc = "dialled", !.sock = Asked(turn[t].pin),
                               !.asked = Asked(turn[t].pin)]
<1>0. /\ turn \in [Turn -> TurnState] /\ pool \in [Session -> Identity \union {None}]
      /\ owner \in [Profile -> Id] /\ listed \subseteq Name /\ selection \in Name \union {None}
      /\ turn[t].session \in Session
  BY Types DEF Inv, TurnDials, SessionsInv
<1>1. /\ UNCHANGED <<accounts, inForce, op, live, pool>>
      /\ turn' = [turn EXCEPT ![t] = NoTurn] \/ turn' = [turn EXCEPT ![t] = r]
  BY DEF TurnDials
<1>2. Asked(turn[t].pin) \in Identity \union {None}
  <2>1. Payer(turn[t].pin) \in Name \union {None}
    BY <1>0, ServingIs DEF Payer, Serving
  <2>2. QED  BY <1>0, <2>1, IdentityIs DEF Asked
<1>3. CASE turn' = [turn EXCEPT ![t] = NoTurn]
  BY <1>0, <1>1, <1>3, NoTurnIs, TurnStep
<1>4. CASE turn' = [turn EXCEPT ![t] = r]
  <2>1. /\ r \in TurnState /\ r.session = turn[t].session /\ r.pin = turn[t].pin
        /\ r.sock = Asked(r.pin)
    BY <1>0, <1>2 DEF TurnState
  <2> HIDE DEF r
  <2>2. QED  BY <1>0, <1>1, <1>4, <2>1, TurnStep
<1>5. QED  BY <1>1, <1>3, <1>4

LEMMA TurnEndsStep == ASSUME Inv, NEW t \in Turn, TurnEnds(t) PROVE Inv'
<1>0. /\ turn \in [Turn -> TurnState] /\ pool \in [Session -> Identity \union {None}]
      /\ turn[t].session \in Session
  BY Types DEF Inv, TurnEnds, SessionsInv
<1>1. /\ UNCHANGED <<accounts, inForce, op, live>> /\ turn' = [turn EXCEPT ![t] = NoTurn]
      /\ pool' = pool \/ pool' = [pool EXCEPT ![turn[t].session] = turn[t].sock]
  BY DEF TurnEnds
<1>2. /\ pool' \in [Session -> Identity \union {None}]
      /\ \A s \in Session : pool'[s] # None =>
           pool'[s] = pool[s] \/ (turn[t].session = s /\ turn[t].sock = pool'[s])
  BY <1>0, <1>1 DEF TurnState
<1>3. QED  BY <1>1, <1>2, NoTurnIs, TurnStep

\* A session nobody used is begun with, where the pin has none.
LEMMA TurnBeginsStep == ASSUME Inv, NEW t \in Turn, NEW p \in Pin, TurnBegins(t, p) PROVE Inv'
<1>0. /\ TypeOK /\ turn \in [Turn -> TurnState] /\ pool \in [Session -> Identity \union {None}]
      /\ live \in [Pin -> Session \union {None}] /\ turn[t].pc = "idle"
      /\ None \notin Session
  BY Types, NamesAssumption DEF Inv, TurnBegins
<1>1. PICK s \in Session :
       /\ IF live[p] # None THEN s = live[p] /\ UNCHANGED <<live, pool>>
          ELSE /\ Unused(s)
               /\ live' = [live EXCEPT ![p] = s]
               /\ pool' = [pool EXCEPT ![s] = None]
       /\ turn' = [turn EXCEPT ![t] = [NoTurn EXCEPT !.pc = "begun",
                                         !.session = s, !.pin = p]]
  BY DEF TurnBegins
<1> DEFINE r == [NoTurn EXCEPT !.pc = "begun", !.session = s, !.pin = p]
<1>2. r \in TurnState /\ r.session = s /\ r.pin = p /\ r.sock = None
  BY DEF NoTurn, TurnState
<1> HIDE DEF r
<1>3. /\ turn' \in [Turn -> TurnState] /\ turn'[t] = r
      /\ \A u \in Turn \ {t} : turn'[u] = turn[u]
      /\ UNCHANGED <<accounts, inForce, op>>
  BY <1>0, <1>1, <1>2 DEF r, TurnBegins
<1>4. /\ live' \in [Pin -> Session \union {None}]
      /\ pool' \in [Session -> Identity \union {None}]
      /\ live'[p] = s
      /\ \A q \in Pin \ {p} : live'[q] = live[q]
      /\ \A q \in Session : pool'[q] \in {None, pool[q]}
  BY <1>0, <1>1
<1>5. TypeOK'
  BY <1>0, <1>3, <1>4, Types, TurnElsewhere DEF accounts, inForce, TypeOK, TurnState
<1>6. ASSUME live[p] = None
      PROVE  /\ pool'[s] = None /\ \A q \in Pin : live[q] # s
             /\ \A u \in Turn : turn[u].session # s
  BY <1>0, <1>1, <1>6 DEF Unused
<1>7. live[p] # None => live[p] = s /\ live' = live  BY <1>1
<1>8. SessionsInv'
  <2>1. \A q, v \in Pin : live'[q] = live'[v] /\ live'[q] # None => q = v
    BY <1>4, <1>6, <1>7 DEF Inv, SessionsInv
  <2>2. ASSUME NEW u \in Turn, NEW q \in Pin, turn'[u].session = live'[q], live'[q] # None
        PROVE  turn'[u].pin = q
    <3>1. CASE u = t  BY <1>2, <1>3, <1>4, <2>1, <2>2, <3>1
    <3>2. CASE u # t
      <4>1. turn[u].session = live'[q] /\ turn'[u].pin = turn[u].pin  BY <1>3, <2>2, <3>2
      <4>2. live'[q] = live[q]  BY <1>4, <1>6, <1>7, <4>1
      <4>3. QED  BY <2>2, <4>1, <4>2 DEF Inv, SessionsInv
    <3>3. QED  BY <3>1, <3>2
  <2>3. \A u \in Turn : turn'[u].pc # "idle" => turn'[u].session \in Session
    BY <1>2, <1>3 DEF Inv, SessionsInv
  <2>4. QED  BY <2>1, <2>2, <2>3 DEF SessionsInv
<1>9. SocketsInv'
  <2> SUFFICES ASSUME {"refused", "returned"} \intersect past' = {}, ~Fetching',
                      None \in Pin, live'[None] # None, NEW x \in Identity, Opened(x)'
               PROVE  Follows(x)'
    BY DEF SocketsInv
  <2>1. x # None  BY NamesAssumption
  <2>2. ASSUME live'[None] = live[None] PROVE Opened(x)
    BY <1>2, <1>3, <1>4, <2>1, <2>2 DEF Opened
  <2>3. live'[None] = live[None]
    <3>1. CASE p = None /\ live[p] = None
      BY <1>2, <1>3, <1>4, <1>6, <2>1, <3>1 DEF Opened
    <3>2. CASE p # None \/ live[p] # None
      BY <1>4, <1>7, <3>2
    <3>3. QED  BY <3>1, <3>2
  <2>4. Follows(x)
    BY <2>2, <2>3, <1>3, TurnElsewhere DEF Inv, SocketsInv
  <2>5. QED  BY <1>3, <2>4, TurnElsewhere
<1>10. QED  BY <1>3, <1>5, <1>8, <1>9, TurnElsewhere DEF Inv

-----------------------------------------------------------------------------
(* accounts.select. *)

LEMMA Known ==
  ASSUME Inv
  PROVE  /\ listed \subseteq Name /\ selection \in Name \union {None}
         /\ owner \in [Profile -> Id]
         /\ catalog \in Identity \union {None} /\ tiers \in Tiers
         /\ holder \in Task \union {None} /\ op \in [Task -> Request]
         /\ live \in [Pin -> Session \union {None}]
         /\ pool \in [Session -> Identity \union {None}]
         /\ turn \in [Turn -> TurnState]
         /\ judged \in [by : Identity \union {None}, of : Identity \union {None}]
         /\ swaps \in 0..Swaps /\ TypeOK
         /\ past \subseteq {"refused", "handed", "stranded", "overlapped", "returned"}
         /\ Serving \in listed \union {None}
         /\ None \notin Name /\ None \notin Identity /\ Follower \notin Operator
         /\ None \notin Task
  BY Types, ServingIs, NamesAssumption DEF Inv, Serving, Task

LEMMA IdleIs ==
  Idle \in Request /\ Idle.pc = "idle"
  BY DEF Idle, Request

\* One who waits, or gives up before it holds the lock, changes nothing.
LEMMA OpQuiet ==
  ASSUME Inv, UNCHANGED <<accounts, inForce, sockets>>, NEW o \in Operator, NEW r \in Request,
         op' = [op EXCEPT ![o] = r], op[o].pc \notin Moving,
         r.pc \in {"idle", "waiting"}, r.pc = "waiting" => r.target \in Name
  PROVE  Inv'
<1>0. op \in [Task -> Request] /\ o \in Task /\ o # Follower  BY Known DEF Task
<1>1. /\ op' \in [Task -> Request] /\ op'[o] = r /\ \A u \in Task \ {o} : op'[u] = op[u]
      /\ r.pc \notin Moving
  BY <1>0 DEF Moving
<1>2. /\ UNCHANGED <<listed, selection, owner, swaps, catalog, tiers, holder, judged, past>>
      /\ UNCHANGED <<live, pool, turn>>
  BY DEF accounts, inForce, sockets
<1>3. TypeOK'  BY <1>1, <1>2, Known, TypesNext
<1>4. LockInv'  BY <1>0, <1>1, <1>2 DEF Inv, LockInv, Task, Moving
<1>5. SwitchInv'
  BY <1>1, <1>2 DEF Inv, SwitchInv, Task
<1>6. Serving' = Serving /\ (Fetching' <=> Fetching)
  BY <1>0, <1>1, <1>2 DEF Serving, Fetching, Task, Moving
<1>7. MappingInv'
  <2>1. \A u \in Operator : op'[u].pc = "fetching" => op[u].pc = "fetching" /\ op'[u] = op[u]
    BY <1>1 DEF Task
  <2>2. QED  BY <1>2, <1>6, <2>1 DEF Inv, MappingInv
<1>8. MarkedInv' /\ JudgedByOwnMenu' /\ SessionsInv'
  BY <1>2, <1>6 DEF Inv, MarkedInv, JudgedByOwnMenu, SessionsInv, IdentityOf
<1>9. \A x : Follows(x) => Follows(x)'
  <2>1. \A u \in Task : op'[u].pc \in Moving => op[u].pc \in Moving /\ op'[u] = op[u]
    BY <1>1
  <2>2. QED  BY <1>2, <1>6, <2>1 DEF Follows, IdentityOf
<1>10. SocketsInv'
  BY <1>2, <1>6, <1>9 DEF Inv, SocketsInv, Opened
<1>11. QED  BY <1>3, <1>4, <1>5, <1>7, <1>8, <1>10 DEF Inv

LEMMA SelectAskStep ==
  ASSUME Inv, NEW o \in Operator, NEW n \in Name, SelectAsk(o, n) PROVE Inv'
<1> DEFINE r == [Idle EXCEPT !.pc = "waiting", !.target = n, !.previous = Serving]
<1>1. /\ op' = [op EXCEPT ![o] = r] /\ op[o].pc \notin Moving
      /\ UNCHANGED <<accounts, inForce, sockets>>
  BY DEF SelectAsk, Moving
<1>2. Serving \in Name \union {None}  BY Known
<1>3. r \in Request /\ r.pc = "waiting" /\ r.target \in Name
  BY <1>2 DEF Idle, Request
<1> HIDE DEF r
<1>4. QED  BY <1>1, <1>3, OpQuiet

\* The lock is taken, and the account selected is another than the mapping's.
LEMMA SelectMoveStep == ASSUME Inv, NEW o \in Operator, SelectMove(o) PROVE Inv'
<1> DEFINE q == op[o]
           r == [q EXCEPT !.pc = "fetching", !.fetching = IdentityOf(q.target),
                          !.before = [serving |-> Serving, tiers |-> tiers]]
<1>0. /\ op \in [Task -> Request] /\ o \in Task /\ o # Follower /\ q.pc = "waiting"
      /\ holder = None /\ q.pc \notin Moving /\ q.target \in Name
      /\ \A u \in Task : op[u].pc \notin Moving
  BY Known DEF Task, SelectMove, Moving, Inv, LockInv
<1>1. CASE q.target \notin listed
  <2>1. op' = [op EXCEPT ![o] = Idle] /\ UNCHANGED <<accounts, inForce, sockets>>
    BY <1>1 DEF SelectMove, accounts, inForce
  <2>2. QED  BY <1>0, <2>1, IdleIs, OpQuiet
<1>2. CASE q.target \in listed
  <2>1. /\ selection' = q.target /\ holder' = o /\ op' = [op EXCEPT ![o] = r]
        /\ past' = IF q.previous # Serving THEN past \union {"overlapped"} ELSE past
        /\ UNCHANGED <<listed, owner, swaps, catalog, tiers, judged, live, pool, turn>>
    BY <1>0, <1>2 DEF SelectMove, sockets
  <2>2. IdentityOf(q.target) \in Identity  BY <1>0, Known, IdentityIs
  <2>3. [serving |-> Serving, tiers |-> tiers] \in Before  BY Known DEF Before
  <2>4. /\ r \in Request /\ r.pc = "fetching" /\ r.target = q.target
        /\ r.fetching \in Identity /\ r.previous = q.previous
        /\ r.before = [serving |-> Serving, tiers |-> tiers]
    BY <1>0, <2>2, <2>3 DEF Request
  <2> HIDE DEF r
  <2>5. op' \in [Task -> Request] /\ op'[o] = r /\ \A u \in Task \ {o} : op'[u] = op[u]
    BY <1>0, <2>1, <2>4
  <2>6. past \subseteq past' /\ past' \subseteq past \union {"overlapped"}
        /\ ("overlapped" \notin past' => q.previous = Serving)
    BY <2>1
  <2>7. TypeOK'
    BY <1>0, <2>1, <2>5, <2>6, Known, TypesNext
  <2>8. LockInv'
    BY <1>0, <2>1, <2>4, <2>5, <2>6, Known DEF Inv, LockInv, Task, Moving
  <2>9. SwitchInv'
    <3>1. \A u \in Operator \ {o} : op'[u].pc \notin {"fetching", "restoring"}
      BY <1>0, <2>5 DEF Task, Moving
    <3>2. QED  BY <1>2, <2>1, <2>3, <2>4, <2>5, <2>6, <3>1 DEF SwitchInv
  <2>10. Fetching' /\ ~Fetching  BY <1>0, <2>4, <2>5 DEF Fetching, Task, Moving
  <2>11. \A u \in Operator : op'[u].pc = "fetching" => u = o
    BY <1>0, <2>5 DEF Task, Moving
  <2>12. MappingInv'
    BY <2>1, <2>4, <2>5, <2>6, <2>10, <2>11 DEF Inv, MappingInv
  <2>13. MarkedInv'
    <3> SUFFICES ASSUME past' = {}, tiers.of = Serving'
                 PROVE  Serving' = Serving
      BY <2>1, <2>6 DEF Inv, MarkedInv, IdentityOf
    <3>1. past = {} /\ tiers.of = Serving  BY <2>6, <2>10 DEF Inv, MappingInv
    <3>2. QED  BY <3>1
  <2>14. SocketsInv'  BY <2>10 DEF SocketsInv
  <2>15. JudgedByOwnMenu' /\ SessionsInv'
    BY <2>1 DEF Inv, JudgedByOwnMenu, SessionsInv
  <2>16. QED  BY <2>7, <2>8, <2>9, <2>12, <2>13, <2>14, <2>15 DEF Inv
<1>3. QED  BY <1>1, <1>2

\* Only whoever holds the lock moves.
LEMMA Alone ==
  ASSUME Inv, NEW o \in Task, op[o].pc \in Moving
  PROVE  /\ holder = o /\ \A u \in Task \ {o} : op[u].pc \notin Moving
         /\ op[o].fetching \in Identity
  BY DEF Inv, LockInv

LEMMA LandedIs ==
  ASSUME NEW i \in Identity, catalog \in Identity \union {None}, NEW list \in Landed(i)
  PROVE  list \in {i, catalog} /\ list \in Identity \union {None}
  BY DEF Landed

\* The mapping is put in force for the account moved to, and every socket dropped.
LEMMA SwitchStep ==
  ASSUME Inv, NEW o \in Operator, op[o].pc = "fetching", NEW list \in Landed(op[o].fetching),
         catalog' = list, Judge(list, Serving, op[o].target),
         ~Absent(list, Serving, op[o].target), Switch(o, list),
         UNCHANGED <<listed, owner, swaps, pool, turn>>
  PROVE  Inv'
<1> DEFINE q == op[o]
<1>0. /\ o \in Task /\ op \in [Task -> Request] /\ o # Follower
      /\ holder = o /\ \A u \in Task \ {o} : op[u].pc \notin Moving
      /\ q.fetching \in Identity /\ q.target \in Name /\ selection = q.target
      /\ list \in {q.fetching, catalog} /\ list \in Identity \union {None}
  BY Known, Alone, LandedIs DEF Task, Moving, Inv, LockInv, SwitchInv
<1>1. /\ tiers' = Mapping(list, Serving, q.target) /\ live' = [p \in Pin |-> None]
      /\ holder' = None /\ op' = [op EXCEPT ![o] = Idle]
      /\ UNCHANGED <<listed, owner, swaps, pool, turn, selection, past>>
  BY DEF Switch, ClearSessions, Release
<1>2. /\ tiers' \in Tiers /\ tiers'.of = q.target /\ tiers'.model = MappingOf[q.target]
  BY <1>0, <1>1, MappingIs
<1>3. /\ op' \in [Task -> Request] /\ op'[o] = Idle /\ \A u \in Task \ {o} : op'[u] = op[u]
      /\ \A u \in Task : op'[u].pc \notin Moving
  BY <1>0, <1>1, IdleIs DEF Moving
<1>4. /\ judged' \in [by : Identity \union {None}, of : Identity \union {None}]
      /\ JudgedByOwnMenu'
  BY <1>0, Known, JudgesOwn DEF Inv
<1>5. TypeOK'  BY <1>1, <1>2, <1>3, <1>4, <1>0, Known, TypesNext
<1>6. LockInv'
  BY <1>0, <1>1, <1>3, IdleIs, Known DEF Inv, LockInv, Task, Moving
<1>7. SwitchInv' /\ ~Fetching'
  BY <1>3 DEF SwitchInv, Fetching, Moving, Task
<1>8. Serving' = Serving /\ Serving \in {None, q.target}
      /\ (selection \in listed => Serving = q.target)
  BY <1>0, <1>1, Known, ServingIs DEF Serving
<1>9. "overlapped" \notin past => selection \in listed  BY DEF Inv, SwitchInv
<1>10. MappingInv'
  BY <1>1, <1>2, <1>7, <1>8, <1>9 DEF MappingInv, Fetching
<1>11. MarkedInv'
  <2> SUFFICES ASSUME Serving # None, list = IdentityOf(Serving)
               PROVE  tiers'.model \in Menu[list]
    BY <1>1, <1>8 DEF MarkedInv, IdentityOf
  <2>1. list # None /\ ~Stale(list, Serving)
    BY Known, IdentityIs, OwnIsNotStale
  <2>2. QED  BY <1>2, <2>1 DEF Absent
<1>12. SessionsInv' /\ SocketsInv'
  <2>1. \A p \in Pin : live'[p] = None  BY <1>1
  <2>2. QED  BY <1>1, <2>1 DEF SessionsInv, SocketsInv, Inv
<1>13. QED  BY <1>4, <1>5, <1>6, <1>7, <1>10, <1>11, <1>12 DEF Inv

\* The store is moved back, or cannot be.
LEMMA RefuseStep ==
  ASSUME Inv, NEW o \in Operator, op[o].pc = "fetching", NEW list \in Landed(op[o].fetching),
         catalog' = list, Judge(list, Serving, op[o].target),
         Absent(list, Serving, op[o].target), Refuse(o),
         UNCHANGED <<listed, owner, swaps, pool, turn>>
  PROVE  Inv'
<1> DEFINE q == op[o]
           r == [q EXCEPT !.pc = "restoring", !.fetching = IdentityOf(q.previous)]
<1>0. /\ o \in Task /\ op \in [Task -> Request] /\ o # Follower
      /\ holder = o /\ \A u \in Task \ {o} : op[u].pc \notin Moving
      /\ q.fetching \in Identity /\ list \in Identity \union {None} /\ list # None
  BY Known, Alone, LandedIs DEF Task, Moving, Absent
<1>1. /\ UNCHANGED <<tiers, live, listed, owner, swaps, pool, turn>>
      /\ past \union {"refused"} \subseteq past'
      /\ past' \subseteq past \union {"refused", "stranded"}
      /\ \/ /\ q.previous \in listed /\ selection' = q.previous /\ op' = [op EXCEPT ![o] = r]
            /\ past' = past \union {"refused"} /\ UNCHANGED holder
         \/ /\ holder' = None /\ op' = [op EXCEPT ![o] = Idle] /\ UNCHANGED selection
            /\ "stranded" \in past'
  BY DEF Refuse, Refused, Release
<1>2. /\ judged' \in [by : Identity \union {None}, of : Identity \union {None}]
      /\ JudgedByOwnMenu'
  BY <1>0, Known, JudgesOwn DEF Inv
<1>3. MarkedInv' /\ SocketsInv' /\ SessionsInv'
  BY <1>1 DEF Inv, MarkedInv, SocketsInv, SessionsInv
<1>4. ASSUME q.previous \in listed, selection' = q.previous, op' = [op EXCEPT ![o] = r],
             past' = past \union {"refused"}, UNCHANGED holder
      PROVE  Inv'
  <2>1. q.previous \in Name /\ IdentityOf(q.previous) \in Identity
    BY <1>4, Known, IdentityIs
  <2>2. /\ r \in Request /\ r.pc = "restoring" /\ r.target = q.target
        /\ r.fetching \in Identity /\ r.previous = q.previous /\ r.before = q.before
    BY <1>0, <2>1 DEF Request
  <2> HIDE DEF r
  <2>3. /\ op' \in [Task -> Request] /\ op'[o] = r /\ \A u \in Task \ {o} : op'[u] = op[u]
    BY <1>0, <1>4, <2>2
  <2>4. TypeOK'  BY <1>0, <1>1, <1>2, <1>4, <2>1, <2>3, Known, TypesNext
  <2>5. LockInv'
    BY <1>0, <1>1, <1>4, <2>1, <2>2, <2>3, Known DEF Inv, LockInv, Task, Moving
  <2>6. \A u \in Operator \ {o} : op'[u].pc \notin Moving
    BY <1>0, <2>3 DEF Task
  <2>7. SwitchInv'
    <3>1. /\ q.before \in Before
          /\ "overlapped" \notin past =>
               q.before = [serving |-> q.previous, tiers |-> tiers]
      BY DEF Inv, SwitchInv
    <3>2. ASSUME NEW u \in Operator, op'[u].pc \in {"fetching", "restoring"} PROVE u = o
      BY <2>6, <3>2 DEF Moving
    <3>3. QED  BY <1>0, <1>1, <1>4, <2>2, <2>3, <3>1, <3>2 DEF SwitchInv
  <2>8. ~Fetching'  BY <2>2, <2>3, <2>6 DEF Fetching, Moving
  <2>9. Serving' = q.previous
    BY <1>1, <1>4, Known, ServingIs DEF Serving
  <2>10. MappingInv'
    BY <1>1, <2>8, <2>9 DEF Inv, MappingInv, Fetching
  <2>11. QED  BY <1>2, <1>3, <2>4, <2>5, <2>7, <2>10 DEF Inv
<1>5. ASSUME holder' = None, op' = [op EXCEPT ![o] = Idle], UNCHANGED selection,
             "stranded" \in past'
      PROVE  Inv'
  <2>1. /\ op' \in [Task -> Request] /\ op'[o] = Idle /\ \A u \in Task \ {o} : op'[u] = op[u]
        /\ \A u \in Task : op'[u].pc \notin Moving
    BY <1>0, <1>5, IdleIs DEF Moving
  <2>2. TypeOK'  BY <1>0, <1>1, <1>2, <1>5, <2>1, Known, TypesNext
  <2>3. LockInv'
    BY <1>0, <1>1, <1>5, <2>1, IdleIs, Known DEF Inv, LockInv, Task, Moving
  <2>4. SwitchInv' /\ ~Fetching'
    BY <2>1 DEF SwitchInv, Fetching, Moving, Task
  <2>5. MappingInv'  BY <1>1, <1>5 DEF Inv, MappingInv
  <2>6. QED  BY <1>2, <1>3, <2>2, <2>3, <2>4, <2>5 DEF Inv
<1>6. QED  BY <1>1, <1>4, <1>5

LEMMA SelectLandStep == ASSUME Inv, NEW o \in Operator, SelectLand(o) PROVE Inv'
<1>1. op[o].pc = "fetching" /\ UNCHANGED <<listed, owner, swaps, pool, turn>>
  BY DEF SelectLand
<1>2. PICK list \in Landed(op[o].fetching) :
       /\ catalog' = list
       /\ Judge(list, Serving, op[o].target)
       /\ IF Absent(list, Serving, op[o].target) THEN Refuse(o) ELSE Switch(o, list)
  BY DEF SelectLand
<1>3. QED  BY <1>1, <1>2, SwitchStep, RefuseStep

\* The lock is let go.
LEMMA Released ==
  ASSUME Inv, NEW o \in Task, op[o].pc \in Moving, Release(o)
  PROVE  /\ op' \in [Task -> Request] /\ op'[o] = Idle /\ \A u \in Task \ {o} : op'[u] = op[u]
         /\ \A u \in Task : op'[u].pc \notin Moving
         /\ holder' = None
BY Known, Alone, IdleIs DEF Release, Moving

\* A fetch ends for whoever asked, and the list it answers is in force.
LEMMA LandingStep ==
  ASSUME Inv, NEW o \in Task, op[o].pc \in Moving \ {"fetching"},
         catalog' \in {op[o].fetching, catalog}, Release(o),
         UNCHANGED <<accounts, past, sockets>>,
         tiers' \in Tiers, MappingInv', MarkedInv',
         judged' \in [by : Identity \union {None}, of : Identity \union {None}],
         JudgedByOwnMenu'
  PROVE  Inv'
<1>0. /\ UNCHANGED <<listed, selection, owner, swaps, past, live, pool, turn>>
      /\ op[o].pc \in Moving
  BY DEF accounts, sockets
<1>1. /\ op' \in [Task -> Request] /\ op'[o] = Idle /\ \A u \in Task \ {o} : op'[u] = op[u]
      /\ \A u \in Task : op'[u].pc \notin Moving
      /\ holder' = None
  BY <1>0, Released
<1>2. /\ op[o].fetching \in Identity /\ \A u \in Task \ {o} : op[u].pc \notin Moving
  BY <1>0, Alone
<1>3. TypeOK'  BY <1>0, <1>1, <1>2, Known, TypesNext
<1>4. LockInv'
  BY <1>0, <1>1, IdleIs, Known DEF Inv, LockInv, Task, Moving
<1>5. SwitchInv' /\ ~Fetching'  BY <1>1 DEF SwitchInv, Fetching, Moving, Task
<1>6. ~Fetching  BY <1>2 DEF Fetching, Moving, Task
<1>7. SessionsInv'  BY <1>0 DEF Inv, SessionsInv
<1>8. ASSUME NEW x, Follows(x) PROVE Follows(x)'
  <2>1. Serving' = Serving /\ IdentityOf(Serving)' = IdentityOf(Serving)
    BY <1>0 DEF Serving, IdentityOf
  <2>2. IdentityOf(Serving) \in Id \ {catalog} /\ IdentityOf(Serving) # op[o].fetching =>
          IdentityOf(Serving)' \in Id \ {catalog'}
    BY <2>1
  <2>3. QED  BY <1>0, <1>1, <1>8, <2>1, <2>2 DEF Follows
<1>9. SocketsInv'
  BY <1>0, <1>6, <1>8 DEF Inv, SocketsInv, Opened
<1>10. QED  BY <1>3, <1>4, <1>5, <1>7, <1>9 DEF Inv

LEMMA SelectRestoredStep ==
  ASSUME Inv, NEW o \in Operator, SelectRestored(o) PROVE Inv'
<1>0. /\ o \in Task /\ op[o].pc = "restoring" /\ Release(o)
      /\ UNCHANGED <<accounts, tiers, judged, past, sockets>>
      /\ UNCHANGED <<listed, selection, owner>>
  BY DEF SelectRestored, Task, accounts
<1>1. op[o].pc \in Moving /\ op[o].pc \in Moving \ {"fetching"}  BY <1>0 DEF Moving
<1>2. /\ op[o].fetching \in Identity /\ \A u \in Task \ {o} : op[u].pc \notin Moving
      /\ "refused" \in past
  BY <1>0, <1>1, Alone DEF Inv, SwitchInv
<1>3. catalog' \in {op[o].fetching, catalog}
  BY <1>2, Known, LandedIs DEF SelectRestored
<1>4. ~Fetching /\ ~Fetching'
  BY <1>0, <1>1, <1>2, Released DEF Fetching, Moving, Task
<1>5. Serving' = Serving  BY <1>0 DEF Serving
<1>6. MappingInv'
  BY <1>0, <1>4, <1>5 DEF Inv, MappingInv, Fetching
<1>7. MarkedInv' /\ JudgedByOwnMenu'
  BY <1>0, <1>2 DEF Inv, MarkedInv, JudgedByOwnMenu
<1>8. QED  BY <1>0, <1>1, <1>3, <1>6, <1>7, Known, LandingStep

LEMMA RemoveLandStep ==
  ASSUME Inv, NEW o \in Operator, RemoveLand(o) PROVE Inv'
<1>0. /\ o \in Task /\ op[o].pc = "handing" /\ Release(o)
      /\ UNCHANGED <<accounts, tiers, judged, past, sockets>>
  BY DEF RemoveLand, Task
<1>1. op[o].pc \in Moving /\ op[o].pc \in Moving \ {"fetching"}  BY <1>0 DEF Moving
<1>2. op[o].fetching \in Identity /\ "handed" \in past
  BY <1>0, <1>1, Alone DEF Inv, LockInv
<1>3. catalog' \in {op[o].fetching, catalog}
  BY <1>2, Known, LandedIs DEF RemoveLand
<1>4. MappingInv' /\ MarkedInv' /\ JudgedByOwnMenu'
  BY <1>0, <1>2 DEF Inv, MappingInv, MarkedInv, JudgedByOwnMenu
<1>5. QED  BY <1>0, <1>1, <1>3, <1>4, Known, LandingStep

-----------------------------------------------------------------------------
(* follow_serving_account, and the owner of a profile. *)

LEMMA FollowLandStep == ASSUME Inv, FollowLand PROVE Inv'
<1>0. /\ Follower \in Task /\ op[Follower].pc = "following" /\ Release(Follower)
      /\ UNCHANGED <<accounts, past, sockets>>
      /\ UNCHANGED <<listed, selection, owner>>
  BY DEF FollowLand, Task, accounts
<1>1. op[Follower].pc \in Moving /\ op[Follower].pc \in Moving \ {"fetching"}
  BY <1>0 DEF Moving
<1>2. /\ op[Follower].fetching \in Identity
      /\ \A u \in Task \ {Follower} : op[u].pc \notin Moving
  BY <1>0, <1>1, Alone
<1>3. ~Fetching /\ ~Fetching' /\ \A u \in Operator : op'[u].pc # "fetching"
  BY <1>0, <1>1, <1>2, Released DEF Fetching, Moving, Task
<1>4. /\ Serving' = Serving /\ IdentityOf(Serving)' = IdentityOf(Serving)
      /\ Serving \in Name \union {None}
  BY <1>0, Known DEF Serving, IdentityOf
<1>5. CASE catalog' = op[Follower].fetching /\ Mark(catalog', Serving)
  <2>1. catalog' \in Identity \union {None}  BY <1>2, <1>5
  <2>2. /\ tiers' \in Tiers /\ tiers'.of = Serving /\ tiers'.model = MappingOf[Serving]
        /\ judged' \in [by : Identity \union {None}, of : Identity \union {None}]
        /\ JudgedByOwnMenu'
        /\ Serving # None /\ catalog' = IdentityOf(Serving) =>
             tiers'.missing \/ MappingOf[Serving] \in Menu[catalog']
    BY <1>4, <1>5, <2>1, Known, Marks DEF Inv
  <2>3. MappingInv'
    BY <1>0, <1>3, <1>4, <2>2 DEF MappingInv
  <2>4. MarkedInv'
    BY <1>0, <1>4, <2>2 DEF MarkedInv
  <2>5. QED  BY <1>0, <1>1, <1>5, <2>2, <2>3, <2>4, LandingStep
<1>6. CASE UNCHANGED <<catalog, tiers, judged>>
  <2>1. MappingInv' /\ MarkedInv' /\ JudgedByOwnMenu'
    BY <1>0, <1>3, <1>4, <1>6 DEF Inv, MappingInv, MarkedInv, JudgedByOwnMenu
  <2>2. QED  BY <1>0, <1>1, <1>6, <2>1, Known, LandingStep
<1>7. QED  BY <1>5, <1>6 DEF FollowLand

LEMMA FollowStep == ASSUME Inv, Follow PROVE Inv'
<1> DEFINE r == [op[Follower] EXCEPT !.pc = "following", !.fetching = IdentityOf(Serving)]
<1>0. /\ Follower \in Task /\ holder = None /\ op \in [Task -> Request]
      /\ holder' = Follower /\ op' = [op EXCEPT ![Follower] = r]
      /\ UNCHANGED <<accounts, catalog, tiers, judged, past, pool, turn>>
      /\ UNCHANGED <<listed, selection, owner, swaps>>
      /\ live' = [p \in Pin |-> None]
  BY Known DEF Follow, Task, accounts, ClearSessions
<1>1. \A u \in Task : op[u].pc \notin Moving
  BY <1>0, Known DEF Inv, LockInv
<1>2. Serving \in Name /\ IdentityOf(Serving) \in Identity
  BY Known, IdentityIs DEF Follow, Stale
<1>3. r \in Request /\ r.pc = "following" /\ r.fetching \in Identity
  BY <1>0, <1>2 DEF Request
<1> HIDE DEF r
<1>4. /\ op' \in [Task -> Request] /\ op'[Follower] = r
      /\ \A u \in Task \ {Follower} : op'[u] = op[u]
  BY <1>0, <1>3
<1>5. TypeOK'  BY <1>0, <1>4, Known, TypesNext
<1>6. LockInv'
  BY <1>0, <1>1, <1>3, <1>4, Known DEF Inv, LockInv, Task, Moving
<1>7. SwitchInv' /\ ~Fetching' /\ ~Fetching /\ \A u \in Operator : op'[u].pc # "fetching"
  BY <1>1, <1>4, Known DEF SwitchInv, Fetching, Task, Moving
<1>8. Serving' = Serving  BY <1>0 DEF Serving
<1>9. MappingInv'
  BY <1>0, <1>7, <1>8 DEF Inv, MappingInv
<1>10. MarkedInv' /\ JudgedByOwnMenu'
  BY <1>0, <1>8 DEF Inv, MarkedInv, JudgedByOwnMenu, IdentityOf
<1>11. SessionsInv' /\ SocketsInv'
  <2>1. \A p \in Pin : live'[p] = None  BY <1>0
  <2>2. QED  BY <1>0, <2>1 DEF SessionsInv, SocketsInv, Inv
<1>12. QED  BY <1>5, <1>6, <1>7, <1>9, <1>10, <1>11 DEF Inv

\* Whoever a profile becomes, no list that is held or asked for is theirs, or it
\* is remembered that they returned.
LEMMA OwnerSignsInStep ==
  ASSUME Inv, NEW p \in Profile, OwnerSignsIn(p) PROVE Inv'
<1>0. PICK i \in Id \ {owner[q] : q \in Profile} :
        /\ owner' = [owner EXCEPT ![p] = i]
        /\ past' = IF i = catalog \/ \E o \in Task : i = op[o].fetching
                   THEN past \union {"returned"} ELSE past
  BY DEF OwnerSignsIn, Task
<1>1. UNCHANGED <<listed, selection, catalog, tiers, holder, judged, op, live, pool, turn>>
  BY DEF OwnerSignsIn, sockets
<1>2. /\ owner' \in [Profile -> Id] /\ owner'[p] = i
      /\ \A q \in Profile \ {p} : owner'[q] = owner[q]
  BY <1>0, Known
<1>3. swaps' \in 0..Swaps
  BY Known, NamesAssumption DEF OwnerSignsIn
<1>4. past \subseteq past' /\ past' \subseteq past \union {"returned"}
  BY <1>0
<1>5. TypeOK'  BY <1>1, <1>2, <1>3, <1>4, Known, TypesNext
<1>6. LockInv'
  BY <1>1, <1>4 DEF Inv, LockInv
<1>7. SwitchInv'
  BY <1>1, <1>4 DEF Inv, SwitchInv
<1>8. Serving' = Serving /\ (Fetching' <=> Fetching)
  BY <1>1 DEF Serving, Fetching
<1>9. MappingInv'
  BY <1>1, <1>4, <1>8 DEF Inv, MappingInv
<1>10. ASSUME Serving # None
       PROVE  \/ IdentityOf(Serving)' = IdentityOf(Serving)
              \/ IdentityOf(Serving)' = i /\ Serving = p
  <2>1. Serving \in Name  BY <1>10, Known
  <2>2. QED  BY <1>2, <1>8, <2>1 DEF IdentityOf, Name
<1>11. MarkedInv'
  <2> SUFFICES ASSUME past' = {}, Serving # None, tiers.of = Serving,
                      catalog = IdentityOf(Serving)'
               PROVE  tiers.missing \/ tiers.model \in Menu[catalog]
    BY <1>1, <1>8 DEF MarkedInv
  <2>1. past = {} /\ i # catalog  BY <1>0
  <2>2. QED  BY <1>10, <2>1 DEF Inv, MarkedInv
<1>12. SessionsInv' /\ JudgedByOwnMenu'
  BY <1>1 DEF Inv, SessionsInv, JudgedByOwnMenu
<1>13. SocketsInv'
  <2> SUFFICES ASSUME {"refused", "returned"} \intersect past' = {}, ~Fetching,
                      None \in Pin, live[None] # None, NEW x \in Identity, Opened(x)
               PROVE  Follows(x)'
    BY <1>1, <1>8 DEF SocketsInv, Opened
  <2>1. Follows(x)  BY <1>4 DEF Inv, SocketsInv
  <2>2. i # catalog /\ \A o \in Task : i # op[o].fetching  BY <1>0
  <2>3. Serving # None  BY <2>1 DEF Follows
  <2>4. CASE IdentityOf(Serving)' = IdentityOf(Serving)
    BY <1>1, <1>8, <2>1, <2>4 DEF Follows
  <2>5. CASE IdentityOf(Serving)' = i
    BY <1>1, <1>8, <2>2, <2>3, <2>5 DEF Follows
  <2>6. QED  BY <1>10, <2>3, <2>4, <2>5
<1>14. QED  BY <1>5, <1>6, <1>7, <1>9, <1>11, <1>12, <1>13 DEF Inv

-----------------------------------------------------------------------------
(* accounts.remove and config.reload. *)

\* A name that does not serve is taken away from who is listed: whoever serves
\* goes on, if one does by being selected.
LEMMA RemovedElse ==
  ASSUME Inv, NEW n \in listed, n # Serving, Serving # None \/ selection \in Name
  PROVE  selection # n /\ ServingOf(listed \ {n}, selection) = Serving
<1>0. listed \in SUBSET Name /\ selection \in Name \union {None} /\ None \notin Name
      /\ listed \ {n} \in SUBSET Name
  BY Known
<1>1. selection # n  BY <1>0, ServingIs DEF Serving
<1>2. CASE selection \in listed
  BY <1>0, <1>1, <1>2, ServingIs DEF Serving
<1>3. CASE selection \in Name \ listed
  BY <1>0, <1>3, ServingIs DEF Serving
<1>4. CASE selection = None
  <2>1. Serving # None  BY <1>0, <1>4
  <2>2. Cardinality(listed) = 1 /\ Serving \in listed
    BY <1>0, <1>4, <2>1, Known DEF Serving, ServingOf
  <2>3. IsFiniteSet(listed)  BY <1>0, NamesAssumption, FS_Subset
  <2>4. PICK x : listed = {x}  BY <2>2, <2>3, FS_Singleton
  <2>5. QED  BY <2>2, <2>4
<1>5. QED  BY <1>0, <1>1, <1>2, <1>3, <1>4

LEMMA RemoveStep ==
  ASSUME Inv, NEW o \in Operator, NEW n \in Name, Remove(o, n) PROVE Inv'
<1> DEFINE names == listed \ {n}
           sel   == IF n \in Key /\ selection = n THEN None ELSE selection
           next  == ServingOf(names, sel)
           handsOver == n = Serving
           r == [op[o] EXCEPT !.pc = "handing", !.fetching = IdentityOf(next)]
<1>0. /\ holder = None /\ op[o].pc = "idle" /\ n \in listed
      /\ listed' = names /\ selection' = sel
      /\ IF n \in Profile THEN Mark(catalog, next) ELSE UNCHANGED <<tiers, judged>>
      /\ IF handsOver \/ (n \in Profile /\ next # Serving)
         THEN ClearSessions ELSE UNCHANGED live
      /\ IF handsOver /\ next # None
         THEN holder' = o /\ op' = [op EXCEPT ![o] = r]
         ELSE UNCHANGED <<holder, op>>
      /\ past' = IF handsOver /\ n \in Key THEN past \union {"handed"} ELSE past
      /\ UNCHANGED <<owner, swaps, catalog, pool, turn>>
  BY DEF Remove
<1>1. /\ o \in Task /\ o # Follower /\ op \in [Task -> Request]
      /\ \A u \in Task : op[u].pc \notin Moving
  BY <1>0, Known DEF Inv, LockInv, Task
<1>2. /\ names \in SUBSET Name /\ sel \in Name \union {None} /\ next \in Name \union {None}
      /\ Profile \intersect Key = {}
  BY Known, ServingIs, NamesAssumption
<1>3. Serving' = next  BY <1>0 DEF Serving
<1>4. IdentityOf(Serving)' = IdentityOf(next)  BY <1>0, <1>3 DEF IdentityOf
<1>5. past \subseteq past' /\ past' \subseteq past \union {"handed"}
  BY <1>0
<1>6. n # Serving /\ (Serving # None \/ selection \in Name) =>
        sel = selection /\ next = Serving
  BY <1>0, RemovedElse
<1>7. ASSUME handsOver, n \in Profile, "handed" \notin past PROVE next = None
  <2>1. selection \in Name /\ sel = selection
    BY <1>2, <1>7 DEF Inv, LockInv
  <2>2. selection = n
    BY <1>0, <1>7, <2>1, Known, ServingIs DEF Serving
  <2>3. QED  BY <1>2, <2>1, <2>2, ServingIs
<1>8. "handed" \notin past' => selection' \in Name
  <2> SUFFICES ASSUME "handed" \notin past', n \in Key, selection = n
               PROVE  FALSE
    BY <1>0, <1>5 DEF Inv, LockInv
  <2>1. Serving = n  BY <1>0, Known, ServingIs DEF Serving
  <2>2. QED  BY <1>0, <2>1
<1>9. /\ live' \in [Pin -> Session \union {None}]
      /\ (live' = live \/ \A p \in Pin : live'[p] = None)
  BY <1>0, Known DEF ClearSessions
<1>10. /\ tiers' \in Tiers
       /\ judged' \in [by : Identity \union {None}, of : Identity \union {None}]
       /\ JudgedByOwnMenu'
       /\ n \in Profile =>
            /\ tiers'.of = next /\ tiers'.model = MappingOf[next]
            /\ next # None /\ catalog = IdentityOf(next) =>
                 tiers'.missing \/ MappingOf[next] \in Menu[catalog]
  <2>1. CASE n \in Profile
    <3>1. Mark(catalog, next)  BY <1>0, <2>1
    <3>2. QED  BY <1>2, <3>1, Known, Marks DEF Inv
  <2>2. CASE n \notin Profile
    BY <1>0, <2>2, Known DEF Inv, JudgedByOwnMenu
  <2>3. QED  BY <2>1, <2>2
<1>11. /\ op' \in [Task -> Request] /\ \A u \in Task \ {o} : op'[u] = op[u]
       /\ \/ op'[o] = op[o] /\ holder' = None /\ op' = op
          \/ /\ op'[o].pc = "handing" /\ op'[o].fetching \in Identity /\ holder' = o
             /\ handsOver /\ "handed" \in past'
  <2>1. CASE handsOver /\ next # None
    <3>1. IdentityOf(next) \in Identity  BY <1>2, <2>1, Known, IdentityIs
    <3>2. r \in Request /\ r.pc = "handing" /\ r.fetching \in Identity
      BY <1>1, <3>1 DEF Request
    <3>3. op' = [op EXCEPT ![o] = r] /\ holder' = o  BY <1>0, <2>1
    <3>4. "handed" \in past'
      BY <1>0, <1>5, <1>7, <2>1 DEF Name
    <3> HIDE DEF r
    <3>5. QED  BY <1>1, <2>1, <3>2, <3>3, <3>4
  <2>2. CASE ~(handsOver /\ next # None)
    BY <1>0, <1>1, <2>2
  <2>3. QED  BY <2>1, <2>2
<1> HIDE DEF names, sel, next, handsOver, r
<1>12. \A u \in Operator : op'[u].pc \notin {"fetching", "restoring"}
  BY <1>1, <1>11 DEF Task, Moving
<1>13. TypeOK'
  BY <1>0, <1>1, <1>2, <1>5, <1>9, <1>10, <1>11, Known, TypesNext
<1>14. LockInv'
  BY <1>0, <1>1, <1>5, <1>8, <1>11, Known DEF Inv, LockInv, Task, Moving
<1>15. SwitchInv' /\ ~Fetching' /\ ~Fetching
  BY <1>1, <1>12 DEF SwitchInv, Fetching, Task, Moving
<1>16. "handed" \notin past' /\ n \notin Profile => n # Serving /\ next = Serving
  <2> SUFFICES ASSUME "handed" \notin past', n \notin Profile
               PROVE  n # Serving /\ selection \in Name
    BY <1>6
  <2>1. n # Serving  BY <1>0 DEF handsOver, Name
  <2>2. QED  BY <1>5, <2>1 DEF Inv, LockInv
<1>17. MappingInv'
  <2>1. CASE n \in Profile
    BY <1>3, <1>10, <1>12, <2>1 DEF MappingInv
  <2>2. CASE n \notin Profile
    <3>1. tiers' = tiers  BY <1>0, <2>2
    <3>2. QED  BY <1>3, <1>5, <1>12, <1>15, <1>16, <2>2, <3>1 DEF Inv, MappingInv
  <2>3. QED  BY <2>1, <2>2
<1>18. MarkedInv'
  <2>1. CASE n \in Profile
    BY <1>0, <1>3, <1>4, <1>10, <2>1 DEF MarkedInv
  <2>2. CASE n \notin Profile
    <3>1. tiers' = tiers /\ catalog' = catalog  BY <1>0, <2>2
    <3>2. QED  BY <1>3, <1>4, <1>5, <1>16, <2>2, <3>1 DEF Inv, MarkedInv
  <2>3. QED  BY <2>1, <2>2
<1>19. SessionsInv'
  BY <1>0, <1>9 DEF Inv, SessionsInv
<1>20. SocketsInv'
  <2> SUFFICES ASSUME {"refused", "returned"} \intersect past' = {},
                      None \in Pin, live'[None] # None, NEW x \in Identity, Opened(x)'
               PROVE  Follows(x)'
    BY DEF SocketsInv
  <2>1. UNCHANGED live /\ n # Serving /\ (n \in Profile => next = Serving)
    BY <1>0 DEF ClearSessions, handsOver
  <2>2. Follows(x)
    BY <1>0, <1>5, <1>15, <2>1 DEF Inv, SocketsInv, Opened
  <2>3. next = Serving  BY <1>6, <2>1, <2>2 DEF Follows
  <2>4. op' = op  BY <1>11, <2>1 DEF handsOver
  <2>5. QED  BY <1>0, <1>3, <1>4, <2>2, <2>3, <2>4 DEF Follows
<1>21. QED  BY <1>10, <1>13, <1>14, <1>15, <1>17, <1>18, <1>19, <1>20 DEF Inv

LEMMA ReloadStep == ASSUME Inv, NEW o \in Operator, Reload(o) PROVE Inv'
<1>0. PICK file \in Files :
        LET names == file \union (listed \intersect Key)
            next  == ServingOf(names, selection)
        IN  /\ listed' = names
            /\ IF next # Serving THEN ClearSessions ELSE UNCHANGED live
            /\ Mark(catalog, next)
  BY DEF Reload
<1> DEFINE next == ServingOf(listed', selection)
<1>1. /\ listed' = file \union (listed \intersect Key)
      /\ IF next # Serving THEN ClearSessions ELSE UNCHANGED live
      /\ Mark(catalog, next)
      /\ past' = IF holder \in Operator THEN past \union {"overlapped"} ELSE past
      /\ UNCHANGED <<selection, owner, swaps, catalog, holder, op, pool, turn>>
  BY <1>0 DEF Reload
<1>2. listed' \in SUBSET Name /\ next \in Name \union {None}
  BY <1>1, Known, ServingIs, NamesAssumption DEF Name
<1>3. Serving' = next /\ IdentityOf(Serving)' = IdentityOf(next)
  BY <1>1 DEF Serving, IdentityOf
<1>4. /\ tiers' \in Tiers /\ tiers'.of = next /\ tiers'.model = MappingOf[next]
      /\ judged' \in [by : Identity \union {None}, of : Identity \union {None}]
      /\ JudgedByOwnMenu'
      /\ next # None /\ catalog = IdentityOf(next) =>
           tiers'.missing \/ MappingOf[next] \in Menu[catalog]
  BY <1>1, <1>2, Known, Marks DEF Inv
<1>5. /\ live' \in [Pin -> Session \union {None}]
      /\ (live' = live \/ \A p \in Pin : live'[p] = None)
  BY <1>1, Known DEF ClearSessions
<1> HIDE DEF next
<1>6. past \subseteq past' /\ past' \subseteq past \union {"overlapped"}
  BY <1>1
<1>7. TypeOK'  BY <1>1, <1>2, <1>4, <1>5, <1>6, Known, TypesNext
<1>8. LockInv'  BY <1>1, <1>6 DEF Inv, LockInv
<1>9. ASSUME NEW u \in Operator, op[u].pc \in {"fetching", "restoring"}
      PROVE  "overlapped" \in past'
  BY <1>1, <1>9 DEF Inv, LockInv, Task, Moving
<1>10. SwitchInv'
  BY <1>1, <1>6, <1>9 DEF Inv, SwitchInv
<1>11. Fetching' <=> Fetching  BY <1>1 DEF Fetching
<1>12. MappingInv'
  BY <1>1, <1>3, <1>4, <1>9 DEF MappingInv
<1>13. MarkedInv'  BY <1>1, <1>3, <1>4 DEF MarkedInv
<1>14. SessionsInv'
  BY <1>1, <1>5 DEF Inv, SessionsInv
<1>15. SocketsInv'
  <2> SUFFICES ASSUME {"refused", "returned"} \intersect past' = {}, ~Fetching,
                      None \in Pin, live'[None] # None, NEW x \in Identity, Opened(x)'
               PROVE  Follows(x)'
    BY <1>11 DEF SocketsInv
  <2>1. UNCHANGED live /\ next = Serving
    BY <1>1 DEF ClearSessions
  <2>2. Follows(x)  BY <1>1, <1>6, <2>1 DEF Inv, SocketsInv, Opened
  <2>3. QED  BY <1>1, <1>3, <2>1, <2>2 DEF Follows
<1>16. QED  BY <1>4, <1>7, <1>8, <1>10, <1>12, <1>13, <1>14, <1>15 DEF Inv

-----------------------------------------------------------------------------
(* The whole. *)

LEMMA InitInv == Init => Inv
<1> SUFFICES ASSUME Init PROVE Inv  OBVIOUS
<1>1. PICK ok \in Startup : catalog = IF ok THEN IdentityOf(selection) ELSE None
  BY DEF Init
<1>2. /\ listed = Name /\ selection \in Name /\ owner \in [Profile -> Id]
      /\ tiers = Mapping(catalog, selection, selection)
      /\ holder = None /\ op = [o \in Task |-> Idle]
      /\ live = [p \in Pin |-> None] /\ pool = [s \in Session |-> None]
      /\ turn = [t \in Turn |-> NoTurn] /\ judged = [by |-> None, of |-> None]
      /\ past = {} /\ swaps = 0
  BY DEF Init, Task
<1>3. Serving = selection
  BY <1>2, ServingIs DEF Serving
<1>4. catalog \in Identity \union {None}
  BY <1>1, <1>2, IdentityIs
<1>5. /\ tiers \in Tiers /\ tiers.of = selection /\ tiers.model = MappingOf[selection]
      /\ tiers.missing <=> Absent(catalog, selection, selection)
  BY <1>2, MappingIs
<1>6. op \in [Task -> Request] /\ \A o \in Task : op[o] = Idle /\ op[o].pc \notin Moving
  BY <1>2, IdleIs DEF Moving
<1>7. turn \in [Turn -> TurnState] /\ \A t \in Turn : turn[t].pc = "idle" /\ turn[t].session = None
  BY <1>2, NoTurnIs
<1>8. TypeOK
  <2>1. swaps \in 0..Swaps  BY <1>2, NamesAssumption
  <2>2. judged \in [by : Identity \union {None}, of : Identity \union {None}]  BY <1>2
  <2>3. live \in [Pin -> Session \union {None}] /\ pool \in [Session -> Identity \union {None}]
    BY <1>2
  <2>4. QED  BY <1>2, <1>4, <1>5, <1>6, <1>7, <2>1, <2>2, <2>3, Types
<1>9. LockInv
  <2>1. None \notin Task  BY NamesAssumption DEF Task
  <2>2. QED  BY <1>2, <1>6, <2>1, IdleIs DEF LockInv, Task, Moving
<1>10. SwitchInv /\ ~Fetching
  BY <1>6, IdleIs DEF SwitchInv, Fetching, Task
<1>11. MappingInv
  BY <1>3, <1>5, <1>10 DEF MappingInv, Fetching
<1>12. MarkedInv
  <2> SUFFICES ASSUME Serving # None, catalog = IdentityOf(Serving)
               PROVE  tiers.missing \/ tiers.model \in Menu[catalog]
    BY DEF MarkedInv
  <2>1. catalog # None /\ ~Stale(catalog, Serving)
    BY <1>2, <1>3, IdentityIs, OwnIsNotStale
  <2>2. QED  BY <1>3, <1>5, <2>1 DEF Absent
<1>13. JudgedByOwnMenu
  <2>1. Claim(None) = None  BY NamesAssumption DEF Claim, Identity
  <2>2. QED  BY <1>2, <2>1 DEF JudgedByOwnMenu
<1>14. SessionsInv /\ SocketsInv
  <2>1. \A p \in Pin : live[p] = None  BY <1>2
  <2>2. QED  BY <1>7, <2>1 DEF SessionsInv, SocketsInv
<1>15. QED  BY <1>8, <1>9, <1>10, <1>11, <1>12, <1>13, <1>14 DEF Inv

LEMMA StutterInv == Inv /\ UNCHANGED vars => Inv'
<1> SUFFICES ASSUME Inv, UNCHANGED vars PROVE Inv'  OBVIOUS
<1>1. /\ UNCHANGED <<listed, selection, owner, swaps, catalog, tiers, holder, judged, past>>
      /\ UNCHANGED <<op, live, pool, turn>>
  BY DEF vars, accounts, inForce, sockets
<1>2. UNCHANGED <<accounts, inForce, op>>  BY DEF vars
<1>3. TypeOK'  BY <1>1, Known, TypesNext
<1>4. SessionsInv'  BY <1>1 DEF Inv, SessionsInv
<1>5. SocketsInv'
  BY <1>1, <1>2, TurnElsewhere DEF Inv, SocketsInv, Opened
<1>6. QED  BY <1>2, <1>3, <1>4, <1>5, TurnElsewhere DEF Inv

LEMMA StepInv == Inv /\ [Next]_vars => Inv'
<1> SUFFICES ASSUME Inv, [Next]_vars PROVE Inv'  OBVIOUS
<1>1. ASSUME NEW o \in Operator, NEW n \in Name, SelectAsk(o, n) PROVE Inv'
  BY <1>1, SelectAskStep
<1>2. ASSUME NEW o \in Operator, NEW n \in Name, Remove(o, n) PROVE Inv'
  BY <1>2, RemoveStep
<1>3. ASSUME NEW o \in Operator, SelectMove(o) PROVE Inv'
  BY <1>3, SelectMoveStep
<1>4. ASSUME NEW o \in Operator, SelectLand(o) PROVE Inv'
  BY <1>4, SelectLandStep
<1>5. ASSUME NEW o \in Operator, SelectRestored(o) PROVE Inv'
  BY <1>5, SelectRestoredStep
<1>6. ASSUME NEW o \in Operator, RemoveLand(o) PROVE Inv'
  BY <1>6, RemoveLandStep
<1>7. ASSUME NEW o \in Operator, Reload(o) PROVE Inv'
  BY <1>7, ReloadStep
<1>8. CASE Follow  BY <1>8, FollowStep
<1>9. CASE FollowLand  BY <1>9, FollowLandStep
<1>10. ASSUME NEW p \in Profile, OwnerSignsIn(p) PROVE Inv'
  BY <1>10, OwnerSignsInStep
<1>11. ASSUME NEW t \in Turn, NEW p \in Pin, TurnBegins(t, p) PROVE Inv'
  BY <1>11, TurnBeginsStep
<1>12. ASSUME NEW t \in Turn, TurnReuses(t) PROVE Inv'
  BY <1>12, TurnReusesStep
<1>13. ASSUME NEW t \in Turn, TurnDials(t) PROVE Inv'
  BY <1>13, TurnDialsStep
<1>14. ASSUME NEW t \in Turn, TurnEnds(t) PROVE Inv'
  BY <1>14, TurnEndsStep
<1>15. CASE UNCHANGED vars  BY <1>15, StutterInv
<1>16. QED
  BY <1>1, <1>2, <1>3, <1>4, <1>5, <1>6, <1>7, <1>8, <1>9, <1>10, <1>11, <1>12,
     <1>13, <1>14, <1>15 DEF Next

\* Every state is well typed, whoever moves holds the one lock and remembers what
\* it found, and the mapping, the list and the sockets are those of whoever
\* serves or of the move under way.
THEOREM MovesInvariant == Spec => []Inv
<1>1. QED  BY InitInv, StepInv, PTL DEF Spec

\* Whenever no move is under way the mapping in force is that of the account
\* serving (put_mapping_in_force, called by every handler that moves it).
THEOREM MappingFollows == Spec => []MappingFollowsSelection
<1>1. Inv => MappingFollowsSelection
  <2> SUFFICES ASSUME Inv, Settled, Serving # None,
                      {"handed", "stranded"} \intersect past = {},
                      ~({"refused", "overlapped"} \subseteq past)
               PROVE  tiers.of = Serving
    BY DEF MappingFollowsSelection
  <2>1. ~Fetching  BY DEF Settled, Fetching
  <2>2. CASE "overlapped" \notin past
    BY <2>1, <2>2 DEF Inv, MappingInv
  <2>3. CASE "refused" \notin past
    BY <2>1, <2>3 DEF Inv, MappingInv
  <2>4. QED  BY <2>2, <2>3
<1>2. QED  BY <1>1, MovesInvariant, PTL

\* A mapping is marked where the list in force is its account's and lacks it, and
\* judged over no other account's list (put_mapping_in_force, is_stale_for).
THEOREM ListJudgesRightly == Spec => []JudgedRightly
<1>1. Inv => JudgedRightly
  BY DEF Inv, MarkedInv, JudgedRightly, Servable
<1>2. QED  BY <1>1, MovesInvariant, PTL

\* Where the list is not taken to be another account's, the conversation pools no
\* socket opened as anyone but whoever serves (SessionStore::clear, in every
\* handler that moves the account and in the follow loop).
THEOREM SocketsFollowServing == Spec => []SocketsFollow
<1>1. Inv => SocketsFollow
  <2> SUFFICES ASSUME Inv, Settled, {"refused", "returned"} \intersect past = {},
                      catalog \in Id, ~Stale(catalog, Serving), Serving # None,
                      None \in Pin, live[None] # None,
                      pool[live[None]] # None
               PROVE  pool[live[None]] = IdentityOf(Serving)
    BY DEF SocketsFollow
  <2> DEFINE x == pool[live[None]]
  <2>1. live[None] \in Session /\ x \in Identity  BY Known
  <2>2. ~Fetching /\ Opened(x)  BY DEF Settled, Fetching, Opened
  <2>3. Follows(x)  BY <2>1, <2>2 DEF Inv, SocketsInv
  <2>4. ASSUME IdentityOf(Serving) \in Id \ {catalog} PROVE FALSE
    <3>1. None \notin Id  BY NamesAssumption DEF Identity
    <3>2. QED  BY <2>4, <3>1 DEF Stale, Claim
  <2>5. QED  BY <2>3, <2>4 DEF Follows
<1>2. QED  BY <1>1, MovesInvariant, PTL

\* What a switch was put back to is done with by its own last step alone.
LEMMA RestoredBySelf ==
  ASSUME Inv, Next, NEW o \in Operator, op[o].pc = "restoring", op'[o].pc = "idle"
  PROVE  SelectRestored(o)
<1>0. /\ o \in Task /\ o # Follower /\ op \in [Task -> Request] /\ op[o].pc \in Moving
      /\ \A u \in Task \ {o} : op[u].pc \notin Moving
      /\ holder = o /\ holder # None /\ Operator \subseteq Task
  BY Known, Alone DEF Task, Moving
<1>1. op' # op  OBVIOUS
<1>2. ASSUME NEW u \in Operator, NEW n \in Name, SelectAsk(u, n) PROVE FALSE
  BY <1>0, <1>2 DEF SelectAsk
<1>3. ASSUME NEW u \in Operator, NEW n \in Name, Remove(u, n) PROVE FALSE
  BY <1>0, <1>3 DEF Remove
<1>4. ASSUME NEW u \in Operator, SelectMove(u) PROVE FALSE
  BY <1>0, <1>4 DEF SelectMove
<1>5. ASSUME NEW u \in Operator, SelectLand(u) PROVE FALSE
  BY <1>0, <1>5 DEF SelectLand, Moving
<1>6. ASSUME NEW u \in Operator, RemoveLand(u) PROVE FALSE
  BY <1>0, <1>6 DEF RemoveLand, Moving
<1>7. ASSUME NEW u \in Operator, Reload(u) PROVE FALSE
  BY <1>1, <1>7 DEF Reload
<1>8. ~Follow  BY <1>0 DEF Follow
<1>9. ~FollowLand
  <2>1. Follower \in Task  BY DEF Task
  <2>2. QED  BY <1>0, <2>1 DEF FollowLand, Moving
<1>10. ASSUME NEW p \in Profile, OwnerSignsIn(p) PROVE FALSE
  BY <1>1, <1>10 DEF OwnerSignsIn
<1>11. ASSUME NEW t \in Turn,
              (\E p \in Pin : TurnBegins(t, p)) \/ TurnReuses(t) \/ TurnDials(t) \/ TurnEnds(t)
       PROVE  FALSE
  BY <1>1, <1>11 DEF TurnBegins, TurnReuses, TurnDials, TurnEnds
<1>12. ASSUME NEW u \in Operator, SelectRestored(u) PROVE u = o
  BY <1>0, <1>12 DEF SelectRestored, Moving
<1>13. QED
  BY <1>2, <1>3, <1>4, <1>5, <1>6, <1>7, <1>8, <1>9, <1>10, <1>11, <1>12 DEF Next

\* A refused switch leaves the account that served, its mapping, and a list that
\* is that account's or says it is another's (accounts.select's way back).
THEOREM RefusalLeavesAsWas == Spec => RefusalChangesNothing
<1> DEFINE Kept(o) ==
      op[o].pc = "restoring" /\ op'[o].pc = "idle" /\ "overlapped" \notin past =>
       /\ Serving' = op[o].before.serving
       /\ tiers' = op[o].before.tiers
       /\ \/ catalog' = IdentityOf(Serving)' \/ Stale(catalog, Serving)'
          \/ {catalog, Serving}' \intersect Key # {}
<1>1. ASSUME Inv, [Next]_vars, NEW o \in Operator PROVE Kept(o)
  <2> SUFFICES ASSUME op[o].pc = "restoring", op'[o].pc = "idle", "overlapped" \notin past
               PROVE  /\ Serving' = op[o].before.serving
                      /\ tiers' = op[o].before.tiers
                      /\ \/ catalog' = IdentityOf(Serving)' \/ Stale(catalog, Serving)'
                         \/ {catalog, Serving}' \intersect Key # {}
    OBVIOUS
  <2>1. op' # op  OBVIOUS
  <2>2. SelectRestored(o)
    BY <1>1, <2>1, RestoredBySelf DEF vars
  <2>3. /\ op[o].before = [serving |-> op[o].previous, tiers |-> tiers]
        /\ selection = op[o].previous /\ selection \in listed /\ catalog # None
    BY <1>1 DEF Inv, SwitchInv
  <2>4. /\ UNCHANGED <<listed, selection, owner, tiers>>
        /\ catalog' \in Landed(op[o].fetching)
    BY <2>2 DEF SelectRestored, accounts
  <2>5. Serving' = Serving /\ Serving = selection /\ Serving \in Name
    BY <1>1, <2>3, <2>4, Known, ServingIs DEF Serving
  <2>6. catalog' \in Identity
    <3>1. op[o].fetching \in Identity  BY <1>1, Alone DEF Task, Moving
    <3>2. QED  BY <1>1, <2>3, <2>4, <3>1, Known, LandedIs
  <2>7. IdentityOf(Serving)' = IdentityOf(Serving)
    BY <2>4, <2>5 DEF IdentityOf
  <2>8. ASSUME catalog' # IdentityOf(Serving), catalog' \notin Key, Serving \notin Key
        PROVE  Stale(catalog, Serving)'
    <3>1. catalog' \in Id /\ IdentityOf(Serving) \in Id
      BY <1>1, <2>5, <2>6, <2>8, Known, IdentityIs DEF Identity
    <3>2. None \notin Id /\ Serving' # None
      BY <2>5, NamesAssumption DEF Identity
    <3>3. QED  BY <2>7, <2>8, <3>1, <3>2 DEF Stale, Claim
  <2>9. QED  BY <2>3, <2>4, <2>5, <2>7, <2>8
<1>2. Inv /\ [Next]_vars => \A o \in Operator : Kept(o)  BY <1>1
<1>3. Inv /\ [Next]_vars => [\A o \in Operator : Kept(o)]_vars  BY <1>2
<1>4. Spec => [][\A o \in Operator : Kept(o)]_vars
  BY <1>3, MovesInvariant, PTL DEF Spec
<1>5. QED  BY <1>4 DEF RefusalChangesNothing
=============================================================================
