--------------------------- MODULE Settings_proofs ---------------------------
(***************************************************************************)
(* What a daemon writes it can start from, and would come up as it is; a   *)
(* refused reload changes nothing, and a login hides no profile: for any   *)
(* number of requests, logins, accounts and settings.                      *)
(***************************************************************************)
EXTENDS Settings, TLAPS

Account == KeyAccount \cup Found \cup Name
Said == Model \cup Pinned \cup Effort \cup {None}

AtTheFile == {"document", "open", "fill", "move"}
InForce == {"profiles", "mapping", "ceiling", "consent"}

\* What a request may be at, by what it asks.
Stages == [op \in {"set", "cross", "remove", "reload", "switch"} |->
  CASE op = "set"    -> AtTheFile \cup {"target", "effective", "apply"}
    [] op = "cross"  -> AtTheFile \cup {"apply"}
    [] op = "remove" -> AtTheFile \cup InForce \cup {"reload"}
    [] op = "reload" -> InForce \cup {"reload"}
    [] OTHER         -> {"mapping", "ceiling"}]

\* A request is at a stage of what it asks: a value that is not refused, a consent.
Asked(r) ==
  /\ DOMAIN r = DOMAIN Idle /\ r.base \in Doc
  /\ r.pc # "idle" =>
       /\ r.op \in DOMAIN Stages /\ r.pc \in Stages[r.op]
       /\ r.op = "set" =>
            /\ r.key \in Key /\ r.account \in Everyone /\ r.value \in Said
            /\ r.key \in Tier => r.value \in Model \cup Pinned
            /\ r.pc = "effective" => r.key = "effort"
            /\ r.now \in BOOLEAN /\ r.held \in Snapshot
            /\ r.persist \in BOOLEAN /\ (r.pc = "apply" \/ r.persist)
       /\ r.op = "cross" => r.value \in BOOLEAN
       /\ r.op = "switch" => r.account \in Account /\ r.key \in Account
       /\ r.pc = "ceiling" => r.value \in Said \cup Bad

\* The file is taken from under a login only as it writes it.
SignIn == {s \in [pc : {"idle", "signing", "read", "truncated"}, name : Name \cup {None},
                  keep : BOOLEAN, base : Doc, content : Doc, unlinked : BOOLEAN] :
             /\ s.pc # "idle" => s.name \in Name
             /\ s.unlinked => s.pc = "truncated"}
History == [asks : Nat, events : Nat, unsaved : BOOLEAN, foreign : BOOLEAN, crossed : BOOLEAN,
            unjudged : SUBSET Everyone]

TypeOK ==
  /\ file \in Doc /\ pending \in Doc \cup {None} /\ memory \in Snapshot \cup {None}
  /\ selection \in Account
  /\ DOMAIN client = Client /\ \A c \in Client : Asked(client[c])
  /\ login \in [Login -> SignIn] /\ past \in History

-----------------------------------------------------------------------------
(* What requests do, one at a time. *)

\* All that is in a document resolves; or all but where two tiers were left to clash.
Whole(doc) == doc.parses /\ AllResolve(doc)
Sound(doc) == doc.parses /\ CeilingsParse(doc) /\ Unresolved(doc) \subseteq past.unjudged
Judged(a) == Mapped(a) \notin past.unjudged

\* It says what the daemon holds, and that has been judged.
Written(doc, a) == memory.set = Resolved(doc, a) /\ Judged(a)
Agrees(doc) == Running => /\ memory.cross = doc.cross
                          /\ past.unsaved \/ Written(doc, Serving)

\* A reload puts in force what it has found whole; what was asked over is there until
\* it is answered; what is moved over the file is what was edited.
OnTheWay(c) ==
  LET r == client[c]
  IN /\ r.pc \in InForce /\ r.op # "switch" => Whole(r.base)
     /\ ~past.crossed =>
          /\ r.pc # "idle" /\ r.op = "switch" =>
               selection = r.account /\ r.account \in KeyAccount \cup memory.profiles
          /\ r.pc # "idle" /\ r.op = "set" =>
               memory = r.held /\ (r.now <=> AppliesNow(r.account))
          /\ r.pc = "ceiling" => /\ \A k \in Tier : memory.set[k] = Value(r.base, Serving, k)
                                 /\ r.value = Value(r.base, Serving, "effort")
                                 /\ Resolves(r.base, Serving, r.base.cross)
          /\ r.pc = "consent" => /\ memory.set = Resolved(r.base, Serving)
                                 /\ ~past.unsaved /\ past.unjudged = {}
          /\ r.pc = "reload" /\ r.op = "reload" => memory = r.held
          /\ r.pc = "move" => pending = None \/ pending = Edited(r, r.base)

AloneInv ==
  /\ ~Running => ~Busy
  /\ \A c, d \in Client :
       client[c].pc # "idle" /\ client[d].pc # "idle" /\ ~past.crossed => c = d
  /\ \A c \in Client : OnTheWay(c)

-----------------------------------------------------------------------------
(* What the file says of what is in force, where nobody else has written it. *)

Ours == ~past.foreign /\ ~past.crossed

\* A setting is in the file and not yet in force: the one a request has written.
Between(r, k) == /\ r.op = "set" /\ r.pc \in {"effective", "apply"} /\ r.persist
                 /\ k = r.key /\ AppliesNow(r.account)

\* Where a value is meant to go, none it clashes with is.
Fits(r) == LET lands == IF AppliesNow(r.account) THEN memory.set ELSE Resolved(file, r.account)
           IN ~Conflict([lands EXCEPT ![r.key] = r.value])

\* In the middle of a request the file says what is in force, but for what the
\* request is about; of a switch, for whoever served.
Holds(r) ==
  CASE r.pc = "ceiling" -> TRUE
    [] r.pc = "mapping" -> r.op = "switch" => Written(file, ServedBy(r.key))
    [] OTHER -> /\ \A k \in Key : memory.set[k] = Value(file, Serving, k) \/ Between(r, k)
                /\ Judged(Serving)
Mid(c) ==
  LET r == client[c]
  IN r.pc # "idle" =>
     /\ r.pc \in {"open", "fill", "move", "profiles", "ceiling", "consent"} => r.base = file
     /\ r.pc = "mapping" /\ r.op # "switch" => r.base = file
     /\ IF r.op = "cross" /\ r.pc = "apply" THEN r.value = file.cross
        ELSE memory.cross = file.cross
     /\ past.unsaved \/ Holds(r)
     /\ r.op = "set" =>
          /\ r.pc = "apply" /\ Between(r, r.key) => r.value = Value(file, Serving, r.key)
          /\ r.pc \in AtTheFile /\ r.account = None =>
               Serving \notin Section \/ file.of[Serving][r.key] = None
          /\ r.pc \in AtTheFile \cup {"target"} /\ r.key \in Tier =>
               Fits(r) /\ (r.value \in Pinned => memory.cross)
     /\ r.op = "cross" /\ r.pc \in AtTheFile /\ ~r.value =>
          \A a \in Everyone \ past.unjudged : \A k \in Tier : Value(file, a, k) \notin Pinned

Writes(l) == login[l].pc \in {"read", "truncated"}
Truncated == \E l \in Login : login[l].pc = "truncated"

FileInv ==
  Ours => /\ Writing => ~Busy
          /\ \A l, m \in Login : Writes(l) /\ Writes(m) => l = m
          /\ ~Truncated => Sound(file) /\ (Busy \/ Agrees(file)) /\ \A c \in Client : Mid(c)
          /\ \A l \in Login : Writes(l) =>
               /\ Sound(login[l].content) /\ Agrees(login[l].content)
               /\ login[l].pc = "truncated" => ~login[l].unlinked
Inv == TypeOK /\ AloneInv /\ FileInv

-----------------------------------------------------------------------------
(* Documents. *)

LEMMA ValueIsSaid ==
  ASSUME NEW doc \in Doc, NEW a, NEW k \in Key
  PROVE  Value(doc, a, k) \in Said \cup Bad
  BY DEF Value, Doc, Values, Said

LEMMA ResolvedIsValues ==
  ASSUME NEW doc \in Doc, NEW a
  PROVE  Resolved(doc, a) \in Values /\ \A k \in Key : Resolved(doc, a)[k] = Value(doc, a, k)
  BY ValueIsSaid DEF Resolved, Values, Said

LEMMA EmptyDoc == Empty \in Doc /\ Away \in SignIn /\ Away.pc = "idle"
<1>1. Unset \in Values  BY DEF Unset, Values
<1>2. Empty \in Doc  BY <1>1 DEF Empty, Doc
<1>3. QED  BY <1>2 DEF Away, SignIn

\* A value set: what it hides, and what it leaves.
LEMMA SetGives ==
  ASSUME NEW doc \in Doc, NEW a \in Everyone, NEW k \in Key, NEW v \in Said \cup Bad
  PROVE  /\ Set(doc, a, k, v) \in Doc
         /\ Set(doc, a, k, v).cross = doc.cross /\ Set(doc, a, k, v).parses = doc.parses
         /\ \A b : \A j \in Key : j # k => Value(Set(doc, a, k, v), b, j) = Value(doc, b, j)
         /\ a \in Section => \A b : Value(Set(doc, a, k, v), b, k) =
              IF b # a THEN Value(doc, b, k) ELSE IF v # None THEN v ELSE doc.top[k]
         /\ a \notin Section => \A b : Value(Set(doc, a, k, v), b, k) =
              IF b \in Section /\ doc.of[b][k] # None THEN doc.of[b][k] ELSE v
<1>0. doc.top \in Values /\ doc.of \in [Section -> Values]  BY DEF Doc
<1>1. CASE a \in Section
  <2> DEFINE of == [doc.of EXCEPT ![a] = [@ EXCEPT ![k] = v]]
             new == [doc EXCEPT !.of = of]
  <2>1. [doc.of[a] EXCEPT ![k] = v] \in Values  BY <1>0, <1>1 DEF Values, Said
  <2>2. /\ of \in [Section -> Values]
        /\ \A b \in Section : \A j \in Key : of[b][j] = IF b = a /\ j = k THEN v ELSE doc.of[b][j]
    BY <1>0, <1>1, <2>1 DEF Values
  <2>3. Set(doc, a, k, v) = new  BY <1>1 DEF Set
  <2> HIDE DEF of
  <2>4. /\ new \in Doc /\ new.of = of /\ new.top = doc.top /\ new.cross = doc.cross
        /\ new.parses = doc.parses
    BY <2>2 DEF Doc
  <2> HIDE DEF new
  <2>5. \A b : \A j \in Key : j # k => Value(new, b, j) = Value(doc, b, j)
    BY <2>2, <2>4 DEF Value
  <2>6. \A b : Value(new, b, k) =
          IF b # a THEN Value(doc, b, k) ELSE IF v # None THEN v ELSE doc.top[k]
    BY <1>1, <2>2, <2>4 DEF Value
  <2>7. QED  BY <1>1, <2>3, <2>4, <2>5, <2>6
<1>2. CASE a \notin Section
  <2> DEFINE top == [doc.top EXCEPT ![k] = v]
             new == [doc EXCEPT !.top = top]
  <2>1. top \in Values /\ \A j \in Key : top[j] = IF j = k THEN v ELSE doc.top[j]
    BY <1>0 DEF Values, Said
  <2>2. Set(doc, a, k, v) = new  BY <1>2 DEF Set
  <2> HIDE DEF top
  <2>3. /\ new \in Doc /\ new.of = doc.of /\ new.top = top /\ new.cross = doc.cross
        /\ new.parses = doc.parses
    BY <2>1 DEF Doc
  <2> HIDE DEF new
  <2>4. \A b : \A j \in Key : j # k => Value(new, b, j) = Value(doc, b, j)
    BY <2>1, <2>3 DEF Value
  <2>5. \A b : Value(new, b, k) =
          IF b \in Section /\ doc.of[b][k] # None THEN doc.of[b][k] ELSE v
    BY <2>1, <2>3 DEF Value
  <2>6. QED  BY <1>2, <2>2, <2>3, <2>4, <2>5
<1>3. QED  BY <1>1, <1>2

\* Only its values and its consent say whether a document is sound.
LEMMA SameValues ==
  ASSUME NEW d, NEW e, e.top = d.top, e.of = d.of
  PROVE  \A a, k : Value(e, a, k) = Value(d, a, k)
  BY DEF Value

LEMMA SameResolves ==
  ASSUME NEW d, NEW e, NEW a, NEW b, NEW x, \A k \in Key : Value(e, a, k) = Value(d, b, k)
  PROVE  Resolved(e, a) = Resolved(d, b) /\ (Resolves(e, a, x) <=> Resolves(d, b, x))
<1>1. Resolved(e, a) = Resolved(d, b)  BY DEF Resolved
<1>2. TiersResolve(e, a, x) <=> TiersResolve(d, b, x)  BY <1>1 DEF TiersResolve, Key
<1>3. QED  BY <1>1, <1>2 DEF Resolves, Key

LEMMA SameSound ==
  ASSUME NEW d, NEW e, e.top = d.top, e.of = d.of, e.cross = d.cross, e.parses = d.parses
  PROVE  /\ Sound(d) => Sound(e)
         /\ \A a : Resolved(e, a) = Resolved(d, a)
         /\ Agrees(d) => Agrees(e)
<1>1. \A a, k : Value(e, a, k) = Value(d, a, k)  BY SameValues
<1>2. \A a : Resolved(e, a) = Resolved(d, a)  BY <1>1 DEF Resolved
<1>3. \A a : Resolves(e, a, e.cross) <=> Resolves(d, a, d.cross)  BY <1>1, SameResolves
<1>4. Unresolved(e) = Unresolved(d)  BY <1>3 DEF Unresolved
<1>5. Sound(d) => Sound(e)  BY <1>1, <1>4 DEF Sound, CeilingsParse
<1>6. Agrees(d) => Agrees(e)  BY <1>2 DEF Agrees, Written
<1>7. QED  BY <1>2, <1>5, <1>6

\* Who has no section has what is shared.
LEMMA MappedValues ==
  ASSUME NEW doc, NEW a
  PROVE  /\ Mapped(a) \in Everyone /\ \A k : Value(doc, Mapped(a), k) = Value(doc, a, k)
         /\ \A x : Resolves(doc, a, x) <=> Resolves(doc, Mapped(a), x)
         /\ Resolved(doc, a) = Resolved(doc, Mapped(a))
<1>1. None \notin Section  BY SettingsAssumption DEF Section
<1>2. Mapped(a) \in Everyone /\ \A k : Value(doc, Mapped(a), k) = Value(doc, a, k)
  BY <1>1 DEF Mapped, Everyone, Value
<1>3. QED  BY <1>2, SameResolves

\* A whole document resolves for whoever serves, with a section or without, and a sound
\* one for whoever has been judged.
LEMMA WholeForAll ==
  ASSUME NEW doc, Whole(doc), NEW a
  PROVE  Resolves(doc, a, doc.cross)
<1>1. Mapped(a) \in Everyone /\ (Resolves(doc, a, doc.cross) <=> Resolves(doc, Mapped(a), doc.cross))
  BY MappedValues
<1>2. QED  BY <1>1 DEF Whole, AllResolve, Unresolved

LEMMA SoundForJudged ==
  ASSUME NEW doc, Sound(doc), NEW a
  PROVE  /\ Judged(a) => Resolves(doc, a, doc.cross)
         /\ Value(doc, a, "effort") \notin Bad
<1>1. /\ Mapped(a) \in Everyone /\ Value(doc, Mapped(a), "effort") = Value(doc, a, "effort")
      /\ Resolves(doc, a, doc.cross) <=> Resolves(doc, Mapped(a), doc.cross)
  BY MappedValues
<1>2. QED  BY <1>1 DEF Sound, CeilingsParse, Unresolved, Judged

LEMMA WholeIsSound == ASSUME NEW doc, Whole(doc) PROVE Sound(doc)
<1>1. \A a \in Everyone : Resolves(doc, a, doc.cross)  BY WholeForAll
<1>2. QED  BY <1>1 DEF Whole, Sound, AllResolve, CeilingsParse, Resolves

\* Only its tiers say whether a mapping clashes.
LEMMA SameConflict ==
  ASSUME NEW v, NEW w, \A j \in Tier : v[j] = w[j]
  PROVE  Conflict(v) <=> Conflict(w)
  BY DEF Conflict

LEMMA SetSound ==
  ASSUME NEW doc \in Doc, Sound(doc), NEW a \in Everyone, NEW k \in Key, NEW v \in Said,
         k \in Tier => v \in Model \cup Pinned /\ (v \in Pinned => doc.cross),
         NEW U, past.unjudged \subseteq U,
         \A b \in Everyone \ U : k \in Tier => ~Conflict(Resolved(Set(doc, a, k, v), b))
  PROVE  LET new == Set(doc, a, k, v)
         IN new.parses /\ CeilingsParse(new) /\ Unresolved(new) \subseteq U
<1> DEFINE new == Set(doc, a, k, v)
<1>1. /\ new.cross = doc.cross /\ new.parses = doc.parses
      /\ \A b : \A j \in Key : j # k => Value(new, b, j) = Value(doc, b, j)
      /\ \A b : Value(new, b, k) \in {Value(doc, b, k), v, doc.top[k]}
      /\ \A b : v # None => Value(new, b, k) \in {Value(doc, b, k), v}
  <2>1. v \in Said \cup Bad  OBVIOUS
  <2>2. \A b : b \in Section /\ doc.of[b][k] # None => Value(doc, b, k) = doc.of[b][k]
    BY DEF Value
  <2>3. QED  BY <2>1, <2>2, SetGives
<1>2. \A b \in Everyone \ U : k \in Tier => ~Conflict(Resolved(new, b))  OBVIOUS
<1> HIDE DEF new
<1>3. doc.top[k] = Value(doc, None, k) /\ None \in Everyone
  BY SettingsAssumption DEF Value, Section, Everyone
<1>4. v \notin Bad /\ (k \in Tier => v # None)  BY SettingsAssumption DEF Said
<1>5. "effort" \in Key /\ "effort" \notin Tier /\ Tier \subseteq Key
  BY SettingsAssumption DEF Key
<1>6. CeilingsParse(new)
  <2>1. ASSUME NEW b \in Everyone PROVE Value(new, b, "effort") \notin Bad
    <3>1. Value(doc, b, "effort") \notin Bad /\ Value(doc, None, "effort") \notin Bad
      BY SoundForJudged
    <3>2. CASE k = "effort"  BY <1>1, <1>3, <1>4, <3>1, <3>2
    <3>3. CASE k # "effort"  BY <1>1, <1>5, <3>1, <3>3
    <3>4. QED  BY <3>2, <3>3
  <2>2. QED  BY <2>1 DEF CeilingsParse
<1>7. ASSUME NEW b \in Everyone \ U PROVE Resolves(new, b, new.cross)
  <2>1. Resolves(doc, b, doc.cross)  BY DEF Sound, Unresolved
  <2>2. \A j \in Tier : Value(doc, b, j) \notin Bad /\ (Value(doc, b, j) \in Pinned => doc.cross)
    BY <2>1 DEF Resolves, TiersResolve
  <2>3. ASSUME NEW j \in Tier
        PROVE  Value(new, b, j) \notin Bad /\ (Value(new, b, j) \in Pinned => new.cross)
    <3>1. CASE j = k  BY <1>1, <1>4, <2>2, <3>1
    <3>2. CASE j # k  BY <1>1, <1>5, <2>2, <3>2
    <3>3. QED  BY <3>1, <3>2
  <2>4. ~Conflict(Resolved(new, b))
    <3>1. CASE k \in Tier  BY <1>2, <3>1
    <3>2. CASE k \notin Tier
      <4>1. \A j \in Tier : Resolved(new, b)[j] = Resolved(doc, b)[j]
        BY <1>1, <1>5, <3>2 DEF Resolved
      <4>2. ~Conflict(Resolved(doc, b))  BY <2>1 DEF Resolves, TiersResolve
      <4>3. QED  BY <4>1, <4>2, SameConflict
    <3>3. QED  BY <3>1, <3>2
  <2>5. Value(new, b, "effort") \notin Bad  BY <1>6 DEF CeilingsParse
  <2>6. QED  BY <2>3, <2>4, <2>5 DEF Resolves, TiersResolve
<1>8. Unresolved(new) \subseteq U  BY <1>7 DEF Unresolved
<1>9. QED  BY <1>1, <1>6, <1>8 DEF new, Sound

\* What a request writes is a document.
LEMMA EditedDoc ==
  ASSUME NEW r, Asked(r), r.pc \in AtTheFile, NEW doc \in Doc
  PROVE  /\ Edited(r, doc) \in Doc /\ Edited(r, doc).parses = doc.parses
         /\ r.op = "cross" =>
              /\ Edited(r, doc).cross = r.value
              /\ Edited(r, doc).top = doc.top /\ Edited(r, doc).of = doc.of
         /\ r.op = "remove" =>
              /\ Edited(r, doc).top = doc.top /\ Edited(r, doc).of = doc.of
              /\ Edited(r, doc).cross = doc.cross
         /\ r.op = "set" => Edited(r, doc) = Set(doc, r.account, r.key, r.value)
         /\ r.op \in {"set", "cross", "remove"}
<1>1. r.op \in {"set", "cross", "remove"}
  BY DEF Asked, Stages, AtTheFile, InForce
<1>2. CASE r.op = "cross"
  <2>1. r.value \in BOOLEAN /\ Edited(r, doc) = [doc EXCEPT !.cross = r.value]
    BY <1>2 DEF Asked, AtTheFile, Edited, SetConsent
  <2>2. QED  BY <1>2, <2>1 DEF Doc
<1>3. CASE r.op = "remove"
  <2>1. Edited(r, doc) = [doc EXCEPT !.profiles = @ \ {r.value}]
    BY <1>3 DEF Edited, RemoveProfile
  <2>2. QED  BY <1>3, <2>1 DEF Doc
<1>4. CASE r.op = "set"
  <2>1. /\ r.key \in Key /\ r.account \in Everyone /\ r.value \in Said
    BY <1>4 DEF Asked, AtTheFile
  <2>2. Edited(r, doc) = Set(doc, r.account, r.key, r.value)
    BY <1>4, <2>1, SettingsAssumption DEF Edited, SetTier, SetEffort, Key
  <2>3. QED  BY <1>4, <2>1, <2>2, SetGives
<1>5. QED  BY <1>1, <1>2, <1>3, <1>4

LEMMA ReadIsAccount ==
  ASSUME NEW doc \in Doc
  PROVE  ReadFrom(doc) \subseteq Found \cup Name /\ Held(doc) \in Snapshot
         /\ Held(doc).set = Resolved(doc, WillServe(doc))
         /\ Held(doc).cross = doc.cross /\ Held(doc).profiles = ReadFrom(doc)
<1>1. ReadFrom(doc) \subseteq Found \cup Name  BY DEF ReadFrom, Doc
<1>2. QED  BY <1>1, ResolvedIsValues DEF Held, Snapshot, Doc

-----------------------------------------------------------------------------
(* A step of a request. *)

LEMMA NotNone == \A s \in Snapshot : s # None
  BY SettingsAssumption

\* What is judged is what it was, where the history of it is.
LEMMA SoundStays ==
  ASSUME past'.unjudged = past.unjudged
  PROVE  /\ \A doc : Sound(doc)' <=> Sound(doc)
         /\ \A a : Judged(a)' <=> Judged(a)
         /\ file' = file => (Sound(file)' <=> Sound(file))
  BY DEF Sound, Judged

\* The step of one request, which may say something else of the file or of what is
\* in force.  The others, if the requests do not overlap, are idle.
LEMMA ClientStep ==
  ASSUME Inv, Running, NEW c \in Client, NEW r, Asked(r), client' = [client EXCEPT ![c] = r],
         file' \in Doc, pending' \in Doc \cup {None}, memory' \in Snapshot,
         selection' \in Account, past' \in History,
         login' \in [Login -> SignIn], \A l \in Login : login'[l].pc = login[l].pc,
         \/ client[c].pc # "idle" /\ past'.crossed = past.crossed
         \/ /\ past'.crossed <=> past.crossed \/ Busy
            /\ past'.foreign <=> past.foreign \/ Writing,
         ~past'.foreign => ~past.foreign \/ ~Writing,
         OnTheWay(c)',
         Ours' /\ ~Writing => Sound(file)' /\ Mid(c)' /\ (r.pc = "idle" => Agrees(file)')
  PROVE  Inv'
<1>0. /\ DOMAIN client = Client /\ Running' /\ past \in History
      /\ client'[c] = r /\ \A d \in Client \ {c} : client'[d] = client[d]
  BY NotNone DEF Inv, TypeOK, Running
<1>1. TypeOK'  BY <1>0 DEF Inv, TypeOK
<1>2. ASSUME ~past'.crossed
      PROVE  ~past.crossed /\ \A d \in Client \ {c} : client'[d].pc = "idle"
  BY <1>0, <1>2 DEF Inv, AloneInv, History, Busy
<1>3. ASSUME NEW d \in Client \ {c} PROVE OnTheWay(d)'
  <2>1. client[d].pc \in InForce /\ client[d].op # "switch" => Whole(client[d].base)
    BY DEF Inv, AloneInv, OnTheWay
  <2>2. CASE past'.crossed  BY <1>0, <2>1, <2>2 DEF OnTheWay, Whole, AllResolve
  <2>3. CASE ~past'.crossed
    BY <1>2, <2>3 DEF OnTheWay, InForce
  <2>4. QED  BY <2>2, <2>3
<1>4. AloneInv'
  <2>1. \A d, e \in Client :
          client'[d].pc # "idle" /\ client'[e].pc # "idle" /\ ~past'.crossed => d = e
    BY <1>2
  <2>2. QED  BY <1>0, <1>3, <2>1 DEF AloneInv
<1>5. ASSUME Ours' PROVE ~Writing /\ ~Writing'
  <2>1. ~past.crossed /\ ~past'.foreign  BY <1>2, <1>5 DEF Ours
  <2>2. ASSUME past'.foreign <=> past.foreign \/ Writing PROVE ~Writing
    BY <2>1, <2>2
  <2>3. ASSUME client[c].pc # "idle", ~past.foreign \/ ~Writing PROVE ~Writing
    <3>1. Busy  BY <2>3 DEF Busy
    <3>2. ~past.foreign => ~Writing  BY <2>1, <3>1 DEF Inv, FileInv, Ours
    <3>3. QED  BY <2>3, <3>2
  <2>4. ~Writing  BY <2>1, <2>2, <2>3
  <2>5. QED  BY <2>4 DEF Writing
<1>6. FileInv'
  <2> SUFFICES ASSUME Ours' PROVE FileInv'
    BY DEF FileInv
  <2>1. /\ ~Writing' /\ \A l \in Login : ~Writes(l)'
        /\ Sound(file)' /\ Mid(c)' /\ (r.pc = "idle" => Agrees(file)')
    BY <1>5 DEF Writing, Writes
  <2>2. \A d \in Client \ {c} : client'[d].pc = "idle"  BY <1>2 DEF Ours
  <2>3. \A d \in Client : Mid(d)'  BY <2>1, <2>2 DEF Mid
  <2>4. Busy' \/ Agrees(file)'  BY <1>0, <2>1 DEF Busy
  <2>5. QED  BY <2>1, <2>3, <2>4 DEF FileInv
<1>7. QED  BY <1>1, <1>4, <1>6 DEF Inv

\* What there is at a request that began alone.
LEMMA InTheMiddle ==
  ASSUME Inv, Ours, ~Writing, NEW c \in Client, client[c].pc # "idle"
  PROVE  Sound(file) /\ Mid(c)
  BY DEF Inv, FileInv, Writing, Truncated

LEMMA BetweenRequests ==
  ASSUME Inv, Running, Ours, ~Writing, ~Busy
  PROVE  /\ Sound(file) /\ memory.cross = file.cross
         /\ past.unsaved \/ Written(file, Serving)
  BY DEF Inv, FileInv, Writing, Truncated, Agrees

\* A request that begins.
LEMMA AskStep ==
  ASSUME Inv, NEW c \in Client, At(c, "idle"), NEW q, Asks(c, q),
         Asked([q EXCEPT !.held = memory]), UNCHANGED <<document, memory, login>>,
         selection' \in Account,
         OnTheWay(c)', Ours' /\ Ours /\ ~Writing /\ ~Busy => Mid(c)',
         [q EXCEPT !.held = memory].pc # "idle"
  PROVE  Inv'
<1> DEFINE r == [q EXCEPT !.held = memory]
<1>0. /\ Running /\ memory \in Snapshot /\ file \in Doc /\ pending \in Doc \cup {None}
      /\ login \in [Login -> SignIn] /\ past \in History
  BY DEF At, Running, Inv, TypeOK
<1>1. /\ client' = [client EXCEPT ![c] = r]
      /\ past' = [past EXCEPT !.asks = @ + 1, !.foreign = @ \/ Writing, !.crossed = @ \/ Busy]
  BY DEF Asks
<1> HIDE DEF r
<1>2. /\ past' \in History
      /\ past'.crossed <=> past.crossed \/ Busy
      /\ past'.foreign <=> past.foreign \/ Writing
      /\ past'.unjudged = past.unjudged
  <2> DEFINE foreign == past.foreign \/ Writing
             crossed == past.crossed \/ Busy
  <2>1. foreign \in BOOLEAN /\ crossed \in BOOLEAN  OBVIOUS
  <2>2. past' = [past EXCEPT !.asks = @ + 1, !.foreign = foreign, !.crossed = crossed]
    BY <1>1
  <2> HIDE DEF foreign, crossed
  <2>3. past.asks + 1 \in Nat  BY <1>0 DEF History
  <2>4. past' \in History /\ past'.crossed = crossed /\ past'.foreign = foreign
        /\ past'.unjudged = past.unjudged
    BY <1>0, <2>1, <2>2, <2>3 DEF History
  <2>5. QED  BY <2>4 DEF foreign, crossed
<1>3. /\ UNCHANGED <<file, pending, login, memory>>  BY DEF document
<1>4. ASSUME Ours' PROVE Ours /\ ~Writing /\ ~Busy
  BY <1>0, <1>2, <1>4 DEF Ours, History
<1>5. Ours' => Sound(file)' /\ Mid(c)'
  BY <1>0, <1>2, <1>3, <1>4, BetweenRequests, SoundStays
<1>6. QED  BY <1>0, <1>1, <1>2, <1>3, <1>5, ClientStep DEF r

\* The fields of a request as it begins.
LEMMA RequestHeld ==
  ASSUME NEW q, DOMAIN q = DOMAIN Idle, q = [f \in DOMAIN q |-> q[f]], NEW m
  PROVE  LET r == [q EXCEPT !.held = m]
         IN /\ DOMAIN r = DOMAIN Idle /\ r.held = m /\ r.pc = q.pc /\ r.op = q.op
            /\ r.key = q.key /\ r.value = q.value /\ r.account = q.account
            /\ r.now = q.now /\ r.persist = q.persist /\ r.base = q.base
  BY DEF Idle

LEMMA IdleAsked == Asked(Idle) /\ Idle.pc = "idle" /\ Idle.base = Empty
  BY EmptyDoc DEF Asked, Idle

LEMMA Begins ==
  ASSUME Inv, NEW c \in Client, At(c, "idle"), NEW q, Asks(c, q),
         DOMAIN q = DOMAIN Idle, q = [f \in DOMAIN q |-> q[f]]
  PROVE  LET r == client'[c]
         IN /\ r = [q EXCEPT !.held = memory]
            /\ DOMAIN r = DOMAIN Idle /\ r.held = memory /\ r.pc = q.pc /\ r.op = q.op
            /\ r.key = q.key /\ r.value = q.value /\ r.account = q.account
            /\ r.now = q.now /\ r.persist = q.persist /\ r.base = q.base
<1>1. client'[c] = [q EXCEPT !.held = memory]  BY DEF Asks, Inv, TypeOK
<1>2. QED  BY <1>1, RequestHeld

\* As a request begins, the file says what is in force, and as it goes on to write.
Alike == Judged(Serving) /\ \A k \in Key : memory.set[k] = Value(file, Serving, k)

LEMMA WrittenAlike ==
  ASSUME Running, memory \in Snapshot
  PROVE  Written(file, Serving) <=> Alike
  BY DEF Written, Alike, Resolved, Snapshot, Values

LEMMA HoldsAtFirst ==
  ASSUME NEW c \in Client, Alike, UNCHANGED <<file, memory, selection>>,
         past'.unjudged = past.unjudged, client'[c].pc \notin {"ceiling", "mapping"}
  PROVE  Holds(client[c])'
<1>1. Serving' = Serving  BY DEF Serving, ServedBy, Running
<1>2. Judged(Serving)'  BY <1>1 DEF Alike, Judged
<1>3. QED  BY <1>1, <1>2 DEF Holds, Alike

\* Where a request has put nothing of its own between, the file says what is in
\* force.
LEMMA MidAlike ==
  ASSUME NEW c \in Client, Mid(c), client[c].pc \in AtTheFile \cup {"target", "reload", "profiles"}
  PROVE  memory.cross = file.cross /\ (past.unsaved \/ Alike)
  BY DEF Mid, Holds, Between, Alike, AtTheFile

LEMMA AskSetStep == ASSUME Inv, NEW c \in Client, AskSet(c) PROVE Inv'
<1>1. At(c, "idle") /\ Running /\ memory \in Snapshot  BY DEF AskSet, At, Inv, TypeOK, Running
<1>2. PICK k \in Key, a \in Everyone, persist \in BOOLEAN :
        \E v \in IF k = "effort" THEN Effort \cup {None} ELSE Model \cup Pinned :
          /\ Known(a) /\ (AppliesNow(a) \/ persist)
          /\ k \in Tier => /\ v \in Pinned => memory.cross
                           /\ AppliesNow(a) \/ TiersResolve(OnDisk, a, memory.cross)
                           /\ ~Conflict([Lands(a) EXCEPT ![k] = v])
          /\ Asks(c, [Idle EXCEPT !.op = "set", !.key = k, !.value = v, !.account = a,
                  !.now = AppliesNow(a), !.persist = persist,
                  !.pc = IF ~persist THEN "apply" ELSE "target"])
          /\ UNCHANGED <<document, inForce, login>>
  BY DEF AskSet
<1>3. PICK v \in IF k = "effort" THEN Effort \cup {None} ELSE Model \cup Pinned :
          /\ Known(a) /\ (AppliesNow(a) \/ persist)
          /\ k \in Tier => /\ v \in Pinned => memory.cross
                           /\ AppliesNow(a) \/ TiersResolve(OnDisk, a, memory.cross)
                           /\ ~Conflict([Lands(a) EXCEPT ![k] = v])
          /\ Asks(c, [Idle EXCEPT !.op = "set", !.key = k, !.value = v, !.account = a,
                  !.now = AppliesNow(a), !.persist = persist,
                  !.pc = IF ~persist THEN "apply" ELSE "target"])
          /\ UNCHANGED <<document, inForce, login>>
  BY <1>2
<1> DEFINE now == AppliesNow(a)
           q == [Idle EXCEPT !.op = "set", !.key = k, !.value = v, !.account = a,
                             !.now = now, !.persist = persist,
                             !.pc = IF ~persist THEN "apply" ELSE "target"]
<1>4. Asks(c, q) /\ now \in BOOLEAN  BY <1>3 DEF AppliesNow
<1> HIDE DEF now
<1>5. /\ DOMAIN q = DOMAIN Idle /\ q = [f \in DOMAIN q |-> q[f]]
      /\ q.op = "set" /\ q.key = k /\ q.value = v /\ q.account = a /\ q.now = now
      /\ q.persist = persist /\ q.pc = (IF ~persist THEN "apply" ELSE "target") /\ q.base = Empty
  BY DEF Idle
<1> HIDE DEF q
<1> DEFINE r == client'[c]
<1>6. /\ r = [q EXCEPT !.held = memory] /\ DOMAIN r = DOMAIN Idle
      /\ r.op = "set" /\ r.key = k /\ r.value = v /\ r.account = a /\ r.persist = persist
      /\ r.now = now /\ r.held = memory
      /\ r.pc = (IF ~persist THEN "apply" ELSE "target") /\ r.base = Empty
  BY <1>1, <1>4, <1>5, Begins
<1> HIDE DEF r
<1>7. v \in Said /\ (k \in Tier => v \in Model \cup Pinned)
  BY <1>3, SettingsAssumption DEF Said
<1>8. Asked(r)  BY <1>1, <1>2, <1>4, <1>6, <1>7, EmptyDoc DEF Asked, Stages
<1>9. UNCHANGED <<file, pending, memory, selection, login, document>>
  BY <1>3 DEF document, inForce
<1>10. Serving' = Serving /\ (now <=> AppliesNow(a)') /\ (AppliesNow(a)' <=> AppliesNow(a))
  BY <1>9 DEF Serving, ServedBy, Running, AppliesNow, now
<1>11. OnTheWay(c)'
  <2>1. client'[c].now <=> AppliesNow(client[c].account)'  BY <1>6, <1>10 DEF AppliesNow, r
  <2>2. QED  BY <1>6, <1>9, <2>1 DEF OnTheWay, r, InForce
<1>12. Ours' /\ Ours /\ ~Writing /\ ~Busy => Mid(c)'
  <2> SUFFICES ASSUME Ours', Ours, ~Writing, ~Busy PROVE Mid(c)'
    OBVIOUS
  <2>1. Sound(file) /\ memory.cross = file.cross /\ (past.unsaved \/ Alike)
    BY <1>1, BetweenRequests, WrittenAlike
  <2>2. past'.unsaved = past.unsaved /\ past'.unjudged = past.unjudged
    BY <1>4 DEF Asks, Inv, TypeOK, History
  <2>3. past'.unsaved \/ Holds(client[c])'
    BY <1>6, <1>9, <2>1, <2>2, HoldsAtFirst DEF r
  <2>4. k \in Tier => Fits(client[c])'
    <3>1. OnDisk = file  BY <2>1 DEF OnDisk, Sound
    <3>2. AppliesNow(client[c].account)' <=> AppliesNow(a)  BY <1>6, <1>10 DEF r, AppliesNow
    <3>3. (IF AppliesNow(client[c].account) THEN memory.set
           ELSE Resolved(file, client[c].account))' = Lands(a)
      BY <1>6, <1>9, <3>1, <3>2 DEF Lands, r
    <3>4. QED  BY <1>3, <1>6, <3>3 DEF Fits, r
  <2>5. k \in Tier /\ v \in Pinned => memory.cross  BY <1>3
  <2>6. r.pc = "apply" => ~r.persist  BY <1>2, <1>6
  <2>7. QED
    BY <1>6, <1>9, <2>1, <2>3, <2>4, <2>5, <2>6 DEF Mid, Between, r, AtTheFile
<1>13. selection' \in Account  BY <1>9 DEF Inv, TypeOK
<1>14. r.pc # "idle"  BY <1>6
<1>15. QED
  BY <1>1, <1>4, <1>6, <1>8, <1>9, <1>11, <1>12, <1>13, <1>14, AskStep DEF r

\* A request that begins by saying what it asks, and does nothing yet.
LEMMA BeginsQuietly ==
  ASSUME Inv, NEW c \in Client, At(c, "idle"), NEW q, Asks(c, q),
         DOMAIN q = DOMAIN Idle, q = [f \in DOMAIN q |-> q[f]],
         UNCHANGED <<document, inForce, login>>,
         Asked(client'[c]), q.op \in {"cross", "remove", "reload"}, q.pc \in {"document", "reload"},
         Ours /\ ~Writing /\ ~Busy /\ q.op = "cross" /\ ~q.value =>
           \A a \in Everyone \ past.unjudged : \A k \in Tier : Value(file, a, k) \notin Pinned
  PROVE  Inv'
<1> DEFINE r == client'[c]
<1>1. /\ r = [q EXCEPT !.held = memory] /\ r.pc = q.pc /\ r.op = q.op /\ r.value = q.value
      /\ r.held = memory
  BY Begins
<1>2. UNCHANGED <<file, pending, memory, selection, login, document>> /\ Running
  BY DEF document, inForce, At
<1>3. OnTheWay(c)'  BY <1>1, <1>2 DEF OnTheWay, InForce
<1>4. Ours' /\ Ours /\ ~Writing /\ ~Busy => Mid(c)'
  <2> SUFFICES ASSUME Ours', Ours, ~Writing, ~Busy PROVE Mid(c)'
    OBVIOUS
  <2>1. memory.cross = file.cross /\ (past.unsaved \/ Alike)
    BY <1>2, BetweenRequests, WrittenAlike DEF Inv, TypeOK, Running
  <2>2. past'.unsaved = past.unsaved /\ past'.unjudged = past.unjudged
    BY DEF Asks, Inv, TypeOK, History
  <2>3. past'.unsaved \/ Holds(client[c])'
    BY <1>1, <1>2, <2>1, <2>2, HoldsAtFirst
  <2>4. QED  BY <1>1, <1>2, <2>1, <2>2, <2>3 DEF Mid, AtTheFile
<1>5. selection' \in Account  BY <1>2 DEF Inv, TypeOK
<1>6. QED  BY <1>1, <1>2, <1>3, <1>4, <1>5, AskStep

\* Consent is not revoked under a pin of any mapping that resolves.
LEMMA AskConsentStep == ASSUME Inv, NEW c \in Client, AskConsent(c) PROVE Inv'
<1>1. At(c, "idle") /\ Running  BY DEF AskConsent, At
<1>2. PICK b \in BOOLEAN :
        /\ ~b => \A a \in Everyone : TiersResolve(OnDisk, a, TRUE) =>
                   \A k \in Tier : Value(OnDisk, a, k) \notin Pinned
        /\ Asks(c, [Idle EXCEPT !.op = "cross", !.value = b, !.pc = "document"])
        /\ UNCHANGED <<document, inForce, login>>
  BY DEF AskConsent
<1> DEFINE q == [Idle EXCEPT !.op = "cross", !.value = b, !.pc = "document"]
<1>3. /\ DOMAIN q = DOMAIN Idle /\ q = [f \in DOMAIN q |-> q[f]]
      /\ q.op = "cross" /\ q.value = b /\ q.pc = "document" /\ q.base = Empty
  BY DEF Idle
<1>4. Asks(c, q) /\ UNCHANGED <<document, inForce, login>>  BY <1>2
<1> HIDE DEF q
<1>5. Asked(client'[c])
  BY <1>1, <1>3, <1>4, Begins, EmptyDoc DEF Asked, Stages, AtTheFile, InForce
<1>6. ASSUME Ours, ~Writing, ~Busy, ~b
      PROVE  \A a \in Everyone \ past.unjudged : \A k \in Tier : Value(file, a, k) \notin Pinned
  <2>1. Sound(file)  BY <1>1, <1>6, BetweenRequests
  <2>2. OnDisk = file  BY <2>1 DEF OnDisk, Sound
  <2>3. \A a \in Everyone \ past.unjudged : TiersResolve(file, a, TRUE)
    BY <2>1 DEF Sound, Unresolved, Resolves, TiersResolve
  <2>4. QED  BY <1>2, <1>6, <2>2, <2>3
<1>7. QED  BY <1>1, <1>3, <1>4, <1>5, <1>6, BeginsQuietly

LEMMA AskRemoveStep == ASSUME Inv, NEW c \in Client, AskRemove(c) PROVE Inv'
<1>1. At(c, "idle")  BY DEF AskRemove, At
<1>2. PICK name \in memory.profiles :
        /\ Asks(c, [Idle EXCEPT !.op = "remove", !.value = name, !.pc = "document"])
        /\ UNCHANGED <<document, inForce, login>>
  BY DEF AskRemove
<1> DEFINE q == [Idle EXCEPT !.op = "remove", !.value = name, !.pc = "document"]
<1>3. /\ DOMAIN q = DOMAIN Idle /\ q = [f \in DOMAIN q |-> q[f]]
      /\ q.op = "remove" /\ q.pc = "document" /\ q.base = Empty
  BY DEF Idle
<1>4. Asks(c, q) /\ UNCHANGED <<document, inForce, login>>  BY <1>2
<1> HIDE DEF q
<1>5. Asked(client'[c])
  BY <1>1, <1>3, <1>4, Begins, EmptyDoc DEF Asked, Stages, AtTheFile, InForce
<1>6. QED  BY <1>1, <1>3, <1>4, <1>5, BeginsQuietly

LEMMA AskReloadStep == ASSUME Inv, NEW c \in Client, AskReload(c) PROVE Inv'
<1>1. At(c, "idle")  BY DEF AskReload, At
<1> DEFINE q == [Idle EXCEPT !.op = "reload", !.pc = "reload"]
<1>3. /\ DOMAIN q = DOMAIN Idle /\ q = [f \in DOMAIN q |-> q[f]]
      /\ q.op = "reload" /\ q.pc = "reload" /\ q.base = Empty
  BY DEF Idle
<1>4. Asks(c, q) /\ UNCHANGED <<document, inForce, login>>  BY DEF AskReload
<1> HIDE DEF q
<1>5. Asked(client'[c])
  BY <1>1, <1>3, <1>4, Begins, EmptyDoc DEF Asked, Stages, AtTheFile, InForce
<1>6. QED  BY <1>1, <1>3, <1>4, <1>5, BeginsQuietly

\* The selection moves first; the mapping is still the account's that was.
LEMMA AskSwitchStep == ASSUME Inv, NEW c \in Client, AskSwitch(c) PROVE Inv'
<1>1. At(c, "idle") /\ Running /\ memory \in Snapshot
  BY DEF AskSwitch, At, Inv, TypeOK, Running
<1>2. PICK a \in KeyAccount \cup memory.profiles :
        /\ Asks(c, [Idle EXCEPT !.op = "switch", !.account = a, !.key = selection, !.pc = "mapping"])
        /\ selection' = a
        /\ UNCHANGED <<document, memory, login>>
  BY DEF AskSwitch
<1> DEFINE q == [Idle EXCEPT !.op = "switch", !.account = a, !.key = selection, !.pc = "mapping"]
<1>3. /\ DOMAIN q = DOMAIN Idle /\ q = [f \in DOMAIN q |-> q[f]]
      /\ q.op = "switch" /\ q.account = a /\ q.key = selection /\ q.pc = "mapping"
      /\ q.base = Empty
  BY DEF Idle
<1>4. Asks(c, q)  BY <1>2
<1> HIDE DEF q
<1> DEFINE r == client'[c]
<1>5. /\ r = [q EXCEPT !.held = memory] /\ DOMAIN r = DOMAIN Idle
      /\ r.op = "switch" /\ r.account = a /\ r.key = selection /\ r.pc = "mapping"
      /\ r.base = Empty
  BY <1>1, <1>3, <1>4, Begins
<1> HIDE DEF r
<1>6. a \in Account /\ selection \in Account  BY <1>1, <1>2 DEF Inv, TypeOK, Account, Snapshot
<1>7. Asked(r)  BY <1>5, <1>6, EmptyDoc DEF Asked, Stages
<1>8. OnTheWay(c)'  BY <1>2, <1>5 DEF OnTheWay, r
<1>9. UNCHANGED <<file, pending, login>>  BY <1>2 DEF document
<1>10. Ours' /\ Ours /\ ~Writing /\ ~Busy => Mid(c)'
  <2> SUFFICES ASSUME Ours', Ours, ~Writing, ~Busy PROVE Mid(c)'
    OBVIOUS
  <2>1. memory.cross = file.cross  BY <1>1, BetweenRequests
  <2>2. past.unsaved \/ Written(file, Serving)  BY <1>1, BetweenRequests
  <2>3. past'.unsaved = past.unsaved /\ past'.unjudged = past.unjudged
    BY <1>4 DEF Asks, Inv, TypeOK, History
  <2>4. ServedBy(client[c].key)' = Serving
    BY <1>2, <1>5 DEF r, Serving, ServedBy, Running
  <2>5. past'.unsaved \/ Holds(client[c])'
    BY <1>2, <1>5, <1>9, <2>2, <2>3, <2>4 DEF Holds, Written, Judged, r
  <2>6. QED  BY <1>2, <1>5, <1>9, <2>1, <2>5 DEF Mid, r
<1>11. QED
  BY <1>1, <1>2, <1>4, <1>5, <1>6, <1>7, <1>8, <1>10, AskStep DEF r

\* A request that goes on, or is answered.
LEMMA GoesOn ==
  ASSUME Inv, NEW c \in Client, client[c].pc # "idle", Running,
         NEW r, Asked(r), client' = [client EXCEPT ![c] = r],
         file' \in Doc, pending' \in Doc \cup {None}, memory' \in Snapshot,
         selection' \in Account, past' \in History,
         login' \in [Login -> SignIn], \A l \in Login : login'[l].pc = login[l].pc,
         past'.crossed = past.crossed, past'.foreign = past.foreign,
         OnTheWay(c)',
         Ours /\ ~Writing /\ Sound(file) /\ Mid(c) =>
           Sound(file)' /\ Mid(c)' /\ (r.pc = "idle" => Agrees(file)')
  PROVE  Inv'
<1>1. Ours' /\ ~Writing => Ours /\ Sound(file) /\ Mid(c)
  BY InTheMiddle DEF Ours
<1>2. Ours' /\ ~Writing => Sound(file)' /\ Mid(c)' /\ (r.pc = "idle" => Agrees(file)')
  BY <1>1
<1>3. ~past'.foreign => ~past.foreign \/ ~Writing  OBVIOUS
<1>4. QED  BY <1>2, <1>3, ClientStep

LEMMA AtIs ==
  ASSUME Inv, NEW c \in Client, NEW pc, At(c, pc), pc # "idle"
  PROVE  /\ Running /\ client[c].pc = pc /\ memory \in Snapshot /\ file \in Doc
         /\ pending \in Doc \cup {None} /\ selection \in Account /\ past \in History
         /\ login \in [Login -> SignIn] /\ DOMAIN client = Client
         /\ Asked(client[c]) /\ OnTheWay(c) /\ DOMAIN client[c] = DOMAIN Idle
  BY DEF At, Running, Inv, TypeOK, AloneInv, Asked

\* What a request is about stays as it goes to another stage.
LEMMA StageGoes ==
  ASSUME NEW q, Asked(q), q.pc # "idle", q.pc # "apply", NEW r, DOMAIN r = DOMAIN Idle,
         r.base \in Doc, r.op = q.op, r.key = q.key, r.value = q.value, r.persist = q.persist,
         r.now = q.now, r.held = q.held,
         r.op # "set" => r.account = q.account, r.account \in {q.account, Serving},
         Serving \in Section \/ r.account = q.account,
         r.pc \in Stages[q.op], r.pc \notin {"idle", "ceiling"},
         r.pc = "effective" => q.key = "effort"
  PROVE  Asked(r)
  BY DEF Asked, Everyone

LEMMA TargetStep == ASSUME Inv, NEW c \in Client, Target(c) PROVE Inv'
<1> DEFINE q == client[c]
           hides == Serving \in Section /\ OnDisk.of[Serving][q.key] # None
           r == [q EXCEPT !.pc = "document", !.account = IF @ = None /\ hides THEN Serving ELSE @]
<1>0. /\ Running /\ q.pc = "target" /\ Asked(q) /\ DOMAIN q = DOMAIN Idle /\ OnTheWay(c)
      /\ DOMAIN client = Client
  BY AtIs DEF Target
<1>1. client' = [client EXCEPT ![c] = r] /\ UNCHANGED <<document, inForce, login, past>>
  BY DEF Target
<1>2. UNCHANGED <<file, pending, memory, selection, login, past>>
  BY <1>1 DEF document, inForce
<1>3. q.op = "set" /\ q.base \in Doc
  BY <1>0 DEF Asked, Stages, AtTheFile, InForce
<1>4. /\ DOMAIN r = DOMAIN Idle /\ r.pc = "document" /\ r.op = q.op /\ r.key = q.key
      /\ r.value = q.value /\ r.persist = q.persist /\ r.base = q.base /\ r.now = q.now
      /\ r.held = q.held
      /\ r.account = IF q.account = None /\ hides THEN Serving ELSE q.account
  BY <1>0 DEF Idle
<1> HIDE DEF r, hides
<1>5. Asked(r)
  BY <1>0, <1>3, <1>4, StageGoes DEF Stages, AtTheFile, hides
<1>6. client'[c] = r  BY <1>0, <1>1
<1>7. /\ Serving' = Serving /\ (AppliesNow(r.account) <=> AppliesNow(q.account))
      /\ AppliesNow(client[c].account)' <=> AppliesNow(r.account)
      /\ ~AppliesNow(q.account) => r.account = q.account
  BY <1>2, <1>4, <1>6 DEF Serving, ServedBy, Running, AppliesNow
<1>8. OnTheWay(c)'  BY <1>0, <1>2, <1>3, <1>4, <1>6, <1>7 DEF OnTheWay, InForce
<1>9. ASSUME Sound(file), Mid(c) PROVE Mid(c)'
  <2>1. OnDisk = file  BY <1>9 DEF OnDisk, Sound
  <2>2. r.account = None => Serving \notin Section \/ file.of[Serving][r.key] = None
    BY <1>4, <2>1, SettingsAssumption DEF hides, Section
  <2>3. memory.cross = file.cross /\ (past.unsaved \/ Alike)
    BY <1>0, <1>9, MidAlike
  <2>4. past.unsaved' \/ Holds(client[c])'
    BY <1>2, <1>4, <1>6, <2>3, HoldsAtFirst
  <2>5. q.key \in Tier => Fits(q) /\ (q.value \in Pinned => memory.cross)
    BY <1>0, <1>3, <1>9 DEF Mid
  <2>6. Fits(q) => Fits(client[c])'  BY <1>2, <1>4, <1>6, <1>7 DEF Fits
  <2>7. QED
    BY <1>2, <1>3, <1>4, <1>6, <1>7, <2>2, <2>3, <2>4, <2>5, <2>6 DEF Mid, AtTheFile
<1>10. /\ file \in Doc /\ pending \in Doc \cup {None} /\ memory \in Snapshot
       /\ selection \in Account /\ past \in History /\ login \in [Login -> SignIn]
  BY AtIs DEF Target
<1>11. r.pc # "idle" /\ (Sound(file) => Sound(file)')  BY <1>2, <1>4, SoundStays
<1>12. QED
  BY <1>0, <1>1, <1>2, <1>5, <1>8, <1>9, <1>10, <1>11, GoesOn

\* A step on the way to the file, which leaves it as it is.
LEMMA ToTheFile ==
  ASSUME Inv, NEW c \in Client, client[c].pc \in {"document", "open", "fill"}, Running,
         NEW r, DOMAIN r = DOMAIN Idle, client' = [client EXCEPT ![c] = r],
         r.pc \in {"open", "fill", "move"}, r.op = client[c].op, r.key = client[c].key,
         r.value = client[c].value, r.persist = client[c].persist, r.now = client[c].now,
         r.held = client[c].held, r.account = client[c].account, r.base \in Doc,
         r.base = IF client[c].pc = "document" THEN file ELSE client[c].base,
         pending' \in Doc \cup {None}, UNCHANGED <<file, memory, selection, login, past>>,
         r.pc = "move" => pending' = Edited(r, r.base)
  PROVE  Inv'
<1> DEFINE q == client[c]
<1>0. Asked(q) /\ DOMAIN client = Client /\ q.pc # "idle" /\ OnTheWay(c)
  BY DEF Inv, TypeOK, AloneInv
<1>1. q.op \in {"set", "cross", "remove"}  BY <1>0 DEF Asked, Stages, AtTheFile, InForce
<1>2. Asked(r)
  BY <1>0, <1>1, StageGoes DEF Stages, AtTheFile
<1>3. client'[c] = r  BY <1>0
<1>4. Serving' = Serving /\ (AppliesNow(client[c].account)' <=> AppliesNow(q.account))
  BY <1>3 DEF Serving, ServedBy, Running, AppliesNow
<1>5. OnTheWay(c)'  BY <1>0, <1>1, <1>3, <1>4 DEF OnTheWay, InForce
<1>6. ASSUME Mid(c) PROVE Mid(c)'
  <2>1. r.base = file
    BY <1>6 DEF Mid
  <2>2. memory.cross = file.cross /\ (past.unsaved \/ Alike)
    BY <1>6, MidAlike DEF AtTheFile
  <2>3. past.unsaved' \/ Holds(client[c])'  BY <1>3, <2>2, HoldsAtFirst
  <2>4. q.op = "set" => /\ q.account = None =>
                             Serving \notin Section \/ file.of[Serving][q.key] = None
                        /\ q.key \in Tier => Fits(q) /\ (q.value \in Pinned => memory.cross)
    BY <1>6 DEF Mid, AtTheFile
  <2>5. Fits(q) => Fits(client[c])'  BY <1>3, <1>4 DEF Fits
  <2>6. q.op = "cross" /\ ~q.value =>
          \A a \in Everyone \ past.unjudged : \A k \in Tier : Value(file, a, k) \notin Pinned
    BY <1>6 DEF Mid, AtTheFile
  <2>7. QED
    BY <1>1, <1>3, <1>4, <2>1, <2>2, <2>3, <2>4, <2>5, <2>6 DEF Mid, AtTheFile
<1>7. Sound(file) => Sound(file)'  BY SoundStays
<1>8. QED
  BY <1>0, <1>2, <1>5, <1>6, <1>7, NotNone, GoesOn DEF Inv, TypeOK, Running

LEMMA DocumentStep == ASSUME Inv, NEW c \in Client, Document(c) PROVE Inv'
<1> DEFINE r == [client[c] EXCEPT !.pc = "open", !.base = file]
<1>0. /\ Running /\ client[c].pc = "document" /\ DOMAIN client[c] = DOMAIN Idle /\ file \in Doc
      /\ pending \in Doc \cup {None}
  BY AtIs DEF Document
<1>1. /\ DOMAIN r = DOMAIN Idle /\ r.pc = "open" /\ r.op = client[c].op /\ r.key = client[c].key
      /\ r.value = client[c].value /\ r.persist = client[c].persist
      /\ r.now = client[c].now /\ r.held = client[c].held
      /\ r.account = client[c].account /\ r.base = file
  BY <1>0 DEF Idle
<1>2. client' = [client EXCEPT ![c] = r] /\ UNCHANGED <<file, pending, memory, selection, login, past>>
  BY DEF Document, document, inForce
<1> HIDE DEF r
<1>3. QED  BY <1>0, <1>1, <1>2, ToTheFile

LEMMA OpenStep == ASSUME Inv, NEW c \in Client, Open(c) PROVE Inv'
<1> DEFINE r == [client[c] EXCEPT !.pc = "fill"]
<1>0. /\ Running /\ client[c].pc = "open" /\ DOMAIN client[c] = DOMAIN Idle
      /\ client[c].base \in Doc
  BY AtIs DEF Open, Asked
<1>1. /\ DOMAIN r = DOMAIN Idle /\ r.pc = "fill" /\ r.op = client[c].op /\ r.key = client[c].key
      /\ r.value = client[c].value /\ r.persist = client[c].persist
      /\ r.now = client[c].now /\ r.held = client[c].held
      /\ r.account = client[c].account /\ r.base = client[c].base
  BY <1>0 DEF Idle
<1>2. /\ client' = [client EXCEPT ![c] = r] /\ UNCHANGED <<file, memory, selection, login, past>>
      /\ pending' = Empty
  BY DEF Open, Goto, document, inForce
<1> HIDE DEF r
<1>3. QED  BY <1>0, <1>1, <1>2, EmptyDoc, ToTheFile

LEMMA FillStep == ASSUME Inv, NEW c \in Client, Fill(c) PROVE Inv'
<1> DEFINE r == [client[c] EXCEPT !.pc = "move"]
<1>0. /\ Running /\ client[c].pc = "fill" /\ DOMAIN client[c] = DOMAIN Idle
      /\ client[c].base \in Doc /\ Asked(client[c])
  BY AtIs DEF Fill, Asked
<1>1. /\ DOMAIN r = DOMAIN Idle /\ r.pc = "move" /\ r.op = client[c].op /\ r.key = client[c].key
      /\ r.value = client[c].value /\ r.persist = client[c].persist
      /\ r.now = client[c].now /\ r.held = client[c].held
      /\ r.account = client[c].account /\ r.base = client[c].base
  BY <1>0 DEF Idle
<1>2. /\ client' = [client EXCEPT ![c] = r] /\ UNCHANGED <<file, memory, selection, login, past>>
      /\ pending' = Edited(client[c], client[c].base)
  BY DEF Fill, Goto, document, inForce
<1> HIDE DEF r
<1>3. pending' \in Doc  BY <1>0, <1>2, EditedDoc DEF AtTheFile
<1>4. Edited(r, r.base) = Edited(client[c], client[c].base)
  BY <1>1 DEF Edited
<1>5. QED  BY <1>0, <1>1, <1>2, <1>3, <1>4, ToTheFile

\* An answer.
LEMMA Answered ==
  ASSUME NEW answer
  PROVE  LET r == [Idle EXCEPT !.op = @, !.said = answer]
         IN Asked(r) /\ r.pc = "idle" /\ r.said = answer
<1> DEFINE r == [Idle EXCEPT !.op = @, !.said = answer]
<1>1. DOMAIN r = DOMAIN Idle /\ r.pc = "idle" /\ r.base = Empty /\ r.said = answer
  BY DEF Idle
<1> HIDE DEF r
<1>2. Asked(r)  BY <1>1, EmptyDoc DEF Asked
<1>3. QED  BY <1>1, <1>2 DEF r


\* A value set where it was meant to go: what the file then says there, and elsewhere.
LEMMA SetFits ==
  ASSUME Inv, Ours, NEW c \in Client, client[c].pc = "move", Running, Sound(file), Mid(c),
         client[c].op = "set"
  PROVE  LET q == client[c]
             new == Edited(q, file)
         IN /\ new = Set(file, q.account, q.key, q.value) /\ new.cross = file.cross
            /\ q.account \in Everyone /\ q.key \in Key /\ q.value \in Said /\ q.persist
            /\ \A b : \A j \in Key : j # q.key => Value(new, b, j) = Value(file, b, j)
            /\ ~AppliesNow(q.account) =>
                 /\ \A j \in Key : Value(new, Serving, j) = Value(file, Serving, j)
                 /\ q.account \in Section
            /\ q.key \in Tier =>
                 /\ AppliesNow(q.account) => Value(new, Serving, q.key) = q.value
                 /\ \A b \in Everyone : Conflict(Resolved(new, b)) => b \in Unjudged(q, new)
                 /\ past.unsaved \/ ~Conflict(Resolved(new, Serving))
<1> DEFINE q == client[c]
           new == Edited(q, file)
<1>0. /\ Asked(q) /\ file \in Doc /\ OnTheWay(c) /\ None \notin Section
      /\ past \in History /\ memory \in Snapshot
  BY SettingsAssumption DEF Inv, TypeOK, AloneInv, Section, Running
<1>1. /\ q.account \in Everyone /\ q.key \in Key /\ q.value \in Said /\ q.persist
      /\ q.key \in Tier => q.value \in Model \cup Pinned /\ q.value # None
  <2>1. None \notin Model \cup Pinned  BY SettingsAssumption
  <2>2. QED  BY <1>0, <2>1 DEF Asked
<1>2. new = Set(file, q.account, q.key, q.value)  BY <1>0, EditedDoc DEF AtTheFile
<1>3. q.account = None => Serving \notin Section \/ file.of[Serving][q.key] = None
  BY DEF Mid, AtTheFile
<1>4. past.unsaved \/ Alike  BY MidAlike DEF AtTheFile
<1>5. q.key \in Tier => Fits(q)  BY DEF Mid, AtTheFile
<1>6. q.now <=> AppliesNow(q.account)  BY <1>0 DEF OnTheWay, Ours
<1>7. q.account \notin Section => q.account = None  BY <1>1 DEF Everyone
<1> HIDE DEF q, new
<1>8. /\ new.cross = file.cross
      /\ \A b : \A j \in Key : j # q.key => Value(new, b, j) = Value(file, b, j)
      /\ q.account \in Section => \A b : Value(new, b, q.key) =
           IF b # q.account THEN Value(file, b, q.key)
           ELSE IF q.value # None THEN q.value ELSE file.top[q.key]
      /\ q.account \notin Section => \A b : Value(new, b, q.key) =
           IF b \in Section /\ file.of[b][q.key] # None THEN file.of[b][q.key] ELSE q.value
  BY <1>0, <1>1, <1>2, SetGives
<1> DEFINE aim == IF q.account = None THEN Serving ELSE q.account
<1>9. q.key \in Tier => Value(new, aim, q.key) = q.value
  <2>1. CASE q.account \in Section  BY <1>0, <1>1, <1>8, <2>1
  <2>2. CASE q.account \notin Section  BY <1>3, <1>7, <1>8, <2>2
  <2>3. QED  BY <2>1, <2>2
<1>10. AppliesNow(q.account) <=> aim = Serving \/ q.account = None
  BY DEF AppliesNow
<1>11. ~AppliesNow(q.account) =>
         /\ q.account \in Section /\ aim = q.account
         /\ \A j \in Key : Value(new, Serving, j) = Value(file, Serving, j)
  BY <1>7, <1>8 DEF AppliesNow
<1> HIDE DEF aim
<1>12. ASSUME q.key \in Tier, past.unsaved => ~AppliesNow(q.account)
       PROVE  ~Conflict(Resolved(new, aim))
  <2> DEFINE lands == IF AppliesNow(q.account) THEN memory.set ELSE Resolved(file, q.account)
             judged == [lands EXCEPT ![q.key] = q.value]
  <2>1. ~Conflict(judged)  BY <1>5, <1>12 DEF Fits
  <2>2. lands \in Values /\ \A j \in Key : lands[j] = Value(file, aim, j)
    <3>1. CASE AppliesNow(q.account)
      BY <1>0, <1>4, <1>10, <1>12, <3>1 DEF Alike, Snapshot, aim
    <3>2. CASE ~AppliesNow(q.account)  BY <1>0, <1>11, <3>2, ResolvedIsValues
    <3>3. QED  BY <3>1, <3>2
  <2> HIDE DEF lands
  <2>3. \A j \in Tier : judged[j] = Value(new, aim, j)
    BY <1>8, <1>9, <1>12, <2>2 DEF Values, Key
  <2>4. \A j \in Tier : judged[j] = Resolved(new, aim)[j]  BY <2>3 DEF Resolved, Key
  <2>5. QED  BY <2>1, <2>4, SameConflict
<1>13. ASSUME q.key \in Tier, NEW b \in Everyone, Conflict(Resolved(new, b))
       PROVE  b \in Unjudged(q, new)
  <2> DEFINE meant == IF q.account = None THEN Mapped(Serving) ELSE q.account
  <2>1. SUFFICES ASSUME b = meant PROVE q.now /\ past.unsaved
    BY <1>13 DEF Unjudged
  <2>2. Resolved(new, meant) = Resolved(new, aim)
    BY MappedValues DEF aim
  <2>3. Conflict(Resolved(new, aim))  BY <1>13, <2>1, <2>2
  <2>4. QED  BY <1>6, <1>12, <1>13, <2>3
<1>14. ASSUME q.key \in Tier, ~past.unsaved PROVE ~Conflict(Resolved(new, Serving))
  <2>1. CASE AppliesNow(q.account)  BY <1>10, <1>12, <1>14, <2>1 DEF aim
  <2>2. CASE ~AppliesNow(q.account)
    <3>1. Resolves(file, Serving, file.cross)  BY <1>4, <1>14, SoundForJudged DEF Alike
    <3>2. Resolved(new, Serving) = Resolved(file, Serving)  BY <1>11, <2>2 DEF Resolved
    <3>3. QED  BY <3>1, <3>2 DEF Resolves, TiersResolve
  <2>3. QED  BY <2>1, <2>2
<1>15. q.key \in Tier /\ AppliesNow(q.account) => Value(new, Serving, q.key) = q.value
  BY <1>9, <1>10 DEF aim
<1>16. QED  BY <1>1, <1>2, <1>8, <1>11, <1>13, <1>14, <1>15 DEF q, new

\* What is written of a request is sound where the file is, but for the mappings a set
\* was not meant for.
LEMMA EditedSound ==
  ASSUME Inv, Ours, NEW c \in Client, client[c].pc = "move", Running, Sound(file), Mid(c),
         NEW U, past.unjudged \subseteq U,
         client[c].op = "set" /\ client[c].key \in Tier =>
           Unjudged(client[c], Edited(client[c], file)) \subseteq U
  PROVE  LET new == Edited(client[c], file)
         IN new.parses /\ CeilingsParse(new) /\ Unresolved(new) \subseteq U
<1> DEFINE q == client[c]
           new == Edited(q, file)
<1>0. Asked(q) /\ file \in Doc  BY DEF Inv, TypeOK
<1>1. /\ new.parses = file.parses /\ q.op \in {"set", "cross", "remove"}
      /\ q.op = "cross" => new.cross = q.value /\ new.top = file.top /\ new.of = file.of
      /\ q.op = "remove" => new.cross = file.cross /\ new.top = file.top /\ new.of = file.of
  BY <1>0, EditedDoc DEF AtTheFile
<1>2. ASSUME q.op = "remove" PROVE new.parses /\ CeilingsParse(new) /\ Unresolved(new) \subseteq U
  <2>1. Sound(new)  BY <1>1, <1>2, SameSound
  <2>2. QED  BY <2>1 DEF Sound
<1>3. ASSUME q.op = "cross" PROVE new.parses /\ CeilingsParse(new) /\ Unresolved(new) \subseteq U
  <2>1. /\ ~q.value => \A a \in Everyone \ past.unjudged :
                         \A k \in Tier : Value(file, a, k) \notin Pinned
        /\ q.value \in BOOLEAN
    BY <1>0, <1>3 DEF Mid, AtTheFile, Asked
  <2> HIDE DEF new
  <2>2. \A a, k : Value(new, a, k) = Value(file, a, k)  BY <1>1, <1>3, SameValues
  <2>3. CeilingsParse(new) /\ new.parses  BY <1>1, <2>2 DEF Sound, CeilingsParse
  <2>4. ASSUME NEW a \in Everyone \ past.unjudged PROVE Resolves(new, a, new.cross)
    <3>1. Resolves(file, a, file.cross)  BY DEF Sound, Unresolved
    <3>2. Resolves(new, a, file.cross)  BY <2>2, <3>1, SameResolves
    <3>3. \A k \in Tier : Value(new, a, k) \in Pinned => new.cross  BY <1>1, <1>3, <2>1, <2>2
    <3>4. QED  BY <3>2, <3>3 DEF Resolves, TiersResolve
  <2>5. QED  BY <2>3, <2>4 DEF Unresolved
<1>4. ASSUME q.op = "set" PROVE new.parses /\ CeilingsParse(new) /\ Unresolved(new) \subseteq U
  <2>1. /\ q.account \in Everyone /\ q.key \in Key /\ q.value \in Said
        /\ new = Set(file, q.account, q.key, q.value)
        /\ q.key \in Tier => \A b \in Everyone : Conflict(Resolved(new, b)) => b \in Unjudged(q, new)
    BY <1>4, SetFits
  <2>2. q.key \in Tier => q.value \in Model \cup Pinned /\ (q.value \in Pinned => file.cross)
    BY <1>0, <1>4 DEF Mid, AtTheFile, Asked
  <2>3. \A b \in Everyone \ U : q.key \in Tier => ~Conflict(Resolved(new, b))
    BY <1>4, <2>1
  <2> HIDE DEF q
  <2>4. QED  BY <1>0, <2>1, <2>2, <2>3, SetSound DEF new
<1>5. QED  BY <1>1, <1>2, <1>3, <1>4

\* A document is moved over the file: what was written, if it is of this request.
LEMMA MoveStep == ASSUME Inv, NEW c \in Client, Move(c) PROVE Inv'
<1> DEFINE q == client[c]
           left == q.op = "remove" /\ q.value \notin q.base.profiles
           r == IF pending = None \/ left
                THEN [Idle EXCEPT !.op = @, !.said = "refused"]
                ELSE [q EXCEPT !.pc = CASE q.op = "remove" -> "reload"
                                        [] q.op = "set" /\ q.key = "effort" -> "effective"
                                        [] OTHER -> "apply"]
           new == Edited(q, file)
           added == IF pending # None /\ q.op = "set" /\ q.key \in Tier
                    THEN Unjudged(q, pending) ELSE {}
<1>0. /\ Running /\ q.pc = "move" /\ memory \in Snapshot /\ file \in Doc
      /\ pending \in Doc \cup {None} /\ selection \in Account /\ past \in History
      /\ login \in [Login -> SignIn] /\ DOMAIN client = Client
      /\ Asked(q) /\ OnTheWay(c) /\ DOMAIN q = DOMAIN Idle
  BY AtIs DEF Move
<1>1. client' = [client EXCEPT ![c] = r] /\ client'[c] = r
  BY <1>0 DEF Move, Says, Goto
<1>2. /\ UNCHANGED <<memory, selection>> /\ pending' = None
      /\ file' = IF pending = None THEN file ELSE pending
      /\ \A l \in Login : login'[l].pc = login[l].pc
      /\ login' \in [Login -> SignIn] /\ file' \in Doc
  <2>1. /\ UNCHANGED <<memory, selection>> /\ pending' = None
        /\ file' = IF pending = None THEN file ELSE pending
        /\ \/ UNCHANGED login
           \/ login' = [l \in Login |-> [login[l] EXCEPT !.unlinked = login[l].pc = "truncated"]]
    BY DEF Move, inForce
  <2>2. ASSUME NEW l \in Login
        PROVE  [login[l] EXCEPT !.unlinked = login[l].pc = "truncated"] \in SignIn
    BY <1>0 DEF SignIn
  <2>3. ASSUME NEW l \in Login
        PROVE  [login[l] EXCEPT !.unlinked = login[l].pc = "truncated"].pc = login[l].pc
    BY <1>0 DEF SignIn
  <2>4. login' \in [Login -> SignIn]  BY <1>0, <2>1, <2>2
  <2>5. \A l \in Login : login'[l].pc = login[l].pc  BY <2>1, <2>3
  <2>6. QED  BY <1>0, <2>1, <2>4, <2>5
<1>3. Serving' = Serving  BY <1>2 DEF Serving, ServedBy, Running
<1>4. q.op \in {"set", "cross", "remove"}
  BY <1>0 DEF Asked, Stages, AtTheFile, InForce
<1>8. /\ past' \in History /\ past'.crossed = past.crossed /\ past'.foreign = past.foreign
      /\ past'.unsaved = past.unsaved /\ past'.unjudged = past.unjudged \cup added
  <2>1. past' = [past EXCEPT !.unjudged = @ \cup added] \/ (past' = past /\ added = {})
    BY DEF Move
  <2>2. added \subseteq Everyone  BY DEF Unjudged
  <2> HIDE DEF added
  <2>3. QED  BY <1>0, <2>1, <2>2 DEF History
<1>9. ASSUME Ours, Sound(file), Mid(c) PROVE file' = file \/ file' = new
  BY <1>0, <1>2, <1>9 DEF OnTheWay, Ours, Mid
<1>10. ASSUME Ours, Sound(file), Mid(c) PROVE Sound(file)'
  <2>1. CASE pending = None  BY <1>2, <1>8, <1>10, <2>1, SoundStays DEF added
  <2>2. CASE pending # None
    <3>1. file' = new /\ pending = new  BY <1>0, <1>2, <1>10, <2>2 DEF OnTheWay, Ours, Mid
    <3>2. /\ past.unjudged \subseteq past'.unjudged
          /\ q.op = "set" /\ q.key \in Tier => Unjudged(q, new) \subseteq past'.unjudged
      BY <1>8, <2>2, <3>1 DEF added
    <3>3. new.parses /\ CeilingsParse(new) /\ Unresolved(new) \subseteq past'.unjudged
      BY <1>0, <1>10, <3>2, EditedSound
    <3> HIDE DEF new
    <3>4. QED  BY <3>1, <3>3 DEF Sound, CeilingsParse, Unresolved
  <2>3. QED  BY <2>1, <2>2
<1>5. CASE pending = None \/ left
  <2>1. Asked(r) /\ r.pc = "idle"  BY <1>5, Answered
  <2> HIDE DEF r
  <2>2. OnTheWay(c)' /\ Mid(c)'  BY <1>1, <2>1 DEF OnTheWay, InForce, Mid
  <2>3. ASSUME Ours, Sound(file), Mid(c) PROVE Agrees(file)'
    <3>1. Agrees(file)
      BY <1>0, <2>3, MidAlike, WrittenAlike DEF Agrees, AtTheFile
    <3>2. past'.unjudged = past.unjudged  BY <1>5, <1>8 DEF added
    <3>3. Agrees(file')
      <4>1. CASE pending = None  BY <1>2, <3>1, <4>1
      <4>2. CASE pending # None
        <5>1. file' = new /\ q.op = "remove"
          BY <1>0, <1>2, <1>5, <2>3, <4>2 DEF OnTheWay, Ours, Mid
        <5>2. new.top = file.top /\ new.of = file.of /\ new.cross = file.cross
              /\ new.parses = file.parses
          BY <1>0, <5>1, EditedDoc DEF AtTheFile
        <5> HIDE DEF new
        <5>3. QED  BY <3>1, <5>1, <5>2, SameSound
      <4>3. QED  BY <4>1, <4>2
    <3>4. QED  BY <1>0, <1>2, <1>3, <1>8, <3>2, <3>3, SoundStays DEF Agrees, Written, Judged
  <2>4. QED  BY <1>0, <1>1, <1>2, <1>8, <1>10, <2>1, <2>2, <2>3, GoesOn
<1>6. CASE pending # None /\ ~left
  <2> DEFINE next == CASE q.op = "remove" -> "reload"
                       [] q.op = "set" /\ q.key = "effort" -> "effective"
                       [] OTHER -> "apply"
  <2>1. /\ q.op = "remove" => next = "reload"
        /\ q.op = "set" => next = IF q.key = "effort" THEN "effective" ELSE "apply"
        /\ q.op = "cross" => next = "apply"
    BY <1>4
  <2>2. r = [q EXCEPT !.pc = next]  BY <1>6
  <2> HIDE DEF r, next
  <2>3. /\ DOMAIN r = DOMAIN Idle /\ r.pc = next /\ r.op = q.op /\ r.key = q.key
        /\ r.value = q.value /\ r.persist = q.persist /\ r.base = q.base
        /\ r.account = q.account /\ r.now = q.now /\ r.held = q.held
    BY <1>0, <2>2 DEF Idle
  <2>4. Asked(r)
    <3>1. next \in Stages[q.op] /\ next \notin {"idle", "ceiling"} /\ next \notin AtTheFile
      BY <1>4, <2>1 DEF Stages, AtTheFile, InForce
    <3>2. next = "effective" => q.op = "set" /\ q.key = "effort"
      BY <1>4, <2>1
    <3>3. q.base \in Doc  BY <1>0 DEF Asked
    <3>4. QED  BY <1>0, <2>3, <3>1, <3>2, <3>3, StageGoes
  <2>5. AppliesNow(client[c].account)' <=> AppliesNow(q.account)
    BY <1>1, <1>3, <2>3 DEF AppliesNow
  <2>6. OnTheWay(c)'
    BY <1>0, <1>1, <1>2, <1>4, <1>8, <2>1, <2>3, <2>5 DEF OnTheWay, InForce
  <2>7. ASSUME Ours, Sound(file), Mid(c) PROVE Mid(c)'
    <3>1. file' = new /\ pending = new  BY <1>0, <1>2, <1>6, <2>7 DEF OnTheWay, Ours, Mid
    <3>2. memory.cross = file.cross /\ (past.unsaved \/ Alike)
      BY <1>0, <2>7, MidAlike DEF AtTheFile
    <3>3. /\ q.op = "cross" => new.cross = q.value /\ new.top = file.top /\ new.of = file.of
          /\ q.op = "remove" => new.cross = file.cross /\ new.top = file.top /\ new.of = file.of
      BY <1>0, EditedDoc DEF AtTheFile
    <3> HIDE DEF new
    <3>4. CASE q.op \in {"remove", "cross"}
      <4>1. \A k : Value(new, Serving, k) = Value(file, Serving, k)
        BY <3>3, <3>4, SameValues
      <4>2. past'.unsaved \/ Holds(client[c])'
        BY <1>1, <1>2, <1>3, <1>8, <2>1, <2>3, <3>1, <3>2, <3>4, <4>1
        DEF Holds, Alike, Judged, added
      <4>3. IF q.op = "cross" THEN q.value = new.cross ELSE memory.cross = new.cross
        BY <3>2, <3>3, <3>4
      <4>4. QED
        BY <1>1, <1>2, <2>1, <2>3, <3>1, <3>4, <4>2, <4>3 DEF Mid, AtTheFile
    <3>5. CASE q.op = "set"
      <4>1. /\ new.cross = file.cross /\ q.key \in Key /\ q.persist
            /\ \A j \in Key : j # q.key => Value(new, Serving, j) = Value(file, Serving, j)
            /\ ~AppliesNow(q.account) =>
                 \A j \in Key : Value(new, Serving, j) = Value(file, Serving, j)
            /\ q.key \in Tier =>
                 /\ AppliesNow(q.account) => Value(new, Serving, q.key) = q.value
                 /\ past.unsaved \/ ~Conflict(Resolved(new, Serving))
        BY <1>0, <2>7, <3>5, SetFits DEF new
      <4>2. r.pc \in {"effective", "apply"} /\ (r.pc = "apply" => q.key \in Tier)
        BY <2>1, <2>3, <3>5, <4>1 DEF Key
      <4>3. ASSUME ~past.unsaved PROVE Judged(Serving)'
        <5>1. Mapped(Serving) \notin past.unjudged  BY <3>2, <4>3 DEF Alike, Judged
        <5>2. Resolved(new, Serving) = Resolved(new, Mapped(Serving))  BY MappedValues
        <5>3. q.key \in Tier => Mapped(Serving) \notin Unjudged(q, new)
          BY <4>1, <4>3, <5>2 DEF Unjudged
        <5>4. QED  BY <1>3, <1>8, <3>1, <5>1, <5>3 DEF Judged, added
      <4>4. Between(client[c], q.key)' <=> AppliesNow(q.account)
        BY <1>1, <2>3, <2>5, <3>5, <4>1, <4>2 DEF Between, AppliesNow
      <4>5. past'.unsaved \/ Holds(client[c])'
        <5>1. \A k \in Key : memory.set[k] = Value(new, Serving, k)
                             \/ (k = q.key /\ AppliesNow(q.account)) \/ past.unsaved
          BY <3>2, <4>1 DEF Alike
        <5>2. ASSUME NEW k \in Key, k = q.key, AppliesNow(q.account) PROVE Between(client[c], k)'
          BY <1>1, <2>3, <2>5, <3>5, <4>1, <4>2, <5>2 DEF Between, AppliesNow
        <5>3. QED  BY <1>1, <1>2, <1>3, <1>8, <2>3, <3>1, <4>2, <4>3, <5>1, <5>2 DEF Holds
      <4>6. r.pc = "apply" /\ Between(client[c], q.key)' => q.value = Value(new, Serving, q.key)
        BY <4>1, <4>2, <4>4
      <4>7. memory.cross = new.cross  BY <3>2, <4>1
      <4>8. Between(client[c], client[c].key)' <=> Between(client[c], q.key)'
        BY <1>1, <2>3
      <4>9. QED
        BY <1>1, <1>2, <1>3, <2>3, <3>1, <3>5, <4>2, <4>5, <4>6, <4>7, <4>8 DEF Mid, AtTheFile
    <3>6. QED  BY <1>4, <3>4, <3>5
  <2>8. r.pc # "idle"  BY <1>4, <2>1, <2>3
  <2>9. QED  BY <1>0, <1>1, <1>2, <1>8, <1>10, <2>4, <2>6, <2>7, <2>8, GoesOn
<1>7. QED  BY <1>5, <1>6

\* The ceiling is what the file says by now.
LEMMA EffectiveStep == ASSUME Inv, NEW c \in Client, Effective(c) PROVE Inv'
<1> DEFINE q == client[c]
           named == IF q.account = None THEN Serving ELSE q.account
           ceiling == Value(OnDisk, named, "effort")
           r == IF ceiling \in Bad THEN [Idle EXCEPT !.op = @, !.said = "refused"]
                ELSE [q EXCEPT !.pc = "apply", !.value = ceiling]
<1>0. /\ Running /\ q.pc = "effective" /\ memory \in Snapshot /\ file \in Doc
      /\ pending \in Doc \cup {None} /\ selection \in Account /\ past \in History
      /\ login \in [Login -> SignIn] /\ DOMAIN client = Client
      /\ Asked(q) /\ OnTheWay(c) /\ DOMAIN q = DOMAIN Idle
  BY AtIs DEF Effective
<1>1. client' = [client EXCEPT ![c] = r] /\ client'[c] = r
  BY <1>0 DEF Effective, Says
<1>2. UNCHANGED <<file, pending, memory, selection, login, past>> /\ Serving' = Serving
  BY DEF Effective, document, inForce, Serving, ServedBy, Running
<1>3. q.op = "set" /\ q.key = "effort" /\ "effort" \in Key /\ "effort" \notin Tier
  BY <1>0, SettingsAssumption DEF Asked, Stages, AtTheFile, InForce, Key
<1>4. Sound(file) => Sound(file)'  BY <1>2, SoundStays
<1>5. CASE ceiling \in Bad
  <2>1. Asked(r) /\ r.pc = "idle"  BY <1>5, Answered
  <2>2. ~Sound(file)
    <3>1. Sound(file) => OnDisk = file  BY DEF OnDisk, Sound
    <3>2. Sound(file) => Value(file, named, "effort") \notin Bad  BY SoundForJudged
    <3>3. QED  BY <1>5, <3>1, <3>2
  <2> HIDE DEF r
  <2>3. OnTheWay(c)' /\ Mid(c)'  BY <1>1, <2>1 DEF OnTheWay, InForce, Mid
  <2>4. QED  BY <1>0, <1>1, <1>2, <2>1, <2>2, <2>3, GoesOn
<1>6. CASE ceiling \notin Bad
  <2> HIDE DEF ceiling
  <2>1. /\ DOMAIN r = DOMAIN Idle /\ r.pc = "apply" /\ r.op = q.op /\ r.key = q.key
        /\ r.value = ceiling /\ r.persist = q.persist /\ r.base = q.base
        /\ r.account = q.account /\ r.now = q.now /\ r.held = q.held
    BY <1>0, <1>6 DEF Idle
  <2>2. ceiling \in Said
    <3>1. OnDisk \in Doc  BY <1>0 DEF OnDisk, Snapshot
    <3>2. QED  BY <1>3, <1>6, <3>1, ValueIsSaid DEF ceiling
  <2> HIDE DEF r
  <2>3. Asked(r)  BY <1>0, <1>3, <2>1, <2>2 DEF Asked, Stages
  <2>4. AppliesNow(client[c].account)' <=> AppliesNow(q.account)
    BY <1>1, <1>2, <2>1 DEF AppliesNow
  <2>5. OnTheWay(c)'  BY <1>0, <1>1, <1>2, <1>3, <2>1, <2>4 DEF OnTheWay, InForce
  <2>6. ASSUME Sound(file), Mid(c) PROVE Mid(c)'
    <3>1. OnDisk = file  BY <2>6 DEF OnDisk, Sound
    <3>2. AppliesNow(q.account) => ceiling = Value(file, Serving, "effort")
      BY <3>1 DEF AppliesNow, ceiling
    <3>3. /\ memory.cross = file.cross
          /\ past.unsaved \/ (/\ Judged(Serving)
                              /\ \A k \in Key : memory.set[k] = Value(file, Serving, k) \/ Between(q, k))
      BY <1>0, <1>3, <2>6 DEF Mid, Holds
    <3>4. q.persist  BY <1>0, <1>3 DEF Asked
    <3>5. ASSUME NEW k \in Key, Between(q, k) PROVE Between(client[c], k)'
      BY <1>1, <1>3, <2>1, <2>4, <3>4, <3>5 DEF Between
    <3>6. past'.unsaved \/ Holds(client[c])'
      BY <1>1, <1>2, <2>1, <3>3, <3>5, SoundStays DEF Holds, Judged
    <3>7. Between(client[c], client[c].key)' => r.value = Value(file, Serving, "effort")
      BY <1>1, <2>1, <2>4, <3>2 DEF Between
    <3>8. QED
      BY <1>1, <1>2, <1>3, <2>1, <3>3, <3>6, <3>7 DEF Mid, AtTheFile
  <2>7. r.pc # "idle"  BY <2>1
  <2>8. QED  BY <1>0, <1>1, <1>2, <1>4, <2>3, <2>5, <2>6, <2>7, GoesOn
<1>7. QED  BY <1>5, <1>6

\* A setting is put in force: what the file already says, if it was persisted.
LEMMA ApplyStep == ASSUME Inv, NEW c \in Client, Apply(c) PROVE Inv'
<1> DEFINE q == client[c]
           r == [Idle EXCEPT !.op = @, !.said = "ok"]
<1>0. /\ Running /\ q.pc = "apply" /\ memory \in Snapshot /\ file \in Doc
      /\ pending \in Doc \cup {None} /\ selection \in Account /\ past \in History
      /\ login \in [Login -> SignIn] /\ DOMAIN client = Client
      /\ Asked(q) /\ OnTheWay(c) /\ DOMAIN q = DOMAIN Idle
  BY AtIs DEF Apply
<1>1. client' = [client EXCEPT ![c] = r] /\ client'[c] = r
  BY <1>0 DEF Apply, Says
<1>2. UNCHANGED <<file, pending, selection, login>>
  BY DEF Apply, document
<1>3. Asked(r) /\ r.pc = "idle"  BY Answered
<1> HIDE DEF r
<1>4. /\ past' \in History /\ past'.foreign = past.foreign /\ past'.crossed = past.crossed
      /\ past'.unsaved <=> past.unsaved \/ (q.op = "set" /\ ~q.persist)
      /\ past'.unjudged = past.unjudged
  <2> DEFINE unsaved == past.unsaved \/ (q.op = "set" /\ ~q.persist)
  <2>1. past' = [past EXCEPT !.unsaved = unsaved]  BY DEF Apply
  <2>2. unsaved \in BOOLEAN  OBVIOUS
  <2> HIDE DEF unsaved
  <2>3. /\ past' \in History /\ past'.foreign = past.foreign /\ past'.crossed = past.crossed
        /\ past'.unsaved = unsaved /\ past'.unjudged = past.unjudged
    BY <1>0, <2>1, <2>2 DEF History
  <2>4. QED  BY <2>3 DEF unsaved
<1>5. q.op \in {"set", "cross"}
  BY <1>0 DEF Asked, Stages, AtTheFile, InForce
<1>6. /\ memory' \in Snapshot /\ memory'.profiles = memory.profiles
      /\ q.op = "cross" => memory'.cross = q.value /\ memory'.set = memory.set
      /\ q.op = "set" => memory'.cross = memory.cross
      /\ q.op = "set" /\ ~q.now => memory'.set = memory.set
      /\ q.op = "set" /\ q.now /\ q.held = memory =>
           \A k \in Key : memory'.set[k] = IF k = q.key THEN q.value ELSE memory.set[k]
  <2>1. CASE q.op = "cross"
    <3>1. q.value \in BOOLEAN /\ memory' = [memory EXCEPT !.cross = q.value]
      BY <1>0, <2>1 DEF Asked, Apply
    <3>2. QED  BY <1>0, <2>1, <3>1 DEF Snapshot
  <2>2. CASE q.op = "set" /\ ~q.now
    <3>1. memory' = memory  BY <2>2 DEF Apply
    <3>2. QED  BY <1>0, <2>2, <3>1
  <2>3. CASE q.op = "set" /\ q.now
    <3> DEFINE set == Applied(q)
    <3>1. /\ q.value \in Said /\ q.key \in Key /\ memory.set \in Values
          /\ q.held \in Snapshot /\ q.held.set \in Values
      BY <1>0, <2>3 DEF Asked, Snapshot
    <3>2. "effort" \in Key /\ "effort" \notin Tier /\ Tier \subseteq Key
      BY SettingsAssumption DEF Key
    <3>3. /\ set \in Values
          /\ q.held = memory => \A k \in Key : set[k] = IF k = q.key THEN q.value ELSE memory.set[k]
      <4>1. CASE q.key \in Tier
        <5>1. set = [[q.held.set EXCEPT ![q.key] = q.value] EXCEPT !["effort"] = memory.set["effort"]]
          BY <4>1 DEF Applied
        <5>2. [q.held.set EXCEPT ![q.key] = q.value] \in Values  BY <3>1 DEF Values, Said
        <5>3. set \in Values  BY <3>1, <3>2, <5>1, <5>2 DEF Values
        <5>4. \A k \in Key : set[k] = IF k = "effort" THEN memory.set["effort"]
                                      ELSE IF k = q.key THEN q.value ELSE q.held.set[k]
          BY <3>1, <3>2, <5>1, <5>2 DEF Values
        <5>5. QED  BY <3>2, <4>1, <5>3, <5>4
      <4>2. CASE q.key \notin Tier
        <5>1. set = [memory.set EXCEPT ![q.key] = q.value]  BY <4>2 DEF Applied
        <5>2. QED  BY <3>1, <5>1 DEF Values, Said
      <4>3. QED  BY <4>1, <4>2
    <3>4. memory' = [memory EXCEPT !.set = set]  BY <2>3 DEF Apply
    <3> HIDE DEF set
    <3>5. memory' \in Snapshot /\ memory'.profiles = memory.profiles /\ memory'.set = set
          /\ memory'.cross = memory.cross
      BY <1>0, <3>3, <3>4 DEF Snapshot
    <3>6. QED  BY <2>3, <3>3, <3>5
  <2>4. QED  BY <1>5, <2>1, <2>2, <2>3
<1>7. Serving' = Serving  BY <1>0, <1>2, <1>6, NotNone DEF Serving, ServedBy, Running
<1>8. OnTheWay(c)' /\ Mid(c)'  BY <1>1, <1>3 DEF OnTheWay, InForce, Mid
<1>9. ASSUME Ours, Mid(c) PROVE Agrees(file)'
  <2>1. /\ IF q.op = "cross" THEN q.value = file.cross ELSE memory.cross = file.cross
        /\ past.unsaved \/
             (Judged(Serving)
              /\ \A k \in Key : memory.set[k] = Value(file, Serving, k) \/ Between(q, k))
        /\ q.op = "set" /\ Between(q, q.key) => q.value = Value(file, Serving, q.key)
    BY <1>0, <1>9 DEF Mid, Holds
  <2>2. memory'.cross = file.cross  BY <1>5, <1>6, <2>1
  <2>3. q.op = "set" => q.held = memory /\ (q.now <=> AppliesNow(q.account))
    BY <1>0, <1>9 DEF OnTheWay, Ours
  <2>4. past'.unsaved \/ \A k \in Key : memory'.set[k] = Value(file, Serving, k)
    <3>1. CASE q.op = "cross"
      BY <1>4, <1>6, <2>1, <3>1 DEF Between
    <3>2. CASE q.op = "set" /\ ~AppliesNow(q.account)
      BY <1>4, <1>6, <2>1, <2>3, <3>2 DEF Between
    <3>3. CASE q.op = "set" /\ AppliesNow(q.account)
      <4>1. q.persist => Between(q, q.key)  BY <1>0, <3>3 DEF Between
      <4>2. \A k \in Key : Between(q, k) => k = q.key  BY DEF Between
      <4>3. q.persist \in BOOLEAN /\ q.key \in Key  BY <1>0, <3>3 DEF Asked
      <4>4. QED  BY <1>4, <1>6, <2>1, <2>3, <3>3, <4>1, <4>2, <4>3
    <3>4. QED  BY <1>5, <3>1, <3>2, <3>3
  <2>5. past'.unsaved \/ Written(file, Serving)'
    <3>1. memory'.set \in Values  BY <1>6 DEF Snapshot
    <3>2. (\A k \in Key : memory'.set[k] = Value(file, Serving, k))
            => memory'.set = Resolved(file, Serving)
      BY <3>1 DEF Values, Resolved
    <3>3. past'.unsaved \/ Judged(Serving)'
      BY <1>4, <1>7, <2>1 DEF Judged
    <3>4. QED  BY <1>2, <1>7, <2>4, <3>2, <3>3 DEF Written
  <2>6. QED  BY <1>2, <2>2, <2>5 DEF Agrees
<1>10. Sound(file) => Sound(file)'  BY <1>2, <1>4, SoundStays
<1>11. QED
  BY <1>0, <1>1, <1>2, <1>3, <1>4, <1>6, <1>8, <1>9, <1>10, GoesOn

\* A reload looks at everything first, and changes nothing where it refuses.
LEMMA ReloadStep == ASSUME Inv, NEW c \in Client, Reload(c) PROVE Inv'
<1> DEFINE q == client[c]
           r == IF file.parses /\ AllResolve(file) THEN [q EXCEPT !.pc = "profiles", !.base = file]
                ELSE [Idle EXCEPT !.op = @, !.said = "refused"]
<1>0. /\ Running /\ q.pc = "reload" /\ memory \in Snapshot /\ file \in Doc
      /\ pending \in Doc \cup {None} /\ selection \in Account /\ past \in History
      /\ login \in [Login -> SignIn] /\ DOMAIN client = Client
      /\ Asked(q) /\ OnTheWay(c) /\ DOMAIN q = DOMAIN Idle
  BY AtIs DEF Reload
<1>1. client' = [client EXCEPT ![c] = r] /\ client'[c] = r
  BY <1>0 DEF Reload, Says
<1>2. UNCHANGED <<file, pending, memory, selection, login, past>> /\ Serving' = Serving
      /\ (Running' <=> Running)
  BY DEF Reload, document, inForce, Serving, ServedBy, Running
<1>3. Sound(file) => Sound(file)'  BY <1>2, SoundStays
<1>4. CASE ~Whole(file)
  <2>1. Asked(r) /\ r.pc = "idle"  BY <1>4, Answered DEF Whole
  <2> HIDE DEF r
  <2>2. OnTheWay(c)' /\ Mid(c)'  BY <1>1, <2>1 DEF OnTheWay, InForce, Mid
  <2>3. ASSUME Mid(c) PROVE Agrees(file)'
    <3>1. Agrees(file)  BY <1>0, <2>3, MidAlike, WrittenAlike DEF Agrees
    <3>2. QED  BY <1>2, <3>1 DEF Agrees, Written, Judged
  <2>4. QED  BY <1>0, <1>1, <1>2, <1>3, <2>1, <2>2, <2>3, GoesOn
<1>5. CASE Whole(file)
  <2>1. /\ DOMAIN r = DOMAIN Idle /\ r.pc = "profiles" /\ r.op = q.op /\ r.key = q.key
        /\ r.value = q.value /\ r.persist = q.persist /\ r.base = file
        /\ r.account = q.account /\ r.now = q.now /\ r.held = q.held
    BY <1>0, <1>5 DEF Idle, Whole
  <2> HIDE DEF r
  <2>2. q.op \in {"remove", "reload"}  BY <1>0 DEF Asked, Stages, AtTheFile, InForce
  <2>3. Asked(r)  BY <1>0, <2>1, <2>2, StageGoes DEF Stages, InForce
  <2>4. Whole(client[c].base)'  BY <1>1, <1>2, <1>5, <2>1 DEF Whole, AllResolve, Unresolved
  <2>5. OnTheWay(c)'  BY <1>1, <1>2, <2>1, <2>2, <2>4 DEF OnTheWay
  <2>6. ASSUME Mid(c) PROVE Mid(c)'
    <3>1. memory.cross = file.cross /\ (past.unsaved \/ Alike)
      BY <1>0, <2>6, MidAlike
    <3>2. past'.unsaved \/ Holds(client[c])'  BY <1>1, <1>2, <2>1, <3>1, HoldsAtFirst
    <3>3. QED  BY <1>1, <1>2, <2>1, <2>2, <3>1, <3>2 DEF Mid
  <2>7. r.pc # "idle"  BY <2>1
  <2>8. QED  BY <1>0, <1>1, <1>2, <1>3, <2>3, <2>5, <2>6, <2>7, GoesOn
<1>6. QED  BY <1>4, <1>5

\* The profiles are swapped, and the mapping is next.
LEMMA ProfilesStep == ASSUME Inv, NEW c \in Client, Profiles(c) PROVE Inv'
<1> DEFINE q == client[c]
           r == [q EXCEPT !.pc = "mapping"]
<1>0. /\ Running /\ q.pc = "profiles" /\ memory \in Snapshot /\ file \in Doc
      /\ pending \in Doc \cup {None} /\ selection \in Account /\ past \in History
      /\ login \in [Login -> SignIn] /\ DOMAIN client = Client
      /\ Asked(q) /\ OnTheWay(c) /\ DOMAIN q = DOMAIN Idle
  BY AtIs DEF Profiles
<1>1. client' = [client EXCEPT ![c] = r] /\ client'[c] = r
  BY <1>0 DEF Profiles, Goto
<1>2. /\ UNCHANGED <<file, pending, selection, login, past>>
      /\ memory' = [memory EXCEPT !.profiles = ReadFrom(q.base),
                                  !.discovered = q.base.profiles = {}]
  BY DEF Profiles, document
<1>3. /\ DOMAIN r = DOMAIN Idle /\ r.pc = "mapping" /\ r.op = q.op /\ r.key = q.key
      /\ r.value = q.value /\ r.persist = q.persist /\ r.base = q.base
      /\ r.account = q.account /\ r.now = q.now /\ r.held = q.held
  BY <1>0 DEF Idle
<1> HIDE DEF r
<1>4. q.op \in {"remove", "reload"} /\ q.base \in Doc
  BY <1>0 DEF Asked, Stages, AtTheFile, InForce
<1>5. Asked(r)  BY <1>0, <1>3, <1>4, StageGoes DEF Stages, InForce
<1>6. memory' \in Snapshot /\ memory'.cross = memory.cross
  BY <1>0, <1>2, <1>4, ReadIsAccount DEF Snapshot
<1>7. Whole(q.base)  BY <1>0, <1>4 DEF OnTheWay, InForce
<1>8. OnTheWay(c)'
  <2>1. Whole(client[c].base)'
    BY <1>1, <1>3, <1>7 DEF Whole, AllResolve, Unresolved
  <2>2. QED  BY <1>1, <1>3, <1>4, <2>1 DEF OnTheWay
<1>9. ASSUME Mid(c) PROVE Mid(c)'
  <2>1. Holds(client[c])'  BY <1>1, <1>3, <1>4 DEF Holds
  <2>2. QED  BY <1>0, <1>1, <1>2, <1>3, <1>4, <1>6, <1>9, <2>1 DEF Mid
<1>10. r.pc # "idle"  BY <1>3
<1>11. Sound(file) => Sound(file)'  BY <1>2, SoundStays
<1>12. QED
  BY <1>0, <1>1, <1>2, <1>5, <1>6, <1>8, <1>9, <1>10, <1>11, GoesOn

\* The tiers of whoever serves; a switch that is refused goes back to who served.
LEMMA MappingStep == ASSUME Inv, NEW c \in Client, Mapping(c) PROVE Inv'
<1> DEFINE q == client[c]
           doc == IF q.op = "switch" THEN OnDisk ELSE q.base
           whose == IF q.op = "switch" THEN q.account ELSE Serving
<1>0. /\ Running /\ q.pc = "mapping" /\ memory \in Snapshot /\ file \in Doc
      /\ pending \in Doc \cup {None} /\ selection \in Account /\ past \in History
      /\ login \in [Login -> SignIn] /\ DOMAIN client = Client
      /\ Asked(q) /\ OnTheWay(c) /\ DOMAIN q = DOMAIN Idle
  BY AtIs DEF Mapping
<1>1. /\ UNCHANGED <<file, pending, login, past>>
      /\ IF Resolves(doc, whose, doc.cross)
         THEN /\ memory' = [memory EXCEPT !.set = [Resolved(doc, whose)
                                                   EXCEPT !["effort"] = memory.set["effort"]]]
              /\ client' = [client EXCEPT ![c].pc = "ceiling", ![c].base = doc,
                                          ![c].value = Value(doc, whose, "effort")]
              /\ UNCHANGED selection
         ELSE /\ Says(c, "refused")
              /\ selection' = IF q.op = "switch" THEN q.key ELSE selection
              /\ UNCHANGED memory
  BY DEF Mapping, document
<1>2. doc \in Doc /\ q.op \in {"remove", "reload", "switch"}
  <2>1. OnDisk \in Doc  BY <1>0 DEF OnDisk, Snapshot
  <2>2. QED  BY <1>0, <2>1 DEF Asked, Stages, AtTheFile, InForce
<1>3. q.op # "switch" => Whole(doc)
  BY <1>0 DEF OnTheWay, InForce
<1>4. Sound(file) => OnDisk = file  BY DEF OnDisk, Sound
<1>5. Sound(file) => Sound(file)'  BY <1>1, SoundStays
<1> HIDE DEF doc, whose
<1>6. CASE ~Resolves(doc, whose, doc.cross)
  <2> DEFINE r == [Idle EXCEPT !.op = @, !.said = "refused"]
  <2>1. client' = [client EXCEPT ![c] = r] /\ client'[c] = r
    BY <1>0, <1>1, <1>6 DEF Says
  <2>2. Asked(r) /\ r.pc = "idle"  BY Answered
  <2> HIDE DEF r
  <2>3. q.op = "switch"  BY <1>3, <1>6, WholeForAll
  <2>4. q.key \in Account  BY <1>0, <2>3 DEF Asked
  <2>5. OnTheWay(c)' /\ Mid(c)'  BY <2>1, <2>2 DEF OnTheWay, InForce, Mid
  <2>6. Serving' = ServedBy(q.key) /\ UNCHANGED memory /\ selection' = q.key
    BY <1>1, <1>6, <2>3 DEF Serving, ServedBy, Running
  <2>7. ASSUME Mid(c) PROVE Agrees(file)'
    <3>1. memory.cross = file.cross /\ (past.unsaved \/ Written(file, ServedBy(q.key)))
      BY <1>0, <2>3, <2>7 DEF Mid, Holds
    <3>2. QED  BY <1>1, <2>6, <3>1 DEF Agrees, Written, Judged
  <2>8. QED
    BY <1>0, <1>1, <1>5, <2>1, <2>2, <2>4, <2>5, <2>6, <2>7, GoesOn
<1>7. CASE Resolves(doc, whose, doc.cross)
  <2> DEFINE r == [q EXCEPT !.pc = "ceiling", !.base = doc, !.value = Value(doc, whose, "effort")]
             set == [Resolved(doc, whose) EXCEPT !["effort"] = memory.set["effort"]]
  <2>1. client' = [client EXCEPT ![c] = r] /\ client'[c] = r /\ UNCHANGED selection
        /\ memory' = [memory EXCEPT !.set = set]
    BY <1>0, <1>1, <1>7
  <2>2. /\ DOMAIN r = DOMAIN Idle /\ r.pc = "ceiling" /\ r.op = q.op /\ r.key = q.key
        /\ r.value = Value(doc, whose, "effort") /\ r.persist = q.persist /\ r.base = doc
        /\ r.account = q.account
    BY <1>0 DEF Idle
  <2> HIDE DEF r
  <2>3. Value(doc, whose, "effort") \in Said \cup Bad
    BY <1>2, ValueIsSaid DEF Key
  <2>4. Asked(r)
    BY <1>0, <1>2, <2>2, <2>3 DEF Asked, Stages, InForce
  <2>5. set \in Values /\ \A k \in Tier : set[k] = Value(doc, whose, k)
    <3>1. memory.set \in Values /\ Resolved(doc, whose) \in Values
          /\ \A k \in Key : Resolved(doc, whose)[k] = Value(doc, whose, k)
      BY <1>0, <1>2, ResolvedIsValues DEF Snapshot
    <3>2. "effort" \in Key /\ "effort" \notin Tier /\ Tier \subseteq Key
      BY SettingsAssumption DEF Key
    <3>3. QED  BY <3>1, <3>2 DEF Values
  <2> HIDE DEF set
  <2>6. /\ memory' \in Snapshot /\ memory'.profiles = memory.profiles
        /\ memory'.cross = memory.cross /\ memory'.set = set
    BY <1>0, <2>1, <2>5 DEF Snapshot
  <2>7. Serving' = Serving  BY <1>0, <2>1, <2>6, NotNone DEF Serving, ServedBy, Running
  <2>8. ~past.crossed => whose = Serving
    BY <1>0 DEF whose, OnTheWay, Serving, ServedBy
  <2>9. OnTheWay(c)'
    <3>1. (client[c].pc \in InForce /\ client[c].op # "switch" => Whole(client[c].base))'
      <4>1. q.op # "switch" => client'[c].base = doc /\ Whole(client'[c].base)
        BY <1>3, <2>1, <2>2
      <4>2. QED  BY <2>1, <2>2, <4>1 DEF Whole, AllResolve, Unresolved
    <3>2. ~past.crossed /\ q.op = "switch" =>
            selection = q.account /\ q.account \in KeyAccount \cup memory.profiles
      BY <1>0 DEF OnTheWay
    <3>3. ~past.crossed => /\ \A k \in Tier : set[k] = Value(doc, Serving, k)
                           /\ r.value = Value(doc, Serving, "effort")
                           /\ Resolves(doc, Serving, doc.cross)
      BY <1>7, <2>2, <2>5, <2>8
    <3>4. q.op \notin {"set"}  BY <1>2
    <3>5. QED
      BY <1>1, <2>1, <2>2, <2>6, <2>7, <3>1, <3>2, <3>3, <3>4 DEF OnTheWay
  <2>10. ASSUME Sound(file), Mid(c) PROVE Mid(c)'
    <3>1. memory.cross = file.cross /\ doc = file
      BY <1>0, <1>4, <2>10 DEF Mid, doc
    <3>2. Holds(client[c])'  BY <2>1, <2>2 DEF Holds
    <3>3. QED  BY <1>1, <1>2, <2>1, <2>2, <2>6, <3>1, <3>2 DEF Mid
  <2>11. r.pc # "idle"  BY <2>2
  <2>12. QED
    BY <1>0, <1>1, <1>5, <2>1, <2>4, <2>6, <2>9, <2>10, <2>11, GoesOn
<1>8. QED  BY <1>6, <1>7

\* The ceiling; a switch is answered, and the file says what is in force.
LEMMA CeilingStep == ASSUME Inv, NEW c \in Client, Ceiling(c) PROVE Inv'
<1> DEFINE q == client[c]
           r == IF q.op = "switch" THEN [Idle EXCEPT !.op = @, !.said = "ok"]
                ELSE [q EXCEPT !.pc = "consent"]
           unjudged == IF q.op = "switch" THEN past.unjudged \ {Mapped(q.account)} ELSE {}
<1>0. /\ Running /\ q.pc = "ceiling" /\ memory \in Snapshot /\ file \in Doc
      /\ pending \in Doc \cup {None} /\ selection \in Account /\ past \in History
      /\ login \in [Login -> SignIn] /\ DOMAIN client = Client
      /\ Asked(q) /\ OnTheWay(c) /\ DOMAIN q = DOMAIN Idle
  BY AtIs DEF Ceiling
<1>1. client' = [client EXCEPT ![c] = r] /\ client'[c] = r
  BY <1>0 DEF Ceiling, Says, Goto
<1>2. /\ UNCHANGED <<file, pending, selection, login>>
      /\ memory' = [memory EXCEPT !.set["effort"] = q.value]
      /\ past' = [past EXCEPT !.unsaved = FALSE, !.unjudged = unjudged]
  BY DEF Ceiling, document
<1>3. /\ past' \in History /\ ~past'.unsaved /\ past'.crossed = past.crossed
      /\ past'.foreign = past.foreign /\ past'.unjudged = unjudged
  <2>1. unjudged \subseteq Everyone  BY <1>0 DEF History
  <2> HIDE DEF unjudged
  <2>2. QED  BY <1>0, <1>2, <2>1 DEF History
<1>4. q.op \in {"remove", "reload", "switch"} /\ q.base \in Doc
  BY <1>0 DEF Asked, Stages, AtTheFile, InForce
<1>5. /\ memory' \in Snapshot /\ memory'.profiles = memory.profiles
      /\ memory'.cross = memory.cross /\ memory'.set["effort"] = q.value
      /\ \A k \in Tier : memory'.set[k] = memory.set[k]
  <2> DEFINE set == [memory.set EXCEPT !["effort"] = q.value]
  <2>1. memory.set \in Values /\ q.value \in Said \cup Bad  BY <1>0 DEF Snapshot, Asked
  <2>2. "effort" \in Key /\ "effort" \notin Tier /\ Tier \subseteq Key
    BY SettingsAssumption DEF Key
  <2>3. set \in Values /\ set["effort"] = q.value /\ \A k \in Tier : set[k] = memory.set[k]
    BY <2>1, <2>2 DEF Values, Said
  <2>4. memory' = [memory EXCEPT !.set = set]  BY <1>2
  <2> HIDE DEF set
  <2>5. QED  BY <1>0, <2>3, <2>4 DEF Snapshot
<1>6. Serving' = Serving  BY <1>0, <1>2, <1>5, NotNone DEF Serving, ServedBy, Running
<1>7. ~past.crossed => /\ \A k \in Key : memory'.set[k] = Value(q.base, Serving, k)
                       /\ memory'.set = Resolved(q.base, Serving)
                       /\ Resolves(q.base, Serving, q.base.cross)
  <2>1. ASSUME ~past.crossed PROVE \A k \in Key : memory'.set[k] = Value(q.base, Serving, k)
    BY <1>0, <1>5, <2>1 DEF OnTheWay, Key
  <2>2. (\A k \in Key : memory'.set[k] = Value(q.base, Serving, k))
          => memory'.set = Resolved(q.base, Serving)
    BY <1>5 DEF Resolved, Snapshot, Values
  <2>3. QED  BY <1>0, <2>1, <2>2 DEF OnTheWay
<1>8. ASSUME Mid(c) PROVE q.base = file /\ memory'.cross = file.cross
  BY <1>0, <1>4, <1>5, <1>8 DEF Mid
<1>9. q.op # "switch" => Whole(q.base)  BY <1>0 DEF OnTheWay, InForce
<1>10. ASSUME Ours, Sound(file), Mid(c) PROVE Sound(file)' /\ Judged(Serving)'
  <2>1. CASE q.op = "switch"
    <3>1. q.account = Serving  BY <1>0, <1>10, <2>1 DEF OnTheWay, Ours, Serving, ServedBy
    <3>2. Resolves(file, Mapped(Serving), file.cross)
      BY <1>7, <1>8, <1>10, MappedValues DEF Ours
    <3>3. past'.unjudged = past.unjudged \ {Mapped(Serving)}  BY <1>3, <2>1, <3>1
    <3>4. Unresolved(file) \subseteq past'.unjudged
      BY <1>10, <3>2, <3>3 DEF Sound, Unresolved
    <3>5. QED  BY <1>2, <1>6, <1>10, <3>3, <3>4 DEF Sound, Unresolved, CeilingsParse, Judged
  <2>2. CASE q.op # "switch"
    <3>1. past'.unjudged = {} /\ Whole(file)  BY <1>3, <1>8, <1>9, <1>10, <2>2
    <3>2. QED
      BY <1>2, <1>10, <3>1 DEF Sound, Whole, AllResolve, Unresolved, CeilingsParse, Judged
  <2>3. QED  BY <2>1, <2>2
<1>11. CASE q.op = "switch"
  <2>1. Asked(r) /\ r.pc = "idle"  BY <1>11, Answered
  <2> HIDE DEF r
  <2>2. OnTheWay(c)' /\ Mid(c)'  BY <1>1, <2>1 DEF OnTheWay, InForce, Mid
  <2>3. ASSUME Ours, Sound(file), Mid(c) PROVE Agrees(file)'
    <3>1. Judged(Serving)'  BY <1>10, <2>3
    <3>2. memory'.set = Resolved(file, Serving)  BY <1>7, <1>8, <2>3 DEF Ours
    <3>3. QED  BY <1>2, <1>6, <1>8, <2>3, <3>1, <3>2 DEF Agrees, Written
  <2>4. QED
    BY <1>0, <1>1, <1>2, <1>3, <1>5, <1>10, <2>1, <2>2, <2>3, GoesOn
<1>12. CASE q.op # "switch"
  <2>1. /\ DOMAIN r = DOMAIN Idle /\ r.pc = "consent" /\ r.op = q.op /\ r.key = q.key
        /\ r.value = q.value /\ r.persist = q.persist /\ r.base = q.base
        /\ r.account = q.account /\ r.now = q.now /\ r.held = q.held
    BY <1>0, <1>12 DEF Idle
  <2> HIDE DEF r
  <2>2. Asked(r)  BY <1>0, <1>4, <1>12, <2>1, StageGoes DEF Stages, InForce
  <2>3. OnTheWay(c)'
    <3>1. Whole(client[c].base)'
      BY <1>1, <1>9, <1>12, <2>1 DEF Whole, AllResolve, Unresolved
    <3>2. ~past.crossed => client'[c].base = q.base /\ memory'.set = Resolved(q.base, Serving)
      BY <1>1, <1>7, <2>1
    <3>3. past'.unjudged = {}  BY <1>3, <1>12
    <3>4. QED  BY <1>1, <1>3, <1>4, <1>6, <1>12, <2>1, <3>1, <3>2, <3>3 DEF OnTheWay
  <2>4. ASSUME Ours, Sound(file), Mid(c) PROVE Mid(c)'
    <3>1. Holds(client[c])'
      BY <1>1, <1>2, <1>6, <1>7, <1>8, <1>10, <2>1, <2>4 DEF Holds, Ours
    <3>2. QED  BY <1>1, <1>2, <1>4, <1>8, <1>12, <2>1, <2>4, <3>1 DEF Mid
  <2>5. r.pc # "idle"  BY <2>1
  <2>6. QED
    BY <1>0, <1>1, <1>2, <1>3, <1>5, <1>10, <2>2, <2>3, <2>4, <2>5, GoesOn
<1>13. QED  BY <1>11, <1>12

\* A reload is done: what it put in force is what the file says, if no one else has
\* written it since, whatever was foreign before.
LEMMA ConsentStep == ASSUME Inv, NEW c \in Client, Consent(c) PROVE Inv'
<1> DEFINE q == client[c]
           r == [Idle EXCEPT !.op = @, !.said = "ok"]
<1>0. /\ Running /\ q.pc = "consent" /\ memory \in Snapshot /\ file \in Doc
      /\ pending \in Doc \cup {None} /\ selection \in Account /\ past \in History
      /\ login \in [Login -> SignIn] /\ DOMAIN client = Client
      /\ Asked(q) /\ OnTheWay(c) /\ DOMAIN q = DOMAIN Idle
  BY AtIs DEF Consent
<1>1. client' = [client EXCEPT ![c] = r] /\ client'[c] = r
  BY <1>0 DEF Consent, Says
<1>2. /\ UNCHANGED <<file, pending, selection, login>>
      /\ memory' = [memory EXCEPT !.cross = q.base.cross]
  BY DEF Consent, document
<1>3. /\ past' \in History /\ past'.crossed = past.crossed /\ past'.unsaved = past.unsaved
      /\ past'.foreign <=> past.foreign /\ (Writing \/ file # q.base)
      /\ past'.unjudged = past.unjudged
  <2> DEFINE foreign == past.foreign /\ (Writing \/ file # q.base)
  <2>1. past' = [past EXCEPT !.foreign = foreign]  BY DEF Consent
  <2>2. foreign \in BOOLEAN  OBVIOUS
  <2> HIDE DEF foreign
  <2>3. /\ past' \in History /\ past'.crossed = past.crossed /\ past'.unsaved = past.unsaved
        /\ past'.foreign = foreign /\ past'.unjudged = past.unjudged
    BY <1>0, <2>1, <2>2 DEF History
  <2>4. QED  BY <2>3 DEF foreign
<1>4. q.op \in {"remove", "reload"} /\ q.base \in Doc
  BY <1>0 DEF Asked, Stages, AtTheFile, InForce
<1>5. /\ memory' \in Snapshot /\ memory'.profiles = memory.profiles
      /\ memory'.cross = q.base.cross /\ memory'.set = memory.set
  BY <1>0, <1>2, <1>4 DEF Snapshot, Doc
<1>6. Serving' = Serving  BY <1>0, <1>2, <1>5, NotNone DEF Serving, ServedBy, Running
<1>7. Asked(r) /\ r.pc = "idle"  BY Answered
<1> HIDE DEF r
<1>8. OnTheWay(c)' /\ Mid(c)'  BY <1>1, <1>7 DEF OnTheWay, InForce, Mid
<1>9. ASSUME Ours', ~Writing PROVE Sound(file)' /\ Agrees(file)'
  <2>1. file = q.base
    <3>1. CASE past.foreign  BY <1>3, <1>9, <3>1 DEF Ours
    <3>2. CASE ~past.foreign
      <4>1. Mid(c)  BY <1>0, <1>3, <1>9, <3>2, InTheMiddle DEF Ours
      <4>2. QED  BY <1>0, <4>1 DEF Mid
    <3>3. QED  BY <3>1, <3>2
  <2>2. Sound(file)  BY <1>0, <1>4, <2>1, WholeIsSound DEF OnTheWay, InForce
  <2>3. memory.set = Resolved(file, Serving) /\ past.unjudged = {}
    BY <1>0, <1>3, <1>9, <2>1 DEF OnTheWay, Ours
  <2>4. Written(file, Serving)'
    BY <1>2, <1>3, <1>5, <1>6, <2>3 DEF Written, Judged
  <2>5. QED  BY <1>2, <1>3, <1>5, <2>1, <2>2, <2>4, SoundStays DEF Agrees
<1>10. ~past'.foreign => ~past.foreign \/ ~Writing  BY <1>3
<1>11. q.pc # "idle"  BY <1>0
<1>12. QED
  BY <1>0, <1>1, <1>2, <1>3, <1>5, <1>7, <1>8, <1>9, <1>10, <1>11, ClientStep

-----------------------------------------------------------------------------
(* A step of a login, and of others. *)

\* The requests are where they were, and so is what has been judged.
Aside == /\ UNCHANGED <<pending, inForce, client>> /\ past'.crossed = past.crossed
         /\ past'.unsaved = past.unsaved /\ past'.unjudged = past.unjudged

LEMMA Elsewhere ==
  ASSUME Inv, Aside, file' \in Doc, past' \in History, login' \in [Login -> SignIn], FileInv'
  PROVE  Inv'
<1>1. UNCHANGED <<pending, memory, selection, client>> /\ Serving' = Serving
  BY DEF Aside, inForce, Serving, ServedBy, Running
<1>2. TypeOK'  BY <1>1 DEF Inv, TypeOK
<1>3. ASSUME NEW c \in Client PROVE OnTheWay(c)'
  <2>1. OnTheWay(c)  BY DEF Inv, AloneInv
  <2>2. Whole(client[c].base)' <=> Whole(client[c].base)
    BY <1>1 DEF Whole, AllResolve, Unresolved
  <2>3. AppliesNow(client[c].account)' <=> AppliesNow(client[c].account)
    BY <1>1 DEF AppliesNow
  <2>4. QED  BY <1>1, <2>1, <2>2, <2>3 DEF OnTheWay, Aside
<1>4. AloneInv'  BY <1>1, <1>3 DEF Inv, AloneInv, Running, Busy, Aside
<1>5. QED  BY <1>2, <1>4 DEF Inv

\* What is in force agrees with what it agreed with.
LEMMA InForceStays ==
  ASSUME Aside
  PROVE  /\ \A doc : file' = doc =>
              (Sound(file)' <=> Sound(doc)) /\ (Agrees(file)' <=> Agrees(doc))
         /\ \A l \in Login : \A doc : login'[l].content = doc =>
              /\ Sound(login[l].content)' <=> Sound(doc)
              /\ Agrees(login[l].content)' <=> Agrees(doc)
         /\ Busy' <=> Busy
         /\ file' = file => \A c \in Client : Mid(c) => Mid(c)'
<1>1. UNCHANGED <<pending, memory, selection, client>> /\ Serving' = Serving
      /\ (Running' <=> Running) /\ past'.unjudged = past.unjudged /\ past'.unsaved = past.unsaved
  BY DEF Aside, inForce, Serving, ServedBy, Running
<1>2. \A doc : file' = doc =>
        (Sound(file)' <=> Sound(doc)) /\ (Agrees(file)' <=> Agrees(doc))
  BY <1>1 DEF Sound, CeilingsParse, Unresolved, Agrees, Written, Judged
<1>3. ASSUME NEW l \in Login, NEW doc, login'[l].content = doc
      PROVE  /\ Sound(login[l].content)' <=> Sound(doc)
             /\ Agrees(login[l].content)' <=> Agrees(doc)
  BY <1>1, <1>3 DEF Sound, CeilingsParse, Unresolved, Agrees, Written, Judged
<1>4. Busy' <=> Busy  BY <1>1 DEF Busy
<1>5. ASSUME file' = file, NEW c \in Client, Mid(c) PROVE Mid(c)'
  <2>1. \A k : Between(client[c], k)' <=> Between(client[c], k)
    BY <1>1 DEF Between, AppliesNow
  <2>2. Fits(client[c])' <=> Fits(client[c])
    BY <1>1, <1>5 DEF Fits, AppliesNow
  <2>3. Holds(client[c])' <=> Holds(client[c])
    BY <1>1, <1>5, <2>1 DEF Holds, Written, Judged, ServedBy
  <2>4. Between(client[c], client[c].key)' <=> Between(client[c], client[c].key)
    BY <1>1 DEF Between, AppliesNow
  <2>5. QED  BY <1>1, <1>5, <2>2, <2>3, <2>4 DEF Mid
<1>6. QED  BY <1>2, <1>3, <1>4, <1>5

\* A login that begins nothing of the file, or gives up.
LEMMA LoginQuiet ==
  ASSUME Inv, NEW l \in Login, NEW m \in SignIn, login' = [login EXCEPT ![l] = m],
         m.pc \notin {"read", "truncated"}, UNCHANGED document, Aside, past' \in History,
         Ours' => ~past.foreign /\ login[l].pc # "truncated"
  PROVE  Inv'
<1>1. UNCHANGED <<file, pending>> /\ file \in Doc /\ login \in [Login -> SignIn]
  BY DEF document, Inv, TypeOK
<1>2. login' \in [Login -> SignIn] /\ ~Writes(l)' /\ \A k \in Login \ {l} : login'[k] = login[k]
  BY <1>1 DEF Writes
<1>3. FileInv'
  <2> SUFFICES ASSUME Ours' PROVE FileInv'
    BY DEF FileInv
  <2>1. Ours /\ login[l].pc # "truncated"  BY DEF Ours, Aside
  <2>2. (Truncated' => Truncated) /\ (Truncated => Truncated') /\ (Writing' => Writing)
    BY <1>2, <2>1 DEF Truncated, Writing, Writes
  <2>3. \A k \in Login : Writes(k)' => Writes(k) /\ login'[k] = login[k]
    BY <1>2 DEF Writes
  <2>4. ~Truncated' => Sound(file)' /\ (Busy' \/ Agrees(file)') /\ \A c \in Client : Mid(c)'
    BY <1>1, <2>1, <2>2, InForceStays DEF Inv, FileInv
  <2>5. ASSUME NEW k \in Login, Writes(k)'
        PROVE  /\ Sound(login[k].content)' /\ Agrees(login[k].content)'
               /\ login'[k].pc = "truncated" => ~login'[k].unlinked
    <3>1. /\ Sound(login[k].content) /\ Agrees(login[k].content)
          /\ login[k].pc = "truncated" => ~login[k].unlinked
          /\ login'[k] = login[k]
      BY <2>1, <2>3, <2>5 DEF Inv, FileInv
    <3>2. QED  BY <3>1, InForceStays
  <2>6. (Writing' => ~Busy') /\ \A k, j \in Login : Writes(k)' /\ Writes(j)' => k = j
    <3>1. /\ Writing => ~Busy
          /\ \A k, j \in Login : Writes(k) /\ Writes(j) => k = j
      BY <2>1 DEF Inv, FileInv
    <3>2. Busy' => Busy  BY InForceStays
    <3>3. QED  BY <2>2, <2>3, <3>1, <3>2
  <2>7. QED  BY <2>4, <2>5, <2>6 DEF FileInv
<1>4. QED  BY <1>1, <1>2, <1>3, Elsewhere

LEMMA LoginTypes ==
  ASSUME Inv, NEW l \in Login
  PROVE  login[l] \in SignIn /\ login \in [Login -> SignIn] /\ file \in Doc /\ past \in History
  BY DEF Inv, TypeOK

LEMMA PlanStep == ASSUME Inv, NEW l \in Login, Plan(l) PROVE Inv'
<1>0. login[l].pc = "idle" /\ file \in Doc /\ past \in History
  BY LoginTypes DEF Plan
<1>1. PICK name \in Name \ file.profiles :
        login' = [login EXCEPT ![l] = [Away EXCEPT !.pc = "signing", !.name = name,
                    !.keep = file.profiles = {}]]
  BY DEF Plan
<1> DEFINE m == [Away EXCEPT !.pc = "signing", !.name = name, !.keep = file.profiles = {}]
<1>2. m \in SignIn /\ m.pc = "signing"
  BY EmptyDoc DEF Away, SignIn
<1> HIDE DEF m
<1>3. /\ past' = [past EXCEPT !.asks = @ + 1] /\ UNCHANGED <<document, inForce, client>>
      /\ login' = [login EXCEPT ![l] = m]
  BY <1>1 DEF Plan, m
<1>4. past' \in History /\ Aside /\ past'.foreign = past.foreign
  BY <1>0, <1>3 DEF History, Aside, document
<1>5. QED  BY <1>0, <1>2, <1>3, <1>4, LoginQuiet DEF Ours

LEMMA NotSignedInStep == ASSUME Inv, NEW l \in Login, NotSignedIn(l) PROVE Inv'
<1>1. /\ login[l].pc = "signing" /\ login' = [login EXCEPT ![l] = Away]
      /\ UNCHANGED <<document, inForce, client>> /\ past' = past /\ past \in History
  BY LoginTypes DEF NotSignedIn
<1>2. Aside  BY <1>1 DEF Aside, document
<1>3. QED  BY <1>1, <1>2, EmptyDoc, LoginQuiet DEF Ours

LEMMA LoginDiesStep == ASSUME Inv, NEW l \in Login, LoginDies(l) PROVE Inv'
<1> DEFINE foreign == past.foreign \/ login[l].pc = "truncated"
<1>1. /\ login' = [login EXCEPT ![l] = Away]
      /\ UNCHANGED <<document, inForce, client>> /\ past \in History
      /\ past' = [past EXCEPT !.events = @ + 1, !.foreign = foreign]
  BY LoginTypes DEF LoginDies
<1>2. foreign \in BOOLEAN  OBVIOUS
<1> HIDE DEF foreign
<1>3. past' \in History /\ Aside /\ past'.foreign = foreign
  <2>1. past.events + 1 \in Nat  BY <1>1 DEF History
  <2>2. QED  BY <1>1, <1>2, <2>1 DEF History, Aside, document
<1>4. Ours' => ~past.foreign /\ login[l].pc # "truncated"
  BY <1>3 DEF Ours, foreign
<1>5. QED  BY <1>1, <1>3, <1>4, EmptyDoc, LoginQuiet

\* The document is read as nobody else is at it, or what follows is foreign.
LEMMA SignedInStep == ASSUME Inv, NEW l \in Login, SignedIn(l) PROVE Inv'
<1> DEFINE kept == IF login[l].keep THEN Signed \ {login[l].name} ELSE {}
           added == kept \cup {login[l].name}
           foreign == past.foreign \/ Busy \/ Writing
           content == AddProfiles(file, added)
           m == [login[l] EXCEPT !.pc = "read", !.base = file, !.content = content]
<1>0. /\ login[l] \in SignIn /\ login \in [Login -> SignIn] /\ file \in Doc /\ past \in History
      /\ login[l].pc = "signing"
  BY LoginTypes DEF SignedIn
<1>1. /\ past' = [past EXCEPT !.foreign = foreign] /\ UNCHANGED <<document, inForce, client>>
      /\ login' = IF added \cap file.profiles # {} THEN [login EXCEPT ![l] = Away]
                  ELSE [login EXCEPT ![l] = m]
  BY DEF SignedIn
<1>2. past' \in History /\ Aside /\ (past'.foreign <=> foreign)
  <2>1. foreign \in BOOLEAN  OBVIOUS
  <2> HIDE DEF foreign
  <2>2. QED  BY <1>0, <1>1, <2>1 DEF History, Aside, document
<1>3. CASE login' = [login EXCEPT ![l] = Away]
  BY <1>0, <1>1, <1>2, <1>3, EmptyDoc, LoginQuiet DEF Ours
<1>4. CASE login' = [login EXCEPT ![l] = m]
  <2>1. /\ content.top = file.top /\ content.of = file.of /\ content.cross = file.cross
        /\ content.parses = file.parses
    BY <1>0 DEF AddProfiles, Doc
  <2>2. content \in Doc
    <3>1. login[l].name \in Name  BY <1>0 DEF SignIn
    <3>2. added \subseteq Found \cup Name  BY <3>1, SettingsAssumption
    <3> HIDE DEF added
    <3>3. QED  BY <1>0, <3>2 DEF AddProfiles, Doc
  <2> HIDE DEF content
  <2>3. /\ m \in SignIn /\ m.pc = "read" /\ m.content = content /\ ~m.unlinked
    BY <1>0, <2>2 DEF SignIn
  <2> HIDE DEF m
  <2>4. /\ login' \in [Login -> SignIn] /\ login'[l] = m
        /\ \A k \in Login \ {l} : login'[k] = login[k]
    BY <1>0, <1>4, <2>3
  <2>5. UNCHANGED <<file, pending>>  BY <1>1 DEF document
  <2>6. FileInv'
    <3> SUFFICES ASSUME Ours' PROVE FileInv'
      BY DEF FileInv
    <3>1. Ours /\ ~Busy /\ ~Writing  BY <1>2 DEF Ours, Aside
    <3>2. Sound(file) /\ Agrees(file) /\ \A c \in Client : Mid(c)
      BY <3>1 DEF Inv, FileInv, Truncated, Writing
    <3>3. \A k \in Login : Writes(k)' => k = l
      BY <2>4, <3>1 DEF Writing, Writes
    <3>4. ~Truncated' /\ ~Busy'
      BY <1>1, <2>3, <2>4, <3>1 DEF Writing, Truncated, Busy
    <3>5. Sound(file)' /\ Agrees(file)' /\ \A c \in Client : Mid(c)'
      BY <1>2, <2>5, <3>2, InForceStays
    <3>6. Sound(content) /\ Agrees(content)
      BY <2>1, <3>2, SameSound
    <3>7. Sound(login[l].content)' /\ Agrees(login[l].content)'
      BY <1>2, <2>3, <2>4, <3>6, InForceStays
    <3>8. QED
      BY <2>3, <2>4, <3>3, <3>4, <3>5, <3>7 DEF FileInv
  <2>7. QED  BY <1>0, <1>2, <2>4, <2>5, <2>6, Elsewhere
<1>5. QED  BY <1>1, <1>3, <1>4

LEMMA TruncateStep == ASSUME Inv, NEW l \in Login, Truncate(l) PROVE Inv'
<1> DEFINE m == [login[l] EXCEPT !.pc = "truncated"]
<1>0. /\ login[l] \in SignIn /\ login \in [Login -> SignIn] /\ file \in Doc /\ past \in History
      /\ login[l].pc = "read" /\ ~login[l].unlinked
  BY LoginTypes DEF Truncate, SignIn
<1>1. /\ file' = Empty /\ UNCHANGED <<pending, inForce, client, past>>
      /\ login' = [login EXCEPT ![l] = m]
  BY DEF Truncate
<1>2. m \in SignIn /\ m.pc = "truncated" /\ m.content = login[l].content /\ ~m.unlinked
  BY <1>0 DEF SignIn
<1> HIDE DEF m
<1>3. /\ login' \in [Login -> SignIn] /\ login'[l] = m
      /\ \A k \in Login \ {l} : login'[k] = login[k]
  BY <1>0, <1>1, <1>2
<1>4. Aside  BY <1>1 DEF Aside
<1>5. FileInv'
  <2> SUFFICES ASSUME Ours' PROVE FileInv'
    BY DEF FileInv
  <2>1. Ours /\ Writes(l)  BY <1>0, <1>1 DEF Ours, Writes
  <2>2. ~Busy /\ \A k \in Login : Writes(k) => k = l
    BY <2>1 DEF Inv, FileInv, Writing, Writes
  <2>3. Sound(login[l].content) /\ Agrees(login[l].content)
    BY <2>1 DEF Inv, FileInv
  <2>4. ~Busy' /\ Truncated' /\ \A k \in Login : Writes(k)' => k = l
    BY <1>1, <1>2, <1>3, <2>2 DEF Busy, Truncated, Writes
  <2>5. Sound(login[l].content)' /\ Agrees(login[l].content)'
    BY <1>2, <1>3, <1>4, <2>3, InForceStays
  <2>6. QED
    BY <1>2, <1>3, <2>4, <2>5 DEF FileInv
<1>6. QED  BY <1>0, <1>1, <1>3, <1>4, <1>5, EmptyDoc, Elsewhere

\* What was read is written, with what the login added, where the file is as it was.
LEMMA WriteStep == ASSUME Inv, NEW l \in Login, Write(l) PROVE Inv'
<1>0. /\ login[l] \in SignIn /\ login \in [Login -> SignIn] /\ file \in Doc /\ past \in History
      /\ login[l].pc = "truncated"
  BY LoginTypes DEF Write
<1>1. /\ file' = IF login[l].unlinked THEN file ELSE login[l].content
      /\ UNCHANGED <<pending, inForce, client, past>>
      /\ login' = [login EXCEPT ![l] = Away]
  BY DEF Write
<1>2. /\ login' \in [Login -> SignIn] /\ login'[l] = Away /\ Away.pc = "idle"
      /\ \A k \in Login \ {l} : login'[k] = login[k]
      /\ file' \in Doc
  BY <1>0, <1>1, EmptyDoc DEF SignIn
<1>3. Aside  BY <1>1 DEF Aside
<1>4. FileInv'
  <2> SUFFICES ASSUME Ours' PROVE FileInv'
    BY DEF FileInv
  <2>1. Ours /\ Writes(l)  BY <1>0, <1>1 DEF Ours, Writes
  <2>2. ~Busy /\ \A k \in Login : Writes(k) => k = l
    BY <2>1 DEF Inv, FileInv, Writing, Writes
  <2>3. Sound(login[l].content) /\ Agrees(login[l].content) /\ ~login[l].unlinked
    BY <1>0, <2>1 DEF Inv, FileInv
  <2>4. ~Busy' /\ ~Writing' /\ \A k \in Login : ~Writes(k)'
    BY <1>1, <1>2, <2>2 DEF Busy, Writes, Writing
  <2>5. Sound(file)' /\ Agrees(file)'
    BY <1>1, <1>3, <2>3, InForceStays
  <2>6. \A c \in Client : Mid(c)'  BY <2>4 DEF Mid, Busy
  <2>7. QED  BY <2>4, <2>5, <2>6 DEF FileInv
<1>5. QED  BY <1>0, <1>1, <1>2, <1>3, <1>4, Elsewhere

LEMMA EditStep == ASSUME Inv, Edit PROVE Inv'
<1>1. PICK doc \in EditorDocs : file' = doc
  BY DEF Edit
<1>2. file' \in Doc  BY <1>1, SettingsAssumption
<1>3. /\ past' = [past EXCEPT !.events = @ + 1, !.foreign = TRUE] /\ past \in History
      /\ login' = [l \in Login |-> [login[l] EXCEPT !.unlinked = login[l].pc = "truncated"]]
      /\ login \in [Login -> SignIn] /\ UNCHANGED <<pending, inForce, client>>
  BY DEF Edit, Inv, TypeOK
<1>4. past' \in History /\ Aside /\ past'.foreign
  <2>1. past.events + 1 \in Nat  BY <1>3 DEF History
  <2>2. QED  BY <1>3, <2>1 DEF History, Aside
<1>5. login' \in [Login -> SignIn]
  <2>1. ASSUME NEW l \in Login
        PROVE  [login[l] EXCEPT !.unlinked = login[l].pc = "truncated"] \in SignIn
    BY <1>3 DEF SignIn
  <2>2. QED  BY <1>3, <2>1
<1>6. FileInv'  BY <1>4 DEF FileInv, Ours
<1>7. QED  BY <1>2, <1>4, <1>5, <1>6, Elsewhere

\* A crash leaves the file, and nothing in force.
LEMMA CrashStep == ASSUME Inv, Crash PROVE Inv'
<1>1. /\ memory' = None /\ client' = [c \in Client |-> Idle]
      /\ past' = [past EXCEPT !.events = @ + 1] /\ past \in History
      /\ UNCHANGED <<file, pending, selection, login>>
  BY DEF Crash, document, Inv, TypeOK
<1>2. /\ past' \in History /\ past'.crossed = past.crossed /\ past'.unsaved = past.unsaved
      /\ past'.foreign = past.foreign /\ past'.unjudged = past.unjudged
  <2>1. past.events + 1 \in Nat  BY <1>1 DEF History
  <2>2. QED  BY <1>1, <2>1 DEF History
<1>3. \A c \in Client : client'[c].pc = "idle" /\ Asked(client'[c])
  BY <1>1, IdleAsked
<1>4. ~Running' /\ ~Busy'  BY <1>1, <1>3 DEF Running, Busy
<1>5. TypeOK'  BY <1>1, <1>2, <1>3 DEF Inv, TypeOK
<1>6. \A c \in Client : OnTheWay(c)' /\ Mid(c)'  BY <1>3 DEF OnTheWay, InForce, Mid
<1>7. AloneInv'  BY <1>3, <1>4, <1>6 DEF AloneInv
<1>8. FileInv'
  <2> SUFFICES ASSUME Ours' PROVE FileInv'
    BY DEF FileInv
  <2>1. Ours  BY <1>2 DEF Ours
  <2>2. /\ \A l, m \in Login : Writes(l) /\ Writes(m) => l = m
        /\ ~Truncated => Sound(file)
        /\ \A l \in Login : Writes(l) =>
             /\ Sound(login[l].content)
             /\ login[l].pc = "truncated" => ~login[l].unlinked
    BY <2>1 DEF Inv, FileInv
  <2>3. /\ (\A l, m \in Login : Writes(l) /\ Writes(m) => l = m)'
        /\ (~Truncated)' => ~Truncated
    BY <1>1, <2>2 DEF Writes, Truncated
  <2>4. Sound(file) => Sound(file)'  BY <1>1, <1>2, SoundStays
  <2>5. ASSUME NEW l \in Login, Writes(l)'
        PROVE  Sound(login[l].content)' /\ (login'[l].pc = "truncated" => ~login'[l].unlinked)
    <3>1. Sound(login[l].content) /\ (login[l].pc = "truncated" => ~login[l].unlinked)
      BY <1>1, <2>2, <2>5 DEF Writes
    <3>2. QED  BY <1>1, <1>2, <3>1 DEF Sound, CeilingsParse, Unresolved
  <2>6. Agrees(file)' /\ (\A l \in Login : Agrees(login[l].content))'
    BY <1>4 DEF Agrees
  <2>7. QED  BY <1>4, <1>6, <2>2, <2>3, <2>4, <2>5, <2>6 DEF FileInv
<1>9. QED  BY <1>5, <1>7, <1>8 DEF Inv

\* A start puts in force what the file says, of whoever will serve.
LEMMA StartStep == ASSUME Inv, Start PROVE Inv'
<1> DEFINE foreign == Writing \/ ~CeilingsParse(file)
           unjudged == Unresolved(file)
<1>1. /\ ~Running /\ Starts(file) /\ memory' = Held(file)
      /\ past' = [past EXCEPT !.unsaved = FALSE, !.crossed = FALSE, !.foreign = foreign,
                              !.unjudged = unjudged]
      /\ past \in History
      /\ UNCHANGED <<file, pending, selection, client, login>> /\ file \in Doc
  BY DEF Start, document, Inv, TypeOK
<1>2. /\ past' \in History /\ ~past'.unsaved /\ (past'.foreign <=> foreign)
      /\ past'.unjudged = unjudged
  <2>1. foreign \in BOOLEAN /\ unjudged \subseteq Everyone  BY DEF Unresolved
  <2> HIDE DEF foreign, unjudged
  <2>2. QED  BY <1>1, <2>1 DEF History
<1>3. ~Busy /\ ~Busy' /\ \A c \in Client : client'[c].pc = "idle"
  BY <1>1 DEF Inv, AloneInv, Busy
<1>4. /\ memory' \in Snapshot /\ memory'.cross = file.cross
      /\ memory'.profiles = ReadFrom(file) /\ memory'.set = Resolved(file, WillServe(file))
  BY <1>1, ReadIsAccount
<1>5. Running'  BY <1>4, NotNone DEF Running
<1>6. Serving' = WillServe(file)
  BY <1>1, <1>4, <1>5 DEF Serving, ServedBy, WillServe
<1>7. TypeOK'  BY <1>1, <1>2, <1>4 DEF Inv, TypeOK
<1>8. \A c \in Client : OnTheWay(c)' /\ Mid(c)'  BY <1>3 DEF OnTheWay, InForce, Mid
<1>9. AloneInv'  BY <1>3, <1>5, <1>8 DEF AloneInv
<1>10. FileInv'
  <2> SUFFICES ASSUME Ours' PROVE FileInv'
    BY DEF FileInv
  <2>1. ~Writing /\ ~Writing' /\ CeilingsParse(file)  BY <1>1, <1>2 DEF Ours, Writing
  <2>2. Sound(file)'
    BY <1>1, <1>2, <2>1 DEF Sound, CeilingsParse, Unresolved, Starts
  <2>3. Mapped(WillServe(file)) \notin Unresolved(file)
    BY <1>1, MappedValues DEF Starts, Unresolved
  <2>4. Agrees(file)'
    BY <1>1, <1>2, <1>4, <1>6, <2>3 DEF Agrees, Written, Judged
  <2>5. \A l \in Login : ~Writes(l)'  BY <2>1 DEF Writing, Writes
  <2>6. QED  BY <1>8, <2>1, <2>2, <2>4, <2>5 DEF FileInv
<1>11. QED  BY <1>7, <1>9, <1>10 DEF Inv

-----------------------------------------------------------------------------
(* The theorems. *)

LEMMA InitInv == Init => Inv
<1> SUFFICES ASSUME Init PROVE Inv
  OBVIOUS
<1>1. /\ file \in Doc /\ Starts(file) /\ pending = None
      /\ memory = Held(file) /\ client = [c \in Client |-> Idle] /\ login = [l \in Login |-> Away]
      /\ selection \in KeyAccount \cup ReadFrom(file)
      /\ ~past.unsaved /\ ~past.crossed /\ past \in History
      /\ past.foreign <=> ~CeilingsParse(file)
      /\ past.unjudged = Unresolved(file)
  <2> DEFINE foreign == ~CeilingsParse(file)
             unjudged == Unresolved(file)
  <2>1. past = [asks |-> 0, events |-> 0, unsaved |-> FALSE, crossed |-> FALSE,
                foreign |-> foreign, unjudged |-> unjudged]
    BY DEF Init
  <2>2. foreign \in BOOLEAN /\ unjudged \subseteq Everyone  BY DEF Unresolved
  <2> HIDE DEF foreign, unjudged
  <2>3. past \in History /\ ~past.unsaved /\ ~past.crossed /\ past.foreign = foreign
        /\ past.unjudged = unjudged
    BY <2>1, <2>2 DEF History
  <2>4. QED  BY <2>3, SettingsAssumption DEF Init, foreign, unjudged
<1>2. /\ memory \in Snapshot /\ ReadFrom(file) \subseteq Found \cup Name
      /\ memory.set = Resolved(file, WillServe(file)) /\ memory.cross = file.cross
      /\ memory.profiles = ReadFrom(file)
  BY <1>1, ReadIsAccount
<1>3. Running /\ Serving = WillServe(file)
  BY <1>1, <1>2, NotNone DEF Running, Serving, ServedBy, WillServe
<1>4. \A c \in Client : client[c].pc = "idle" /\ Asked(client[c])  BY <1>1, IdleAsked
<1>5. \A l \in Login : login[l] \in SignIn /\ login[l].pc = "idle"  BY <1>1, EmptyDoc
<1>6. TypeOK  BY <1>1, <1>2, <1>4, <1>5 DEF TypeOK, Account
<1>7. AloneInv  BY <1>3, <1>4 DEF AloneInv, OnTheWay, InForce
<1>8. Ours => Sound(file) /\ Agrees(file)
  <2>1. Mapped(WillServe(file)) \notin Unresolved(file)
    BY <1>1, MappedValues DEF Starts, Unresolved
  <2>2. QED  BY <1>1, <1>2, <1>3, <2>1 DEF Ours, Sound, Starts, Agrees, Written, Judged
<1>9. FileInv  BY <1>4, <1>5, <1>8 DEF FileInv, Writing, Writes, Mid
<1>10. QED  BY <1>6, <1>7, <1>9 DEF Inv

LEMMA StepInv == Inv /\ [Next]_vars => Inv'
<1> SUFFICES ASSUME Inv, [Next]_vars PROVE Inv'
  OBVIOUS
<1>1. CASE UNCHANGED vars
  <2>1. UNCHANGED <<document, inForce, client, login, past>>  BY <1>1 DEF vars
  <2>2. UNCHANGED <<file, pending, memory, selection>>  BY <2>1 DEF document, inForce
  <2>3. Aside  BY <2>1, <2>2 DEF Aside
  <2>4. FileInv'
    <3> SUFFICES ASSUME Ours' PROVE FileInv'
      BY DEF FileInv
    <3>1. Ours /\ (Writing' <=> Writing) /\ (Truncated' <=> Truncated)
      BY <2>1 DEF Ours, Writing, Truncated
    <3>2. ASSUME NEW l \in Login
          PROVE  /\ Writes(l)' <=> Writes(l)
                 /\ Sound(login[l].content)' <=> Sound(login[l].content)
                 /\ Agrees(login[l].content)' <=> Agrees(login[l].content)
      BY <2>1, <2>3, InForceStays DEF Writes
    <3>3. /\ \A c \in Client : Mid(c) => Mid(c)'
          /\ Sound(file)' <=> Sound(file)
          /\ Agrees(file)' <=> Agrees(file)
          /\ Busy' <=> Busy
      BY <2>2, <2>3, InForceStays
    <3>4. QED  BY <2>1, <3>1, <3>2, <3>3 DEF Inv, FileInv
  <2>5. QED  BY <2>1, <2>2, <2>3, <2>4, Elsewhere DEF Inv, TypeOK
<1>2. CASE \E c \in Client : \/ AskSet(c) \/ AskConsent(c) \/ AskRemove(c) \/ AskReload(c)
                             \/ AskSwitch(c) \/ Target(c) \/ Document(c) \/ Open(c) \/ Fill(c)
                             \/ Move(c) \/ Effective(c) \/ Apply(c) \/ Reload(c) \/ Profiles(c)
                             \/ Mapping(c) \/ Ceiling(c) \/ Consent(c)
  BY <1>2, AskSetStep, AskConsentStep, AskRemoveStep, AskReloadStep, AskSwitchStep, TargetStep,
     DocumentStep, OpenStep, FillStep, MoveStep, EffectiveStep, ApplyStep, ReloadStep,
     ProfilesStep, MappingStep, CeilingStep, ConsentStep
<1>3. CASE \E l \in Login : \/ Plan(l) \/ SignedIn(l) \/ NotSignedIn(l) \/ Truncate(l) \/ Write(l)
                            \/ LoginDies(l)
  BY <1>3, PlanStep, SignedInStep, NotSignedInStep, TruncateStep, WriteStep, LoginDiesStep
<1>4. CASE Edit \/ Crash \/ Start  BY <1>4, EditStep, CrashStep, StartStep
<1>5. QED  BY <1>1, <1>2, <1>3, <1>4 DEF Next

\* The types, who is at the file, and what the file and the snapshot hold of one
\* another, in every reachable state (config/edit.rs, control/handler.rs).
THEOREM SettingsInvariant == Spec => []Inv
  BY InitInv, StepInv, PTL DEF Spec

\* What the daemon writes it can start from: in any document it leaves, every mapping
\* resolves but those a set that was not meant for them left two clashing tiers in, and
\* that of whoever serves does once all is saved; whatever was set, switched, reloaded,
\* refused or logged in, and whatever died where, unless another wrote the file or two
\* requests crossed (control/handler.rs, config/edit.rs, config.rs).
THEOREM FileRestartable == Spec => []Restartable
<1>1. ASSUME Inv PROVE Restartable
  <2> SUFFICES ASSUME Ours, ~Writing
               PROVE  /\ Unresolved(file) \subseteq past.unjudged
                      /\ Rests /\ ~past.unsaved => Resolves(file, Serving, file.cross)
    BY DEF Restartable, Ours
  <2>1. Sound(file) /\ (Busy \/ Agrees(file))
    BY <1>1 DEF Inv, FileInv, Truncated, Writing
  <2>2. Unresolved(file) \subseteq past.unjudged  BY <2>1 DEF Sound
  <2>3. ASSUME Rests, ~past.unsaved PROVE Resolves(file, Serving, file.cross)
    <3>1. Judged(Serving)  BY <2>1, <2>3 DEF Rests, Agrees, Written
    <3>2. QED  BY <2>1, <3>1, SoundForJudged
  <2>4. QED  BY <2>2, <2>3
<1>2. QED  BY <1>1, SettingsInvariant, PTL

\* And it would come up with the settings that are in force, once each request is
\* answered: a setting is written before it is applied, and applied as it was
\* written (control/handler.rs, set_tiers, set_effort, reload).
THEOREM RestartComesUpSame == Spec => []RestartAgrees
<1>1. Inv => RestartAgrees
  BY DEF Inv, FileInv, RestartAgrees, Rests, Ours, Truncated, Writing, Agrees, Written
<1>2. QED  BY <1>1, SettingsInvariant, PTL

\* What a step that answers a reload with a refusal has changed.
LEMMA RefusedStep ==
  ASSUME Inv, Next, NEW c \in Client, client[c].op = "reload", client[c].pc # "idle",
         client'[c].pc = "idle", client'[c].said = "refused", ~past.crossed
  PROVE  memory' = client[c].held
<1> DEFINE q == client[c]
<1>0. /\ q.pc \in InForce \cup {"reload"} /\ DOMAIN client = Client /\ OnTheWay(c)
      /\ Idle.said # "refused"
  BY SettingsAssumption DEF Inv, TypeOK, AloneInv, Asked, Stages, Idle
<1>1. ASSUME client'[c] = client[c] PROVE FALSE
  BY <1>1
<1>2. ASSUME NEW d \in Client, d # c, client'[c] # client[c],
             \/ \E r : client' = [client EXCEPT ![d] = r]
             \/ UNCHANGED client
      PROVE  FALSE
  BY <1>0, <1>2
<1>3. ASSUME NEW d \in Client,
             \/ AskSet(d) \/ AskConsent(d) \/ AskRemove(d) \/ AskReload(d)
             \/ AskSwitch(d)
      PROVE  FALSE
  <2>1. client[d].pc = "idle" /\ \E r : client' = [client EXCEPT ![d] = r]
    <3>1. client[d].pc = "idle"
      BY <1>3 DEF AskSet, AskConsent, AskRemove, AskReload, AskSwitch, At
    <3>2. \E request : Asks(d, request)
      <4>1. AskSet(d) => \E request : Asks(d, request)  BY Zenon DEF AskSet
      <4>2. QED  BY <1>3, <4>1, Zenon DEF AskConsent, AskRemove, AskReload, AskSwitch
    <3>3. QED  BY <3>1, <3>2 DEF Asks
  <2>2. QED  BY <1>0, <1>1, <2>1
<1>4. ASSUME NEW d \in Client,
             \/ Target(d) \/ Document(d) \/ Open(d) \/ Fill(d) \/ Move(d)
             \/ Effective(d) \/ Apply(d)
      PROVE  FALSE
  <2>1. /\ client[d].pc \in AtTheFile \cup {"target", "effective", "apply"}
        /\ \E r : client' = [client EXCEPT ![d] = r]
    BY <1>4 DEF Target, Document, Open, Fill, Move, Effective, Apply, At, Goto, Says, AtTheFile
  <2>2. d # c  BY <1>0, <2>1 DEF AtTheFile, InForce
  <2>3. QED  BY <1>0, <1>1, <2>1, <2>2
<1>5. ASSUME NEW d \in Client,
             Reload(d) \/ Profiles(d) \/ Mapping(d) \/ Ceiling(d) \/ Consent(d)
      PROVE  memory' = q.held
  <2>1. \E r : client' = [client EXCEPT ![d] = r]
    BY <1>5 DEF Reload, Profiles, Mapping, Ceiling, Consent, Goto, Says
  <2>2. d = c  BY <1>0, <1>1, <2>1
  <2>3. CASE Reload(c)
    <3>1. q.pc = "reload" /\ memory' = memory  BY <2>3 DEF Reload, At, inForce
    <3>2. QED  BY <1>0, <3>1 DEF OnTheWay
  <2>4. CASE Profiles(c)
    <3>1. client' = [client EXCEPT ![c].pc = "mapping"]  BY <2>4 DEF Profiles, Goto
    <3>2. client'[c].pc = "mapping"  BY <1>0, <3>1 DEF Inv, TypeOK, Asked, Idle
    <3>3. QED  BY <3>2
  <2>5. CASE Mapping(c)
    <3>1. q.pc = "mapping" /\ Whole(q.base)
      BY <1>0, <2>5 DEF Mapping, At, OnTheWay, InForce
    <3>2. Resolves(q.base, Serving, q.base.cross)  BY <3>1, WholeForAll
    <3>3. client' = [client EXCEPT ![c].pc = "ceiling", ![c].base = q.base,
                                   ![c].value = Value(q.base, Serving, "effort")]
      BY <2>5, <3>2 DEF Mapping
    <3>4. client'[c].pc = "ceiling"  BY <1>0, <3>3 DEF Inv, TypeOK, Asked, Idle
    <3>5. QED  BY <3>4
  <2>6. CASE Ceiling(c)
    <3>1. client' = [client EXCEPT ![c].pc = "consent"]  BY <2>6 DEF Ceiling, Goto
    <3>2. client'[c].pc = "consent"  BY <1>0, <3>1 DEF Inv, TypeOK, Asked, Idle
    <3>3. QED  BY <3>2
  <2>7. CASE Consent(c)
    <3>1. client'[c].said = "ok"  BY <1>0, <2>7 DEF Consent, Says, Idle
    <3>2. QED  BY <3>1
  <2>8. QED  BY <1>5, <2>2, <2>3, <2>4, <2>5, <2>6, <2>7
<1>6. ASSUME NEW l \in Login,
             \/ Plan(l) \/ SignedIn(l) \/ NotSignedIn(l) \/ Truncate(l) \/ Write(l) \/ LoginDies(l)
      PROVE  FALSE
  BY <1>1, <1>6 DEF Plan, SignedIn, NotSignedIn, Truncate, Write, LoginDies
<1>7. ~Edit /\ ~Start  BY <1>1 DEF Edit, Start
<1>8. ~Crash  BY <1>0 DEF Crash
<1>9. QED  BY <1>3, <1>4, <1>5, <1>6, <1>7, <1>8 DEF Next

\* A reload resolves everything it reads before it swaps anything in: refused, it
\* leaves the snapshot it found (control/handler.rs, reload).
THEOREM RefusedReloads == Spec => RefusedReloadChangesNothing
<1>1. Inv /\ [Next]_vars
        => [\A c \in Client : client[c].op = "reload" /\ client[c].pc # "idle"
             /\ client'[c].pc = "idle" /\ client'[c].said = "refused" /\ ~past.crossed
             => memory' = client[c].held]_vars
  BY RefusedStep
<1>2. QED  BY <1>1, SettingsInvariant, PTL DEF Spec, RefusedReloadChangesNothing

\* A login's two documents are what they were when it read the file.
LEMMA LoginsKeepStep ==
  ASSUME Inv, [Next]_vars, LoginKeeps
  PROVE  LoginKeeps'
<1>0. login \in [Login -> SignIn] /\ file \in Doc  BY DEF Inv, TypeOK
<1>1. ASSUME NEW l \in Login, login'[l].pc \in {"read", "truncated"}, login'[l].keep,
             Writes(l), login'[l].keep = login[l].keep, login'[l].base = login[l].base,
             login'[l].content = login[l].content
      PROVE  ReadFrom(login'[l].base) \cap (Signed \cup login'[l].base.profiles)
               \subseteq ReadFrom(login'[l].content)
  BY <1>1 DEF LoginKeeps, ReadFrom, Writes
<1>2. ASSUME \A l \in Login : /\ login'[l].pc = login[l].pc /\ login'[l].keep = login[l].keep
                              /\ login'[l].base = login[l].base
                              /\ login'[l].content = login[l].content
      PROVE  LoginKeeps'
  BY <1>1, <1>2 DEF LoginKeeps, ReadFrom, Writes
<1>3. ASSUME NEW m, m \in SignIn, NEW l \in Login, login' = [login EXCEPT ![l] = m],
             m.pc \notin {"read", "truncated"}
      PROVE  LoginKeeps'
  BY <1>0, <1>3 DEF LoginKeeps, ReadFrom
<1>4. ASSUME UNCHANGED login PROVE LoginKeeps'
  BY <1>2, <1>4
<1>5. ASSUME login' = [l \in Login |-> [login[l] EXCEPT !.unlinked = login[l].pc = "truncated"]]
      PROVE  LoginKeeps'
  <2>1. ASSUME NEW l \in Login
        PROVE  LET m == [login[l] EXCEPT !.unlinked = login[l].pc = "truncated"]
               IN m.pc = login[l].pc /\ m.keep = login[l].keep /\ m.base = login[l].base
                  /\ m.content = login[l].content
    BY <1>0 DEF SignIn
  <2>2. QED  BY <1>2, <1>5, <2>1
<1>6. ASSUME NEW l \in Login, SignedIn(l) PROVE LoginKeeps'
  <2> DEFINE kept == IF login[l].keep THEN Signed \ {login[l].name} ELSE {}
             added == kept \cup {login[l].name}
             content == AddProfiles(file, added)
             m == [login[l] EXCEPT !.pc = "read", !.base = file, !.content = content]
  <2>1. login' = [login EXCEPT ![l] = Away] \/ login' = [login EXCEPT ![l] = m]
    BY <1>6 DEF SignedIn
  <2>2. CASE login' = [login EXCEPT ![l] = Away]  BY <1>3, <2>2, EmptyDoc
  <2>3. CASE login' = [login EXCEPT ![l] = m]
    <3>1. content.profiles = file.profiles \cup added  BY <1>0 DEF AddProfiles, Doc
    <3>2. ReadFrom(content) = file.profiles \cup added  BY <3>1 DEF ReadFrom
    <3> HIDE DEF content
    <3>3. m.base = file /\ m.content = content /\ m.keep = login[l].keep
      BY <1>0 DEF SignIn
    <3> HIDE DEF m
    <3>4. /\ login'[l] = m /\ \A k \in Login \ {l} : login'[k] = login[k]
      BY <1>0, <2>3
    <3>5. login[l].keep => Signed \subseteq added  OBVIOUS
    <3>6. m.keep => ReadFrom(m.base) \cap (Signed \cup m.base.profiles) \subseteq ReadFrom(m.content)
      BY <3>2, <3>3, <3>5 DEF ReadFrom
    <3>7. QED  BY <3>4, <3>6 DEF LoginKeeps, ReadFrom
  <2>4. QED  BY <2>1, <2>2, <2>3
<1>7. ASSUME NEW l \in Login, Truncate(l) PROVE LoginKeeps'
  <2> DEFINE m == [login[l] EXCEPT !.pc = "truncated"]
  <2>1. login[l].pc = "read" /\ login' = [login EXCEPT ![l] = m]  BY <1>7 DEF Truncate
  <2>2. m.base = login[l].base /\ m.content = login[l].content /\ m.keep = login[l].keep
    BY <1>0 DEF SignIn
  <2> HIDE DEF m
  <2>3. /\ login'[l] = m /\ \A k \in Login \ {l} : login'[k] = login[k]
    BY <1>0, <2>1
  <2>4. QED  BY <1>1, <2>1, <2>2, <2>3 DEF LoginKeeps, Writes, ReadFrom
<1>8. ASSUME NEW l \in Login, Plan(l) PROVE LoginKeeps'
  <2>1. PICK name \in Name \ file.profiles :
          login' = [login EXCEPT ![l] = [Away EXCEPT !.pc = "signing", !.name = name,
                      !.keep = file.profiles = {}]]
    BY <1>8 DEF Plan
  <2> DEFINE m == [Away EXCEPT !.pc = "signing", !.name = name, !.keep = file.profiles = {}]
  <2>2. m \in SignIn /\ m.pc = "signing"  BY EmptyDoc DEF Away, SignIn
  <2>3. QED  BY <1>3, <2>1, <2>2
<1>9. ASSUME NEW l \in Login, NotSignedIn(l) \/ Write(l) \/ LoginDies(l) PROVE LoginKeeps'
  BY <1>3, <1>9, EmptyDoc DEF NotSignedIn, Write, LoginDies
<1>10. ASSUME NEW c \in Client, Move(c) PROVE LoginKeeps'
  BY <1>4, <1>5, <1>10 DEF Move
<1>11. ASSUME Edit PROVE LoginKeeps'
  BY <1>5, <1>11 DEF Edit
<1>12. ASSUME NEW c \in Client,
              \/ AskSet(c) \/ AskConsent(c) \/ AskRemove(c) \/ AskReload(c) \/ AskSwitch(c)
              \/ Target(c) \/ Document(c) \/ Open(c) \/ Fill(c) \/ Effective(c) \/ Apply(c)
              \/ Reload(c) \/ Profiles(c) \/ Mapping(c) \/ Ceiling(c) \/ Consent(c)
       PROVE  LoginKeeps'
  BY <1>4, <1>12 DEF AskSet, AskConsent, AskRemove, AskReload, AskSwitch, Target, Document,
     Open, Fill, Effective, Apply, Reload, Profiles, Mapping, Ceiling, Consent
<1>13. ASSUME UNCHANGED vars \/ Crash \/ Start PROVE LoginKeeps'
  BY <1>4, <1>13 DEF vars, Crash, Start
<1>14. QED
  BY <1>6, <1>7, <1>8, <1>9, <1>10, <1>11, <1>12, <1>13 DEF Next

\* A login that declares a first profile declares those found undeclared with it,
\* for any number of logins and accounts on disk (auth/profile_login.rs, what it
\* keeps declared).
THEOREM LoginsKeep == Spec => []LoginKeeps
<1>1. Init => LoginKeeps
  BY DEF Init, LoginKeeps, Away
<1>2. QED  BY <1>1, LoginsKeepStep, SettingsInvariant, PTL DEF Spec
=============================================================================
