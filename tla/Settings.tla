------------------------------ MODULE Settings ------------------------------
(***************************************************************************)
(* The configuration file, what a daemon holds of it, and who changes      *)
(* either: tiers.set, effort.set, cross_account_tiers.set, config.reload,  *)
(* accounts.select and the removal of a profile (control/handler.rs) with  *)
(* config/edit.rs and policy.rs, `accounts login` (auth/profile_login.rs), *)
(* an editor, and a restart (commands/daemon.rs).                          *)
(*                                                                         *)
(* The file is read, edited and replaced with no lock, and a setting is    *)
(* written before it is put in force.  A value is a model, a model pinned  *)
(* to another account, either with the effort the client starts it at or   *)
(* with none, an effort ceiling, or one nothing resolves.  What a catalog  *)
(* lists is AccountMoves; what a rename moves is Credentials.              *)
(***************************************************************************)
EXTENDS Naturals, FiniteSets

CONSTANTS
  Client, Login,      \* requests at once, and logins at once
  KeyAccount, Found,  \* the accounts with a key, the stock profiles
  Signed,             \* the stock profiles that hold a grant
  Name,               \* the names a login may give
  Tier,               \* what a model is named for
  Model, Pinned, Effort, Bad,
  ModelOf, EffortOf,  \* of a value of a tier, the model's id, and the effort it states
  InitialDocs, EditorDocs,    \* what the file may hold at first, and be saved as
  MaxAsks, MaxEvents, \* bounds: requests and logins, edits and deaths
  None

Key == Tier \cup {"effort"}
Section == KeyAccount \cup Found
Values == [Key -> Model \cup Pinned \cup Effort \cup Bad \cup {None}]

\* Shared values, one section for an account, consent, declared profiles, and
\* whether it parses; and what a daemon holds of one.
Doc == [top : Values, of : [Section -> Values], cross : BOOLEAN,
        profiles : SUBSET (Found \cup Name), parses : BOOLEAN]
Snapshot == [set : Values, cross : BOOLEAN, profiles : SUBSET (Found \cup Name),
             discovered : BOOLEAN, started : Doc]

ASSUME SettingsAssumption ==
  /\ Signed \subseteq Found /\ "effort" \notin Tier
  /\ None \notin KeyAccount \cup Found \cup Name \cup Model \cup Snapshot \cup {"refused"}
  /\ (Model \cup Pinned \cup Effort \cup {None}) \cap Bad = {}
  /\ (Model \cup Effort \cup {None}) \cap Pinned = {}
  /\ InitialDocs \cup EditorDocs \subseteq Doc
  /\ DOMAIN ModelOf = Model \cup Pinned /\ DOMAIN EffortOf = Model \cup Pinned

VARIABLES
  file, pending,   \* the document and the pending file of the daemon's process
  memory,          \* what the daemon holds, and None where none runs
  selection,
  client, login,
  past             \* history and bounds

document == <<file, pending>>
inForce  == <<memory, selection>>
vars == <<document, inForce, client, login, past>>

Unset == [k \in Key |-> None]
Empty == [top |-> Unset, of |-> [a \in Section |-> Unset], cross |-> FALSE,
          profiles |-> {}, parses |-> TRUE]

\* tiers_for and effort_ceiling_for.
Value(doc, a, k) == IF a \in Section /\ doc.of[a][k] # None THEN doc.of[a][k] ELSE doc.top[k]
Resolved(doc, a) == [k \in Key |-> Value(doc, a, k)]

\* check_effort_conflicts: two tiers state different efforts for one model.
Conflict(values) ==
  \E j, k \in Tier :
    /\ {values[j], values[k]} \subseteq Model \cup Pinned
    /\ ModelOf[values[j]] = ModelOf[values[k]]
    /\ EffortOf[values[j]] # EffortOf[values[k]]
    /\ None \notin {EffortOf[values[j]], EffortOf[values[k]]}

\* Tiers::resolve, and parse_effort with it: what refuses an account's mapping.
TiersResolve(doc, a, cross) ==
  /\ \A k \in Tier : Value(doc, a, k) \notin Bad /\ (Value(doc, a, k) \in Pinned => cross)
  /\ ~Conflict(Resolved(doc, a))
Resolves(doc, a, cross) == TiersResolve(doc, a, cross) /\ Value(doc, a, "effort") \notin Bad

Everyone == Section \cup {None}
Unresolved(doc) == {a \in Everyone : ~Resolves(doc, a, doc.cross)}
AllResolve(doc) == Unresolved(doc) = {}

\* An effort that nothing parses is only ever an editor's.
CeilingsParse(doc) == \A a \in Everyone : Value(doc, a, "effort") \notin Bad

\* An account without a section has the shared values.
Mapped(a) == IF a \in Section THEN a ELSE None

\* profiles_of: the stock ones are looked for where none is declared.
ReadFrom(doc) == IF doc.profiles = {} THEN Found ELSE doc.profiles

Running == memory # None

\* on_disk_or: what does not parse leaves the configuration of the start.
OnDisk == IF file.parses THEN file ELSE memory.started

\* Accounts::selected.
ServedBy(s) == IF Running /\ s \in KeyAccount \cup memory.profiles THEN s ELSE None
Serving == ServedBy(selection)

\* run_with: loaded, validated, resolved for whoever will serve, and nobody else.
WillServe(doc) == IF selection \in KeyAccount \cup ReadFrom(doc) THEN selection ELSE None
Starts(doc) == doc.parses /\ Resolves(doc, WillServe(doc), doc.cross)
Held(doc) == [set |-> Resolved(doc, WillServe(doc)), cross |-> doc.cross,
              profiles |-> ReadFrom(doc), discovered |-> doc.profiles = {}, started |-> doc]

Idle == [pc |-> "idle", op |-> None, key |-> None, value |-> None, account |-> None,
         now |-> FALSE, persist |-> FALSE, base |-> Empty, held |-> None, said |-> None]
Away == [pc |-> "idle", name |-> None, keep |-> FALSE, base |-> Empty,
         content |-> Empty, unlinked |-> FALSE]

Init == /\ file \in InitialDocs
        /\ pending = None
        /\ selection \in KeyAccount \cup ReadFrom(file)
        /\ Starts(file) /\ memory = Held(file)
        /\ client = [c \in Client |-> Idle]
        /\ login = [l \in Login |-> Away]
        /\ past = [asks |-> 0, events |-> 0, unsaved |-> FALSE, crossed |-> FALSE,
                   foreign |-> ~CeilingsParse(file), unjudged |-> Unresolved(file)]

-----------------------------------------------------------------------------
(* What a request does. *)

At(c, pc) == Running /\ client[c].pc = pc
Goto(c, pc) == client' = [client EXCEPT ![c].pc = pc]
Says(c, answer) == client' = [client EXCEPT ![c] = [Idle EXCEPT !.op = @, !.said = answer]]

\* A login between its read and its write, a client at anything: neither knows.
Writing == \E l \in Login : login[l].pc \in {"read", "truncated"}
Busy == \E c \in Client : client[c].pc # "idle"

Asks(c, request) ==
  /\ past.asks < MaxAsks
  /\ client' = [client EXCEPT ![c] = [request EXCEPT !.held = memory]]
  /\ past' = [past EXCEPT !.asks = @ + 1, !.foreign = @ \/ Writing, !.crossed = @ \/ Busy]

\* write_target: the account that was named, and whether it serves now.
AppliesNow(a) == a = None \/ a = Serving
Known(a) == a = None \/ a \in KeyAccount \cup memory.profiles

\* Mutant: judged as it would be for whoever serves.
LandsInForce(a) == memory.set

\* The mapping a set lands in: the one in force, or the account's as the file has it.
Lands(a) == IF AppliesNow(a) THEN memory.set ELSE Resolved(OnDisk, a)

\* set_tiers and set_effort: a pin needs consent, a tier must not clash with another
\* of the mapping it lands in, and of no other's, and what is not in force has to be
\* written.  An effort may be taken away.
AskSet(c) ==
  At(c, "idle") /\ \E k \in Key, a \in Everyone, persist \in BOOLEAN :
    \E v \in IF k = "effort" THEN Effort \cup {None} ELSE Model \cup Pinned :
      /\ Known(a) /\ (AppliesNow(a) \/ persist)
      /\ k \in Tier => /\ v \in Pinned => memory.cross
                       /\ AppliesNow(a) \/ TiersResolve(OnDisk, a, memory.cross)
                       /\ ~Conflict([Lands(a) EXCEPT ![k] = v])
      /\ Asks(c, [Idle EXCEPT !.op = "set", !.key = k, !.value = v, !.account = a,
                  !.now = AppliesNow(a), !.persist = persist,
                  !.pc = IF ~persist THEN "apply" ELSE "target"])
      /\ UNCHANGED <<document, inForce, login>>

\* Mutant: revoked where only the mapping in force is without a pin.
AskConsentHere(c) ==
  At(c, "idle") /\ \E b \in BOOLEAN :
    /\ ~b => \A k \in Tier : memory.set[k] \notin Pinned
    /\ Asks(c, [Idle EXCEPT !.op = "cross", !.value = b, !.pc = "document"])
    /\ UNCHANGED <<document, inForce, login>>

\* set_cross_account: not revoked while a pin is in force or written.  A mapping
\* that does not resolve is not looked at.
AskConsent(c) ==
  At(c, "idle") /\ \E b \in BOOLEAN :
    /\ ~b => /\ \A k \in Tier : memory.set[k] \notin Pinned
             /\ \A a \in Everyone : TiersResolve(OnDisk, a, TRUE) =>
                  \A k \in Tier : Value(OnDisk, a, k) \notin Pinned
    /\ Asks(c, [Idle EXCEPT !.op = "cross", !.value = b, !.pc = "document"])
    /\ UNCHANGED <<document, inForce, login>>

\* remove_account, of a profile that is declared.
AskRemove(c) ==
  At(c, "idle") /\ \E name \in memory.profiles :
    /\ ~memory.discovered
    /\ Asks(c, [Idle EXCEPT !.op = "remove", !.value = name, !.pc = "document"])
    /\ UNCHANGED <<document, inForce, login>>

AskReload(c) ==
  /\ At(c, "idle")
  /\ Asks(c, [Idle EXCEPT !.op = "reload", !.pc = "reload"])
  /\ UNCHANGED <<document, inForce, login>>

\* select_account: selected first.
AskSwitch(c) ==
  At(c, "idle") /\ \E a \in KeyAccount \cup memory.profiles :
    /\ a # Serving
    /\ Asks(c, [Idle EXCEPT !.op = "switch", !.account = a, !.key = selection, !.pc = "mapping"])
    /\ selection' = a
    /\ UNCHANGED <<document, memory, login>>

\* Mutant: a value is written where everyone's is, whatever hides it.
TargetShared(c) ==
  /\ At(c, "target")
  /\ client' = [client EXCEPT ![c].pc = "document"]
  /\ UNCHANGED <<document, inForce, login, past>>

\* shadowing_account and shadowing_effort: a value nobody named an account for
\* goes under the section that would hide it.
Target(c) ==
  /\ At(c, "target")
  /\ LET hides == Serving \in Section /\ OnDisk.of[Serving][client[c].key] # None
     IN client' = [client EXCEPT ![c].pc = "document",
                     ![c].account = IF @ = None /\ hides THEN Serving ELSE @]
  /\ UNCHANGED <<document, inForce, login, past>>

-----------------------------------------------------------------------------
(* The file. *)

\* A value's line in the shared table, or in an account's.
Set(doc, a, k, v) ==
  IF a \in Section THEN [doc EXCEPT !.of[a][k] = v] ELSE [doc EXCEPT !.top[k] = v]

SetTier(doc, a, k, v) == Set(doc, a, k, v)
SetEffort(doc, a, v) == Set(doc, a, "effort", v)
SetConsent(doc, b) == [doc EXCEPT !.cross = b]
AddProfiles(doc, names) == [doc EXCEPT !.profiles = @ \cup names]
RemoveProfile(doc, name) == [doc EXCEPT !.profiles = @ \ {name}]

Edited(r, doc) ==
  CASE r.op = "cross" -> SetConsent(doc, r.value)
    [] r.op = "remove" -> RemoveProfile(doc, r.value)
    [] r.op = "set" /\ r.key \in Tier -> SetTier(doc, r.account, r.key, r.value)
    [] r.op = "set" /\ r.key = "effort" -> SetEffort(doc, r.account, r.value)

\* write_config reads the document.
Document(c) ==
  /\ At(c, "document")
  /\ client' = [client EXCEPT ![c].pc = "open", ![c].base = file]
  /\ UNCHANGED <<document, inForce, login, past>>

\* write_private: a pending file, named for the process, truncated, filled and
\* moved over the file.
Open(c) ==
  /\ At(c, "open")
  /\ pending' = Empty
  /\ Goto(c, "fill")
  /\ UNCHANGED <<file, inForce, login, past>>

Fill(c) ==
  /\ At(c, "fill")
  /\ pending' = Edited(client[c], client[c].base)
  /\ Goto(c, "move")
  /\ UNCHANGED <<file, inForce, login, past>>

\* Whose mappings two tiers clash in, now that one is set, and nobody has judged: all
\* but the one it was meant for, and that too where it was judged as it is in force
\* and the file says something else.
Unjudged(r, doc) ==
  LET meant == IF r.account = None THEN Mapped(Serving) ELSE r.account
  IN {a \in Everyone : Conflict(Resolved(doc, a)) /\ (a # meant \/ (r.now /\ past.unsaved))}

\* What a login has open is no longer the file.
Move(c) ==
  /\ At(c, "move")
  /\ IF pending = None THEN Says(c, "refused") /\ UNCHANGED <<file, login, past>>
     ELSE /\ file' = pending
          /\ past' = IF client[c].op = "set" /\ client[c].key \in Tier
                     THEN [past EXCEPT !.unjudged = @ \cup Unjudged(client[c], pending)]
                     ELSE past
          /\ login' = [l \in Login |-> [login[l] EXCEPT !.unlinked = login[l].pc = "truncated"]]
          /\ IF client[c].op = "remove" /\ client[c].value \notin client[c].base.profiles
             THEN Says(c, "refused")
             ELSE Goto(c, CASE client[c].op = "remove" -> "reload"
                            [] client[c].op = "set" /\ client[c].key = "effort" -> "effective"
                            [] OTHER -> "apply")
  /\ pending' = None
  /\ UNCHANGED inForce

\* set_effort: the ceiling is what the file now says, for whoever was named.
Effective(c) ==
  /\ At(c, "effective")
  /\ LET named == IF client[c].account = None THEN Serving ELSE client[c].account
         ceiling == Value(OnDisk, named, "effort")
     IN IF ceiling \in Bad THEN Says(c, "refused")
        ELSE client' = [client EXCEPT ![c].pc = "apply", ![c].value = ceiling]
  /\ UNCHANGED <<document, inForce, login, past>>

\* policy.set_tiers, the whole mapping as it was judged, and set_effort_ceiling.
Applied(r) ==
  IF r.key \in Tier THEN [r.held.set EXCEPT ![r.key] = r.value, !["effort"] = memory.set["effort"]]
  ELSE [memory.set EXCEPT ![r.key] = r.value]

\* And set_cross_account.
Apply(c) ==
  /\ At(c, "apply")
  /\ LET r == client[c]
     IN /\ memory' = IF r.op = "cross" THEN [memory EXCEPT !.cross = r.value]
                     ELSE IF r.now THEN [memory EXCEPT !.set = Applied(r)]
                     ELSE memory
        /\ past' = [past EXCEPT !.unsaved = @ \/ (r.op = "set" /\ ~r.persist)]
  /\ Says(c, "ok")
  /\ UNCHANGED <<document, selection, login>>

-----------------------------------------------------------------------------
(* A reload and a switch. *)

\* Mutant: what the file's sections say is found out as it is applied.
ReloadAsParsed(c) ==
  /\ At(c, "reload")
  /\ IF file.parses THEN client' = [client EXCEPT ![c].pc = "profiles", ![c].base = file]
     ELSE Says(c, "refused")
  /\ UNCHANGED <<document, inForce, login, past>>

\* reload_config: everything that can refuse is asked first, for every account.
Reload(c) ==
  /\ At(c, "reload")
  /\ IF file.parses /\ AllResolve(file)
     THEN client' = [client EXCEPT ![c].pc = "profiles", ![c].base = file]
     ELSE Says(c, "refused")
  /\ UNCHANGED <<document, inForce, login, past>>

\* set_profiles.
Profiles(c) ==
  /\ At(c, "profiles")
  /\ memory' = [memory EXCEPT !.profiles = ReadFrom(client[c].base),
                              !.discovered = client[c].base.profiles = {}]
  /\ Goto(c, "mapping")
  /\ UNCHANGED <<document, selection, login, past>>

\* put_mapping_in_force: the tiers, then the ceiling.  A switch that is refused
\* selects the account that was.
Mapping(c) ==
  /\ At(c, "mapping")
  /\ LET r == client[c]
         doc == IF r.op = "switch" THEN OnDisk ELSE r.base
         whose == IF r.op = "switch" THEN r.account ELSE Serving
     IN IF Resolves(doc, whose, doc.cross)
        THEN /\ memory' = [memory EXCEPT !.set = [Resolved(doc, whose)
                                                   EXCEPT !["effort"] = memory.set["effort"]]]
             /\ client' = [client EXCEPT ![c].pc = "ceiling", ![c].base = doc,
                                         ![c].value = Value(doc, whose, "effort")]
             /\ UNCHANGED selection
        ELSE /\ Says(c, "refused")
             /\ selection' = IF r.op = "switch" THEN r.key ELSE selection
             /\ UNCHANGED memory
  /\ UNCHANGED <<document, login, past>>

\* Whose mapping has resolved has been judged.
Ceiling(c) ==
  /\ At(c, "ceiling")
  /\ memory' = [memory EXCEPT !.set["effort"] = client[c].value]
  /\ past' = [past EXCEPT !.unsaved = FALSE,
                !.unjudged = IF client[c].op = "switch" THEN @ \ {Mapped(client[c].account)}
                             ELSE {}]
  /\ IF client[c].op = "switch" THEN Says(c, "ok") ELSE Goto(c, "consent")
  /\ UNCHANGED <<document, selection, login>>

Consent(c) ==
  /\ At(c, "consent")
  /\ memory' = [memory EXCEPT !.cross = client[c].base.cross]
  /\ past' = [past EXCEPT !.foreign = @ /\ (Writing \/ file # client[c].base)]
  /\ Says(c, "ok")
  /\ UNCHANGED <<document, selection, login>>

-----------------------------------------------------------------------------
(* A login, in a process of its own. *)

\* plan: from the configuration as it is before the sign-in.
Plan(l) ==
  /\ login[l].pc = "idle" /\ past.asks < MaxAsks /\ file.parses
  /\ \E name \in Name \ file.profiles :
       login' = [login EXCEPT ![l] = [Away EXCEPT !.pc = "signing", !.name = name,
                   !.keep = file.profiles = {}]]
  /\ past' = [past EXCEPT !.asks = @ + 1]
  /\ UNCHANGED <<document, inForce, client>>

\* Mutant: what was being read is not written down.
SignedInAlone(l) ==
  /\ login[l].pc = "signing"
  /\ login' = IF login[l].name \in file.profiles THEN [login EXCEPT ![l] = Away]
              ELSE [login EXCEPT ![l].pc = "read", ![l].base = file,
                     ![l].content = AddProfiles(file, {login[l].name})]
  /\ past' = [past EXCEPT !.foreign = @ \/ Busy \/ Writing]
  /\ UNCHANGED <<document, inForce, client>>

\* The profile holds a grant; the document is read, the stock profiles that were
\* read are declared, and its own.  A name the file has refuses the whole.
SignedIn(l) ==
  /\ login[l].pc = "signing"
  /\ LET kept == IF login[l].keep THEN Signed \ {login[l].name} ELSE {}
         added == kept \cup {login[l].name}
     IN login' = IF added \cap file.profiles # {} THEN [login EXCEPT ![l] = Away]
                 ELSE [login EXCEPT ![l].pc = "read", ![l].base = file,
                        ![l].content = AddProfiles(file, added)]
  /\ past' = [past EXCEPT !.foreign = @ \/ Busy \/ Writing]
  /\ UNCHANGED <<document, inForce, client>>

\* It holds none, or nobody is at the terminal.
NotSignedIn(l) ==
  /\ login[l].pc = "signing"
  /\ login' = [login EXCEPT ![l] = Away]
  /\ UNCHANGED <<document, inForce, client, past>>

\* write_document: in place.
Truncate(l) ==
  /\ login[l].pc = "read"
  /\ file' = Empty
  /\ login' = [login EXCEPT ![l].pc = "truncated"]
  /\ UNCHANGED <<pending, inForce, client, past>>

Write(l) ==
  /\ login[l].pc = "truncated"
  /\ file' = IF login[l].unlinked THEN file ELSE login[l].content
  /\ login' = [login EXCEPT ![l] = Away]
  /\ UNCHANGED <<pending, inForce, client, past>>

-----------------------------------------------------------------------------
(* Others. *)

Event == past.events < MaxEvents

Edit ==
  /\ Event
  /\ \E doc \in EditorDocs : file' = doc
  /\ past' = [past EXCEPT !.events = @ + 1, !.foreign = TRUE]
  /\ login' = [l \in Login |-> [login[l] EXCEPT !.unlinked = login[l].pc = "truncated"]]
  /\ UNCHANGED <<pending, inForce, client>>

\* The daemon dies, or a login does, wherever it is.
Crash ==
  /\ Event /\ Running
  /\ memory' = None
  /\ client' = [c \in Client |-> Idle]
  /\ past' = [past EXCEPT !.events = @ + 1]
  /\ UNCHANGED <<document, selection, login>>

LoginDies(l) ==
  /\ Event /\ login[l].pc # "idle"
  /\ login' = [login EXCEPT ![l] = Away]
  /\ past' = [past EXCEPT !.events = @ + 1, !.foreign = @ \/ login[l].pc = "truncated"]
  /\ UNCHANGED <<document, inForce, client>>

\* It starts from the file, if the file lets it.
Start ==
  /\ ~Running /\ Starts(file)
  /\ memory' = Held(file)
  /\ past' = [past EXCEPT !.unsaved = FALSE, !.crossed = FALSE,
                          !.foreign = Writing \/ ~CeilingsParse(file),
                          !.unjudged = Unresolved(file)]
  /\ UNCHANGED <<document, selection, client, login>>

Next == \/ \E c \in Client : \/ AskSet(c) \/ AskConsent(c) \/ AskRemove(c) \/ AskReload(c)
                             \/ AskSwitch(c) \/ Target(c) \/ Document(c) \/ Open(c) \/ Fill(c)
                             \/ Move(c) \/ Effective(c) \/ Apply(c) \/ Reload(c) \/ Profiles(c)
                             \/ Mapping(c) \/ Ceiling(c) \/ Consent(c)
        \/ \E l \in Login : \/ Plan(l) \/ SignedIn(l) \/ NotSignedIn(l) \/ Truncate(l) \/ Write(l)
                            \/ LoginDies(l)
        \/ Edit \/ Crash \/ Start

Spec == Init /\ [][Next]_vars

-----------------------------------------------------------------------------
(* Properties. *)

Rests == Running /\ ~Busy /\ ~Writing

\* What is in force is what a restart would put in force, whatever was set, for
\* whichever account, shadowed or taken away, and whatever died on the way: but
\* for a setting nobody asked to persist, a file another has written since, and
\* requests that overlapped ("written to the configuration file",
\* control/handler.rs; configuration: "a daemon that cannot see its own writes").
RestartAgrees ==
  Rests /\ ~past.unsaved /\ ~past.foreign /\ ~past.crossed
    => memory.set = Resolved(file, Serving) /\ memory.cross = file.cross

\* What the daemon writes resolves: "nothing written here is refused by the next
\* start" (control/handler.rs, set_tiers) and consent is not revoked under a pin
\* ("would write a file this daemon will refuse to start from", set_cross_account),
\* for every account but those a set it was not meant for left two clashing tiers in;
\* and never for the one that serves, once all that is in force was saved.  What
\* another wrote and requests that overlapped are set apart.
Restartable ==
  ~past.foreign /\ ~past.crossed /\ ~Writing =>
    /\ Unresolved(file) \subseteq past.unjudged
    /\ Rests /\ ~past.unsaved => Resolves(file, Serving, file.cross)

\* "a refusal after the profiles swap would leave them live under the old
\* mapping": a reload that is refused has changed nothing (control/handler.rs).
RefusedReloadChangesNothing ==
  [][\A c \in Client : client[c].op = "reload" /\ client[c].pc # "idle"
       /\ client'[c].pc = "idle" /\ client'[c].said = "refused" /\ ~past.crossed
       => memory' = client[c].held]_vars

\* "a first `accounts login` would take away every account the operator already
\* had": where none was declared when a login was planned, what is read still when
\* it has been signed in is read of what it writes (auth/profile_login.rs).
LoginKeeps ==
  \A l \in Login : login[l].pc \in {"read", "truncated"} /\ login[l].keep
    => ReadFrom(login[l].base) \cap (Signed \cup login[l].base.profiles)
         \subseteq ReadFrom(login[l].content)

\* "the next pinned set is refused" (control/handler.rs): a mapping in force pins
\* another account only where the consent in force permits it.
ConsentStated == Rests /\ (\E k \in Tier : memory.set[k] \in Pinned) => memory.cross
=============================================================================
