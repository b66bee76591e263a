---------------------------- MODULE Conversation ----------------------------
(***************************************************************************)
(* The pure half of conversation identity and incremental upload:          *)
(* crates/core/src/session.rs.  A conversation is a sequence of items; an  *)
(* item is compared by what it says, so an item here IS its canonical form *)
(* (strip_ids has been applied).  The module ReplayEquality models that    *)
(* canonical form itself.                                                  *)
(*                                                                         *)
(* An item is a record with a field "kind".  Only "reasoning" is           *)
(* server-only: the client is never shown it and cannot replay it.         *)
(***************************************************************************)
EXTENDS SequencesExt

ServerOnly(item) == item.kind = "reasoning"

\* The items of a sequence that stand at the positions I, in their order.
Picked(s, I) ==
  LET upTo[n \in 0 .. Len(s)] ==
        IF n = 0 THEN << >>
        ELSE IF n \in I THEN Append(upTo[n - 1], s[n]) ELSE upTo[n - 1]
  IN  upTo[Len(s)]

\* Where the items stand that a client was shown.
Kept(conversation) ==
  {i \in DOMAIN conversation : ~ServerOnly(conversation[i])}

\* What a client that was shown this conversation can send back.
Replayable(conversation) == Picked(conversation, Kept(conversation))

\* How many items of the candidate the baseline accounts for: one for each item
\* the client could have replayed.
Consumed(baseline) == Cardinality(Kept(baseline))

\* The reconciling predicate: the replay lines up with the baseline once the
\* items the client never had are passed over.
Reconciles(baseline, candidate) == IsPrefix(Replayable(baseline), candidate)

\* Mutant: the server-only items are counted as replayed.
NewItemsCountingAll(baseline, candidate) ==
  SubSeq(candidate, Len(baseline) + 1, Len(candidate))

\* What the candidate adds past the last baseline item it replays.
NewItems(baseline, candidate) ==
  SubSeq(candidate, Consumed(baseline) + 1, Len(candidate))

\* The conversation as the backend holds it: the baseline, server-only items
\* in place, followed by whatever the client added.
Reconciled(baseline, candidate) == baseline \o NewItems(baseline, candidate)

\* What a request sends in full: the reconciled replay, or the replay as it
\* came when it does not line up.
FullInput(baseline, candidate) ==
  IF Reconciles(baseline, candidate)
  THEN Reconciled(baseline, candidate)
  ELSE candidate

\* The strict comparison the delta is computed by, and the delta itself.
Extends(baseline, candidate) == IsPrefix(baseline, candidate)

Delta(baseline, candidate) ==
  SubSeq(candidate, Len(baseline) + 1, Len(candidate))
=============================================================================
