----------------------------- MODULE MCSettings -----------------------------
(* Settings with a key, a stock profile and a second one that is not signed  *)
(* in to, and two tiers over one model: at one effort, and pinned to another *)
(* account at another.                                                       *)
EXTENDS Settings

MCModelOf == [v \in Model \cup Pinned |-> "m"]
MCEffortOf == [v \in Model \cup Pinned |-> IF v = "slow" THEN "low" ELSE "high"]

\* Where a section names one tier, a set of the other in the shared table reaches it.
Plain == [Empty EXCEPT !.top["opus"] = "slow"]
Shadowed == [Empty EXCEPT !.of["a"]["opus"] = "slow", !.of["a"]["effort"] = "low",
                          !.profiles = {"p"}]
Consenting == [Shadowed EXCEPT !.cross = TRUE]
MCInitial == {Plain, Consenting}

\* Saved by hand, with every profile taken out or left: a pin with its consent; two
\* tiers that clash under one account, and under the other a pin without consent and
\* an effort nothing parses; and a file half edited.
MCEdits == {[Plain EXCEPT !.cross = TRUE, !.of["a"]["opus"] = "pin"],
            [Shadowed EXCEPT !.of["a"]["haiku"] = "pin",
                             !.of["p"] = [@ EXCEPT !["opus"] = "pin", !["effort"] = "bad"]],
            [Plain EXCEPT !.parses = FALSE]}
=============================================================================
