--------------------------- MODULE MCCredentials ---------------------------
(* Credentials with two tasks of the daemon, a command line and two keys; a  *)
(* name is as long as its selection is when written.                         *)
EXTENDS Credentials

MCProcess == [t \in Task |-> IF t = "cli" THEN "cli" ELSE "daemon"]
MCMay == [t \in Task |-> IF t = "cli" THEN {"add"}
                         ELSE IF t = "d1" THEN {"select", "remove"} ELSE {"rename"}]
MCLength == [n \in Name |-> IF n = "p" THEN 1 ELSE 2]
MCKey(p, s) == [kind |-> "key", provider |-> p, secret |-> s]

\* One key that serves for being alone; two, one of them chosen.
MCStored ==
  { [keys |-> [k \in Key |-> IF k = "k1" THEN MCKey("codex", "first") ELSE None],
     chosen |-> None, section |-> [k \in Key |-> IF k = "k1" THEN "first" ELSE None]],
    [keys |-> [k \in Key |-> IF k = "k1" THEN MCKey("codex", "first") ELSE MCKey("anthropic", "second")],
     chosen |-> "k2", section |-> [k \in Key |-> IF k = "k2" THEN "second" ELSE None]] }

\* A file is known by the names and the tasks that lead to it: which of the files
\* it is, and what is in one that nothing leads to, nobody reads; nor what a task
\* at another step has read, nor how often.
LeadTo(f) == {n \in {"selected", "pending"} : dir[n] = f} \cup {t \in Task : task[t].file = f}
View == <<keys, section, locked, held, count, history,
          [t \in Task |-> [task[t] EXCEPT !.file = None,
             !.raw = IF task[t].pc \in {"compare", "swap"} THEN @ ELSE None,
             !.tries = IF task[t].pc \in {"read", "compare"} THEN @ ELSE 0]],
          {<<LeadTo(f), content[f]>> : f \in {g \in File : LeadTo(g) # {}}}>>
=============================================================================
