---------------------------- MODULE MCDaemonLife ----------------------------
(* DaemonLife with one client at either door and one at the socket.         *)
EXTENDS DaemonLife

MCOverHttp == [c \in Client |-> IF c = 1 THEN BOOLEAN ELSE {FALSE}]
=============================================================================
