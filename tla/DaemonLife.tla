----------------------------- MODULE DaemonLife -----------------------------
(***************************************************************************)
(* How a daemon starts, is found, is stopped and is replaced: the port and *)
(* the control socket (daemon.rs, control/mod.rs), `run`, `start` and      *)
(* `stop` (commands/daemon.rs), `shutdown` and `update`                    *)
(* (control/handler.rs, update.rs), and the supervisor that starts the     *)
(* installed file again (commands/supervisor.rs, supervisor.rs).           *)
(*                                                                         *)
(* A process has a slot.  A request is served by a task of its process:    *)
(* the process waits for a task in the middle of a step, drops one that    *)
(* waits for a download, and a crash takes both.                           *)
(***************************************************************************)
EXTENDS Naturals

CONSTANTS
  Slot, Client, Port,       \* processes at once, requests at once, ports
  OverHttp,                 \* per client: whether it may be at POST /control
  Releases,                 \* the releases published are 1 .. Releases
  MaxAsks, MaxRuns, MaxEvents,  \* bounds: requests, daemons run by hand, the rest
  None, Part, Other         \* no file, half a file, a binary of another release

ASSUME SlotAssumption == Slot \subseteq Nat /\ Client \subseteq Nat /\ None \notin Client
ASSUME ReleasesAssumption == Releases \in Nat \ {0}

VARIABLES
  proc,   \* the processes
  socket, \* whose listener the socket file names
  disk,   \* the installed binary, the one kept before it, the one staged
  unit,   \* the supervisor: its unit file, whether it is loaded, its process
  ask,    \* the requests
  verb,   \* how far `supervisor install` has come
  past    \* history and bounds

supervision == <<unit, verb>>
vars == <<proc, socket, disk, unit, ask, verb, past>>

Release == 1 .. Releases

Gone == [pc |-> "gone", runs |-> None, port |-> None, supervised |-> FALSE,
         asked |-> FALSE, permit |-> FALSE, control |-> "none", updating |-> None,
         promised |-> FALSE]
Nothing == [pc |-> "idle", kind |-> None, to |-> None, http |-> FALSE,
            version |-> None, left |-> FALSE, ok |-> FALSE]

Init ==
  /\ proc = [s \in Slot |-> Gone]
  /\ socket = None
  /\ disk = [installed |-> 1, previous |-> None, staged |-> None]
  /\ \E supervised \in BOOLEAN :
       unit = [file |-> supervised, loaded |-> supervised, job |-> None]
  /\ ask = [c \in Client |-> Nothing]
  /\ verb = "idle"
  /\ past = [asks |-> 0, runs |-> 0, events |-> 0, updated |-> 0]

-----------------------------------------------------------------------------
Alive(s) == proc[s].pc # "gone"

\* The loopback listener: taken before anything is served, let go of when the
\* run loop ends or a signal stops the doors.
Holds(s) == proc[s].pc \in {"bound", "serving"}

\* The accept loop is a task: it answers until the process is gone.
Answers(s) == Alive(s) /\ proc[s].control = "bound"
Reachable(s) == socket = s /\ Answers(s)

Set(s, r) == proc' = [proc EXCEPT ![s] = r]
Move(s, pc) == Set(s, [proc[s] EXCEPT !.pc = pc])

\* A process that is gone leaves its socket file and what it was asked.
Ended(s) ==
  /\ proc' = [proc EXCEPT ![s] = Gone]
  /\ socket' = IF socket = s THEN None ELSE socket
  /\ ask' = [c \in Client |-> IF ask[c].to = s THEN Nothing ELSE ask[c]]

\* The installed file is executed: there is nothing to execute in half of one.
Spawn(s, supervised, p) ==
  /\ ~Alive(s)
  /\ \A t \in Slot : ~Alive(t) => s <= t
  /\ disk.installed \notin {None, Part}
  /\ Set(s, [Gone EXCEPT !.pc = "loading", !.runs = disk.installed, !.port = p,
                         !.supervised = supervised])

\* The supervisor's process, while it lasts.
Job(s) == unit.job = s /\ Alive(s) /\ proc[s].supervised

Event == past.events < MaxEvents /\ past' = [past EXCEPT !.events = @ + 1]

-----------------------------------------------------------------------------
\* `run` in a terminal, and `start`, which leaves a daemon that answers alone.
Run(s, p) ==
  /\ past.runs < MaxRuns
  /\ Spawn(s, FALSE, p)
  /\ past' = [past EXCEPT !.runs = @ + 1]
  /\ UNCHANGED <<socket, disk, unit, ask, verb>>

Start(s, p) == ~(\E t \in Slot : Reachable(t)) /\ Run(s, p)

\* The supervisor starts its job again whatever it exited with.
Respawn(s) ==
  /\ unit.loaded
  /\ ~\E t \in Slot : Job(t)
  /\ \E p \in Port : Spawn(s, TRUE, p)
  /\ unit' = [unit EXCEPT !.job = s]
  /\ UNCHANGED <<socket, disk, ask, verb, past>>

\* The port refuses a second daemon, which exits.
Bind(s) ==
  /\ proc[s].pc = "loading"
  /\ IF \E t \in Slot : Holds(t) /\ proc[t].port = proc[s].port
     THEN Ended(s)
     ELSE Move(s, "bound") /\ UNCHANGED <<socket, ask>>
  /\ UNCHANGED <<disk, supervision, past>>

\* control::serve, a task of its own: is somebody answering there?
Look(s) ==
  /\ proc[s].pc \in {"bound", "serving", "draining"} /\ proc[s].control = "none"
  /\ Set(s, [proc[s] EXCEPT !.control =
               IF \E t \in Slot : Reachable(t) THEN "refused" ELSE "looked"])
  /\ UNCHANGED <<socket, disk, unit, ask, verb, past>>

\* What is there is removed, and the socket bound in its place.
Take(s) ==
  /\ proc[s].pc \in {"bound", "serving", "draining"} /\ proc[s].control = "looked"
  /\ Set(s, [proc[s] EXCEPT !.control = "bound"])
  /\ socket' = s
  /\ UNCHANGED <<disk, unit, ask, verb, past>>

Serve(s) ==
  /\ proc[s].pc = "bound"
  /\ Move(s, "serving")
  /\ UNCHANGED <<socket, disk, unit, ask, verb, past>>

\* SIGTERM: both doors stop taking connections, and turns in flight finish.
\* Before the doors listen for it, it ends the process.
Signalled(s) ==
  CASE proc[s].pc = "serving" -> Move(s, "draining") /\ UNCHANGED <<socket, ask>>
    [] proc[s].pc \in {"loading", "bound"} -> Ended(s)
    [] OTHER -> UNCHANGED <<proc, socket, ask>>

Term(s) ==
  /\ proc[s].pc = "serving"
  /\ Event
  /\ Signalled(s)
  /\ UNCHANGED <<disk, supervision>>

Drained(s) ==
  /\ proc[s].pc = "draining"
  /\ Move(s, "ending")
  /\ UNCHANGED <<socket, disk, unit, ask, verb, past>>

\* The run loop waits for the release beside the doors.
Wake(s) ==
  /\ proc[s].pc \in {"serving", "draining"} /\ proc[s].permit
  /\ Move(s, "ending")
  /\ UNCHANGED <<socket, disk, unit, ask, verb, past>>

\* A task at an await is dropped; one in the middle of a step is waited for.
InStep(c) == ask[c].pc \notin {"idle", "sent", "fetching"}

Exit(s) ==
  /\ proc[s].pc = "ending"
  /\ ~\E c \in Client : ask[c].to = s /\ InStep(c)
  /\ Ended(s)
  /\ UNCHANGED <<disk, supervision, past>>

Die(s) ==
  /\ Alive(s)
  /\ Event
  /\ Ended(s)
  /\ UNCHANGED <<disk, supervision>>

-----------------------------------------------------------------------------
Asked(c) == ask[c].to
Go(c, pc) == ask' = [ask EXCEPT ![c].pc = pc]
Answer(c, ok) == ask' = [ask EXCEPT ![c].pc = "answered", ![c].ok = ok]

\* What reads no state that is kept here is answered as it is read.
Read(kind) == IF kind = "status" THEN "answered" ELSE "sent"

\* `status`, `stop` and `update`, over the socket or POST /control.
Send(c) ==
  /\ ask[c].pc = "idle" /\ past.asks < MaxAsks
  /\ \A d \in Client : ask[d].pc = "idle" => c <= d
  /\ \E s \in Slot, http \in OverHttp[c], kind \in {"status", "stop", "update"}, v \in Release :
       /\ IF http THEN proc[s].pc = "serving" ELSE Reachable(s)
       /\ (kind = "update") = (v > 1)
       /\ kind = "status" => ~http
       /\ ask' = [ask EXCEPT ![c] = [Nothing EXCEPT !.pc = Read(kind), !.kind = kind,
                                       !.to = s, !.http = http, !.version = v]]
  /\ past' = [past EXCEPT !.asks = @ + 1]
  /\ UNCHANGED <<proc, socket, disk, supervision>>

\* The terminal is closed, the machine at the other end sleeps.
Leave(c) ==
  /\ ask[c].kind \in {"stop", "update"} /\ ~ask[c].left
  /\ Event
  /\ ask' = [ask EXCEPT ![c].left = TRUE]
  /\ UNCHANGED <<proc, socket, disk, supervision>>

Request(s) == Set(s, [proc[s] EXCEPT !.asked = TRUE])

Stop(c) ==
  /\ ask[c].pc = "sent" /\ ask[c].kind = "stop"
  /\ Request(Asked(c))
  /\ Answer(c, TRUE)
  /\ UNCHANGED <<socket, disk, supervision, past>>

\* Mutant: notify_waiters: lost where the run loop does not wait yet.
ReleasedNow(r) == [r EXCEPT !.permit = @ \/ r.pc \in {"serving", "draining"}]

\* notify_one: the permit is kept for a run loop that does not wait yet.
Released(r) == [r EXCEPT !.permit = TRUE]

\* The answer is written, and whichever connection finds a stop asked for
\* releases it: the socket after its write, POST /control when its body is let
\* go of, whether or not anybody took it.
Reply(c) ==
  LET s == Asked(c)
      written == ~ask[c].left
      stopping == ask[c].ok /\ written
      r == [proc[s] EXCEPT !.promised = @ \/ stopping]
  IN
  /\ ask[c].pc = "answered"
  /\ Set(s, IF proc[s].asked /\ (ask[c].http \/ written) THEN Released(r) ELSE r)
  /\ past' = IF stopping /\ ask[c].kind = "update"
             THEN [past EXCEPT !.updated = ask[c].version] ELSE past
  /\ ask' = [ask EXCEPT ![c] = Nothing]
  /\ UNCHANGED <<socket, disk, supervision>>

-----------------------------------------------------------------------------
\* update: what refuses it is decided first, the claim last.
Refuse(c) ==
  LET p == proc[Asked(c)] IN p.asked \/ ~p.supervised \/ ask[c].version <= p.runs

Judge(c) ==
  /\ ask[c].pc = "sent" /\ ask[c].kind = "update"
  /\ IF Refuse(c) THEN Answer(c, FALSE) ELSE Go(c, "cleared")
  /\ UNCHANGED <<proc, socket, disk, supervision, past>>

Claimed(c) == proc[Asked(c)].updating \notin {None, c}
Claim(c) ==
  /\ ask[c].pc = "cleared"
  /\ IF Claimed(c)
     THEN Answer(c, FALSE) /\ UNCHANGED proc
     ELSE Go(c, "fetching") /\ Set(Asked(c), [proc[Asked(c)] EXCEPT !.updating = c])
  /\ UNCHANGED <<socket, disk, supervision, past>>

Unclaimed(s) == [proc[s] EXCEPT !.updating = None]
Fail(c) == Answer(c, FALSE) /\ Set(Asked(c), Unclaimed(Asked(c)))

\* fetch: the archive downloads and its sum matches, or nothing is installed.
\* A client gone from the HTTP door takes its handler with it.
Fetch(c) ==
  /\ ask[c].pc = "fetching"
  /\ proc[Asked(c)].pc # "ending"
  /\ \/ Go(c, "fetched") /\ UNCHANGED proc
     \/ Fail(c)
     \/ /\ ask[c].http /\ ask[c].left
        /\ ask' = [ask EXCEPT ![c] = Nothing]
        /\ Set(Asked(c), Unclaimed(Asked(c)))
  /\ UNCHANGED <<socket, disk, supervision, past>>

\* install: the staged file is removed and written again, ...
Stage(c) ==
  /\ ask[c].pc = "fetched"
  /\ disk' = [disk EXCEPT !.staged = Part]
  /\ Go(c, "staging")
  /\ UNCHANGED <<proc, socket, supervision, past>>

Copied(c) ==
  /\ ask[c].pc = "staging"
  /\ \/ /\ \E v \in {ask[c].version, Other} : disk' = [disk EXCEPT !.staged = v]
        /\ Go(c, "staged")
        /\ UNCHANGED proc
     \/ Fail(c) /\ UNCHANGED disk
  /\ UNCHANGED <<socket, supervision, past>>

\* ... asked for its version, ...
States(c) == disk.staged = ask[c].version
Unstaged == disk' = [disk EXCEPT !.staged = None]

Verify(c) ==
  /\ ask[c].pc = "staged"
  /\ IF States(c) THEN Go(c, "verified") /\ UNCHANGED <<proc, disk>>
                  ELSE Fail(c) /\ Unstaged
  /\ UNCHANGED <<socket, supervision, past>>

\* ... the binary kept before is removed, the one in place given its name, ...
Unlink(c) ==
  /\ ask[c].pc = "verified"
  /\ \/ disk' = [disk EXCEPT !.previous = None] /\ Go(c, "unlinked") /\ UNCHANGED proc
     \/ Unstaged /\ Fail(c)
  /\ UNCHANGED <<socket, supervision, past>>

\* Mutant: the binary in place is moved aside rather than given a second name.
LinkByMove(c) ==
  /\ ask[c].pc = "unlinked"
  /\ \/ disk' = [disk EXCEPT !.previous = disk.installed, !.installed = None]
        /\ Go(c, "linked") /\ UNCHANGED proc
     \/ Unstaged /\ Fail(c)
  /\ UNCHANGED <<socket, supervision, past>>

Link(c) ==
  /\ ask[c].pc = "unlinked"
  /\ \/ disk' = [disk EXCEPT !.previous = disk.installed] /\ Go(c, "linked") /\ UNCHANGED proc
     \/ Unstaged /\ Fail(c)
  /\ UNCHANGED <<socket, supervision, past>>

\* ... and the staged file renamed over it.
Rename(c) ==
  /\ ask[c].pc = "linked"
  /\ \/ disk' = [disk EXCEPT !.installed = disk.staged, !.staged = None] /\ Go(c, "installed") /\ UNCHANGED proc
     \/ Unstaged /\ Fail(c)
  /\ UNCHANGED <<socket, supervision, past>>

\* Mutant: the update answers and leaves the daemon running.
ReplacedStays(c) ==
  /\ ask[c].pc = "installed"
  /\ Set(Asked(c), Unclaimed(Asked(c)))
  /\ Answer(c, TRUE)
  /\ UNCHANGED <<socket, disk, supervision, past>>

\* Only then is the stop asked for.
Replaced(c) ==
  /\ ask[c].pc = "installed"
  /\ Set(Asked(c), [Unclaimed(Asked(c)) EXCEPT !.asked = TRUE])
  /\ Answer(c, TRUE)
  /\ UNCHANGED <<socket, disk, supervision, past>>

-----------------------------------------------------------------------------
\* The supervisor lets its job go, and signals it.
Unload(file) ==
  /\ unit' = [unit EXCEPT !.loaded = FALSE, !.file = file]
  /\ IF unit.loaded /\ \E s \in Slot : Job(s)
     THEN Signalled(unit.job) ELSE UNCHANGED <<proc, socket, ask>>

\* `supervisor install`: what is there is booted out, ...
Install ==
  /\ verb = "idle" /\ Event
  /\ IF unit.file THEN Unload(TRUE) ELSE UNCHANGED <<proc, socket, ask, unit>>
  /\ verb' = "unloaded"
  /\ UNCHANGED disk

\* ... the unit is moved into place, and handed over: refused, it is removed.
WriteUnit ==
  /\ verb = "unloaded"
  /\ unit' = [unit EXCEPT !.file = TRUE]
  /\ verb' = "written"
  /\ UNCHANGED <<proc, socket, disk, ask, past>>

Load ==
  /\ verb = "written"
  /\ \/ unit' = [unit EXCEPT !.loaded = TRUE]
     \/ unit' = [unit EXCEPT !.file = FALSE]
  /\ verb' = "idle"
  /\ UNCHANGED <<proc, socket, disk, ask, past>>

Uninstall ==
  /\ verb = "idle" /\ unit.file /\ Event
  /\ Unload(FALSE)
  /\ UNCHANGED <<disk, verb>>

-----------------------------------------------------------------------------
Process(s) == Bind(s) \/ Look(s) \/ Take(s) \/ Serve(s) \/ Drained(s) \/ Wake(s) \/ Exit(s)

\* A request is handled to its answer.
Handle(c) ==
  \/ Stop(c) \/ Reply(c)
  \/ Judge(c) \/ Claim(c) \/ Fetch(c) \/ Stage(c) \/ Copied(c) \/ Verify(c)
  \/ Unlink(c) \/ Link(c) \/ Rename(c) \/ Replaced(c)

Next ==
  \/ \E s \in Slot : Process(s) \/ Term(s) \/ Die(s) \/ Respawn(s)
  \/ \E s \in Slot, p \in Port : Run(s, p) \/ Start(s, p)
  \/ \E c \in Client : Send(c) \/ Leave(c) \/ Handle(c)
  \/ Install \/ WriteUnit \/ Load \/ Uninstall

\* The runtime runs what is ready, a turn in flight ends, a download times out,
\* and the supervisor starts its job again.
Fairness ==
  /\ \A s \in Slot : WF_vars(Process(s)) /\ WF_vars(Respawn(s))
  /\ \A c \in Client : WF_vars(Handle(c))

Spec == Init /\ [][Next]_vars /\ Fairness

-----------------------------------------------------------------------------
(* Properties *)

\* Whatever is killed at whatever step, the path the supervisor executes holds
\* a whole binary of the release that was asked for (update.rs, install).
Bootable == disk.installed \in Release

\* A daemon that answered `stop`, or an update it made, is gone in the end,
\* even where it was asked before its run loop waits for the release, and
\* whichever connection and door it was asked through (daemon.rs, Shutdown).
StopStops == \A s \in Slot : proc[s].promised ~> ~Alive(s)

\* An update that was answered is running in the end, unless the supervisor
\* was told to let go or a daemon run by hand took the port (`update`).
UpdateTakesOver ==
  \A v \in Release :
    past.updated = v ~>
      \/ past.updated # v
      \/ ~unit.loaded
      \/ \E s \in Slot : proc[s].pc = "serving" /\ (proc[s].runs >= v \/ ~proc[s].supervised)

\* What control::serve says of the socket: a live one is another daemon's and
\* is not taken from it.  It does not hold where two look at once.
SocketKept == [][\A s \in Slot : Reachable(s) /\ Answers(s)' => socket' = s]_vars

=============================================================================
