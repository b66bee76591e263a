# Formal models of proxenos

proxenos is a daemon that lets a client speaking the Anthropic messages API be
served by another provider's responses API (or relayed to its own), with the
subscriptions and keys of an operator.  These modules model the parts of it
where a step of one task, thread, process or machine restart can invalidate what
another believes: the turns of a conversation and the connection they share, the
stream of one turn and the frames it becomes, the store of conversations, the
account all of them are made as, and the files that outlive the daemon: keys,
selection, configuration, spend, quota figures, and the binary itself.

Everything is translated from `src/crates/core` and `src/crates/proxy`;
`PROJECT.json` maps each definition to the lines it stands for, and lists the
hazards, the runs, the mutants each property is shown to catch, and the theorems.

To check a module: `tlc -workers 2 -config <cfg> <module>`.  To check the
proofs: `tlapm` on each module named `*_proofs`.

## Inventory

For each component: its state, its operations, whom it meets, what is hard about
it, what makes it correct.

**Session and turn bookkeeping** (`core/session.rs`, `proxy/session.rs`).  A
`Session` keeps a baseline (what the backend has been told, in order), the last
request and response id, whether a turn has ever completed on it, and the
connection slot.  A turn reconciles the client's replay with the baseline, takes
a snapshot, seeds an unconfirmed session, computes a delta, and closes the
session when it completes.  Turns of one conversation overlap freely: only single
reads and writes are under a lock.  Correct when a delta says to the backend
exactly what the full conversation would have said; a wrong one is silent.
The `SessionStore` matches a request to a session by content, under one lock
that does not include the sessions' own; holds 64; forgets what has been idle
an hour, and everything on a switch.  Correct when conversations are neither
joined nor split.  *Modelled*: `Conversation`, `SessionTurns`, `SessionStore`; how
items are compared, `ReplayEquality`.

**Upstream transport** (`upstream/conduit.rs`, `pool.rs`, `websocket.rs`,
`http.rs`).  A `Conduit` per session takes the pooled socket or dials, decides
between a delta and a full upload, retries a stale socket once, and latches to
HTTP when sockets fail.  A pump task reads the socket ahead of the client through
a bounded channel, and parks or drops the socket.  Hard: client, pump and backend
stop at any point.  Correct when no event is lost or repeated, no stream ends
quietly, a parked socket is quiet, an abandoned one let go.  *Modelled*:
`SessionTurns`, `TurnStream`.  Encoding and compression are not.

**Ingress** (`ingress.rs`).  Access checks, routing, resolving the session, the
timed peek that decides the status, the frame stream, calibration, spend, close.
*Modelled*: the life of a translated turn; what it records in `SpendTally` and
`QuotaFigures`.  Not: keep-alive, counting tokens, the access checks.

**Request and response translation** (`core/translate`, `core/anthropic`,
`core/sse.rs`).  A request's messages become items, its tools those the backend may
know of; what the backend answers comes back as messages of the next request.
Correct when the items say what the messages do, and when what was answered and
what is replayed are recognised as one.  The response translator keeps the open block, the calls that
wait for it, searches and sources; it is fed events in the backend's order.
Correct when frames keep the protocol of a message and every call reaches the
client whole, once.  *Modelled*: `ReplayEquality`; `ResponseFrames` and the fold of
`aggregate.rs`.  Not: schemas, the choice of an effort, the SSE decoder.

**Control operations that move the serving account** (`control/handler.rs`,
`catalog.rs`, `auth/accounts.rs`, `auth/selection.rs`).  State: keys, declared
profiles, the selection; the catalog (one account's menu of models); the tier
mapping in force; every session's socket.  `accounts.select`, `accounts.remove`,
`config.reload` and the follow loop each move several of these with a fetch in
between.  Correct when they agree again once no move is under way.  *Modelled*:
`AccountMoves`, and file by file `Credentials`.

**Authorization** (`auth/authorize.rs`, `grants.rs`, `refusals.rs`).  Which
credential a turn or a fetch is made with.  *Modelled* where it matters: as the
identity of a turn in `AccountMoves`, as what a sweep asks for in
`BorrowedGrants`.

**Credential store** (`auth/store.rs`, `accounts.rs`, `selection.rs`).  Three
files with no transaction: keys, the selection, and a mapping filed under a key's
name.  Tasks of the daemon, the command line and an editor write them; the first
is compared and replaced under a lock file, the second renamed into place without
one.  Hard: an interleaving or a death between any two writes.  Correct when no
write of a key is lost, nobody starts paying unasked, and the files agree again.
*Modelled*: `Credentials`.

**Borrowed profiles** (`auth/borrowed`).  Grants other programs own, read from a
keychain or a file; a lapsed one is renewed by running its owner's client, one
run at a time under a file lock, killed at a deadline, within the budget of a
sweep.  Correct when a client is run once, only where it can help, and every
sweep answers.  *Modelled*: `BorrowedGrants`.

**Tier policy and configuration** (`policy.rs`, `config.rs`, `config/edit.rs`)
and **logins** (`auth/profile_login.rs`).  A snapshot replaced under a lock;
settings written to `config.toml` before they are applied; a reload that may be
refused late; a login that decides what to declare before a sign-in that takes
minutes and writes after it.  Correct when a restart would come up as the daemon
is, and always could.  *Modelled*: `Settings`.

**Usage and spend** (`usage.rs`).  A tally of what turns spent and a table of
quota figures, per account, in memory and in files two daemons may share; figures
age, asks are rationed by the hour, accounts are renamed and removed under both.
Correct when what was spent is counted once, a later figure is not replaced by an
earlier, and a forgotten account stays forgotten.  *Modelled*: `SpendTally`,
`QuotaFigures`.

**Control socket, daemon life cycle, supervisor, update** (`control/mod.rs`,
`daemon.rs`, `commands/daemon.rs`, `supervisor.rs`, `update.rs`).  A daemon binds
a port, then a socket others find it by; a stop is answered before it is released,
and turns under way are let finish; an update stages a binary, has it state its
release, links the previous one aside, renames, and asks its own daemon to stop;
a supervisor starts the installed file again.  Hard: deaths and signals between
any two of these.  Correct when something that starts is always installed, a
promised stop comes, and an update that was answered runs.  *Modelled*:
`DaemonLife`.

**Relay** (`upstream/relay.rs`), **incidents** (`incidents.rs`), **recorder**
(`recorder.rs`), **CLI, launch, rendering**: not modelled, see below.

Interactions: ingress calls the store, a session, its conduit and the translator
for every turn (shared state, one lock each); the pump talks to the turn through a
channel and to the session through its slot; control operations reach the turns
only by clearing the store and by what the credentials answer next; daemons and
command lines meet each other only in files, locks of files, and the socket.

## Modules

| module | models | composed with |
|---|---|---|
| `Conversation` | items, what a client can replay, `reconcile`, `extends`, `delta` as operators | extended by the next three |
| `SessionTurns` | the turns of one conversation over its session, conduit and backend | |
| `SessionStore` | which session a request is given, over several clients | |
| `ReplayEquality` | a request translated, its answer shown, replayed and compared | what `Conversation` takes for equality |
| `TurnStream` | one turn: opening events, pump, channel, HTTP body, peek, frame stream | |
| `TurnEnding` | what `SessionTurns` assumes of the end of a turn | implemented by `TurnStream` |
| `ResponseFrames` | translator, fold, and a backend writing several items at once | |
| `MessageProtocol` | the frames of one message, abstractly | implemented by `ResponseFrames` |
| `AccountMoves` | control operations, follow loop, catalog, mapping, sockets | |
| `Credentials` | keys, selection and a key's mapping on disk, file by file | below `AccountMoves` |
| `Settings` | `config.toml`, the daemon's snapshot, requests, logins, an editor | beside it |
| `SpendTally` | `spend.json` and the counts of two daemons | |
| `QuotaFigures` | `quota.json`, `asked.json`, the figures two daemons hold | |
| `BorrowedGrants` | sweeps over lapsed profiles, locks, clients, deadlines | a sweep of `QuotaFigures` |
| `DaemonLife` | port, socket, stop, supervisor, update | |
| `SessionTurns_proofs`, `TurnStream_proofs`, `AccountMoves_proofs`, `Credentials_proofs`, `Settings_proofs`, `QuotaFigures_proofs`, `BorrowedGrants_proofs`, `DaemonLife_proofs` | theorems | each extends the module it is about; the first, `SessionStore` too, and the second, `ResponseFrames` |

**SessionTurns.**  `pc[t]` follows `messages` in ingress.rs: `Ask` is the resolved
request (`Open` or `Join`), `Snapshot` is `Session::snapshot`, `CheckConfirmed` and
`Seed` are the two halves of `seed_if_unconfirmed`, `TakeConnection` is
`Conduit::send` up to the frame, `Accept`/`RetryFresh`/`FallBack`/`AcceptHttp` how
that ends, `Complete`/`EndUnfinished`/`Abandon`/`Leave` how the response ends,
`Park` and `Close` what is put back.  The backend is external: it takes a delta's
input to be the context it holds behind the response named, followed by the items
sent (`heard`).  A search the backend runs itself stays with it: no session records
one (`ingress.rs:1369` passes over an item it cannot hold and that is neither a
message nor a call, and goes on continuing the response), so a baseline is `Held`,
all but the searches, of what the backend has.  `clobbered` is a history variable: a seed has overwritten a
confirmed baseline.  A connection and a response are named by the turn that made
them, since a turn makes at most one of each.

**TurnStream.**  `pump`, `hand` and `chan` are the pump task, the events it
carries and the channel; `pc`, `taken`, `framed` the request's task.  `wire` is
what the transport yielded, a history.  Backend events are `codex` (a preamble),
`part`, a clean terminal event, `error`, or `Cut`.  The JSON answer drains the
same stream and is not separate.  `EndsAsSessionTurnsTakesIt` justifies the order
`SessionTurns` assumes: the pump parks before its sender is dropped, so the stream
cannot end, nor the session be closed, before the socket is back.

**ResponseFrames.**  Each translator function is an operator on the record `tr`;
each backend event is an action that applies `handle` to it.  `Read` folds one
frame as `aggregate` does.  Arguments and text are counted in fragments; a
fragment that names no call is sent only when one call streams.  `cut` marks an
item whose block another item closed before it ended.  The loops of
`drain_pending` and `emit_searches` are recursive functions on the number of turns
taken, so that they can be proved about.  `Exhausted` is the stream's end without
a terminal event, or after one.

**SessionStore.**  A request takes the lock and filters (`Filter`), then picks the
longest (`Reuse`) or makes a session (`Create`): two steps because `best_match`
reads each baseline twice and closing a turn needs only the session's lock
(`lock.moved` records that it happened).  `lookup` changes nothing and is no
action.

**ReplayEquality.**  A request is a fold of `AddBlock` over the blocks of each
message, as `translate_message` loops over them; `Translate` is `messages` in
ingress.rs from the probe to the upload.  `Answer` shows an answer of the backend
block by block (`Shown`) and closes the session with its items; the client keeps
the blocks as a message, or has left.  A text is a sequence of tokens; what a part
says apart from its text, and the form of a call's arguments (`ordered` as the
client writes them, `reordered`, `empty`), is its type.  `Canonical` is `strip_ids`.
The client answers its calls before it says anything, as the messages API asks.

**AccountMoves.**  Control requests are split at their awaits: the lock a move
holds (`holder`) and each fetch.  `owner` is which account a borrowed profile is
signed in as, changed behind the daemon's back by `OwnerSignsIn`; `pool` is the
identity a session's socket was opened as.  One tier, models named in the
configuration, all accounts on the translating provider.  The list built in at
start, used when the first fetch fails, is the catalog `None`; the code never
follows it.

**Credentials.**  A verb is a task that goes through its writes one by one:
`Lock`, `Read`, `Compare`, `Swap` are the write of the key file, up to `Attempts`
times; `Open`, `Fill`, `Move` that of the selection (a pending file is truncated,
written and renamed, and a rename moves the file itself, so a second writer may
still be filling what has become the selection: `dir` names files, `content` is
what each holds); `Section` moves a mapping to a key's new name.  `Refused` is the
file system refusing what a verb does next to the key file or the selection: the
verb ends there, undoing nothing, and `stranded` are the names it may leave chosen,
or with a mapping, and without a key.  `Edit` is an editor that takes no lock,
`Crash` a process that dies, with its locks.

**Settings.**  `Document`, `Open`, `Fill`, `Move` read, edit and replace the file;
`Apply` puts a setting in force; `Reload`, `Profiles`, `Mapping`, `Ceiling`,
`Consent` are what a reload resolves and swaps, in order; `Plan`, `Truncate`,
`Write` are a login.  A value is a model or one pinned to another account, either
with the effort the client starts it at or with none; an effort ceiling; or one
nothing resolves.  Two tiers that state different efforts for one model do not
resolve (`Conflict`), and a `tiers.set` is judged only by the mapping it lands in
(`Lands`, handler.rs:1367): `past.unjudged` are the accounts whose own merged
mapping one has left clashing.

**SpendTally.**  A turn is two counts, each under its own lock (`RecordSpent`,
`RecordUnflushed`); a write is `Wait`, `Merge`, `Compare`, `Replace`, `Flush`.
`ledger` is a history that says where every turn went: counted, overwritten by a
replacement after its comparison, died with, forgotten.

**QuotaFigures.**  `Turn`, `Sweep`, `StatusLine` measure; `ClaimAsk` is the hourly
ration; `Read`, `Merge`, `Replace` is a write of the file, with no lock across.  A
figure is its windows and when it was stated; of a window only its name and its
reset matter.  `past.ghosts` are accounts that went while something of theirs was
being measured or written.

**BorrowedGrants.**  A sweep decides (`decide`), waits for the profile's lock,
decides again under it (`needed`), starts the client (`spawn`), waits for it
(`run`), reads what it left.  Time, the owner and other clients move between any
two.
`kept` is what the keychain and the file beside it hold; the owner renews, signs
out, and seals the keychain at any time.  A client outlives a daemon that dies, and
one it cannot wait for (`orphan`).  `wrote` is a history: who last had a hand in
the profile.

**DaemonLife.**  `proc` are processes in slots, `ask` requests served by a task of
one, at the socket or at the HTTP door; `disk` is the installed binary, the
previous one and the staged one; `unit` is the supervisor.  `install.sh` and the
service manager are external.

## Runs

`replay`, `settings`, `tally` and `life` are the longest.

| run | question | bounds |
|---|---|---|
| `overlap` | do deltas stay exact and sockets exclusive under overlapping turns? | 3 turns, each may fail, fall back, be retried or abandoned, every answer with a search; 1.1 M states |
| `store` | are conversations joined, split, or the wrong one forgotten? | 4 requests by up to 4 clients (two open alike, one with other words, one on another tier), room for 2, one idle hour or switch; 2.6 M states |
| `replay` | does the backend hear what the transcript says, and is a faithful replay recognised? | 3 requests, 8 answers in the forms a backend writes, one failure, rewind, lost session, lost connection or client that leaves; 0.9 M states |
| `stream` | is anything lost, silent, leaked or unbounded between backend and client? | the code's peek of 4, channel of 2, 6 events before the end |
| `frames` | do frames keep the protocol, and calls, replays and searches come out right? | any 4 of 3 calls, 2 messages, a thought, a search; 2 fragments a call; 1.5 M states |
| `moves` | do catalog, mapping, selection and sockets agree after switches, reloads and removals, refused or not? | one profile and one key with different menus, one sign-in, fetches failing |
| `credentials` | is a write of the keys lost, a payer moved unasked, a file left behind? | 2 tasks of the daemon and a command line, 2 keys, 3 verbs, 2 edits or deaths, refusals anywhere, 2 attempts of the code's 5; 1.5 M states |
| `settings` | would a restart come up as the daemon is, and always? | 1 operator, 1 login, 3 requests, one edit or death, 2 tiers over one model; 2.1 M states |
| `tally` | is what turns spent counted once? | 2 threads and another daemon, 3 turns, any switches, a verb, a failed write or a death; 2.2 M states |
| `quota` | do later figures win, asks stay hourly, forgotten accounts stay gone? | 2 threads and another daemon, 2 accounts, 3 pieces of work, one failure or restart, an hour |
| `grants` | is one client run at a time and once, and does every sweep answer? | a sweep of each of 2 daemons, 2 lapsed profiles, one event of the owner, a death or a failed wait; 0.6 M states |
| `life` | is something bootable always installed, does a promised stop come, an answered update run? | 2 processes, a client at either door and one at the socket, 2 releases, one daemon by hand, one signal, kill or failure; 0.4 M states, with liveness |

Why the bounds are enough.  Every hazard of a conversation needs two turns and a
third to observe the damage; three overlap in every order.  Over four events the
peek is exhausted, over two the channel is full, so six do both and leave one.
Three calls are the least where one waits behind another that waits; two
fragments the least where arguments can be cut.  Four requests are a first and a
second of one client around two of others, over a store too small for all.  Three
requests are an answer, its replay, and a turn that continues from what was
replayed.  A
profile that becomes somebody else and a key beside it give the three identities a
move can confuse.  A lost write needs two writers and one between them, so the
modules about files have two tasks of one process, which share its locks and its
pending file, and one of another, which shares only the files.  Two attempts are
the least where a retry is given up.  A sweep waits out at most one client, so two
lapsed profiles show whether it runs a second.  Two tiers over one model, of which a
section names one and the shared table the other, are the least that clash by a set
judged elsewhere.  Two processes are one that ends
and one that starts; a third adds no order of the two.

`CHECK_DEADLOCK FALSE` is given where the system may stop: a daemon nobody asks
anything of, clients that have made the requests of the run, a translator whose
stream is over, an exhausted bound.  Symmetry is used in runs that check no
liveness.  `overlap` and `credentials` count as one the states that differ only in
what no step and no property reads any more (`View`): what a turn that is done has
kept to itself; which of the files it is that a name leads to.

`SessionTurns`, `SessionStore`, `TurnStream`, `ResponseFrames` and `AccountMoves`
state a type invariant; in `Credentials`, `Settings`, `BorrowedGrants`,
`QuotaFigures` and `DaemonLife` it is a part of the inductive invariant of the proof module; no run is
spent on one alone.

Fairness.  `TurnStream`: the proxy's own tasks are scheduled, the peek's timer
fires, and a client that stays reads; the backend owes nothing.  `AccountMoves`:
a request's fetch ends (it has a timeout), the follow loop comes round
(`FOLLOW`, `FOLLOW_RETRY`, and tokio's mutex is first come first served, hence
strong fairness), and a fetch asked for again and again is sometimes answered;
without the last no daemon could learn anything.  `BorrowedGrants`: each sweep's
task is scheduled, which includes the deadline of a client and of a wait for a
lock (both are timers); the owner and the clients owe nothing.  `DaemonLife`:
processes and the tasks that answer requests are scheduled, turns end or are cut
off at the deadline of the drain, and a loaded unit is started again, as the unit
file asks; nobody owes a request, a signal or a start by hand.

Excuses.  A property that sets a case apart names it, and the case is one the code
accepts or one listed below.  `HeardAsSaid`, `DeltaIsExact`, `BaselineIsContext`:
while no seed has overwritten a confirmed baseline (`clobbered`), and of all but the
searches the backend ran itself (`Held`).
`KeepsItsSession`: a baseline that moved between the two reads of `best_match`, a
session in which only the opening words have been said, which any other such ties
with, and a client that was the last to speak in two sessions held (its turn was cut
short by an idle hour or a switch no longer than the next), which returns to the longer.
`AnswerIsWhole`, `ReplayLinesUp`: items in `cut`.  `StaysIncremental`: an answer
that holds an item nobody can replay (`Unreplayable`).  `MappingFollowsSelection`:
a key that served and was removed, and a refused switch that had no account to go
back to or that another move overlapped; `RefusalChangesNothing`: the last.
`Servable`: a refusal, a hand-over, an overlap, a profile that became again whom
the list describes before it was followed; `SocketsFollow`: refusals and the last.
`NoWriteLost`: an edit between comparison and rename.  `RestsWhole`: deaths,
edits, writers of the selection that crossed, and of a verb the file system refused
the one name it was about; its run renames one key at a time.
`PayerMovedByChoice`: hand edits, and writers of the selection that crossed.
`CountedOnce`: in `Conserved`, a change of names across a
write; in `StatedAsHeld`, that, and the end of a write, or a verb, between the two
counts of a turn.  `GoneStaysGone`: what was being measured or written as an
account went.  `LaterKept`: writers that read or fill at the same time.
`AskedHourly`: a claim whose write failed, or that another daemon wrote over.
`RestartAgrees`: settings asked not to be kept; it and `Restartable`: a file
another has written, a login that writes it during a request included, and one that
held at the start an effort nothing parses, under an account that does not serve;
these and `RefusedReloadChangesNothing`: requests that overlapped (`crossed`), so
that they say nothing of two operators at once.  `Restartable`: the mappings of
accounts that do not serve and that a set judged elsewhere left clashing
(`unjudged`).  `RunsOnce`: what the owner or a client of nobody has touched since.
`UpdateTakesOver`: a supervisor told to let go, or a daemon run by hand that took
the port.

## What is proved

For every value of the constants that satisfies the named assumptions:

| module | theorem | says | inductive invariant |
|---|---|---|---|
| `SessionTurns_proofs` | `TypeCorrect` | `TypeOK` | itself |
| | `DeltaExact` | `DeltaIsExact` | `DeltaInv` |
| | `HeardSaid` | `HeardAsSaid` | `SaidInv` with `DeltaInv` |
| | `SocketsExclusive`, `ContinuesHeld`, `ParkedQuiet` | `SocketExclusive`, `ContinuesHeldResponse`, `ParkedIsQuiet` | `SocketInv` |
| | `DeltaOnlyInput`, `BaselineContext` | `DeltaChangesOnlyInput`, `BaselineIsContext` | `FieldsInv` with `DeltaInv` |
| | `StoreType`, `ConversationsApart` | `StoreTypeOK`, `NeverJoined` | `StoreInv` (`OriginInv`) |
| | `ForgetsLeastRecent` | `RecentFirst`, `DropsLeastRecent` | `UseInv` |
| | `NotSplit` | `KeepsItsSession` | `WholeInv` (`ReturnInv`) |
| `TurnStream_proofs` | `NothingIsLost`, `EndIsTrue` | `NothingLost`, `EndedTruly` | `IInv` |
| | `TurnEndsAsTaken` | `EndsAsSessionTurnsTakesIt`, a refinement | `IInv` |
| | `FramesFollow` | `FollowsProtocol`, a refinement | `FramesInv` |
| `AccountMoves_proofs` | `MappingFollows`, `ListJudgesRightly`, `SocketsFollowServing` | `MappingFollowsSelection`, `JudgedRightly`, `SocketsFollow` | `Inv` |
| | `RefusalLeavesAsWas` | `RefusalChangesNothing` | `Inv` |
| `Credentials_proofs` | `NoKeyWriteLost` | `NoWriteLost` | `FileInv` |
| | `PayerStays` | `PayerMovedByChoice` | `PayInv` |
| | `LocksReleased` | `LocksWorked`, half of `RestsWhole` | `WorkInv` |
| `Settings_proofs` | `FileRestartable`, `RestartComesUpSame` | `Restartable`, `RestartAgrees` | `Inv` |
| | `LoginsKeep` | `LoginKeeps` | itself, with `Inv` |
| | `RefusedReloads` | `RefusedReloadChangesNothing` | `Inv` |
| `QuotaFigures_proofs` | `FreshFigures` | `FreshFigureHolds` | `FreshInv` |
| | `AskedOnceAnHour` | `AskedHourly` | `AskInv` |
| | `GoneForGood` | `GoneStaysGone` | `GoneInv` |
| | `LaterIsKept` | `LaterKept` | `KeptInv` with `FreshInv` |
| `BorrowedGrants_proofs` | `OneClientAtATime` | `OneClient` | `GrantsInv` |
| | `RunsAreOnce` | `RunsOnce` | `RunsInv` with `GrantsInv` |
| `DaemonLife_proofs` | `AlwaysBootable` | `Bootable` | `UpdateInv` |

*Turns.*  `DeltaIsExact` speaks only of what the backend heard and is not
inductive: an `Accept` could make it false unless what the turn continues, and the
snapshot it computed its delta from, are known to agree.  `DeltaInv` adds what is
needed: `HeardInv` (nothing is heard before a response starts), `SessionInv` (the
session's last response is over, and the baseline is the backend's context behind
it, but for its own searches), `SnapInv` (so is what any turn has read) and `ContinueInv` (a delta is sent
only for an extension of the baseline read).  The heart is `DeltaRestores`: the
baseline followed by the delta is the full input.  `Held` distributes over
appending, which is why leaving searches out of both sides keeps them equal.  `SaidInv` says what a client was
shown of every conversation the turn may be measured against, so that passing over
what it was not shown, and only that, gives its own words back (`HeardAsSaid`).
`Picked` is a recursive function and not an operator: its laws (a prefix, a
concatenation, an append) follow from induction on a set of numbers, and each is
a lemma.

*Connections.*  The three properties hold each other up, so `SocketInv` proves all
three.  To them it adds `DialInv` (a turn that may still dial has a connection
nobody holds: this is what makes `RetryFresh` safe, and why a turn that fell back
to HTTP, which latches, is no longer such a turn), `HoldInv` (when a turn holds a
connection) and `NamedInv` (a connection in use names the response it carries, and
that response is over when it is parked).  `FieldsInv` says whose fields the
session and each snapshot hold: of a response that is over, and whose request can
no longer change.

*The store.*  `OriginInv`: every conversation begins with the words of those who
have it, wherever it is held, and so does all that a request is matched to;
continuing a session then means sharing its first item, which a turn never takes
away.  `UseInv` orders the store by the time of use, which is what an eviction and
an idle hour cut.  `ReturnInv` is for a client that comes back: its next request
continues every session it was the last to speak in, held or forgotten, and past the
opening words nobody else's request does, because the last thing said there that a
client can replay is its own.  Two baselines a request continues are therefore
prefixes of it, and the longest is where the client last was; the second read of
`best_match` finds the same unless a baseline moved.

*The stream.*  `IInv` says what each of the two tasks may be holding: while the
connection is opened neither holds anything (`OpeningInv`), over HTTP there is only
the request (`PlainInv`), and a pump reads on only while nothing it was handed ends
the turn (`PumpInv`), so that what is parked ended on its last event, cleanly.
`ToldInv` and `JudgedInv` say what has been told to the client by then.
`TurnEndsAsTaken` maps each step to a step of `TurnEnding` or to none: `Staged` puts
the cases of the mapping in an order, so that a step is judged by the first that
changes.  A delta and a socket of `SessionTurns` rest on that order of ends.

*Moves.*  Whoever moves holds the one lock (`LockInv`), so what a switch remembers
is what it found, except where a reload, which takes none, or a move that ended
while it waited came between (`SwitchInv`, `overlapped`).  The mapping is then that
of who serves or of who served before the switch under way (`MappingInv`).  For
sockets, a turn's own is followed as well as the one pooled (`Opened`), and each was
opened as whoever serves, or as one whom the list in force does not describe and no
fetch under way will (`Follows`): with this exception, an owner who signs in keeps
the invariant until the follow loop has come round.

*Keys.*  `NoWriteLost` is about one step; `FileInv` says why it holds there: a task
at the key file holds its lock (`Locked`), and one that has compared it, and was
not slipped past by an editor, has read it as it is (`Current`).  A task's step
keeps `Current` of the others because they are not at the file; a death gives the
lock back with the task (`WorkInv`).

*Who pays.*  A writer of the selection moves a file it may share, so `PayInv` says
first what the directory is: the pending name never leads to the selection's file
(`DirInv`), and unless writers crossed there is one of them, whose file holds what
it has written (`WriterInv`).  Then what a verb found before it wrote is so still,
unless someone overtook it (`Stands`): a key is stored only once the account that
served alone has been recorded.  The files are one more than the tasks, so a fresh
one always exists; that is why the names and tasks are finite.

*Settings.*  `Inv` follows one request through its steps: alone unless `crossed`
(`AloneInv`), it has the file's document in hand until it replaces it, and the file
says what is in force but for the setting being moved from one to the other
(`Mid`, `Between`).  What is about to be written parses, states no effort that does
not, and resolves for every account but the unjudged (`Sound`), which is what consent,
pins and clashes are checked for; whoever comes to serve is judged when it does
(`Judged`, `Written`: a switch to a clashing mapping is refused), so what serves and
is saved resolves.  A reload takes only a document of which every mapping resolves
(`Whole`).  A login's truncated file is the moment nobody
could start from.

*Figures.*  `FreshInv` adds that no record, in a file, in memory or in a task's
hands, is of a later time than now (`Dated`), and that what a task has just
measured has not reset (`Measured`).  Time passing then makes no old figure fresh,
and whatever moves a figure keeps its age or drops what has reset.  `AskInv` says that a
daemon remembers, and would be told by the file, of every ask it made, unless the
file has lost it.  `GoneInv` buries what is gone: no task measures it, and none
brings it to the file but before one that drops it.  `KeptInv` says that a writer
nobody replaced the file under has read it as it is.

*Grants.*  `GrantsInv`: a sweep holds its profile's lock from the second decision
until its client is done with (`AtWork`), a client is run for that profile
(`Running`), and a sweep that has waited one out is past running another
(`Patience`).  `RunsOnce` is of the step that starts a client, which looks at nothing:
`RunsInv` says why what it starts for is not what another has just renewed.  The
decision was taken under the lock; until it is let go the only client that writes is
the holder's own, which has not started (`WriteFresh`); and what has lapsed stays so
as time passes (`LapsedStays`).

*Frames.*  `MessageProtocol` allows a message its frames one at a time, from where
its reader is (`Takes`); `Run` is the frames that lead a reader from one place to
another.  `FramesInv`: what is written and not yet read leads the client from
where it is to where the translator stands (`Reached`), or, once the message has
been closed, to its end (`MessageOver`).  A lemma for each function of the
translator says that it keeps `Reached`, whatever was open, waited or was
searched; the two loops are steps taken one after another within a set
(`Iterates`, `Agree`), where the induction is over their number and not over
data.  Reading a frame is then a step of a message (`ReadFollows`), and nothing
else moves the reader.

*Updates.*  `UpdateInv`: the supervisor has one process (`OneJob`), an update runs
in it and has claimed it (`AskPlaced`), so one at most works on the disk
(`OneWorker`); and what has stated its release is still what is staged
(`AskStaged`), so the rename installs it.

Assumed of the constants: `NoneAssumption` and `ReplyAssumption` of `SessionTurns`,
`CapacityAssumption`, `NobodyAssumption` and the bounds of `SessionStore`,
`BoundsAssumption`, `NamesAssumption`, `CredentialsAssumption`, `SettingsAssumption`,
`QuotaAssumption`, `GrantsAssumption`, `SlotAssumption` and `ReleasesAssumption`, and,
of `ResponseFrames`, `ItemsDistinct` and `SizeAssumption`: that names differ from
`None` and from one another, that counts are numbers, that what is there at the start
is of the type read (a first file parses, a stored selection is a name), and, of
`AccountMoves` and `Credentials`, that the names, and the tasks that write, are finite
in number.

Model-checked only: everything else.  Liveness under fairness (`NothingHangs`,
`StaleIsFollowed`, `SweepsEnd`, `StopStops`, `UpdateTakesOver`) is beyond the
prover.  `AnswerIsWhole` and `ReplayLinesUp` compare all that was said with all that
was read, by selections and mappings over whole sequences, and `StaysIncremental`
and `HeardAsTranscript` rest on the translation of a whole history: what such a
fold computes for every input is an induction over data that no lemma here can
state once.  Two properties hold only within
what the runs let happen, and no theorem could state them for every constant.  Of
`RestsWhole`, that the files agree at rest holds of keys renamed one at a time.  Of
`CountedOnce`, `StatedAsHeld` holds of one verb: three that overlap in one daemon
(`a` renamed `b`, `b` renamed `c`, then `c` forgotten) leave unwritten counts under
`b` of a turn that nothing else remembers, for a rename takes each count's lock in
its turn (usage.rs:1294).

## Met while modelling

Each configuration here is violated, by what the code does; none is a run of the
project.  They are kept to be looked at, and as what would pass if the code
changed.

| configuration | property | what happens |
|---|---|---|
| `MCSessionSeed` | `SeededOnlyUnconfirmed` | a turn completes between the check of `seed_if_unconfirmed` and its write (session.rs:212), and its baseline is replaced by another's input; proxy-behavior.md:634 says only an unconfirmed session is seeded |
| `MCTurnStreamStatus` | `StatusIsNotHeld` | the opening events of a WebSocket turn are read without a deadline (conduit.rs:226); proxy-behavior.md:1123 says the status is not held |
| `MCMovesWindow` | `SocketsFollowRefusal` | `select_account` moves the store (handler.rs:2005) before it awaits the catalog, and a refusal puts it back without clearing sessions (2017): a turn made in between opens a socket as the refused account, and later turns of its conversation are carried over it; proxy-behavior.md:769 says a socket is reused only for a turn authenticated as the same account, and api.md:1703 that the mapping is validated before anything moves |
| `MCMovesHandOver` | `MappingFollowsHandOver` | removing the key that serves leaves its mapping in force (handler.rs:2411, against its comment at 2405) |
| `MCCredentialsTorn` | `SelectionReadable` | two writers of the selection fill one pending file, and one renames it half written (selection.rs:96) |
| `MCSpendTallyFiled` | `FiledUnderPayer` | what a turn spent is filed under whoever serves when it ends (usage.rs:1397) |
| `MCSpendTallyFloor` | `TallyIsFloor` | a rename moves unwritten counts a write has already added (usage.rs:1313): they are added again, under both names; proxy-behavior.md:1321 calls the tally a floor |
| `MCBorrowedGrantsSweep` | `OneRunPerSweep` | the budget of a sweep is a time: a client that ends before it is up leaves the rest to a second (handler.rs:2696 says one run at most) |
| `MCSettingsConsent` | `ConsentStated` | a switch, after the file was saved with a pin and the consent for it, puts the pin in force and not the consent (handler.rs:2176); the comment at 2542 says what follows |
| `MCDaemonLifeSocket` | `SocketKept` | two daemons starting at once both find nobody, and the second takes the socket of the first (control/mod.rs:344) |

`MCSessionPair` passes: it checks the inductive invariants of `SessionTurns`
themselves, over two turns, two values of the fields and every kind of answer.

Smaller things, shown by no configuration:

- Of two switches that overlap, one refused, the refusal restores what was
  remembered before the lock was held (handler.rs:1983), undoing the other.
- A daemon that starts while another lets its turns finish serves without a
  socket, where no verb reaches it.
- proxy-behavior.md:608 and 887 say a baseline is what was sent plus what the server
  returned.  Of a `web_search_call` it is not: ingress.rs:1369 passes over it while
  the response is still continued, so a full upload after a fallback tells the
  backend less than a delta would have.
- A selection the file system refuses to write or clear, after the key file was
  replaced, is not undone (accounts.rs:338, 417): it names nothing, though
  handler.rs:1907 says that a write that fails puts the name back.
- A `tiers.set` in the shared table may leave another account's mapping stating two
  efforts for one model (handler.rs:1367 judges the mapping it lands in, so as not
  to pass what "the next switch then refuses", 1266): every
  reload, a switch to that account, and a start that would serve it, are then
  refused.
- A removal whose reload is refused has written the file, and the profile is served
  still: "the divergence this whole surface exists to avoid" (handler.rs:2665).
- `effort.set` to `null` that uncovers a shared effort nothing parses is written,
  answered as an error, and not applied (handler.rs:1719); the file no longer starts
  that account.
- `cross_account_tiers.set` looks for the pins of every account, and finds none in a
  mapping that does not resolve (`unwrap_or_default`, handler.rs:2103).
- A daemon that dies in a switch, between the selection and a mapping that would be
  refused, leaves a selection the next start refuses.
- Two keys renamed at once, the one to what the other was called, may leave a
  mapping under the name in between: a rename takes no lock across its writes.
- A turn pinned to a profile reuses the socket opened when the profile was somebody
  else: `opened_as` compares names (pool.rs:50).
- Two requests that write `config.toml` at once share the pending file, and one may
  move what the other wrote.
- `config.reload` takes no lock of moves (handler.rs:2501), and swaps a mapping in
  by two writes of the snapshot; a tier set meanwhile may be lost.
- A key's list names no account (catalog.rs:261), so one account's list may be
  taken for a key's; a list refetched after a refusal, or after a hand-over, does
  not judge the mapping in force again.
- `best_match` measures baselines after filtering them (session.rs:332).
- A text or reasoning delta inside a call's arguments cuts the call
  (response.rs:625).
- proxy-behavior.md:757 says a connection comes back after an `error` event; the
  pump drops it (pool.rs:264), as its comment explains.
- A call whose arguments are the empty string is shown with no arguments, replayed
  as `{}`, and not equal to it (session.rs:66 leaves what does not parse); a message
  with no text is not replayed at all.  After either, the conversation is a new
  session and one full upload.
- What a daemon states of a turn whose two counts a write ended between is short of
  that turn until the next write.
- Two renames that overlap in one daemon may leave what is not written yet of a turn
  under a name that nothing else counts it under (usage.rs:1294).
- Threads of one daemon share the pending file of `quota.json`; an account that was
  forgotten comes back with a write or a sweep that was under way; a claim of the
  hour is overwritten by another daemon's; a rename moves no claim.
- A client whose daemon died, or that could not be waited for (poke.rs:200), goes on,
  and a second may be run beside it.
- A login truncates `config.toml` in place: a reader between finds an empty
  document, which is the defaults.  What it keeps declared is decided before the
  sign-in.  Two logins may together declare what does not validate.
- A stop asked for by a client that left before its answer is never released, and
  an update is refused after it.  An update judges its release before it claims the
  disk.  A death between the unlink and the link of the previous binary leaves none.

## Not modelled, and why

Wire formats, headers, compression, text layout, file modes and the reading of
older formats are I/O or pure formatting.  Credentials' contents are identities.
Menus are one model per account; in `AccountMoves` a mapping is one tier.  Time is a choice of when a timer
fires, or a few ticks.  The backend, the client, the owners of profiles, the
service manager and `install.sh` are external, and do anything the code has to
cope with.  The *relay* forwards a turn as it came and keeps nothing.  *Incidents*
has one poller and one map under one lock, which others only read.  The *recorder*
writes what nothing reads back.  `estimate.rs` fits a number to one session's
figures.  Schemas, the choice of an effort and the SSE decoder reshape one value
with no state between.  Windows pipes, the token of the remote door and what the
commands print of a start or a stop are left out of `DaemonLife`.

## What would come next

- `ReplayEquality` with turns that overlap, in place of the items `SessionTurns`
  takes for atoms.
- Two operators in the runs of `Settings` and `AccountMoves`, once the code gives
  control requests one order.
- Proofs: `AnswerIsWhole`, from the same account of the frames not yet read;
  `Conserved`, with lemmas on sums over a finite set.
