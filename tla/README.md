# termd in TLA+

termd keeps shells alive on a machine and lets browsers and terminals attach
to them, directly or through a relay. This directory holds TLA+ models of the
parts of termd whose correctness depends on the order in which processes,
threads, requests and system calls act, or on a state too large for tests, the
TLC configurations that check them on small instances, and TLAPS proofs of the
safety properties for all sizes. Paths below are relative to the repository root; `SUP`
abbreviates `termd/src/pty/supervisor.rs`, `PRO` `termd/src/net/protocol.rs`.

## 1. The system

```
 browser (termui) ─┐                               ┌── supervisor ── PTY ── shell
                   ├─ WebSocket ─ termd (daemon) ──┤   supervisor ── PTY ── shell
 termctl ──────────┘     ▲  sqlite: ledger,        └── ...
     │                   │  sessions, history
     └──── termrelay ────┘
```

One daemon process per machine (a file lock) serves clients. Every session has
a *supervisor* process of its own, which owns the PTY and outlives the daemon.
The daemon talks to a supervisor over a Unix socket: one *control* connection
(requests, resume after a break) and one *terminal* connection per attached
client (screen, output, resize, heartbeat). A relay joins clients and daemons
that cannot reach each other: the daemon keeps one control line to it and dials
one data pipe per client.

| Component | State | Operations | What makes it correct |
|---|---|---|---|
| terminal journal (`SUP` `/terminal_journal.rs`) | screen, sequence number, bounded journal | record, snapshot or tail | the journal is the gap-free end of the history |
| attach stream, proxy, terminal WebSocket (`SUP`, `termd/src/net`) | queues, overflow, heartbeat | bootstrap, drain, forward, cut off | nothing is lost or repeated; a slow client is cut off, never skipped |
| terminal clients (`termctl/src/client.rs`, `useTerminalAttach.ts`) | last sequence number, screen | attach, receive, resize, reconnect | the screen is the session's |
| controller authority (`SUP` 2906–3186, 4052–4674) | active controller, lease, transactions, devices | attach, resume, commit, reset, requests | one owner; a stale one cannot act |
| daemon IPC client and mirror (`SUP` 642–2140) | writer, identity, mirror, queue | request, retry, resume, seed, read | every request ends; the mirror is a replica |
| ownership ledger, reconciler (`session_ownership.rs`) | one sqlite row per session | create, commit, close, recover, reconcile | no shell without a row; cleanup converges |
| supervisor process (`SUP` 97–127, 3260–3689) | grant pipe, socket, PTY, confirmed close | start, bind, repair, exit, close | a shell only when granted; reachable; over when closed |
| session runtime (`runtime/mod.rs`, `session/mod.rs`) | books of devices, sizes, attachments | create, attach, detach, resize, close | the books agree with the supervisor |
| screen model (`net/screen.rs`) | grid, cursors, modes, region | apply, resize, snapshot | a snapshot replayed gives the screen |
| PTY bridge and output pump (`net/pty_bridge.rs`) | channel, watch, buffer | read, send, signal, drain | every byte once, in order, none stranded |
| activity detector (`pty/activity.rs`) | parser state, cached foreground | parse, observe, probe | what is shown of an agent is true when due |
| authentication, pairing (`termd/src/auth`, `PRO`) | tickets, challenges, nonces, trust | pair, challenge, exchange, prune | a challenge grants once; trust survives |
| clients and metadata (`PRO`, `net/server.rs`) | attachments, presence, streams | attach, close, rename, forget, stream | streams show the state; presence is true |
| session history, state files (`termd/src/state`) | sqlite, older JSON, lock | open, migrate, save, repair, prune | names and order survive; the file is ours |
| uploads, file and git panels (`PRO`) | records, ranges, grants, child process | chunk, publish, abort, recover, read, git | whole files only; unfinished ones are hidden |
| notifications (`termd/src/notifications`) | tracker, queues, subscriptions | observe, deliver, subscribe, drop | no completion is missed |
| relay (`termrelay/src`), connector (`net/relay.rs`) | rooms, buffers, registry file, tunnels | register, pair, flush, forward, tunnel | order, budgets, release, whole responses |
| installer (`terminstall`, `scripts/install-termd.sh`) | files, service, ledger | install, upgrade, uninstall, roll back | nothing is replaced or lost unasked |
| termctl state (`termctl/src/state.rs`, `cli.rs`) | state file | pair, save, choose | a key the daemon accepted is kept |
| web workspace, wire types, configuration, static server | – | – | see "Not modelled" |

The behaviours that are hard here are failures of one party in the middle of a
conversation: the daemon dies and is restarted while supervisors go on, a
connection breaks after a request was executed and before it was answered,
a queue fills up, a thread works from what it read before another thread
changed it, a process dies between two system calls. `PROJECT.json` lists the
places as hazards with their lines; section 7 adds those no property covers.

## 2. Modules

| Module | Models |
|---|---|
| `TerminalJournal` | `SupervisorTerminalCache`: sequence numbers, journal, snapshot or tail (operators only) |
| `TerminalAttach` | one supervisor, its attached streams, the daemon's proxies and the clients |
| `SupervisorControl` | one supervisor's control connections and the daemon's IPC client, over daemon restarts |
| `SessionOwnership` | ledger, projection, protocol thread, reconciler thread and supervisor processes |
| `SessionLedger` | abstract: what the ledger promises of a session's shell |
| `SupervisorSocket` | binding and repairing the supervisor's socket, one system call a step |
| `SupervisorClose` | one close over lost requests and connections, by runtime, legacy handle or reconciler |
| `SessionRuntime` | the runtime's books against the supervisor's |
| `TerminalScreen` | the screen as a fold over tokens, and its snapshot read back |
| `DaemonMirror` | the daemon's mirror, bootstrap and frame queue across a resume |
| `OutputBridge` | reader thread, channel, watch and output pump |
| `OscParser`, `SessionActivity` | the bounded OSC parser and the activity detector behind it |
| `RelayRoom` | the relay's registry and pumps composed with the daemon's connector |
| `HttpTunnel` | one HTTP request through the relay, both sides |
| `RelayAdmission` | the registry of daemon tokens in memory and on disk |
| `DeviceAuth` | tickets, certificates, challenges, replay window |
| `DaemonClients` | protocol state, runtime, presence and metadata streams under one mutex |
| `SessionHistory` | names, order, identity and schema across restarts |
| `StateFiles` | process lock and opening of the state, one system call a step |
| `FileUpload`, `UploadRanges` | one upload with crashes, and its range maps |
| `SessionFiles`, `GitCommand` | file and git panels beside an unfinished upload; one git process |
| `PushNotices` | from an activity change to the push services |
| `Installer` | commands, script and helper beside a running daemon |
| `CtlState` | termctl's state file under several commands and crashes |
| `TerminalAttachProofs`, `SupervisorControlProofs`, `SessionOwnershipProofs`, `DaemonClientsProofs`, `RelayRoomProofs` | the theorems about the module of that name |
| `HostProofs` | the theorems about the other parts of `MCHost`, and about their sum |
| `RelayProofs` | `RelayAdmission`, `HttpTunnel` and the types of `MCRelay` |
| `DaemonProofs` | the other parts of `MCDaemon`, and their sum |
| `MC*` | what TLC runs; the constants come from the `.cfg` files |

The header of each module says what its state stands for and what is one step.
`PROJECT.json` maps every definition to its lines. Some definitions are wrong on
purpose: a variant, placed before the definition it varies, with one plausible
mistake, used to confirm that a property notices it. They are the ones listed as
`mutants` in `PROJECT.json`; no specification uses them.

### How the parts are joined

Components that share state are composed in one module: supervisor, proxy and
client in `TerminalAttach`; ledger, protocol, reconciler and supervisor process in
`SessionOwnership`; relay and connector in `RelayRoom` and `HttpTunnel`; protocol,
runtime, history and streams in `DaemonClients`; installer, script, helper and
daemon in `Installer`. Components that share none at the grain of their models are
explored by one run as a *sum*: `MCHost`, `MCRelay` and `MCDaemon` have a variable
`part`, chosen at the start; only the chosen part takes steps and the others stay
in an initial state, so a run has the sum of the parts' states, not their product.
A property of a part is then an invariant of the whole run.

### TerminalJournal and TerminalAttach

An event of the terminal (output, resize, exit) is its sequence number and, for
a resize, the size. A screen is the set of events it reflects, so "the client
shows what the session printed" is equality of sets, and rendering an event
twice is visible (`twice`). The byte budget that makes `should_replay_attach_tail`
prefer a snapshot to a long tail is a nondeterministic choice.

A frame passes `outq` (bounded, in the supervisor), `sock` (the Unix socket) and
`pend` (bounded, in the daemon) before the client takes it. The actions follow
the tasks: the output pump, exit watcher and controller resize publish and
broadcast under one lock; the attach handler takes the snapshot and registers
under one lock (`RegisterAndSync`), drains what arrived meanwhile, and then
selects among overflow, client messages, outgoing frames and heartbeat; the
proxy's reader thread fills `pend`; the client opens, receives, resizes and
reconnects. A transport can break at any time, a heartbeat can time out, a PTY
write can fail. Web clients attach without a sequence number; termctl resumes
with the last number it queued; termctl on a tty also waits, right after each
attach, for the echo of its own resize (`wait_for_resize`).

### SupervisorControl

A connection is a slot used once. Its supervisor task serves the requests of
its socket in order and ends at an overflow, an error or the end of the file.
`EnsureCurrentController` and `ActOnRequest` are two steps because the code
holds the state lock twice. The daemon sends one request at a time; a time-out or
a broken connection starts a resume transaction on a candidate connection:
resume, validate, commit, send again. Requests that the daemon gave up on stay in
their socket and may be served late. `done` is a history variable: the last
request that succeeded.

### SessionOwnership and SessionLedger

Each sqlite transaction is one step and each exchange with a supervisor another,
because a daemon can die, and the reconciler can run, in between. The protocol
thread creates, closes and recovers; the reconciler picks one row at a time; the
supervisor binds its socket, waits for the grant on its start-up pipe, runs the
shell, exits or is killed. `Legacy` names sessions that may have been left by a
daemon that kept no ledger. `SessionLedger` has two variables: what became of each
shell and whether the ledger leads to it. `KeepsLedger` instantiates it with
`ShellOf` and `RecordedAt`, which read them off the detailed state.

## 3. Runs

| Run | Checks | States | Shows |
|---|---|---|---|
| `attach` | `TypeOK`, `ViewIsPrefix`, `JournalIsSuffix`, `BoundedAndComplete`, `CatchesUp` | 372,295 | one client of each kind over three attaches |
| `control` | `AuthorityIsCoherent`, `LeaseNeverGoesBack`, `RequestsEnd` | 530,299 | resumes, replayed commits, a restart |
| `host` | `HostTypeOK` and 13 properties of `MCHost`'s nine parts | 218,767 | a session on its host |
| `relay` | `TypeOK` and 6 properties of `MCRelay`'s three parts | 141,473 | room, tunnel, admission |
| `daemon` | `DaemonTypeOK` and 10 properties of `MCDaemon`'s eleven parts | 917,292 | what a daemon keeps and serves |
| `attach_tty` | `TtyViewIsPrefix` violated | – | finding 1 |
| `control_newest` | `NewestOwns` violated | – | finding 2 |
| `control_done` | `DoneHolds` violated | – | finding 3 |
| `ownership_converges` | `Converges` violated | – | finding 4 |
| `ownership_reopen` | `ClosedStaysClosed` violated | – | finding 5 |
| `mirror_gap` | `MirrorIsReplica` violated | – | finding 6 |
| `clients_relay` | `OverIsReleased` violated | – | finding 7 |

To repeat one: `tlc -workers 2 -config MCHost_host.cfg MCHost`.

**What the properties say.**

- `ViewIsPrefix`: a synchronised client shows exactly the events up to the last
  number it recorded, none missing, none twice. `BoundedAndComplete`: queues keep
  their bounds and a registered stream has missed nothing. `CatchesUp`: a client of
  a session that falls quiet shows all of it in the end.
- `AuthorityIsCoherent`: nothing of a daemon's own (a lost answer, a replayed
  commit, an abandoned connection) takes the session from it, and the active
  controller is registered. `LeaseNeverGoesBack`: no replay gives the lease to an
  older controller. `RequestsEnd`: every request is answered or fails.
- `NoOrphan`: a running shell can be found in the ledger. `CloseCanResume`: an
  interrupted close meets the operation it began with. `ClosedIsOver`: nothing is
  finalized while its shell runs. `ActiveIsProjected`: an active row can be
  recovered. `OwnedConverges`: cleanup ends. `KeepsLedger`: the refinement.
- `SocketIsRepaired`: a repair nobody disturbed reports exactly whether its socket can
  be reached and, when it can, leaves no temporary name. `CloseIsConfirmed`: a session called closed is over. `BooksAreTrue`: a
  device whose detach succeeded is attached nowhere, a resize that succeeded is the
  terminal's, a closed session holds nobody. `ScreenIsReplayed`: a terminal that
  reads the snapshot has the screen, modes, cursors and half-read sequence.
  `MirrorIsFed`: no queued frame without a signal, and the first connection's frames
  are whole. `OutputIsDelivered`: bytes in order, none stranded. `ActivityIsTrue`:
  probes are bounded, a due frame is true, the parser recovers from any cut sequence.
- `RoomIsCoherent`: pipes are of the control line in office, byte counts match the
  buffers, empty rooms are removed. `FramesInOrder`: frames before, during and after
  the flush arrive in order. `GoneIsReleased`: everything held for a gone browser is
  released. `CleanIsWhole`, `TunnelEnds`: a response that ends cleanly is whole, and
  every tunnel ends on both sides. `IdentityIsKept`: the token that is accepted is
  the one on disk, and connections of a replaced one are closed.
- `AuthIsSound`: a challenge grants once, the cap holds, trust survives.
  `UploadIsExact`: only whole files are published, an unfinished one is remembered,
  an aborted one is nowhere, accepted ranges cover each byte once.
  `ClientsSeeTheTruth`: roles, streams and presence. `HistoryIsKept`: names, order
  and identity across restarts. `StateIsOurs`: one daemon, its own database.
  `NoticesArrive`: completions and subscriptions. `UnfinishedIsHidden`: no request
  reaches an unfinished upload by any name. `GitLeavesNothing`: a git command returns
  with nothing of its group left. `PairingIsKept`: the state file is
  never torn, and a pairing that termctl reported is found again with a certificate its
  daemon accepts. `InstallIsCautious`: binaries are replaced only while nothing is
  pending, and sessions are lost only to the flag that says so.

**Exceptions written into properties.** Where the code is known to do otherwise the
property says so and excepts exactly that case: frames a client task decided to
buffer before a flush ended (`late` in `RelayRoom`), what the daemon changes without
announcing it (`quiet` in `DaemonClients`), a history write that failed on a
disconnect, a full notification queue (`full`), a set_len failure together with its
own clean-up (`FileUpload`), two termctl commands at once (`overlapped`) or a save
that was broken off, what an address shared by several daemons
selects (`PairingIsKept` speaks of the daemon's own entry), a rollback of the installer
under a daemon it has started, screens a
snapshot cannot express (`Expressible` in `TerminalScreen`: a region in origin mode,
half a wide character, trailing blank rows). `AuthorityIsCoherent` speaks of the first
connect of a daemon: an attach of its own that timed out and is served late does take
the lease.

**Bounds, and why they are enough.**
`attach`: `JournalMax = 2` with three events makes the journal drop events, so a client
is behind it, at its edge and inside it; queues of 2 overflow; `MaxAttach = 3` is a
resume of a resume. One client at a time: streams share only the journal and the
terminal size, and the proofs hold for any number. `control`: five connections are an
attach and a reset and either two resume transactions or a crash and the same by a
successor; `MaxResume = 2` is the least with a replayed commit. `host`: one session and
two operations, so a second proposal can differ from the first, and three daemon
lives, so an interrupted recovery is recovered; three steps of another process in the
socket's directory, so that one can undo another. Screens are 2×2 and 2×3 with a narrow and a wide glyph and four tokens: the
least in which a wide glyph wraps, a region scrolls and an alternate screen hides a
normal one. The OSC parser keeps two bytes of command and payload, so both limits are
met; bridge and mirror have queues of two against four events. `relay`: one load with
two upward frames and two control lines, one with two downward frames, one with two
clients for one pending place; the tunnel has bodies of two frames over queues of one.
`daemon`: two connections of one device and a second device; clocks that pass every
time limit; two restarts and one failed write of the history; two daemons and two
interferences for the state files; two uploads' worth of names; two termctl commands
at two daemons with one crash; one fault and two commands for the installer.

**Deadlock** is not checked: event, attach, connection, restart and request bounds end
every run, and in the system too a quiet session with an ended stream does nothing.

**Fairness.** `TerminalAttach`: weak fairness of each client's pipeline, which is
made of threads, tasks and client loops that are always rescheduled; output,
failures and time-outs need not happen. `SupervisorControl`: weak fairness of each
connection's task and of the daemon; `RequestsEnd` excuses the state in which the
model has no connection left to give. `SessionOwnership`: weak fairness of the
threads and of restarting the daemon (a service manager does); strong fairness of
the reconciler's picks and of the successful exchange, because a pass runs every
250 ms and repeats a failed exchange for ever, so a supervisor that is
repeatedly reachable is eventually reached. The last daemon does not crash.
`RelayRoom`, `HttpTunnel`: weak fairness of the tokio tasks, of timers that are
armed and of the pipe that is paired or times out; browsers need not send or leave,
but one whose request is being answered goes on reading or leaves.

## 4. Findings

1. `attach_tty`: `wait_for_resize` (`termctl/src/client.rs`) drops every frame that
   precedes the echo of its resize, the `AttachSync` with the restored screen
   included. The network-resilience design promises reconnect + snapshot + tail.
2. `control_newest`: `commit_controller_resume` answers a transaction it knows
   without looking at the lease, and makes its controller active. A second copy of a
   commit by a daemon that has died, served after the next daemon attached, makes the
   dead one's controller the owner. The comment in `attach_sync` rules this out.
3. `control_done`: `ensure_current_controller` and the request it guards hold the
   lock separately; a request of the old connection acts after a resume and undoes
   what the new connection did. A test asserts that the stale connection is rejected.
4. `ownership_converges`: cleaning rows without evidence, and preparing rows whose
   killed supervisor left its socket file, are never selected or deleted.
   `docs/deployment.md` tells operators to wait for them to converge.
5. `ownership_reopen`: `finalize_closed` deletes the projection row that would
   have stopped `save_sqlite_state` from inserting a closed session as running, while
   `session_index` still lists it. A test is named for the opposite.
6. `mirror_gap`: on a resume, frames that reach the candidate between its
   `AttachSync` and the commit are read and dropped, and its reader starts before the
   bootstrap queue is set; the mirror then claims a number whose events it lacks. Its
   comment calls it a read replica that a reconnect resets.
7. `clients_relay`: a relayed terminal leaves through `?` or is aborted without closing
   its protocol connection, so its attachment stays. With `Relayed = {}` (direct
   connections only) `OverIsReleased` holds. `TECH.md` says that a broken connection
   releases its own attach, and `docs/protocols/v0.7-workspace.md` that relay and
   direct access have one contract.

Further disagreements are stated as definitions next to the properties and have no
run of their own; each is violated when it is added to the run named here:
`PairingKeepsOrder` (`relay` with `Loads <- FifoLoads`): a frame that a client task
decided to buffer just before the flush ended is overtaken, against the comment of
`take_pre_pair_client_frames`. `OthersAreNotAdopted` (`daemon`): a rolled-back
installation leaves the stored compatibility version of the new one, against the
comment at `scripts/install-termd.sh:1201`. `VerifiedCandidateRuns` (`daemon`): the
upgrade executes the candidate while it still has it open for writing, which the
kernel may refuse as busy. `CursorIsRestored` (`host`): with a scroll region in
origin mode a replayed snapshot leaves the cursor elsewhere, against the comment of
`saved_cursor_restore_bytes` that the final cursor sequence puts it back.

## 5. Proofs

`tlapm` checks every `*Proofs` module. A theorem holds for all values of the constants
that satisfy the named assumptions of its module: which sets are finite, which bounds are
naturals, that a queue holds something. No theorem assumes the bounds of section 3.

Each proof has the same plan: an inductive invariant, a lemma that the initial states
satisfy it, a lemma that every action keeps it (one step per action, under it one per
conjunct the action can disturb), a lemma that it implies the property, and a temporal
step. Below is what the invariant adds to the property, and why it is needed.

**`TerminalAttachProofs`**: `TypeCorrect`, `JournalCorrect`, `ReplayIsExact`
(`ViewIsPrefix`), `BackpressureIsSafe` (`BoundedAndComplete`).
`ViewIsPrefix` is not inductive: the next frame's effect depends on what is in the
queues. `AttachInv` adds `StreamInv`: along one stream the sequence numbers
increase by one from the client's cursor through `pend`, `sock` and `outq` to
`covered`, the last event given to the stream, which for a registered stream is the
session's last; and `ViewInv`: until the client has taken the `AttachSync` of a new
stream, that message is the first one on its way and continues what the client
showed when it opened. `RecordEventLemma` and `SnapshotOrTailLemma` carry the
journal: trimming keeps a suffix, a tail starts right after the number asked for.

**`SupervisorControlProofs`**: `TypesHold`, `AuthorityCoherent`, `LeaseMovesForward`.
`ControlInv` says where the daemon is in its protocol (`DaemonInv`), what can be in the
sockets (`WireInv`: an attach is the first request of its connection, a commit names a
transaction that was begun), that identities are handed out in order (`IdsInv`, which
counts the attaches still to be served against the ids still free, so that two
connections never get the same one), what an unused connection looks like (`UnusedInv`),
and that before its first resume a daemon has one wire and one identity (`SoleWire`,
`SoleAuth`).

**`SessionOwnershipProofs`**: `OwnershipTypes`, `NoOrphanCorrect`, `CloseResumable`,
`ClosedIsOverCorrect`, `ActiveProjected`, `LedgerRefined`.
The hinge of `OwnInv` is the grant: once it is in the pipe the shell may start at any
moment, so a row with evidence must exist from before the grant until the supervisor is
past serving; and the reconciler's own copy of the operation is the one in the row.
`ProjectedInv` covers the protocol thread's recovery, which works on rows the reconciler
may change. `LedgerRefined` is the refinement of `SessionLedger`: `LedgerStart` maps the
initial states, `LedgerStep` every action to a step of the ledger or to none (the grant's
read is `StartShell`, `Backfill` puts all it finds on record at once, `FinalizeClosed` and
the deletion of an absent row are `Forget`); `EvidenceInv` and `EvidenceStep` say what is
on record and which actions change it.

**`HostProofs`**, the other parts on a session's host.
- `BooksStayTrue`: the supervisor serves exactly the attachments the runtime watches.
- `CloseIsReal`: `CloseRest` ties an answer on its way to the request it answers, over
  every connection the close went through, and a confirmation to a reason for it.
- `RepairTellsTruth`: `SocketRest` follows the entries of the directory from one system
  call to the next; a repair is undisturbed as long as nobody else changed them.
- `OutputReachesJournal`: `BytesInv` puts the bytes in order over reader, channel, buffer
  and batch, `ErrorInv` puts the error after all of them, `WakeInv` says that a pump
  which waits has nothing to wait for or a signal on its way.
- `MirrorStaysFed`: `FirstInv` says for the first connection that what is set aside, queued
  and on the wire continues the mirror without a gap; `ConnectorInv` that every connection
  has at most one reader.
- `ActivityStaysTrue`: `ActivityInv` counts the probes that are left; `OscInv` lists the
  parser's states, and from each of them one terminator leads to a state in which the next
  known sequence is reported once if it fits, and not at all if it does not.
- `ScreenStaysWhole`: `ScreenInv` adds to the types that the buffer kept behind the
  alternate screen is whole for the same size, and that the cache is never larger than its
  limit in between; every operation of `screen.rs` has a lemma that it keeps `ScreenOK`.
- `HostIsSound`: a behaviour of `MCHost` is a behaviour of each of its parts, so all these,
  the ledger and its refinement hold of what the `host` run explores.

**`RelayRoomProofs`**: `RoomStaysCoherent`, `FramesKeepOrder`.
`RelayInv` has the room's own consistency with the byte count (`RoomOK`), the life of a
client and of its pipe (`LifeInv`, `OpensInv`), the control line in office (`OfficeInv`) and
the order: `UpInv` and `DownInv` number the frames through the places they can be in, one
behind the other, as the sender numbered them.

**`RelayProofs`**: `AdmissionSafe` (`AdmInv`: what a registration still has to close was
live when it swapped the token), `TunnelIsWhole` (`HttpInv`: the frames in the queues follow
the ones delivered; an end follows the last), `RelayTypesHold`.

**`DaemonClientsProofs`**: `ClientsAreServed`. `ClientsInv` is stated over the daemon's
record: `PresInv` counts the tracked connections of a device in memory and in the
history, `RoleInv` says that an open connection holds its session, which is how
`detach_connection` knows whose role to drop.

**`DaemonProofs`**, what a daemon keeps and serves.
- `AuthSound` (`AuthInv`: a grant spends its challenge; what is usable is counted),
  `UploadIsWhole`, `RangesCoverOnce` and, together, `UploadExact` (`UploadInv` follows record,
  object and name over each crash; `RangesInv` says that the map is the bytes),
  `PanelsHideUploads` (`PanelInv`, `GrantsInv`: a resolved name was inside when it was resolved
  and an object's name is still reserved), `GitIsContained` (`GitInv`).
- `NoticesReach`: `SignalInv`, `WorkerInv` and `RowsInv` follow a completion from tracker to
  queue to worker, and a subscription through late answers.
- `StateIsKept`: `FilesInv` relates what a start has checked to what the directory holds.
- `InstallCautious`: `InstallInv` relates the installer's step to files, service and ledger.
- `PairingSurvives`: `WholeInv` says that each file is whole or temporary, `KeptInv` that a
  command alone finds what it read still there.
- `HistorySurvives`: `TermInv` says that an indexed session has a visible row with its name,
  `OrderInv` that what clients were told of the order is the order of the rows, `OrdInv`
  bounds how far above the list new sessions are put, `IdentInv` follows the identity from
  file to memory to database.
- `DaemonIsSound`: all of them of what the `daemon` run explores.

**Induction.** The provers cannot instantiate the library's induction theorems. Where an
argument needs induction over a natural (sums, cardinalities, the recursive functions that
fold a sequence of bytes, tokens, frames or codes) `LeastNat`, that a non-empty set of
naturals has a least element, is proved once and used on the set of counterexamples.

**What the proofs found.**
- The first forms of three properties held only within the bounds. `InstallIsCautious` did
  not except a rollback under a daemon the installer has started; `SocketIsRepaired`
  promised more than the code does when others interfere three times; `PairingIsKept` failed
  for an address shared by several daemons: termctl then takes the default or the first
  entry, which may be an old one without certificate. The properties now say so, and the
  bounds reach the first two; TLC confirms the third with three daemons.
- `repair_visible_session_metadata` never finds anything to do: a session in the index
  has a visible row in every reachable state (`TermInv`).
- Some `CASE` expressions had overlapping guards; they are disjoint now.

**Only model-checked:** `CatchesUp`, `RequestsEnd`, `OwnedConverges`, `GoneIsReleased` and
`TunnelEnds`, because liveness rests on fairness and ENABLED, which are beyond the prover;
and `ScreenIsReplayed`, which compares a screen with what is left after a whole snapshot of
it was read back: that needs an induction over the rows and cells of the snapshot in
which every intermediate screen is described. Everything else that a passing run checks is
proved.

## 6. Assumptions of the models

- sqlite transactions are atomic and durable; writes succeed unless the code handles
  their failure.
- PIDs are not reused; signatures cannot be forged; random names and nonces are fresh.
- Unix sockets and WebSockets deliver in order, up to where they break; what a dead
  process wrote can still be read.
- A frame's bytes and the contents of the screen do not influence which frames are
  sent.
- A handler that holds the daemon's mutex across its system calls is one step, except
  where a crash between the calls is the subject (`FileUpload`, `StateFiles`).

## 7. Not modelled

- **Cryptography, wire types, configuration, static server:** pure functions, type
  definitions, parsing, file serving.
- **Web workspace and output writer:** React state that follows the daemon's streams,
  and callbacks of xterm.js.
- **Parts of modelled components:** byte budgets of terminal queues (the message bounds
  are modelled), the bytes of control sequences, header filtering of the tunnel, the
  parsing of git's output, the downloads and service files of the installer.

Hazards that no property covers: the proxy's reader ends silently at EOF and the client
waits for its own heartbeat (`SUP:1501`); PTY and cache are resized under different
locks (`SUP:4796`); `request()` types an executed but unanswered input again (`SUP:724`,
nothing promises otherwise); requests on a candidate connection have no read time-out
(`SUP:1294`); a reused PID keeps a row from being confirmed absent
(`session_ownership.rs:922`); the comparison and the unlink of `unlink_if_identity` are
two system calls (`SUP:3669`); a confirmed operation can be overwritten by a second
`CloseIdempotent` (`SUP:4358`); used pair tickets are remembered in memory only
(`PRO:1061`); a download grant's file is opened again when it is read
(`net/server.rs:1282`); the connector sleeps the old retry delay after a successful
connection (`net/relay.rs:605`).

## 8. Plan

Done: terminal stream, controller authority, session ownership and its abstract
specification, relay, daemon services, installer, termctl's state; theorems for every
safety property of the passing runs but `ScreenIsReplayed`.

Left:

1. `ScreenIsReplayed` for every size, from a description of the screen after each row of
   the snapshot; `ScreenStaysWhole` is the invariant it would start from.
2. PTY size against cached size in `TerminalAttach`; the web hook's attach keys.
3. The grain of `MCHost` and `MCDaemon`: their parts are explored as a sum; a model in which
   ledger, close and socket share one supervisor would be the next composition.
