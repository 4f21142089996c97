---------------------------- MODULE DaemonMirror ----------------------------
(***************************************************************************)
(* The daemon's copy of a terminal: SupervisorTerminalMirror and the       *)
(* pending frame queue of SupervisorPtySession                             *)
(* (termd/src/pty/supervisor.rs, supervisor/terminal_journal.rs).          *)
(*                                                                         *)
(* The supervisor numbers the terminal's events and sends each one to the  *)
(* connection of the active controller.  A reader thread of the daemon     *)
(* feeds them to the mirror and to the queue; while a connection is being  *)
(* bootstrapped it sets them aside instead.  The thread that connects      *)
(* seeds mirror and queue from the answer to AttachSync.  When a request   *)
(* fails on the transport the session resumes on a second connection,      *)
(* whose AttachSync, commit and reader start are separate steps.           *)
(*                                                                         *)
(* The content of a screen is the set of event numbers it has applied, so  *)
(* a snapshot taken at number n has content 1..n.  The mirror's tail for a *)
(* client that names a sequence number is not used by the daemon, which    *)
(* asks with None (net/protocol.rs:1306).                                  *)
(***************************************************************************)
EXTENDS Integers, Sequences, SequencesExt, FiniteSets

CONSTANTS MaxEvent,     \* bound: terminal events
          FrameMax,     \* SUPERVISOR_OUTPUT_QUEUE_MAX_MESSAGES
          MaxResume     \* bound: resumed connections

ASSUME MirrorAssumption ==
          /\ MaxEvent \in Nat \ {0} /\ FrameMax \in Nat \ {0}
          /\ MaxResume \in Nat

VARIABLES emitted,      \* next_terminal_seq - 1 of the supervisor
          registered,   \* the connection that receives live frames, 0 if none
          wire,         \* per connection: frames sent and not read
          ipc,          \* the connecting thread: where it is and what it holds
          mirror,       \* SupervisorTerminalMirror: number and content
          bootstrap,    \* bootstrap_terminal_frames: None, or Some(queue)
          pending,      \* pending_terminal_frames
          readers,      \* per connection: its reader thread
          unseen,       \* the output watch has a value its receiver has not seen
          viewed        \* the screen of the consumer of the queue

mirrorVars == <<emitted, registered, wire, ipc, mirror, bootstrap, pending,
                readers, unseen, viewed>>

Conns == 1..(1 + MaxResume)
Events == 1..MaxEvent
NotBooting == <<>>
Booting(q) == <<q>>

\* A frame: a live event, or a snapshot with its base and content.
Live(n) == [kind |-> "live", seq |-> n, has |-> {n}]
SnapshotAt(n, has) == [kind |-> "snapshot", seq |-> n, has |-> has]
MirrorFrames == [kind : {"live", "snapshot"}, seq : 0..MaxEvent, has : SUBSET Events]

NewMirror == [seq |-> 0, has |-> {}]

\* SupervisorTerminalMirror::apply_frame takes a live frame with any higher
\* number and a snapshot that is not older than the mirror.
Accepts(m, f) == IF f.kind = "live" THEN f.seq > m.seq ELSE f.seq >= m.seq
ApplyFrame(m, f) ==
    IF ~Accepts(m, f) THEN m
    ELSE [seq |-> f.seq, has |-> IF f.kind = "live" THEN m.has \cup f.has ELSE f.has]

\* terminal_snapshot_or_tail(None)
MirrorSnapshot(m) == SnapshotAt(m.seq, m.has)

\* enqueue_daemon_terminal_frame: a full queue is replaced by a snapshot.
Enqueue(q, m, f) == IF Len(q) < FrameMax THEN Append(q, f) ELSE <<MirrorSnapshot(m)>>

\* apply_and_enqueue_daemon_terminal_frame, for a thread that holds the
\* bootstrap lock or runs alone.
ApplyAndEnqueue(acc, f) ==
    LET m == ApplyFrame(acc.mirror, f)
    IN  IF Accepts(acc.mirror, f)
        THEN [mirror |-> m, pending |-> Enqueue(acc.pending, m, f), published |-> TRUE]
        ELSE acc

\* A prepared reader thread is handed its stream.
StartsReader(c) == [readers EXCEPT ![c].pc = "reading"]
-----------------------------------------------------------------------------
(* The supervisor.                                                         *)

\* broadcast_terminal_frame: the frame goes to the registered connection.
SupervisorEmits ==
    /\ emitted < MaxEvent
    /\ emitted' = emitted + 1
    /\ wire' = IF registered = 0 THEN wire
               ELSE [wire EXCEPT ![registered] = Append(@, Live(emitted + 1))]
    /\ UNCHANGED <<registered, ipc, mirror, bootstrap, pending, readers, unseen, viewed>>

\* The connection breaks: what it held is lost and the supervisor removes the
\* controller.
ConnectionBreaks(c) ==
    /\ ipc.conn = c /\ ipc.pc = "ready"
    /\ readers[c].pc = "reading"
    /\ ipc.resumes < MaxResume
    /\ wire' = [wire EXCEPT ![c] = <<>>]
    /\ registered' = IF registered = c THEN 0 ELSE registered
    /\ readers' = [readers EXCEPT ![c].pc = "ended"]
    /\ UNCHANGED <<emitted, ipc, mirror, bootstrap, pending, unseen, viewed>>
-----------------------------------------------------------------------------
(* connect_with_child_slot: the first connection.                          *)

\* The AttachSync of a first connection registers it and answers with the
\* snapshot at one lock; the answer follows nothing on the wire, and
\* drain_controller_frames_after_sync removes what it covers.
AttachSync ==
    /\ ipc.pc = "connect"
    /\ registered' = ipc.conn
    /\ ipc' = [ipc EXCEPT !.pc = "seed", !.sync = SnapshotAt(emitted, 1..emitted)]
    /\ readers' = StartsReader(ipc.conn)
    /\ UNCHANGED <<emitted, wire, mirror, bootstrap, pending, unseen, viewed>>

\* sort_by_key and dedup_by_key: of the frames with number n the first in the
\* queue stays.
NumberedFrame(q, n) ==
    {q[i] : i \in {j \in DOMAIN q : q[j].seq = n /\ \A k \in 1..(j - 1) : q[k].seq # n}}

ApplyNumbered(q, acc, n) ==
    IF NumberedFrame(q, n) = {} THEN acc
    ELSE ApplyAndEnqueue(acc, CHOOSE f \in NumberedFrame(q, n) : TRUE)

\* The frames are applied after the snapshot in the order of their numbers.
\* One that is not newer than the snapshot would be refused by the mirror.
Seeded(m, sync, q) ==
    LET start   == [mirror |-> m, pending |-> <<>>, published |-> FALSE]
        upto[n \in sync.seq..MaxEvent] ==
            IF n = sync.seq THEN ApplyAndEnqueue(start, sync)
            ELSE ApplyNumbered(q, upto[n - 1], n)
    IN  upto[MaxEvent]

\* seed_attach_sync, under the bootstrap lock: frames queued or set aside that
\* are newer than the snapshot follow it.
SeedAttachSync ==
    LET aside  == IF bootstrap = NotBooting THEN <<>> ELSE bootstrap[1]
        seeded == Seeded(mirror, ipc.sync, pending \o aside)
    IN  /\ ipc.pc = "seed"
        /\ mirror' = seeded.mirror
        /\ pending' = seeded.pending
        /\ unseen' = (unseen \/ seeded.published)
        /\ bootstrap' = NotBooting
        /\ ipc' = [ipc EXCEPT !.pc = "ready", !.sync = SnapshotAt(0, {})]
        /\ UNCHANGED <<emitted, registered, wire, readers, viewed>>
-----------------------------------------------------------------------------
(* reconnect_ipc_with_validation: a request failed on the transport.       *)

\* The candidate's AttachSync does not register it.
CandidateSyncs ==
    /\ ipc.pc = "ready" /\ ipc.resumes < MaxResume
    /\ ipc' = [ipc EXCEPT !.pc = "commit", !.conn = @ + 1, !.resumes = @ + 1,
                          !.sync = SnapshotAt(emitted, 1..emitted)]
    /\ UNCHANGED <<emitted, registered, wire, mirror, bootstrap, pending,
                   readers, unseen, viewed>>

\* CommitControllerResume makes the candidate the active connection, and its
\* prepared reader thread is started.
CommitsResume ==
    /\ ipc.pc = "commit"
    /\ registered' = ipc.conn
    /\ readers' = StartsReader(ipc.conn)
    /\ ipc' = [ipc EXCEPT !.pc = "boot"]
    /\ UNCHANGED <<emitted, wire, mirror, bootstrap, pending, unseen, viewed>>

\* Only then are live frames set aside for the seed.
BeginsBootstrap ==
    /\ ipc.pc = "boot"
    /\ bootstrap' = Booting(<<>>)
    /\ ipc' = [ipc EXCEPT !.pc = "seed"]
    /\ UNCHANGED <<emitted, registered, wire, mirror, pending, readers, unseen, viewed>>
-----------------------------------------------------------------------------
(* supervisor_reader_loop, one per connection.                             *)

\* A frame read while bootstrapping is set aside; a full buffer fails the
\* pending requests, among them the AttachSync that is being awaited.
ReaderSetsAside(c) ==
    /\ readers[c].pc = "reading" /\ wire[c] # <<>>
    /\ bootstrap # NotBooting
    /\ wire' = [wire EXCEPT ![c] = Tail(@)]
    /\ IF Len(bootstrap[1]) >= FrameMax
       THEN /\ bootstrap' = Booting(<<>>)
            /\ readers' = [readers EXCEPT ![c].pc = "ended"]
       ELSE /\ bootstrap' = Booting(Append(bootstrap[1], Head(wire[c])))
            /\ UNCHANGED readers
    /\ UNCHANGED <<emitted, registered, ipc, mirror, pending, unseen, viewed>>

\* Otherwise the mirror takes it, and releases its lock.
ReaderApplies(c) ==
    LET f == Head(wire[c])
    IN  /\ readers[c].pc = "reading" /\ wire[c] # <<>>
        /\ bootstrap = NotBooting
        /\ wire' = [wire EXCEPT ![c] = Tail(@)]
        /\ mirror' = ApplyFrame(mirror, f)
        /\ readers' = IF Accepts(mirror, f)
                      THEN [readers EXCEPT ![c] = [pc |-> "applied", frame |-> f]]
                      ELSE readers
        /\ UNCHANGED <<emitted, registered, ipc, bootstrap, pending, unseen, viewed>>

ReaderEnqueues(c) ==
    /\ readers[c].pc = "applied"
    /\ pending' = Enqueue(pending, mirror, readers[c].frame)
    /\ readers' = [readers EXCEPT ![c].pc = "signal"]
    /\ UNCHANGED <<emitted, registered, wire, ipc, mirror, bootstrap, unseen, viewed>>

ReaderSignals(c) ==
    /\ readers[c].pc = "signal"
    /\ unseen' = TRUE
    /\ readers' = [readers EXCEPT ![c].pc = "reading"]
    /\ UNCHANGED <<emitted, registered, wire, ipc, mirror, bootstrap, pending, viewed>>
-----------------------------------------------------------------------------
\* A mutant: reading a frame does not signal the frames that remain.
RearmsNever(q) == FALSE

\* read_terminal_frame signals again when frames remain.
Rearms(q) == q # <<>>

\* A consumer draws what it is given.
Shows(v, f) == [seq |-> f.seq, has |-> IF f.kind = "live" THEN v.has \cup f.has ELSE f.has]

\* What it shows once it has read the queue.
ReadAll(v, q) ==
    LET shown[i \in 0..Len(q)] == IF i = 0 THEN v ELSE Shows(shown[i - 1], q[i])
    IN  shown[Len(q)]

\* The consumer wakes on the watch and reads one frame.
ConsumerReads ==
    /\ ipc.pc = "ready" /\ unseen
    /\ pending' = IF pending = <<>> THEN pending ELSE Tail(pending)
    /\ viewed' = IF pending = <<>> THEN viewed ELSE Shows(viewed, Head(pending))
    /\ unseen' = Rearms(pending')
    /\ UNCHANGED <<emitted, registered, wire, ipc, mirror, bootstrap, readers>>
-----------------------------------------------------------------------------
MirrorInit ==
    /\ emitted \in 0..1
    /\ registered = 0
    /\ wire = [c \in Conns |-> <<>>]
    /\ ipc = [pc |-> "connect", conn |-> 1, sync |-> SnapshotAt(0, {}), resumes |-> 0]
    /\ mirror = NewMirror
    /\ bootstrap = Booting(<<>>)
    /\ pending = <<>>
    /\ readers = [c \in Conns |-> [pc |-> "off", frame |-> Live(1)]]
    /\ unseen = FALSE
    /\ viewed = NewMirror

MirrorNext ==
    \/ SupervisorEmits \/ AttachSync \/ SeedAttachSync
    \/ CandidateSyncs \/ CommitsResume \/ BeginsBootstrap
    \/ ConsumerReads
    \/ \E c \in Conns : \/ ConnectionBreaks(c)
                        \/ ReaderSetsAside(c) \/ ReaderApplies(c)
                        \/ ReaderEnqueues(c) \/ ReaderSignals(c)

MirrorSpec == MirrorInit /\ [][MirrorNext]_mirrorVars
-----------------------------------------------------------------------------
MirrorTypeOK ==
    /\ emitted \in 0..MaxEvent /\ registered \in 0..(1 + MaxResume)
    /\ \A c \in Conns : ToSet(wire[c]) \subseteq MirrorFrames
    /\ mirror \in [seq : 0..MaxEvent, has : SUBSET Events]
    /\ ToSet(pending) \subseteq MirrorFrames /\ Len(pending) <= FrameMax
    /\ bootstrap = NotBooting \/ ToSet(bootstrap[1]) \subseteq MirrorFrames
    /\ \A c \in Conns : readers[c].pc \in {"off", "reading", "applied", "signal", "ended"}
    /\ unseen \in BOOLEAN
    /\ viewed \in [seq : 0..MaxEvent, has : SUBSET Events]

(***************************************************************************)
(* No wake-up is lost: frames that wait in the queue have either an unseen *)
(* signal or a reader that is about to signal, whatever the consumer and   *)
(* the readers of an old and a new connection do in between.               *)
(* (supervisor.rs:1041 signal_pending_output, 1807 read_terminal_frame)    *)
(***************************************************************************)
QueueIsSignalled ==
    pending # <<>> => unseen \/ \E c \in Conns : readers[c].pc = "signal"

(***************************************************************************)
(* Until the session first resumes, the mirror is the supervisor's screen  *)
(* as of the mirror's number: nothing is missed between the AttachSync     *)
(* snapshot, the frames set aside during the bootstrap and the live ones.  *)
(* Reading the queue gives its consumer that screen too, also after an     *)
(* overflow has replaced the queue.  (supervisor.rs:957 seed_attach_sync,  *)
(* 1963 supervisor_reader_loop, 2110 enqueue_daemon_terminal_frame)        *)
(***************************************************************************)
FirstConnectionIsWhole ==
    ipc.resumes = 0 =>
      LET after == ReadAll(viewed, pending)
      IN  /\ mirror.has = 1..mirror.seq
          /\ after.has = 1..after.seq
          /\ (\A c \in Conns : readers[c].pc # "applied") => after = mirror

(***************************************************************************)
(* The mirror is a read replica: the snapshot and base of AttachSync reset *)
(* it when the connection resumes, so at number n it holds the first n     *)
(* events.                                                                 *)
(***************************************************************************)
MirrorIsReplica == mirror.has = 1..mirror.seq

\* The mirror is fed: a frame in the queue is never without a pending signal,
\* and what the first connection brought, in whatever order it was read, is
\* whole (watch::Receiver, bootstrap_terminal_frames).
MirrorIsFed == QueueIsSignalled /\ FirstConnectionIsWhole
=============================================================================
