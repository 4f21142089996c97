-------------------------- MODULE TerminalAttach --------------------------
(***************************************************************************)
(* One session supervisor and the terminal streams attached to it.         *)
(*                                                                         *)
(*   PTY -> terminal journal -> bounded per-attach queue (outq)            *)
(*       -> terminal socket (sock) -> daemon attach proxy (pend)           *)
(*       -> WebSocket -> client                                            *)
(*                                                                         *)
(* The supervisor side is handle_supervisor_terminal_attach_connection and *)
(* broadcast_terminal_frame (termd/src/pty/supervisor.rs), the daemon side *)
(* SupervisorAttachProxy (same file) as the terminal WebSocket polls it,   *)
(* the clients the web workspace and termctl.                              *)
(*                                                                         *)
(* A client is one of three kinds: web clients attach without a last       *)
(* sequence number, termctl clients resume with the last one they queued,  *)
(* and termctl clients on a tty also wait for the echo of their own resize *)
(* right after every attach.                                               *)
(***************************************************************************)
EXTENDS TerminalJournal, FiniteSets

CONSTANTS
    WebClients, CtlClients, TtyClients,
    QueueMax,       \* SUPERVISOR_OUTPUT_QUEUE_MAX_MESSAGES, supervisor queue
    ProxyMax,       \* the same bound on the daemon's pending frames
    MaxSeq,         \* bound: terminal events per run
    MaxAttach,      \* bound: attaches per client
    InitSize        \* size of the PTY at start

Clients == WebClients \cup CtlClients \cup TtyClients

ASSUME TerminalAttachAssumption ==
    /\ QueueMax \in Nat \ {0}
    /\ ProxyMax \in Nat \ {0}
    /\ MaxSeq \in Nat
    /\ MaxAttach \in Nat
    /\ InitSize \in Sizes
    /\ WebClients \cap CtlClients = {}
    /\ WebClients \cap TtyClients = {}
    /\ CtlClients \cap TtyClients = {}

VARIABLES
    cache,      \* SupervisorTerminalCache
    exited,     \* the exit watcher has recorded the exit
    handler,    \* supervisor handler of the client's attach
    boot,       \* last_terminal_seq carried by BootstrapAttach
    base,       \* base_seq of the AttachSync the handler wrote
    outq,       \* bounded_supervisor_output_channel of the attach
    overflow,   \* overflow_rx of that channel
    heartbeat,  \* pending_heartbeat_nonce is set
    sock,       \* messages written to the terminal socket, not yet read
    closing,    \* a Close message is the last one in sock
    pend,       \* SupervisorAttachProxy.pending_frames
    proxy,      \* the proxy's reader thread
    client,     \* what the client is doing
    last,       \* TerminalStream.last_terminal_seq
    resizing,   \* size of the client's Resize message on its way to the handler
    waiting,    \* termctl is inside wait_for_resize, for this size
    view,       \* events the client's terminal reflects
    twice,      \* some event was rendered twice
    attaches,   \* attaches made so far
    covered     \* history: last event the current stream was given

svars == <<cache, exited>>
hvars == <<handler, boot, base, outq, overflow, heartbeat, closing, covered>>
pvars == <<sock, pend, proxy>>
cvars == <<client, last, resizing, waiting, view, twice, attaches>>
vars  == <<svars, hvars, pvars, cvars>>

Handlers == {"none", "boot", "drain", "loop", "ended"}
Proxies  == {"none", "reading", "eof", "failed"}
States   == {"down", "opening", "attached", "ended"}

(* Messages on the terminal socket: one AttachSync, then terminal frames.  *)
SyncMsg(answer) == [type |-> "sync", seq |-> answer.base, snap |-> answer.snap,
                    tail |-> answer.tail, kind |-> "sync", size |-> NoSize]
FrameMsg(event) == [type |-> "frame", seq |-> event.seq, snap |-> FALSE,
                    tail |-> <<>>, kind |-> event.kind, size |-> event.size]

Messages == [type : {"sync", "frame"}, seq : Nat, snap : BOOLEAN,
             tail : Seq(Events), kind : Kinds \cup {"sync"},
             size : Sizes \cup {NoSize}]

TypeOK ==
    /\ cache \in Caches
    /\ exited \in BOOLEAN
    /\ handler \in [Clients -> Handlers]
    /\ boot \in [Clients -> Nat \cup {NoSeq}]
    /\ base \in [Clients -> Nat]
    /\ covered \in [Clients -> Int]
    /\ outq \in [Clients -> Seq(Messages)]
    /\ overflow \in [Clients -> BOOLEAN]
    /\ heartbeat \in [Clients -> BOOLEAN]
    /\ sock \in [Clients -> Seq(Messages)]
    /\ closing \in [Clients -> BOOLEAN]
    /\ pend \in [Clients -> Seq(Messages)]
    /\ proxy \in [Clients -> Proxies]
    /\ client \in [Clients -> States]
    /\ last \in [Clients -> Nat \cup {NoSeq}]
    /\ resizing \in [Clients -> Sizes \cup {NoSize}]
    /\ waiting \in [Clients -> Sizes \cup {NoSize}]
    /\ view \in [Clients -> SUBSET Nat]
    /\ twice \in [Clients -> BOOLEAN]
    /\ attaches \in [Clients -> Nat]

(* A client that never comes counts as one whose stream has ended. *)
Init ==
    /\ cache = NewCache(InitSize)
    /\ exited = FALSE
    /\ handler = [c \in Clients |-> "none"]
    /\ boot = [c \in Clients |-> NoSeq]
    /\ base = [c \in Clients |-> 0]
    /\ covered = [c \in Clients |-> 0]
    /\ outq = [c \in Clients |-> <<>>]
    /\ overflow = [c \in Clients |-> FALSE]
    /\ heartbeat = [c \in Clients |-> FALSE]
    /\ sock = [c \in Clients |-> <<>>]
    /\ closing = [c \in Clients |-> FALSE]
    /\ pend = [c \in Clients |-> <<>>]
    /\ proxy = [c \in Clients |-> "none"]
    /\ client \in [Clients -> {"down", "ended"}]
    /\ last = [c \in Clients |-> NoSeq]
    /\ resizing = [c \in Clients |-> NoSize]
    /\ waiting = [c \in Clients |-> NoSize]
    /\ view = [c \in Clients |-> {}]
    /\ twice = [c \in Clients |-> FALSE]
    /\ attaches = [c \in Clients |-> 0]

----------------------------------------------------------------------------
(* The supervisor: terminal events and their broadcast *)

(* terminal_attaches: an attach is registered until its queue overflowed   *)
(* or its handler ended.                                                   *)
Registered(c) == handler[c] \in {"drain", "loop"} /\ ~overflow[c]

(* try_send fails when the queue is full, or when the frame exceeds its    *)
(* byte budget ("heavy").                                                  *)
Accepts(c, heavy) == Len(outq[c]) < QueueMax /\ c \notin heavy

(* Mutant of BroadcastTerminalFrame: a frame that does not fit is lost and *)
(* the attach stays registered.                                            *)
BroadcastKeepsSlow(event, heavy) ==
    /\ outq' = [c \in Clients |->
                  IF Registered(c) /\ Accepts(c, heavy)
                  THEN Append(outq[c], FrameMsg(event)) ELSE outq[c]]
    /\ covered' = [c \in Clients |->
                  IF Registered(c) /\ Accepts(c, heavy)
                  THEN event.seq ELSE covered[c]]
    /\ UNCHANGED overflow

(* broadcast_terminal_frame: try_send to every registered attach; one that *)
(* cannot take the frame is flagged as overflowed and unregistered.        *)
BroadcastTerminalFrame(event, heavy) ==
    /\ outq' = [c \in Clients |->
                  IF Registered(c) /\ Accepts(c, heavy)
                  THEN Append(outq[c], FrameMsg(event)) ELSE outq[c]]
    /\ covered' = [c \in Clients |->
                  IF Registered(c) /\ Accepts(c, heavy)
                  THEN event.seq ELSE covered[c]]
    /\ overflow' = [c \in Clients |->
                  overflow[c] \/ (Registered(c) /\ ~Accepts(c, heavy))]

(* One terminal event under the state lock: journal it, then broadcast it. *)
Publish(kind, size) ==
    /\ CurrentSeq(cache) < MaxSeq
    /\ cache' = RecordEvent(cache, kind, size)
    /\ \E heavy \in SUBSET Clients :
          BroadcastTerminalFrame(Event(cache.next, kind, size), heavy)

(* publish_supervisor_output_batch; output the PTY still holds may follow  *)
(* the exit event.                                                         *)
PublishOutput ==
    /\ Publish("output", NoSize)
    /\ UNCHANGED <<exited, handler, boot, base, heartbeat, closing, pvars, cvars>>

(* SupervisorRequest::Resize from the daemon's controller connection *)
ControllerResize(size) ==
    /\ Publish("resize", size)
    /\ UNCHANGED <<exited, handler, boot, base, heartbeat, closing, pvars, cvars>>

(* supervisor_exit_watcher *)
PublishExit ==
    /\ ~exited
    /\ Publish("exit", NoSize)
    /\ exited' = TRUE
    /\ UNCHANGED <<handler, boot, base, heartbeat, closing, pvars, cvars>>

----------------------------------------------------------------------------
(* The supervisor: one attach handler *)

(* Registration and snapshot happen under one hold of the state lock, then *)
(* AttachSync is written to the socket.                                    *)
RegisterAndSync(c) ==
    /\ handler[c] = "boot"
    /\ \E fits \in BOOLEAN :
          LET answer == SnapshotOrTail(cache, boot[c], fits)
          IN  /\ sock' = [sock EXCEPT ![c] = <<SyncMsg(answer)>>]
              /\ base' = [base EXCEPT ![c] = answer.base]
              /\ covered' = [covered EXCEPT ![c] = answer.base]
    /\ handler' = [handler EXCEPT ![c] = "drain"]
    /\ UNCHANGED <<svars, boot, outq, overflow, heartbeat, closing, pend, proxy, cvars>>

(* drain_terminal_attach_frames_after_sync: frames AttachSync already      *)
(* covers are dropped, later ones are written after it.                    *)
DrainFrame(c) ==
    /\ handler[c] = "drain"
    /\ outq[c] # <<>>
    /\ outq' = [outq EXCEPT ![c] = Tail(@)]
    /\ sock' = [sock EXCEPT ![c] =
                  IF Head(outq[c]).seq <= base[c] THEN @ ELSE Append(@, Head(outq[c]))]
    /\ UNCHANGED <<svars, handler, boot, base, overflow, heartbeat, closing,
                   covered, pend, proxy, cvars>>

DrainDone(c) ==
    /\ handler[c] = "drain"
    /\ outq[c] = <<>>
    /\ handler' = [handler EXCEPT ![c] = "loop"]
    /\ UNCHANGED <<svars, boot, base, outq, overflow, heartbeat, closing,
                   covered, pvars, cvars>>

(* The select loop is biased: an overflow is served before anything else.  *)
Serving(c) == handler[c] = "loop" /\ ~overflow[c]

(* The handler returns: remove_terminal_attach, and its queue is dropped.  *)
HandlerEnds(c, close) ==
    /\ handler' = [handler EXCEPT ![c] = "ended"]
    /\ closing' = [closing EXCEPT ![c] = close]
    /\ outq' = [outq EXCEPT ![c] = <<>>]
    /\ covered' = [covered EXCEPT ![c] = @ - Len(outq[c])]
    /\ heartbeat' = [heartbeat EXCEPT ![c] = FALSE]
    /\ UNCHANGED <<svars, boot, base, overflow, pvars, cvars>>

(* Mutant of SlowConsumer: the handler ends without telling the client. *)
SlowConsumerSilent(c) ==
    /\ handler[c] = "loop"
    /\ overflow[c]
    /\ HandlerEnds(c, FALSE)

(* Close { reason: "slow_consumer" } *)
SlowConsumer(c) ==
    /\ handler[c] = "loop"
    /\ overflow[c]
    /\ HandlerEnds(c, TRUE)

ForwardFrame(c) ==
    /\ Serving(c)
    /\ outq[c] # <<>>
    /\ sock' = [sock EXCEPT ![c] = Append(@, Head(outq[c]))]
    /\ outq' = [outq EXCEPT ![c] = Tail(@)]
    /\ UNCHANGED <<svars, handler, boot, base, overflow, heartbeat, closing,
                   covered, pend, proxy, cvars>>

(* SupervisorTerminalClientFrame::Resize *)
HandleResize(c) ==
    /\ Serving(c)
    /\ resizing[c] # NoSize
    /\ Publish("resize", resizing[c])
    /\ resizing' = [resizing EXCEPT ![c] = NoSize]
    /\ UNCHANGED <<exited, handler, boot, base, heartbeat, closing, pvars,
                   client, last, waiting, view, twice, attaches>>

(* Input or resize after the child is gone: the PTY write fails and the    *)
(* handler returns the error without a Close message.                      *)
PtyWriteFails(c) ==
    /\ Serving(c)
    /\ client[c] = "attached"
    /\ exited
    /\ HandlerEnds(c, FALSE)

(* heartbeat_interval.tick(): one ping at a time is outstanding, and one   *)
(* unanswered for too long closes this attach.                             *)
HeartbeatPing(c) ==
    /\ Serving(c)
    /\ ~heartbeat[c]
    /\ heartbeat' = [heartbeat EXCEPT ![c] = TRUE]
    /\ UNCHANGED <<svars, handler, boot, base, outq, overflow, closing,
                   covered, pvars, cvars>>

HeartbeatPong(c) ==
    /\ Serving(c)
    /\ client[c] = "attached"
    /\ heartbeat[c]
    /\ heartbeat' = [heartbeat EXCEPT ![c] = FALSE]
    /\ UNCHANGED <<svars, handler, boot, base, outq, overflow, closing,
                   covered, pvars, cvars>>

HeartbeatTimeout(c) ==
    /\ Serving(c)
    /\ heartbeat[c]
    /\ HandlerEnds(c, TRUE)

----------------------------------------------------------------------------
(* The daemon's attach proxy *)

(* spawn_terminal_attach_reader_thread: move one message from the socket   *)
(* to pending_frames; a full queue is cleared, leaves reader_error behind  *)
(* and stops the reader.                                                   *)
ProxyRead(c) ==
    /\ proxy[c] = "reading"
    /\ sock[c] # <<>>
    /\ \E heavy \in BOOLEAN :
          IF Len(pend[c]) >= ProxyMax \/ heavy
          THEN /\ pend' = [pend EXCEPT ![c] = <<>>]
               /\ proxy' = [proxy EXCEPT ![c] = "failed"]
               /\ UNCHANGED sock
          ELSE /\ pend' = [pend EXCEPT ![c] = Append(@, Head(sock[c]))]
               /\ sock' = [sock EXCEPT ![c] = Tail(@)]
               /\ UNCHANGED proxy
    /\ UNCHANGED <<svars, hvars, cvars>>

(* The handler is gone: a Close message is one more message to queue, a    *)
(* bare UnexpectedEof stops the reader without an error or a signal.       *)
ProxyEof(c) ==
    /\ proxy[c] = "reading"
    /\ sock[c] = <<>>
    /\ handler[c] = "ended"
    /\ IF closing[c] /\ Len(pend[c]) >= ProxyMax
       THEN /\ pend' = [pend EXCEPT ![c] = <<>>]
            /\ proxy' = [proxy EXCEPT ![c] = "failed"]
       ELSE /\ proxy' = [proxy EXCEPT ![c] = "eof"]
            /\ UNCHANGED pend
    /\ UNCHANGED <<svars, hvars, sock, cvars>>

----------------------------------------------------------------------------
(* The clients *)

(* terminal.attach: the daemon connects a new attach proxy, whose first    *)
(* message is BootstrapAttach.  Only termctl sends its last_terminal_seq.  *)
OpenAttach(c) ==
    /\ client[c] = "down"
    /\ attaches[c] < MaxAttach
    /\ client' = [client EXCEPT ![c] = "opening"]
    /\ attaches' = [attaches EXCEPT ![c] = @ + 1]
    /\ handler' = [handler EXCEPT ![c] = "boot"]
    /\ boot' = [boot EXCEPT ![c] = IF c \in WebClients THEN NoSeq ELSE last[c]]
    /\ proxy' = [proxy EXCEPT ![c] = "reading"]
    /\ UNCHANGED <<svars, base, outq, overflow, heartbeat, closing, covered,
                   sock, pend, last, resizing, waiting, view, twice>>

(* terminal.attached and terminal.snapshot arrived: a new TerminalStream   *)
(* replaces the old one, and a termctl on a tty sends its size at once.    *)
AttachConfirmed(c) ==
    /\ client[c] = "opening"
    /\ client' = [client EXCEPT ![c] = "attached"]
    /\ last' = [last EXCEPT ![c] = NoSeq]
    /\ \E size \in Sizes :
          /\ waiting' = [waiting EXCEPT ![c] = IF c \in TtyClients THEN size ELSE @]
          /\ resizing' = [resizing EXCEPT ![c] = IF c \in TtyClients THEN size ELSE @]
    /\ UNCHANGED <<svars, hvars, pvars, view, twice, attaches>>

(* The client's window changes: the web client sends its new size and goes *)
(* on, termctl waits for the echo.                                         *)
SendResize(c, size) ==
    /\ c \in WebClients \cup TtyClients
    /\ client[c] = "attached"
    /\ resizing[c] = NoSize
    /\ waiting[c] = NoSize
    /\ resizing' = [resizing EXCEPT ![c] = size]
    /\ waiting' = [waiting EXCEPT ![c] = IF c \in TtyClients THEN size ELSE @]
    /\ UNCHANGED <<svars, hvars, pvars, client, last, view, twice, attaches>>

(* record_terminal_seq never goes backwards. *)
RecordTerminalSeq(c, seq) ==
    last' = [last EXCEPT ![c] = IF seq > @ THEN seq ELSE @]

(* Rendering: a snapshot replaces the screen, every other frame adds its   *)
(* event to it.                                                            *)
Render(c, msg) ==
    LET tail  == {msg.tail[i].seq : i \in 1..Len(msg.tail)}
        added == IF msg.type = "sync" THEN tail ELSE {msg.seq}
    IN  /\ view' = [view EXCEPT ![c] = IF msg.snap THEN 1..msg.seq ELSE @ \cup added]
        /\ twice' = [twice EXCEPT ![c] = @ \/ (~msg.snap /\ added \cap view[c] # {})]

(* An exit frame, live or in a tail, ends termctl's loop. *)
EndsStream(c, msg) ==
    /\ c \notin WebClients
    /\ \/ msg.kind = "exit"
       \/ \E i \in 1..Len(msg.tail) : msg.tail[i].kind = "exit"

(* drain_v070_terminal_frames, then receive_terminal_event and             *)
(* queue_supervisor_events in termctl, the receive loop in the web client. *)
Receivable(c) ==
    /\ client[c] = "attached"
    /\ waiting[c] = NoSize
    /\ proxy[c] # "failed"
    /\ pend[c] # <<>>

ReceiveFrame(c) ==
    /\ Receivable(c)
    /\ ~EndsStream(c, Head(pend[c]))
    /\ pend' = [pend EXCEPT ![c] = Tail(@)]
    /\ RecordTerminalSeq(c, Head(pend[c]).seq)
    /\ Render(c, Head(pend[c]))
    /\ UNCHANGED <<svars, hvars, sock, proxy, client, resizing, waiting, attaches>>

(* wait_for_resize: every frame up to the echo of the requested size is    *)
(* read and dropped; nothing is queued and no sequence number recorded.    *)
AwaitResizeEcho(c) ==
    /\ client[c] = "attached"
    /\ waiting[c] # NoSize
    /\ proxy[c] # "failed"
    /\ pend[c] # <<>>
    /\ pend' = [pend EXCEPT ![c] = Tail(@)]
    /\ waiting' = [waiting EXCEPT ![c] =
                     IF Head(pend[c]).kind = "resize" /\ Head(pend[c]).size = @
                     THEN NoSize ELSE @]
    /\ UNCHANGED <<svars, hvars, sock, proxy, client, last, resizing, view, twice,
                   attaches>>

(* The stream is gone on every hop: the proxy is dropped, its socket       *)
(* closed, and the handler, seeing EOF, unregisters.                       *)
Teardown(c, next) ==
    /\ client' = [client EXCEPT ![c] = next]
    /\ handler' = [handler EXCEPT ![c] = "none"]
    /\ outq' = [outq EXCEPT ![c] = <<>>]
    /\ overflow' = [overflow EXCEPT ![c] = FALSE]
    /\ heartbeat' = [heartbeat EXCEPT ![c] = FALSE]
    /\ closing' = [closing EXCEPT ![c] = FALSE]
    /\ sock' = [sock EXCEPT ![c] = <<>>]
    /\ pend' = [pend EXCEPT ![c] = <<>>]
    /\ proxy' = [proxy EXCEPT ![c] = "none"]
    /\ waiting' = [waiting EXCEPT ![c] = NoSize]
    /\ resizing' = [resizing EXCEPT ![c] = NoSize]
    /\ UNCHANGED <<svars, boot, base, covered, last, view, twice, attaches>>

(* The transport breaks anywhere between client and daemon. *)
Disconnect(c) ==
    /\ client[c] \in {"opening", "attached"}
    /\ Teardown(c, "down")

(* read_frame returns reader_error: the daemon closes the WebSocket. *)
ProxyError(c) ==
    /\ client[c] = "attached"
    /\ proxy[c] = "failed"
    /\ Teardown(c, "down")

(* TerminalStreamEvent::End: termctl returns. *)
ReceiveExit(c) ==
    /\ Receivable(c)
    /\ EndsStream(c, Head(pend[c]))
    /\ Teardown(c, "ended")

(* The Close message: the web client reattaches, termctl's loop ends; for  *)
(* wait_for_resize it is an error, and termctl reconnects.                 *)
ReceiveClose(c) ==
    /\ client[c] = "attached"
    /\ closing[c]
    /\ proxy[c] = "eof"
    /\ pend[c] = <<>>
    /\ Teardown(c, IF c \in WebClients \/ waiting[c] # NoSize THEN "down" ELSE "ended")

(* The user closes the client, or the daemon removes the exited session    *)
(* and its watched attachments.                                            *)
SessionRemoved(c) ==
    /\ client[c] = "attached"
    /\ exited
    /\ Teardown(c, "ended")

----------------------------------------------------------------------------
ClientStep(c) ==
    \/ RegisterAndSync(c) \/ DrainFrame(c) \/ DrainDone(c) \/ SlowConsumer(c)
    \/ ForwardFrame(c) \/ PtyWriteFails(c)
    \/ HeartbeatPing(c) \/ HeartbeatPong(c) \/ HeartbeatTimeout(c)
    \/ ProxyRead(c) \/ ProxyEof(c)
    \/ OpenAttach(c) \/ AttachConfirmed(c) \/ ReceiveFrame(c) \/ ReceiveExit(c) \/ AwaitResizeEcho(c)
    \/ Disconnect(c) \/ ProxyError(c) \/ ReceiveClose(c) \/ SessionRemoved(c)
    \/ HandleResize(c) \/ \E size \in Sizes : SendResize(c, size)

Next ==
    \/ PublishOutput
    \/ PublishExit
    \/ \E size \in Sizes : ControllerResize(size)
    \/ \E c \in Clients : ClientStep(c)

Spec == Init /\ [][Next]_vars

(* Every task, thread and client loop keeps running; nothing obliges the   *)
(* PTY to produce output or the transport to fail.                         *)
Progress(c) ==
    \/ RegisterAndSync(c) \/ DrainFrame(c) \/ DrainDone(c) \/ SlowConsumer(c)
    \/ ForwardFrame(c) \/ HandleResize(c) \/ ProxyRead(c) \/ ProxyEof(c)
    \/ OpenAttach(c) \/ AttachConfirmed(c) \/ ReceiveFrame(c) \/ ReceiveExit(c)
    \/ ProxyError(c) \/ ReceiveClose(c)

FairSpec == Spec /\ \A c \in Clients : WF_vars(Progress(c))

----------------------------------------------------------------------------
(* Properties *)

(* Clients whose every frame reaches the renderer. *)
PlainClients == Clients \ TtyClients

(* A client has rendered the AttachSync of its current stream. *)
Synced(c) == client[c] = "attached" /\ last[c] # NoSeq

(* Replay: what a synchronised client shows is the exact prefix of the     *)
(* session's terminal history up to the last sequence number it recorded:  *)
(* no event is missing (a lost queue entry, an event between snapshot and  *)
(* registration) and none was rendered twice (a queued frame the snapshot  *)
(* already covers, an overlapping tail).                                   *)
ViewIsPrefix ==
    \A c \in PlainClients :
        /\ ~twice[c]
        /\ Synced(c) => /\ view[c] = 1..last[c]
                        /\ last[c] <= CurrentSeq(cache)

(* The journal always holds the last min(JournalMax, current) events, in   *)
(* order and without a gap, and journal_base_seq names its first one: a    *)
(* tail cut from it is complete.                                           *)
JournalIsSuffix == SuffixJournal(cache)

(* Backpressure: a slow attach is cut off, it never makes the queues grow  *)
(* past their bounds, and one that is still registered has missed nothing: *)
(* its last queued, written or covered event is the session's last event.  *)
BoundedAndComplete ==
    \A c \in Clients :
        /\ Len(outq[c]) <= QueueMax
        /\ Len(pend[c]) <= ProxyMax
        /\ Registered(c) => covered[c] = CurrentSeq(cache)

(* Once the session is quiet, every client catches up with all of its      *)
(* history, however often it was cut off as a slow consumer or lost its    *)
(* transport, unless it used up its attaches (a bound of the model) or its *)
(* stream came to an explicit end.                                         *)
CatchesUp ==
    \A c \in PlainClients :
        (CurrentSeq(cache) = MaxSeq /\ ~exited) ~>
            \/ view[c] = 1..MaxSeq
            \/ client[c] = "ended"
            \/ client[c] = "down" /\ attaches[c] = MaxAttach
            \/ exited

(* termctl on a tty: the same promise as ViewIsPrefix.  A reconnect is to  *)
(* restore the screen from snapshot and tail.                              *)
TtyViewIsPrefix ==
    \A c \in TtyClients : Synced(c) => view[c] = 1..last[c]

----------------------------------------------------------------------------
(* The inductive strengthening of ViewIsPrefix: along one stream the       *)
(* sequence numbers form an unbroken progression from the client's cursor  *)
(* through pend, sock and outq to the last event the stream was given.     *)

Sent(c)   == covered[c] - Len(outq[c])      \* last event written to sock
Read(c)   == Sent(c) - Len(sock[c])         \* last event read by the proxy
Cursor(c) == Read(c) - Len(pend[c])         \* last event the client took

Consecutive(q, after) == \A i \in 1..Len(q) : q[i].seq = after + i

IsFrame(msg) == msg.type = "frame" /\ ~msg.snap /\ msg.tail = <<>>
AllFrames(q) == \A i \in 1..Len(q) : IsFrame(q[i])

(* An AttachSync the client can apply to what it showed when it opened. *)
IsSync(c, msg) ==
    /\ msg.type = "sync"
    /\ \/ msg.snap
       \/ /\ boot[c] # NoSeq
          /\ boot[c] + Len(msg.tail) = msg.seq
          /\ Consecutive(msg.tail, boot[c])

SyncFirst(c, q) == q # <<>> /\ IsSync(c, Head(q)) /\ AllFrames(Tail(q))

(* The client has not taken the AttachSync of its current stream yet. *)
Fresh(c) == client[c] = "opening" \/ (client[c] = "attached" /\ last[c] = NoSeq)

StreamInv(c) ==
    /\ handler[c] = "none" <=> client[c] \in {"down", "ended"}
    /\ handler[c] \in {"none", "boot"} =>
          /\ outq[c] = <<>> /\ sock[c] = <<>> /\ pend[c] = <<>>
          /\ ~overflow[c]
    /\ handler[c] = "boot" => Fresh(c) /\ proxy[c] = "reading"
    /\ handler[c] = "ended" => outq[c] = <<>>
    /\ handler[c] \in {"drain", "loop"} => base[c] <= Sent(c)
    /\ Registered(c) => covered[c] = CurrentSeq(cache)
    /\ covered[c] <= CurrentSeq(cache)
    /\ Len(outq[c]) <= QueueMax
    /\ Len(pend[c]) <= ProxyMax
    /\ AllFrames(outq[c])
    /\ Consecutive(outq[c], Sent(c))
    /\ Consecutive(sock[c], Read(c))
    /\ Consecutive(pend[c], Cursor(c))

ViewInv(c) ==
    /\ ~twice[c]
    /\ waiting[c] = NoSize
    /\ client[c] \in {"down", "opening"} => last[c] = NoSeq \/ view[c] = 1..last[c]
    /\ last[c] <= CurrentSeq(cache)
    /\ Fresh(c) => boot[c] = NoSeq \/ view[c] = 1..boot[c]
    /\ Fresh(c) /\ handler[c] # "boot" /\ proxy[c] # "failed" =>
          IF pend[c] = <<>> THEN SyncFirst(c, sock[c])
          ELSE SyncFirst(c, pend[c]) /\ AllFrames(sock[c])
    /\ Synced(c) =>
          /\ view[c] = 1..last[c]
          /\ proxy[c] # "failed" =>
                last[c] = Cursor(c) /\ AllFrames(pend[c]) /\ AllFrames(sock[c])

(* The inductive invariant of TerminalAttach. *)
AttachInv ==
    /\ TypeOK
    /\ JournalIsSuffix
    /\ \A c \in Clients : StreamInv(c)
    /\ \A c \in PlainClients : ViewInv(c)
=============================================================================
