----------------------------- MODULE RelayRoom -----------------------------
(***************************************************************************)
(* One relay room and the daemon that serves it: the relay's registry,     *)
(* socket tasks and pipe pumps (termrelay/src/ws.rs, ws/registry.rs,       *)
(* ws/pipe_pump.rs, ws/route_binder.rs) composed with the daemon's relay   *)
(* connector (termd/src/net/relay.rs).                                     *)
(*                                                                         *)
(* The daemon keeps one control connection; its generation is the number   *)
(* of that connection.  A browser client registers at the relay, which     *)
(* asks over the control line for a data pipe of its own (OpenData); the   *)
(* daemon dials it and the relay pairs the two.  The registry is guarded   *)
(* by one mutex: a step that takes it is one action, and where the code    *)
(* lets it go and takes it again there are two.                            *)
(*                                                                         *)
(* OpenData is sent once per client id, so the data pipe of client c is    *)
(* named c as well.  A frame is its number; a frame counts one byte.       *)
(***************************************************************************)
EXTENDS Integers, FiniteSets, Sequences

CONSTANTS
    Clients,        \* client connection ids
    Loads,          \* scenarios: how many control lines are opened (ctls), which
                    \* clients come (DOMAIN frames), and how many frames go up
                    \* (to the daemon) and down over each one's pipe
    MaxControl,     \* bound: control connections the daemon opens
    ControlCap,     \* CONTROL_CHANNEL_CAPACITY (code: 256)
    DataCap,        \* DATA_CHANNEL_CAPACITY or byte budget (code: 32768)
    IngressCap,     \* DAEMON_DATA_INGRESS_FRAME_CAPACITY (code: 2048)
    BufferCap,      \* PRE_PAIR_CLIENT_BUFFER_MAX_FRAMES (code: 256)
    RoomCap,        \* PRE_PAIR_ROOM_BUFFER_MAX_BYTES (code: 2 client buffers)
    PendingLimit    \* PENDING_CLIENTS_PER_ROOM_LIMIT (code: 64)

ASSUME RelayRoomAssumption ==
    /\ MaxControl \in Nat /\ IsFiniteSet(Clients)
    /\ \A load \in Loads :
          /\ load.ctls \in 0..MaxControl
          /\ \E S \in SUBSET Clients :
                load.frames \in [S -> [up : Nat, down : Nat]]
    /\ {ControlCap, DataCap, IngressCap, PendingLimit} \subseteq Nat \ {0}
    /\ {BufferCap, RoomCap} \subseteq Nat

Ctls == 1..MaxControl

VARIABLES
    room,       \* the registry's room, its endpoints' close signals and queues
    rload,      \* the scenario
    browser,    \* browser side of each client: "new", "on", "off", "refused"
    sent,       \* frames each browser has sent
    seen,       \* frames each browser has received
    csock,      \* relay's client socket task: "none", "run", "done"
    hold,       \* the frame that task is forwarding, with the stage it is at
    ksock,      \* relay's control socket task: "none", "run", "done"
    knet,       \* control link: "none", "hello", "up", "cut"
    dctl,       \* the daemon's control connection, 0 when it has none
    task,       \* daemon's data task: "none", "dial", "hello", "open", "end"
    tgen,       \* the generation it was started under
    dnet,       \* its route_hello at the relay: "none", "hello", "read"
    dsock,      \* relay's data socket task: "none", "bind", "flush", "run",
                \* "drain", "done"
    flushing,   \* frames taken from the pre-pair buffer, not yet queued
    ingress,    \* DaemonDataIngress: frames read from the daemon
    fwd,        \* the frame the forward task holds (0: none)
    out,        \* frames the daemon has sent per data pipe
    got,        \* frames the daemon has received per data pipe
    late        \* history: clients with a frame buffered after the flush ended

rbrowser == <<browser, sent, seen>>
rclient  == <<csock, hold>>
rctl     == <<ksock, knet, dctl>>
rtask    == <<task, tgen, dnet>>
rdata    == <<dsock, flushing, ingress, fwd, out, got>>
relayVars == <<room, rload, rbrowser, rclient, rctl, rtask, rdata, late>>

NoHold == [stage |-> "none", frame |-> 0]

RelayTypeOK ==
    /\ room.live \in BOOLEAN
    /\ room.control \in Ctls \cup {0}
    /\ \A s \in {room.clients, room.paired, room.flush, room.data} : s \subseteq Clients
    /\ room.paired \subseteq room.clients
    /\ room.buf \in [Clients -> Seq(Nat)]
    /\ room.bytes \in Nat
    /\ room.closed \subseteq ({"c", "d"} \X Clients) \cup ({"k"} \X Ctls)
    /\ room.mute \subseteq Ctls
    /\ room.q \in [Ctls -> Seq([kind : {"open", "gone"}, c : Clients])]
    /\ room.dq \in [Clients -> Seq(Nat)]
    /\ room.cq \in [Clients -> Seq(Nat)]
    /\ rload \in Loads
    /\ browser \in [Clients -> {"new", "on", "off", "refused"}]
    /\ csock \in [Clients -> {"none", "run", "done"}]
    /\ hold \in [Clients -> [stage : {"none", "buffer", "send"}, frame : Nat]]
    /\ ksock \in [Ctls -> {"none", "run", "done"}]
    /\ knet \in [Ctls -> {"none", "hello", "up", "cut"}]
    /\ dctl \in Ctls \cup {0}
    /\ task \in [Clients -> {"none", "dial", "hello", "open", "end"}]
    /\ tgen \in [Clients -> Ctls \cup {0}]
    /\ dnet \in [Clients -> {"none", "hello", "read"}]
    /\ dsock \in [Clients -> {"none", "bind", "flush", "run", "drain", "done"}]
    /\ \A f \in {sent, fwd, out} : f \in [Clients -> Nat]
    /\ \A f \in {seen, flushing, ingress, got} : f \in [Clients -> Seq(Nat)]
    /\ late \subseteq Clients

RelayInit ==
    /\ room = [live |-> FALSE, control |-> 0, clients |-> {}, paired |-> {},
               flush |-> {}, data |-> {}, buf |-> [c \in Clients |-> <<>>],
               bytes |-> 0, closed |-> {}, mute |-> {},
               q |-> [k \in Ctls |-> <<>>],
               dq |-> [c \in Clients |-> <<>>], cq |-> [c \in Clients |-> <<>>]]
    /\ rload \in Loads
    /\ browser = [c \in Clients |-> "new"]
    /\ csock = [c \in Clients |-> "none"]
    /\ hold = [c \in Clients |-> NoHold]
    /\ ksock = [k \in Ctls |-> "none"]
    /\ knet = [k \in Ctls |-> "none"]
    /\ dctl = 0
    /\ task = [c \in Clients |-> "none"]
    /\ tgen = [c \in Clients |-> 0]
    /\ dnet = [c \in Clients |-> "none"]
    /\ dsock = [c \in Clients |-> "none"]
    /\ sent = [c \in Clients |-> 0] /\ out = sent /\ fwd = sent
    /\ seen = [c \in Clients |-> <<>>]
    /\ flushing = seen /\ ingress = seen /\ got = seen
    /\ late = {}

----------------------------------------------------------------------------
(* The registry's operations on a room r, each under the registry mutex.   *)
(* room.clients and room.data are the registered clients and data pipes,   *)
(* room.closed the endpoints whose close signal was raised, room.mute the  *)
(* control connections whose writer has exited, room.q / room.cq / room.dq *)
(* the outbound queues.                                                    *)

Pending(r) == r.clients \ r.paired                    \* pending_client_count

(* Mutant: the pairing is forgotten. *)
CloseClientKeepsPair(r, c) ==
    IF c \notin r.clients THEN r
    ELSE [r EXCEPT !.clients = @ \ {c}, !.buf[c] = <<>>, !.bytes = @ - Len(r.buf[c]),
                   !.closed = @ \cup {<<"c", c>>, <<"d", c>>}]

(* RelayRoom::close_client_transport: the client, its buffered bytes and   *)
(* its paired data pipe go; both endpoints are told to close.              *)
CloseClient(r, c) ==
    IF c \notin r.clients THEN r
    ELSE [r EXCEPT !.clients = @ \ {c}, !.paired = @ \ {c}, !.flush = @ \ {c},
                   !.data = IF c \in r.paired THEN @ \ {c} ELSE @,
                   !.buf[c] = <<>>,
                   !.bytes = @ - Len(r.buf[c]),
                   !.closed = @ \cup {<<"c", c>>} \cup
                       (IF c \in r.paired \cap r.data THEN {<<"d", c>>} ELSE {})]

(* RelayRoom::close_clients *)
CloseClients(r) ==
    [r EXCEPT !.clients = {}, !.paired = {}, !.flush = {}, !.data = {},
              !.buf = [c \in Clients |-> IF c \in r.clients THEN <<>> ELSE @[c]],
              !.bytes = 0,
              !.closed = @ \cup ({"c"} \X r.clients) \cup ({"d"} \X r.data)]

(* RelayRoom::clear_daemon_control_and_dependents *)
ClearControl(r) ==
    CloseClients([r EXCEPT !.control = 0,
        !.closed = IF r.control = 0 THEN @ ELSE @ \cup {<<"k", r.control>>}])

(* FrameSender::try_send_control on the room's control line. *)
ControlFull(r)   == Len(r.q[r.control]) >= ControlCap
ControlClosed(r) == r.control \in r.mute
SendControl(r, kind, c) == [r EXCEPT !.q[r.control] = Append(@, [kind |-> kind, c |-> c])]

(* RelayRoom::notify_client_disconnected_to_control: a control line that   *)
(* cannot take even this is given up, with everything that depends on it.  *)
NotifyGone(r, c) ==
    IF r.control = 0 THEN r
    ELSE IF ControlClosed(r) \/ ControlFull(r) THEN ClearControl(r)
    ELSE SendControl(r, "gone", c)

(* The pair the callers make of the two: the daemon is told over the       *)
(* control line only when no data pipe could be closed instead.            *)
DropClient(r, c) ==
    LET closed == CloseClient(r, c)
    IN  IF c \in r.clients /\ c \notin r.paired \cap r.data
        THEN NotifyGone(closed, c) ELSE closed

(* RelayRegistry::remove_room_if_empty *)
Swept(r) ==
    [r EXCEPT !.live = @ /\ ~(r.control = 0 /\ r.data = {} /\ r.clients = {})]

----------------------------------------------------------------------------
(* Browser clients *)

(* handle_workspace_socket / register_transport(Client): the client enters *)
(* the room before OpenData is queued.  A full control queue refuses it; a *)
(* closed one also clears the control line.                                *)
BrowserConnects(c) ==
    LET r1 == [room EXCEPT !.clients = @ \cup {c}]
        admitted == room.live /\ Cardinality(Pending(room)) < PendingLimit
                    /\ room.control # 0
        Accept == admitted /\ ~ControlClosed(room) /\ ~ControlFull(room)
    IN  /\ browser[c] = "new" /\ c \in DOMAIN rload.frames
        /\ IF Accept
           THEN /\ room' = SendControl(r1, "open", c)
                /\ browser' = [browser EXCEPT ![c] = "on"]
                /\ csock' = [csock EXCEPT ![c] = "run"]
           ELSE /\ room' = IF ~admitted THEN room
                           ELSE IF ControlClosed(room)
                           THEN ClearControl(CloseClient(r1, c))
                           ELSE CloseClient(r1, c)
                /\ browser' = [browser EXCEPT ![c] = "refused"]
                /\ UNCHANGED csock
        /\ UNCHANGED <<rload, sent, seen, hold, rctl, rtask, rdata, late>>

(* The browser closes its WebSocket, or loses it. *)
BrowserLeaves(c) ==
    /\ browser[c] = "on"
    /\ browser' = [browser EXCEPT ![c] = "off"]
    /\ UNCHANGED <<room, rload, sent, seen, rclient, rctl, rtask, rdata, late>>

(* run_registered_socket reads a frame of a client and forward_client_to_  *)
(* daemon_data looks the client up: buffer it, hand it to the data pipe,   *)
(* or drop it.  The mutex is released before either is done.               *)
ClientReads(c) ==
    LET stage == IF ~room.live \/ c \notin room.clients THEN "none"
                 ELSE IF c \in room.flush \/ c \notin room.paired THEN "buffer"
                 ELSE IF c \notin room.data THEN "none"
                 ELSE "send"
    IN  /\ browser[c] = "on" /\ csock[c] = "run"
        /\ hold[c] = NoHold /\ <<"c", c>> \notin room.closed
        /\ sent[c] < rload.frames[c].up
        /\ sent' = [sent EXCEPT ![c] = @ + 1]
        /\ hold' = [hold EXCEPT ![c] =
               IF stage = "none" THEN NoHold
               ELSE [stage |-> stage, frame |-> sent[c] + 1]]
        /\ UNCHANGED <<room, rload, browser, seen, csock, rctl, rtask, rdata, late>>

(* buffer_unpaired_client_frame: the mutex is taken again, and the frame   *)
(* goes to the pre-pair buffer whatever has happened to the pairing since. *)
ClientBuffers(c) ==
    LET fits == /\ c \in room.clients
                /\ room.bytes + 1 <= RoomCap
                /\ Len(room.buf[c]) < BufferCap
    IN  /\ hold[c].stage = "buffer"
        /\ hold' = [hold EXCEPT ![c] = NoHold]
        /\ room' = IF ~room.live THEN room
                   ELSE IF fits
                   THEN [room EXCEPT !.buf[c] = Append(@, hold[c].frame),
                                     !.bytes = @ + 1]
                   ELSE Swept(DropClient(room, c))
        /\ late' = IF room.live /\ fits /\ c \in room.paired \ room.flush
                   THEN late \cup {c} ELSE late
        /\ UNCHANGED <<rload, rbrowser, csock, rctl, rtask, rdata>>

(* try_send_data on the data pipe; a full or closed queue closes the       *)
(* client, if its data pipe is still registered.                           *)
ClientSends(c) ==
    /\ hold[c].stage = "send"
    /\ hold' = [hold EXCEPT ![c] = NoHold]
    /\ \/ /\ Len(room.dq[c]) < DataCap /\ dsock[c] # "done"
          /\ room' = [room EXCEPT !.dq[c] = Append(@, hold[c].frame)]
       \/ /\ \/ Len(room.dq[c]) >= DataCap
             \/ dsock[c] = "done" \/ <<"d", c>> \in room.closed
          /\ room' = Swept(IF c \in room.data THEN CloseClient(room, c) ELSE room)
    /\ UNCHANGED <<rload, rbrowser, csock, rctl, rtask, rdata, late>>

(* Mutant: the client is not unregistered. *)
ClientEndsRegistered(c) ==
    /\ csock[c] = "run" /\ hold[c] = NoHold
    /\ browser[c] = "off" \/ <<"c", c>> \in room.closed
    /\ csock' = [csock EXCEPT ![c] = "done"]
    /\ browser' = [browser EXCEPT ![c] = "off"]
    /\ UNCHANGED <<room, rload, sent, seen, hold, rctl, rtask, rdata, late>>

(* The client's socket task ends, on its close signal or when the browser  *)
(* is gone, and unregisters the client.                                    *)
ClientEnds(c) ==
    /\ csock[c] = "run" /\ hold[c] = NoHold
    /\ browser[c] = "off" \/ <<"c", c>> \in room.closed
    /\ csock' = [csock EXCEPT ![c] = "done"]
    /\ browser' = [browser EXCEPT ![c] = "off"]
    /\ room' = IF room.live THEN Swept(DropClient(room, c)) ELSE room
    /\ UNCHANGED <<rload, sent, seen, hold, rctl, rtask, rdata, late>>

(* start_pending_client_pair_deadline / close_pending_client_if_unpaired *)
PairDeadline(c) ==
    /\ room.live /\ c \in Pending(room)
    /\ room' = Swept(DropClient(room, c))
    /\ UNCHANGED <<rload, rbrowser, rclient, rctl, rtask, rdata, late>>

(* The client's writer puts a queued frame on the wire; the close signal   *)
(* comes first (biased select), so what is queued behind it is not sent.   *)
BrowserReads(c) ==
    /\ browser[c] = "on" /\ csock[c] = "run"
    /\ room.cq[c] # <<>> /\ <<"c", c>> \notin room.closed
    /\ seen' = [seen EXCEPT ![c] = Append(@, Head(room.cq[c]))]
    /\ room' = [room EXCEPT !.cq[c] = Tail(@)]
    /\ UNCHANGED <<rload, browser, sent, rclient, rctl, rtask, rdata, late>>

----------------------------------------------------------------------------
(* The control connection *)

(* connect_relay_control_base_once: a fresh generation and its route_hello *)
DaemonDials ==
    \E k \in 1..rload.ctls :
        /\ dctl = 0 /\ knet[k] = "none" /\ \A j \in 1..(k - 1) : knet[j] # "none"
        /\ dctl' = k
        /\ knet' = [knet EXCEPT ![k] = "hello"]
        /\ UNCHANGED <<room, rload, rbrowser, rclient, ksock, rtask, rdata, late>>

(* Mutant: what depends on the replaced control line is kept. *)
RegistersControlAlone(k) ==
    LET stale == room.control
        kept  == IF stale = 0 THEN room
                 ELSE [room EXCEPT !.closed = @ \cup {<<"k", stale>>}]
    IN  /\ knet[k] \in {"hello", "cut"} /\ ksock[k] = "none"
        /\ room' = [kept EXCEPT !.live = TRUE, !.control = k]
        /\ ksock' = [ksock EXCEPT ![k] = "run"]
        /\ knet' = [knet EXCEPT ![k] = IF @ = "hello" THEN "up" ELSE @]
        /\ UNCHANGED <<rload, rbrowser, rclient, dctl, rtask, rdata, late>>

(* bind_socket_route / register_transport(DaemonControl): a control line   *)
(* still there is replaced, with everything that depends on it.            *)
RegistersControl(k) ==
    LET stale == room.control
        kept  == IF stale = 0 THEN room
                 ELSE CloseClients([room EXCEPT !.closed = @ \cup {<<"k", stale>>}])
    IN  /\ knet[k] \in {"hello", "cut"} /\ ksock[k] = "none"
        /\ room' = [kept EXCEPT !.live = TRUE, !.control = k]
        /\ ksock' = [ksock EXCEPT ![k] = "run"]
        /\ knet' = [knet EXCEPT ![k] = IF @ = "hello" THEN "up" ELSE @]
        /\ UNCHANGED <<rload, rbrowser, rclient, dctl, rtask, rdata, late>>

(* The link fails; each side finds out in its own time. *)
LinkCut(k) ==
    /\ knet[k] \in {"hello", "up"}
    /\ knet' = [knet EXCEPT ![k] = "cut"]
    /\ UNCHANGED <<room, rload, rbrowser, rclient, ksock, dctl, rtask, rdata, late>>

(* A write to the control line fails: the writer raises the endpoint's     *)
(* close signal and exits.                                                 *)
ControlWriterFails(k) ==
    /\ knet[k] = "cut" /\ ksock[k] = "run" /\ k \notin room.mute
    /\ room' = [room EXCEPT !.closed = @ \cup {<<"k", k>>}, !.mute = @ \cup {k}]
    /\ UNCHANGED <<rload, rbrowser, rclient, rctl, rtask, rdata, late>>

(* The control socket task ends and unregisters: only its own control line *)
(* is cleared.                                                             *)
ControlEnds(k) ==
    /\ ksock[k] = "run"
    /\ knet[k] = "cut" \/ <<"k", k>> \in room.closed
    /\ ksock' = [ksock EXCEPT ![k] = "done"]
    /\ knet' = [knet EXCEPT ![k] = "cut"]
    /\ LET r == [room EXCEPT !.mute = @ \cup {k}]
       IN  room' = IF ~r.live THEN r
                   ELSE Swept(IF r.control = k THEN ClearControl(r) ELSE r)
    /\ UNCHANGED <<rload, rbrowser, rclient, dctl, rtask, rdata, late>>

(* The daemon notices: every data task is aborted, then it dials again     *)
(* after the backoff.                                                      *)
DaemonLosesControl ==
    /\ dctl # 0 /\ knet[dctl] = "cut"
    /\ dctl' = 0
    /\ task' = [c \in Clients |-> IF task[c] = "none" THEN "none" ELSE "end"]
    /\ UNCHANGED <<room, rload, rbrowser, rclient, ksock, knet, tgen, dnet, rdata, late>>

(* handle_relay_control_envelope on the next control message *)
DaemonHandles ==
    /\ dctl # 0 /\ knet[dctl] = "up" /\ room.q[dctl] # <<>>
    /\ <<"k", dctl>> \notin room.closed
    /\ LET m == Head(room.q[dctl])
       IN  /\ room' = [room EXCEPT !.q[dctl] = Tail(@)]
           /\ task' = [task EXCEPT ![m.c] =
                  IF m.kind = "open" THEN "dial"
                  ELSE IF @ = "none" THEN @ ELSE "end"]
           /\ tgen' = [tgen EXCEPT ![m.c] = IF m.kind = "open" THEN dctl ELSE @]
    /\ UNCHANGED <<rload, rbrowser, rclient, rctl, dnet, rdata, late>>

----------------------------------------------------------------------------
(* Data pipes *)

(* connect_relay_data_route_socket_with_policy: only a connect timeout is  *)
(* retried, before the hello is sent; any other failure ends the task.     *)
DataHello(c) ==
    /\ task[c] = "dial"
    /\ \/ /\ task' = [task EXCEPT ![c] = "hello"]
          /\ dnet' = [dnet EXCEPT ![c] = "hello"]
       \/ task' = [task EXCEPT ![c] = "end"] /\ UNCHANGED dnet
    /\ UNCHANGED <<room, rload, rbrowser, rclient, rctl, tgen, rdata, late>>

(* register_transport(DaemonData): the pipe must be of the current         *)
(* generation and its client registered and unpaired; frames already       *)
(* buffered start the flush.                                               *)
DataAdmitted(c) ==
    /\ room.live
    /\ room.control # 0 => tgen[c] = room.control
    /\ c \in room.clients \ room.paired

RegistersData(c) ==
    /\ dnet[c] = "hello"
    /\ dnet' = [dnet EXCEPT ![c] = "read"]
    /\ IF DataAdmitted(c)
       THEN /\ room' = [room EXCEPT !.paired = @ \cup {c}, !.data = @ \cup {c},
                  !.flush = IF room.buf[c] = <<>> THEN @ \ {c} ELSE @ \cup {c}]
            /\ dsock' = [dsock EXCEPT ![c] = "bind"]
            /\ UNCHANGED task
       ELSE /\ dsock' = [dsock EXCEPT ![c] = "done"]
            /\ task' = [task EXCEPT ![c] = "end"]
            /\ UNCHANGED room
    /\ UNCHANGED <<rload, rbrowser, rclient, rctl, tgen, flushing, ingress,
                   fwd, out, got, late>>

(* send_route_ready, and read_route_ready at the daemon: the pipe is open  *)
(* on both sides, or its task is gone and the relay unregisters it.        *)
DataReady(c) ==
    /\ dsock[c] = "bind"
    /\ IF task[c] = "hello"
       THEN /\ task' = [task EXCEPT ![c] = "open"]
            /\ dsock' = [dsock EXCEPT ![c] = "flush"]
       ELSE /\ dsock' \in {[dsock EXCEPT ![c] = s] : s \in {"flush", "drain"}}
            /\ UNCHANGED task
    /\ UNCHANGED <<room, rload, rbrowser, rclient, rctl, tgen, dnet, flushing,
                   ingress, fwd, out, got, late>>

(* The daemon gives up waiting for route_ready. *)
DataTimesOut(c) ==
    /\ task[c] = "hello"
    /\ task' = [task EXCEPT ![c] = "end"]
    /\ UNCHANGED <<room, rload, rbrowser, rclient, rctl, tgen, dnet, rdata, late>>

(* flush_pre_pair_client_frames: take the buffered frames until there are  *)
(* none, which is what ends the flush ...                                  *)
FlushTakes(c) ==
    /\ dsock[c] = "flush" /\ flushing[c] = <<>>
    /\ IF room.live /\ c \in room.data \cap room.paired /\ room.buf[c] # <<>>
       THEN /\ flushing' = [flushing EXCEPT ![c] = room.buf[c]]
            /\ room' = [room EXCEPT !.buf[c] = <<>>,
                                    !.bytes = @ - Len(room.buf[c])]
            /\ UNCHANGED dsock
       ELSE /\ dsock' = [dsock EXCEPT ![c] = "run"]
            /\ room' = IF room.live /\ c \in room.data \cap room.paired
                       THEN [room EXCEPT !.flush = @ \ {c}] ELSE room
            /\ UNCHANGED flushing
    /\ UNCHANGED <<rload, rbrowser, rclient, rctl, rtask, ingress, fwd, out,
                   got, late>>

(* ... and queue each with send_data, which waits for room in the queue    *)
(* and fails when the pipe is closed.                                      *)
FlushSends(c) ==
    /\ dsock[c] = "flush" /\ flushing[c] # <<>>
    /\ IF <<"d", c>> \in room.closed
       THEN /\ flushing' = [flushing EXCEPT ![c] = <<>>]
            /\ room' = IF room.live THEN Swept(DropClient(room, c)) ELSE room
       ELSE /\ Len(room.dq[c]) < DataCap
            /\ flushing' = [flushing EXCEPT ![c] = Tail(@)]
            /\ room' = [room EXCEPT !.dq[c] = Append(@, Head(flushing[c]))]
    /\ UNCHANGED <<rload, rbrowser, rclient, rctl, rtask, dsock, ingress, fwd,
                   out, got, late>>

(* The data pipe's writer delivers the next frame to the daemon's task. *)
DaemonReads(c) ==
    /\ task[c] = "open" /\ room.dq[c] # <<>>
    /\ dsock[c] \in {"flush", "run", "drain"} /\ <<"d", c>> \notin room.closed
    /\ got' = [got EXCEPT ![c] = Append(@, Head(room.dq[c]))]
    /\ room' = [room EXCEPT !.dq[c] = Tail(@)]
    /\ UNCHANGED <<rload, rbrowser, rclient, rctl, rtask, dsock, flushing,
                   ingress, fwd, out, late>>

(* The daemon's task ends by itself: the session it serves ended, the      *)
(* first frame was refused, a write failed.                                *)
DataTaskEnds(c) ==
    /\ task[c] = "open"
    /\ task' = [task EXCEPT ![c] = "end"]
    /\ UNCHANGED <<room, rload, rbrowser, rclient, rctl, tgen, dnet, rdata, late>>

(* A write to a dead pipe fails: its writer raises the close signal. *)
DataWriterFails(c) ==
    /\ task[c] = "end" /\ dsock[c] \in {"flush", "run"}
    /\ <<"d", c>> \notin room.closed
    /\ room' = [room EXCEPT !.closed = @ \cup {<<"d", c>>}]
    /\ UNCHANGED <<rload, rbrowser, rclient, rctl, rtask, rdata, late>>

(* DaemonDataIngress::try_enqueue has no room left *)
IngressFull(c) == Len(ingress[c]) >= IngressCap

(* queue_daemon_data_ingress_frame: a full ingress ends the socket. *)
DataReads(c) ==
    /\ task[c] = "open" /\ dsock[c] = "run" /\ <<"d", c>> \notin room.closed
    /\ out[c] < rload.frames[c].down
    /\ out' = [out EXCEPT ![c] = @ + 1]
    /\ IF ~IngressFull(c)
       THEN ingress' = [ingress EXCEPT ![c] = Append(@, out[c] + 1)] /\ UNCHANGED dsock
       ELSE dsock' = [dsock EXCEPT ![c] = "drain"] /\ UNCHANGED ingress
    /\ UNCHANGED <<room, rload, rbrowser, rclient, rctl, rtask, flushing, fwd,
                   got, late>>

(* run_daemon_data_forwarder: forward_daemon_data_to_client looks the pair *)
(* up ...                                                                  *)
ForwardTakes(c) ==
    /\ dsock[c] \in {"flush", "run", "drain"} /\ fwd[c] = 0 /\ ingress[c] # <<>>
    /\ ingress' = [ingress EXCEPT ![c] = Tail(@)]
    /\ fwd' = [fwd EXCEPT ![c] = IF room.live /\ c \in room.data \cap room.paired
                                 THEN Head(ingress[c]) ELSE 0]
    /\ UNCHANGED <<room, rload, rbrowser, rclient, rctl, rtask, dsock,
                   flushing, out, got, late>>

(* Mutant: the frame is not given up once queued. *)
ForwardSendsAgain(c) ==
    /\ fwd[c] # 0 /\ <<"c", c>> \notin room.closed
    /\ Len(room.cq[c]) < DataCap
    /\ room' = [room EXCEPT !.cq[c] = Append(@, fwd[c])]
    /\ UNCHANGED <<rload, rbrowser, rclient, rctl, rtask, rdata, late>>

(* ... and waits for the client's queue: a closed client is dropped. *)
ForwardSends(c) ==
    /\ fwd[c] # 0
    /\ fwd' = [fwd EXCEPT ![c] = 0]
    /\ IF <<"c", c>> \in room.closed
       THEN room' = IF room.live THEN Swept(DropClient(room, c)) ELSE room
       ELSE /\ Len(room.cq[c]) < DataCap
            /\ room' = [room EXCEPT !.cq[c] = Append(@, fwd[c])]
    /\ UNCHANGED <<rload, rbrowser, rclient, rctl, rtask, dsock, flushing,
                   ingress, out, got, late>>

(* The data socket's read loop ends: its close signal, or the daemon is    *)
(* gone.                                                                   *)
DataSocketEnds(c) ==
    /\ dsock[c] = "run"
    /\ task[c] = "end" \/ <<"d", c>> \in room.closed
    /\ dsock' = [dsock EXCEPT ![c] = "drain"]
    /\ UNCHANGED <<room, rload, rbrowser, rclient, rctl, rtask, flushing,
                   ingress, fwd, out, got, late>>

(* DaemonDataForwardTask::shutdown drains the ingress, or aborts the       *)
(* forwarder at the drain timeout; then unregister(DaemonData) closes the  *)
(* client that was paired with the pipe.                                   *)
DataUnregisters(c) ==
    /\ dsock[c] = "drain"
    /\ dsock' = [dsock EXCEPT ![c] = "done"]
    /\ ingress' = [ingress EXCEPT ![c] = <<>>]
    /\ fwd' = [fwd EXCEPT ![c] = 0]
    /\ room' = IF ~room.live \/ c \notin room.data THEN room
               ELSE LET r == [room EXCEPT !.data = @ \ {c},
                                          !.closed = @ \cup {<<"d", c>>}]
                    IN  Swept(IF c \in r.paired THEN CloseClient(r, c) ELSE r)
    /\ UNCHANGED <<rload, rbrowser, rclient, rctl, rtask, flushing, out, got, late>>

(* The relay closed the pipe: the daemon's task sees the end of its        *)
(* socket.                                                                 *)
DataTaskSeesEnd(c) ==
    /\ task[c] \in {"hello", "open"}
    /\ dsock[c] = "done" \/ <<"d", c>> \in room.closed
    /\ task' = [task EXCEPT ![c] = "end"]
    /\ UNCHANGED <<room, rload, rbrowser, rclient, rctl, tgen, dnet, rdata, late>>

----------------------------------------------------------------------------
ClientStep(c) == ClientReads(c) \/ ClientBuffers(c) \/ ClientSends(c) \/ ClientEnds(c)
PipeStep(c) ==
    \/ DataHello(c) \/ RegistersData(c) \/ DataReady(c) \/ DataTimesOut(c)
    \/ FlushTakes(c) \/ FlushSends(c)
    \/ DataWriterFails(c) \/ DataSocketEnds(c) \/ DataUnregisters(c)
    \/ DataTaskSeesEnd(c)
ForwardStep(c) == ForwardTakes(c) \/ ForwardSends(c)
ControlStep(k) == RegistersControl(k) \/ ControlWriterFails(k) \/ ControlEnds(k)
DaemonStep == DaemonLosesControl \/ DaemonHandles

RelayNext ==
    \/ \E c \in Clients :
          \/ BrowserConnects(c) \/ BrowserLeaves(c) \/ BrowserReads(c)
          \/ PairDeadline(c) \/ ClientStep(c) \/ PipeStep(c) \/ ForwardStep(c)
          \/ DaemonReads(c) \/ DataReads(c) \/ DataTaskEnds(c)
    \/ \E k \in Ctls : LinkCut(k) \/ ControlStep(k)
    \/ DaemonDials \/ DaemonStep

RelaySpec == RelayInit /\ [][RelayNext]_relayVars

(* What the code's scheduling justifies: the runtime polls every task; a   *)
(* link that is cut is found out by a write (idle pings with a send        *)
(* deadline on both sides) and the pair deadline and the drain timeout     *)
(* fire.  Nobody has to connect, leave or cut.                             *)
RelayFair ==
    /\ \A c \in Clients :
          /\ WF_relayVars(ClientBuffers(c) \/ ClientSends(c))
          /\ WF_relayVars(ClientEnds(c))
          /\ WF_relayVars(PairDeadline(c))
          /\ WF_relayVars(PipeStep(c))
          /\ WF_relayVars(DataUnregisters(c))
          /\ WF_relayVars(DaemonReads(c))
    /\ \A k \in Ctls : WF_relayVars(ControlStep(k))
    /\ WF_relayVars(DaemonStep)

----------------------------------------------------------------------------
(* Properties *)

(* A data pipe only ever serves a client of the control line in office: no *)
(* order of reconnects, late dials and replaced control lines pairs a      *)
(* client with a pipe of an earlier generation.                            *)
PipesOfThisGeneration ==
    \A c \in room.data : room.control # 0 /\ tgen[c] = room.control

(* Over every way a client can leave (deadline, full buffer, failed send,  *)
(* unregister, control lost) the room's pre-pair byte count is what its    *)
(* clients' buffers hold: the budget neither leaks nor goes negative.      *)
BytesAreBuffered ==
    LET sum[S \in SUBSET Clients] ==
            IF S = {} THEN 0
            ELSE LET c == CHOOSE c \in S : TRUE IN Len(room.buf[c]) + sum[S \ {c}]
    IN  room.bytes = sum[room.clients]

IsPrefixOf(s, n) == Len(s) <= n /\ \A i \in 1..Len(s) : s[i] = i

(* As long as no frame was buffered after the flush ended, the daemon      *)
(* receives a client's frames in the order they were sent, none missing    *)
(* and none twice, across pairing, flush and direct forwarding.            *)
FlushKeepsOrder == \A c \in Clients \ late : IsPrefixOf(got[c], sent[c])

(* "make sure the client frames from before and after the pairing reach    *)
(* the daemon in their original FIFO order" (take_pre_pair_client_frames). *)
PairingKeepsOrder == \A c \in Clients : IsPrefixOf(got[c], sent[c])

(* What a browser sees is a prefix of what its data pipe sent. *)
DownstreamInOrder == \A c \in Clients : IsPrefixOf(seen[c], out[c])

(* Once a browser is gone, everything held for it is released for good: it *)
(* leaves the room, its data pipe is unregistered and the daemon's task    *)
(* ends, whether the pipe was never dialled, on its way or paired.         *)
GoneIsReleased ==
    \A c \in Clients :
        (browser[c] = "off") ~>
            [](/\ c \notin room.clients \cup room.data
               /\ task[c] \in {"none", "end"} /\ dsock[c] \in {"none", "done"})

(* A room with nobody in it is left to somebody: a socket task that has    *)
(* yet to unregister will remove it from the registry.                     *)
EmptyRoomIsRemoved ==
    room.live /\ room.control = 0 /\ room.clients = {} /\ room.data = {} =>
        (\E k \in Ctls : ksock[k] = "run") \/ (\E c \in Clients : csock[c] = "run")

(* A frame left in the pre-pair buffer of a paired client is not stranded: *)
(* its flush is still on, or the pipe is about to unregister and close it, *)
(* unless the frame was buffered after the flush ended.                    *)
BufferIsFlushed ==
    \A c \in room.paired \ late : room.buf[c] # <<>> =>
        c \in room.flush /\ dsock[c] \in {"bind", "flush", "drain"}

(* Frames keep their order: the ones buffered before a pairing leave in    *)
(* the order they came, all of them leave once the pair is there, and a    *)
(* client is sent a prefix of what its data pipe sent.                     *)
FramesInOrder == FlushKeepsOrder /\ DownstreamInOrder /\ BufferIsFlushed

(* A room is coherent: the pipes in it are of the control connection it    *)
(* has now, the byte count is that of its buffers, and an empty room is    *)
(* not in the registry.                                                    *)
RoomIsCoherent == PipesOfThisGeneration /\ BytesAreBuffered /\ EmptyRoomIsRemoved
=============================================================================
