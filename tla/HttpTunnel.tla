---------------------------- MODULE HttpTunnel ----------------------------
(***************************************************************************)
(* One HTTP request through the relay: the relay's handler and its two     *)
(* tasks (termrelay/src/ws/http_tunnel.rs, router.rs), the data pipe, and  *)
(* the daemon's tunnel stream with its response task and writer            *)
(* (termd/src/net/relay.rs).                                               *)
(*                                                                         *)
(* The relay registers a synthetic client for the request; RelayRoom       *)
(* models how it is paired.  Here the pairing is one step that may or may  *)
(* not come before the deadline, and the pipe may die at any time.  Frames *)
(* towards the daemon are "head", "body" and "end"; the frames of the      *)
(* response are numbered, 0 its head and RespMax + 1 its end.              *)
(***************************************************************************)
EXTENDS Integers, Sequences

CONSTANTS
    Deadlines,  \* {TRUE} POST/PUT/PATCH, {FALSE} others: first-chunk deadline
    ReqMax,     \* bound: request body chunks
    RespMax,    \* bound: response body chunks
    PipeCap     \* relay's outbound queues for the pipe and the client

ASSUME HttpTunnelAssumption ==
    /\ Deadlines \subseteq BOOLEAN
    /\ ReqMax \in Nat /\ RespMax \in Nat
    /\ PipeCap \in Nat \ {0}

VARIABLES
    hasDeadline, \* relay_http_tunnel_request_body_deadline(method)
    hp,         \* the handler: "idle", "wait", "head", "await", "body", "done"
    status,     \* its answer: "none", "ok", or the error status
    reg,        \* the synthetic client is in the relay's room
    pipe,       \* data pipe: "none", "open", "dead"
    upload,     \* request chunks the browser has sent; ReqMax + 1: body ended
    reqTask,    \* request body task: "none", "run", "ok", "err", "abort"
    reqSeen,    \* its result was taken from the oneshot channel
    upq,        \* frames queued towards the daemon
    downq,      \* frames queued towards the handler
    bodyq,      \* the response body channel (capacity 1)
    client,     \* the browser: "on", "gone"
    read,       \* response chunks the browser has read
    ending,     \* how its body stream ended: "none", "clean", "error"
    dst,        \* daemon's stream: "none", "first", "run", "cleanup", "end"
    reqOpen,    \* request_open
    dbody,      \* the handler's body channel (capacity 1); -1: sender dropped
    resp,       \* response task: 0..RespMax + 2 frames queued; -1: not started
    respDone,   \* response_done
    wq          \* daemon's data writer queue (capacity 1)

hHandler == <<hasDeadline, hp, status, reg, reqTask, reqSeen>>
hBrowser == <<upload, bodyq, client, read, ending>>
hDaemon  == <<dst, reqOpen, dbody, resp, respDone, wq>>
httpVars == <<hHandler, hBrowser, pipe, upq, downq, hDaemon>>

RespHead == 0
RespEnd  == RespMax + 1
Finished == RespMax + 2                     \* head, bodies and end are queued

HttpTypeOK ==
    /\ hasDeadline \in Deadlines
    /\ hp \in {"idle", "wait", "head", "await", "body", "done"}
    /\ status \in {"none", "ok", "busy", "timeout", "bad"}
    /\ reg \in BOOLEAN /\ pipe \in {"none", "open", "dead"}
    /\ upload \in 0..(ReqMax + 1)
    /\ reqTask \in {"none", "run", "ok", "err", "abort"} /\ reqSeen \in BOOLEAN
    /\ upq \in Seq({"head", "body", "end"})
    /\ downq \in Seq(RespHead..RespEnd) /\ bodyq \in Seq(RespHead..RespEnd)
    /\ wq \in Seq(RespHead..RespEnd)
    /\ client \in {"on", "gone"} /\ read \in Nat
    /\ ending \in {"none", "clean", "error"}
    /\ dst \in {"none", "first", "run", "cleanup", "end"}
    /\ reqOpen \in BOOLEAN /\ dbody \in {-1, 0, 1}
    /\ resp \in -1..Finished /\ respDone \in BOOLEAN

HttpInit ==
    /\ hasDeadline \in Deadlines
    /\ hp = "idle" /\ status = "none" /\ reg = FALSE /\ pipe = "none"
    /\ upload = 0 /\ reqTask = "none" /\ reqSeen = FALSE
    /\ upq = <<>> /\ downq = <<>> /\ bodyq = <<>> /\ wq = <<>>
    /\ client = "on" /\ read = 0 /\ ending = "none"
    /\ dst = "none" /\ reqOpen = TRUE /\ dbody = 0 /\ resp = -1
    /\ respDone = FALSE

----------------------------------------------------------------------------
(* The relay's handler *)

(* Leaving before the response head: the registration guard is dropped,    *)
(* which aborts the request task and unregisters the synthetic client;     *)
(* unregistering closes its data pipe.                                     *)
HandlerFails(why) ==
    /\ hp' = "done" /\ status' = why
    /\ reqTask' = IF reqTask = "run" THEN "abort" ELSE reqTask
    /\ reg' = FALSE
    /\ pipe' = IF pipe = "open" THEN "dead" ELSE pipe

(* relay_http_tunnel / http_tunnel: register the synthetic client, or      *)
(* answer that the daemon is offline or busy.                              *)
HttpRegisters ==
    /\ hp = "idle" /\ client = "on"
    /\ \/ hp' = "wait" /\ reg' = TRUE /\ UNCHANGED status
       \/ hp' = "done" /\ status' = "busy" /\ UNCHANGED reg
    /\ UNCHANGED <<hasDeadline, reqTask, reqSeen, hBrowser, pipe, upq, downq, hDaemon>>

(* The daemon's data pipe is paired with the client. *)
HttpPairs ==
    /\ reg /\ pipe = "none"
    /\ pipe' = "open" /\ dst' = "first"
    /\ UNCHANGED <<hHandler, hBrowser, upq, downq, reqOpen, dbody, resp, respDone, wq>>

(* The pair deadline passes, or the control line goes: the client is       *)
(* removed from the room.                                                  *)
HttpUnpaired ==
    /\ reg /\ pipe = "none"
    /\ reg' = FALSE
    /\ UNCHANGED <<hasDeadline, hp, status, reqTask, reqSeen, hBrowser, pipe,
                   upq, downq, hDaemon>>

(* wait_client_data_pair *)
HandlerWaits ==
    /\ hp = "wait" /\ (pipe # "none" \/ ~reg)
    /\ IF reg THEN hp' = "head" /\ UNCHANGED <<status, reg, pipe, reqTask>>
       ELSE HandlerFails("timeout")
    /\ UNCHANGED <<hasDeadline, reqSeen, hBrowser, upq, downq, hDaemon>>

(* forward_from with the request head; then the request task is spawned. *)
HandlerSendsHead ==
    /\ hp = "head"
    /\ IF reg /\ pipe = "open" /\ Len(upq) < PipeCap
       THEN /\ upq' = Append(upq, "head")
            /\ hp' = "await" /\ reqTask' = "run"
            /\ UNCHANGED <<status, reg, pipe>>
       ELSE HandlerFails("bad") /\ UNCHANGED upq
    /\ UNCHANGED <<hasDeadline, reqSeen, hBrowser, downq, hDaemon>>

(* The select loop before the response head, in its biased order: the head *)
(* timeout (armed once the request body went out), the request's result,   *)
(* then the pipe.  Frames before the head are skipped.                     *)
HandlerTimesOut ==
    /\ hp = "await" /\ reqSeen
    /\ HandlerFails("timeout")
    /\ UNCHANGED <<hasDeadline, reqSeen, hBrowser, upq, downq, hDaemon>>

HandlerSeesRequest ==
    /\ hp = "await" /\ ~reqSeen /\ reqTask \in {"ok", "err"}
    /\ IF reqTask = "ok"
       THEN reqSeen' = TRUE /\ UNCHANGED <<hp, status, reg, pipe, reqTask>>
       ELSE HandlerFails("bad") /\ UNCHANGED reqSeen
    /\ UNCHANGED <<hasDeadline, hBrowser, upq, downq, hDaemon>>

HandlerSeesPipe ==
    /\ hp = "await" /\ (reqSeen \/ reqTask = "run")
    /\ \/ /\ downq # <<>>
          /\ downq' = Tail(downq)
          /\ IF Head(downq) = RespHead
             THEN hp' = "body" /\ status' = "ok" ELSE UNCHANGED <<hp, status>>
          /\ UNCHANGED <<reg, pipe, reqTask>>
       \/ downq = <<>> /\ ~reg /\ HandlerFails("bad") /\ UNCHANGED downq
    /\ UNCHANGED <<hasDeadline, reqSeen, hBrowser, upq, hDaemon>>

(* relay_http_tunnel_forward_response_body is over: the body channel gets  *)
(* an error unless ResponseEnd came, the request task is aborted and the   *)
(* client unregistered.                                                    *)
BodyEnds(how) ==
    /\ hp' = "done"
    /\ reqTask' = IF reqTask = "run" THEN "abort" ELSE reqTask
    /\ reg' = FALSE
    /\ pipe' = IF pipe = "open" THEN "dead" ELSE pipe
    /\ ending' = IF client = "gone" THEN ending ELSE how

(* Mutant: the end of the pipe is taken for the end of the response. *)
BodyForwardsClean ==
    /\ hp = "body" /\ client = "on" /\ (reqSeen \/ reqTask = "run")
    /\ \/ /\ downq # <<>> /\ Head(downq) \in 1..RespMax /\ Len(bodyq) < 1
          /\ bodyq' = Append(bodyq, Head(downq)) /\ downq' = Tail(downq)
          /\ UNCHANGED <<hp, reqTask, reg, pipe, ending>>
       \/ /\ \/ downq # <<>> /\ Head(downq) = RespEnd
             \/ downq = <<>> /\ ~reg
          /\ BodyEnds("clean") /\ UNCHANGED <<bodyq, downq>>
    /\ UNCHANGED <<hasDeadline, status, reqSeen, upload, client, read, upq, hDaemon>>

BodyForwards ==
    /\ hp = "body" /\ client = "on" /\ (reqSeen \/ reqTask = "run")
    /\ \/ /\ downq # <<>> /\ Head(downq) \in 1..RespMax /\ Len(bodyq) < 1
          /\ bodyq' = Append(bodyq, Head(downq)) /\ downq' = Tail(downq)
          /\ UNCHANGED <<hp, reqTask, reg, pipe, ending>>
       \/ /\ downq # <<>> /\ Head(downq) = RespEnd
          /\ downq' = Tail(downq) /\ BodyEnds("clean") /\ UNCHANGED bodyq
       \/ /\ downq = <<>> /\ ~reg
          /\ BodyEnds("error") /\ UNCHANGED <<bodyq, downq>>
    /\ UNCHANGED <<hasDeadline, status, reqSeen, upload, client, read, upq, hDaemon>>

BodySeesRequest ==
    /\ hp = "body" /\ ~reqSeen /\ reqTask \in {"ok", "err"}
    /\ IF reqTask = "ok"
       THEN reqSeen' = TRUE /\ UNCHANGED <<hp, reqTask, reg, pipe, ending>>
       ELSE BodyEnds("error") /\ UNCHANGED reqSeen
    /\ UNCHANGED <<hasDeadline, status, upload, bodyq, client, read, upq, downq, hDaemon>>

BodySeesClose ==
    /\ hp = "body" /\ client = "gone"
    /\ BodyEnds("error")
    /\ UNCHANGED <<hasDeadline, status, reqSeen, upload, bodyq, client, read, upq,
                   downq, hDaemon>>

(* relay_http_tunnel_forward_request_body: chunks under the pipe's own     *)
(* backpressure, then the request end.                                     *)
RequestForwards ==
    /\ reqTask = "run" /\ hp \in {"await", "body"}
    /\ \/ /\ client = "on" /\ upload <= ReqMax
          /\ reg /\ pipe = "open" /\ Len(upq) < PipeCap
          /\ \/ upload < ReqMax /\ upload' = upload + 1
                /\ upq' = Append(upq, "body") /\ UNCHANGED reqTask
             \/ upload' = ReqMax + 1 /\ upq' = Append(upq, "end") /\ reqTask' = "ok"
       \/ /\ ~reg \/ pipe # "open" \/ client = "gone" \/ (hasDeadline /\ upload = 0)
          /\ reqTask' = "err" /\ UNCHANGED <<upload, upq>>
    /\ UNCHANGED <<hasDeadline, hp, status, reg, reqSeen, bodyq, client, read,
                   ending, pipe, downq, hDaemon>>

(* The browser *)
BrowserReadsBody ==
    /\ client = "on" /\ bodyq # <<>>
    /\ bodyq' = Tail(bodyq) /\ read' = read + 1
    /\ UNCHANGED <<hHandler, upload, client, ending, pipe, upq, downq, hDaemon>>

(* The browser cancels: before the head the handler's future is dropped,   *)
(* which runs the guard; after it the response task sees the closed body.  *)
BrowserCancels ==
    /\ client = "on" /\ hp \notin {"idle", "done"}
    /\ client' = "gone"
    /\ IF hp = "body" THEN UNCHANGED <<hp, status, reg, reqTask, pipe>>
       ELSE HandlerFails("none")
    /\ UNCHANGED <<hasDeadline, reqSeen, upload, bodyq, read, ending, upq, downq, hDaemon>>

----------------------------------------------------------------------------
(* The data pipe dies (socket, daemon task or control line): its frames    *)
(* that were not yet in the client's queue are lost, the client goes.      *)
PipeDies ==
    /\ pipe = "open"
    /\ pipe' = "dead" /\ reg' = FALSE
    /\ \E n \in 0..Len(downq) : downq' = SubSeq(downq, 1, n)
    /\ UNCHANGED <<hasDeadline, hp, status, reqTask, reqSeen, hBrowser, upq, hDaemon>>

----------------------------------------------------------------------------
(* The daemon's stream *)

Closed == pipe # "open"

(* The stream returns: its writer is aborted with what it still holds, the *)
(* socket is dropped and the relay closes the client.                      *)
StreamEnds ==
    /\ dst' = "end" /\ wq' = <<>>
    /\ pipe' = IF pipe = "open" THEN "dead" ELSE pipe
    /\ reg' = IF pipe = "open" THEN FALSE ELSE reg

(* run_relay_http_data_connection: the first message must be the request   *)
(* head; the relay's idle ping is not, and ends the pipe.                  *)
DaemonFirst ==
    /\ dst = "first"
    /\ \/ /\ upq # <<>>
          /\ upq' = Tail(upq) /\ dst' = "run" /\ resp' = 0
          /\ UNCHANGED <<pipe, reg, wq>>
       \/ (upq = <<>> \/ Closed) /\ StreamEnds /\ UNCHANGED <<upq, resp>>
    /\ UNCHANGED <<hasDeadline, hp, status, reqTask, reqSeen, hBrowser, downq,
                   reqOpen, dbody, respDone>>

(* handle_relay_http_tunnel_stream: a frame of the request.  A body chunk  *)
(* waits for the handler's channel; one after the request closed ends the  *)
(* stream; after the response they are ignored.                            *)
DaemonInbound ==
    /\ dst = "run" /\ upq # <<>>
    /\ respDone \/ resp < Finished
    /\ LET f == Head(upq)
           refuse == ~respDone /\ ~reqOpen
       IN  /\ f = "body" /\ ~respDone /\ reqOpen => dbody # 1
           /\ upq' = Tail(upq)
           /\ dst' = IF refuse THEN "cleanup" ELSE dst
           /\ dbody' = IF respDone THEN dbody
                       ELSE IF reqOpen /\ f = "body" /\ resp = 0 THEN 1 ELSE -1
           /\ reqOpen' = (reqOpen /\ (respDone \/ (f = "body" /\ resp = 0)))
    /\ UNCHANGED <<hHandler, hBrowser, pipe, downq, resp, respDone, wq>>

(* The request handler takes its body, or leaves it. *)
HandlerTakesBody ==
    /\ resp = 0 /\ dbody = 1
    /\ dbody' = 0
    /\ UNCHANGED <<hHandler, hBrowser, pipe, upq, downq, dst, reqOpen, resp,
                   respDone, wq>>

(* send_relay_http_tunnel_response: head, chunks, end, each waiting for    *)
(* the writer; the end is queued last.                                     *)
ResponseQueues ==
    /\ dst \in {"run", "cleanup"} /\ resp \in 0..(Finished - 1) /\ Len(wq) < 1
    /\ resp' = resp + 1
    /\ wq' = Append(wq, resp)
    /\ UNCHANGED <<hHandler, hBrowser, pipe, upq, downq, dst, reqOpen, dbody, respDone>>

(* The response task fails: the handler's body stream, or the writer. *)
ResponseFails ==
    /\ dst = "run" /\ resp \in 0..(Finished - 1)
    /\ StreamEnds
    /\ UNCHANGED <<hasDeadline, hp, status, reqTask, reqSeen, hBrowser, upq, downq,
                   reqOpen, dbody, resp, respDone>>

ResponseDone ==
    /\ dst = "run" /\ resp = Finished /\ ~respDone
    /\ respDone' = TRUE /\ dbody' = -1
    /\ UNCHANGED <<hHandler, hBrowser, pipe, upq, downq, dst, reqOpen, resp, wq>>

(* Mutant: the response task is waited for although its pipe is closed. *)
CleanupWaits ==
    /\ dst = "cleanup" /\ resp = Finished
    /\ StreamEnds
    /\ UNCHANGED <<hasDeadline, hp, status, reqTask, reqSeen, hBrowser, upq, downq,
                   reqOpen, dbody, resp, respDone>>

(* cleanup_relay_http_tunnel_response_task: the stream waits for the       *)
(* response task (it ends, or its writes fail), then returns.              *)
CleanupEnds ==
    /\ dst = "cleanup" /\ (resp = Finished \/ Closed)
    /\ StreamEnds
    /\ UNCHANGED <<hasDeadline, hp, status, reqTask, reqSeen, hBrowser, upq, downq,
                   reqOpen, dbody, resp, respDone>>

(* run_relay_data_writer, through the pipe into the client's queue. *)
DaemonWrites ==
    /\ wq # <<>> /\ ~Closed /\ Len(downq) < PipeCap
    /\ wq' = Tail(wq) /\ downq' = Append(downq, Head(wq))
    /\ UNCHANGED <<hHandler, hBrowser, pipe, upq, dst, reqOpen, dbody, resp, respDone>>

(* The stream sees the pipe closed. *)
StreamSeesClose ==
    /\ dst = "run" /\ Closed
    /\ IF respDone THEN StreamEnds /\ UNCHANGED dbody
       ELSE dst' = "cleanup" /\ dbody' = -1 /\ UNCHANGED <<pipe, reg, wq>>
    /\ UNCHANGED <<hasDeadline, hp, status, reqTask, reqSeen, hBrowser, upq, downq,
                   reqOpen, resp, respDone>>

----------------------------------------------------------------------------
RelaySide == HandlerWaits \/ HandlerSendsHead \/ HandlerTimesOut
             \/ HandlerSeesRequest \/ HandlerSeesPipe
             \/ BodyForwards \/ BodySeesRequest \/ BodySeesClose
StreamSide == DaemonFirst \/ DaemonInbound \/ ResponseFails \/ ResponseDone
              \/ CleanupEnds \/ StreamSeesClose

HttpNext ==
    \/ HttpRegisters \/ HttpPairs \/ HttpUnpaired \/ RelaySide \/ RequestForwards
    \/ BrowserReadsBody \/ BrowserCancels \/ PipeDies
    \/ StreamSide \/ HandlerTakesBody \/ ResponseQueues \/ DaemonWrites

HttpSpec == HttpInit /\ [][HttpNext]_httpVars

(* Every task is polled; the browser goes on sending its body and reading  *)
(* the response (or leaves), the daemon's handler answers.                 *)
HttpFair ==
    /\ WF_httpVars(HttpPairs \/ HttpUnpaired)
    /\ WF_httpVars(RelaySide)
    /\ WF_httpVars(RequestForwards)
    /\ WF_httpVars(BrowserReadsBody)
    /\ WF_httpVars(StreamSide)
    /\ WF_httpVars(HandlerTakesBody)
    /\ WF_httpVars(ResponseQueues)
    /\ WF_httpVars(DaemonWrites)

----------------------------------------------------------------------------
(* Properties *)

(* A response body that ends cleanly at the browser is the whole response: *)
(* whatever dies on the way, a cut-off body ends in an error.              *)
CleanIsWhole == ending = "clean" => read + Len(bodyq) = RespMax

(* Every tunnelled request ends on both sides, cancelled, refused, timed   *)
(* out or answered; no pair of full queues blocks it.                      *)
TunnelEnds ==
    /\ (hp \notin {"idle", "done"}) ~> (hp = "done")
    /\ (dst # "none") ~> (dst = "end")
=============================================================================
