------------------------- MODULE SupervisorControl -------------------------
(***************************************************************************)
(* Who controls a session: one session supervisor, the daemon incarnations *)
(* that attach to it one after the other, and the control connections      *)
(* between them (termd/src/pty/supervisor.rs).                             *)
(*                                                                         *)
(* The supervisor runs one task per connection (handle_supervisor_         *)
(* connection); the tasks share SupervisorState behind an async mutex.     *)
(* AttachSync makes the newest daemon the active controller.  A daemon     *)
(* whose request fails in transport opens a candidate connection, resumes  *)
(* its controller id there and commits the resume under a transaction id   *)
(* that stays the same over its retries; then it sends the request again.  *)
(*                                                                         *)
(* A request is one message in the connection's socket.  It outlives its   *)
(* sender: the daemon may time out, or crash, before the task gets to it.  *)
(* Connections are numbered slots 1..MaxConn, used once each.              *)
(***************************************************************************)
EXTENDS Integers, FiniteSets, Sequences

CONSTANTS
    Devices,        \* device ids
    MaxConn,        \* bound: connections opened in a run
    MaxDaemon,      \* bound: daemon incarnations
    MaxConnects,    \* bound: connect_with_child_slot per incarnation (code: 3)
    MaxAttempt,     \* attempts of one request (code: 3)
    MaxResume,      \* attempts of one resume transaction (code: 3)
    MaxOps          \* bound: requests started by a run's daemons

ASSUME SupervisorControlAssumption ==
    /\ MaxConn \in Nat \ {0}
    /\ MaxDaemon \in Nat
    /\ MaxConnects \in Nat
    /\ MaxAttempt \in Nat
    /\ MaxResume \in Nat
    /\ MaxOps \in Nat

Conns   == 1..MaxConn
None    == [id |-> 0, conn |-> 0]           \* Option<ControllerIdentity>
Idents  == [id : Nat, conn : Nat]           \* ControllerIdentity
NoSlot  == 0
NoTx    == 0

DeviceOps == {"attach_device", "detach_device"}

(* SupervisorRequest: its kind, the device, identity or transaction it     *)
(* carries, and n, the daemon request it belongs to (request_id).          *)
Request(kind, dev, who, t, n) ==
    [kind |-> kind, dev |-> dev, who |-> who, tx |-> t, n |-> n]
NoDev    == "no_device"
NoReq    == Request("none", NoDev, None, NoTx, 0)
Requests == [kind : {"none", "attach", "resume", "validate", "commit", "reset",
                     "input"} \cup DeviceOps,
             dev : Devices \cup {NoDev}, who : Idents,
             tx : Conns \cup {NoTx}, n : Nat]

(* SupervisorResponse *)
Reply(status, ident) == [status |-> status, ident |-> ident]
NoReply == Reply("none", None)
Ok      == Reply("ok", None)
Err     == Reply("err", None)
Replies == [status : {"none", "ok", "err"}, ident : Idents]

VARIABLES
    nextId,         \* next_controller_id
    nextConn,       \* next_controller_connection_id
    active,         \* active_controller_id and active_controller_connection_id
    lease,          \* controller_resume_lease_id, 0 for None
    committed,      \* committed_resume_transactions
    controllers,    \* controllers: per id the connection id and whose tx it is
    devices,        \* attached_devices
    exited,         \* exited
    task,           \* the supervisor's task of the connection
    ident,          \* its controller_identity
    pending,        \* its pending_resume_identity
    commitTx,       \* its committed_resume_transaction_id
    dropped,        \* controller_overflow_rx fired
    req,            \* requests in the socket, the first being served
    reply,          \* the response the daemon waits for
    peer,           \* the daemon's end of the connection is open
    inc,            \* daemon incarnation
    mode,           \* what the daemon waits for
    connects,       \* connects made by this incarnation
    cur,            \* slot of SupervisorPtySession.writer
    cand,           \* slot of the connection being waited on
    me,             \* SupervisorPtySession.controller_identity
    tx,             \* transaction_id of the running reconnect_ipc
    op,             \* the request being executed
    attempt,        \* attempt of request()
    tries,          \* attempt of reconnect_ipc()
    ops,            \* requests started so far
    done            \* history: last request that succeeded, if none failed since

svars == <<nextId, nextConn, active, lease, committed, controllers, devices, exited>>
tvars == <<task, ident, pending, commitTx, dropped>>
wvars == <<req, reply, peer>>
dvars == <<inc, mode, connects, cur, cand, me, tx, op, attempt, tries, ops, done>>
vars  == <<svars, tvars, wvars, dvars>>

Ids      == 1..MaxConn                      \* at most one per connection
Handles  == [conn : Nat, slot : Conns \cup {NoSlot}]
NoHandle == [conn |-> 0, slot |-> NoSlot]
Waiting  == {"attach", "reset", "op", "resume", "validate", "commit"}
Modes    == {"down", "retry", "ready", "failed"} \cup Waiting

TypeOK ==
    /\ nextId \in Nat /\ nextConn \in Nat
    /\ active \in Idents
    /\ lease \in Nat
    /\ committed \in [Conns -> Idents]
    /\ controllers \in [Ids -> Handles]
    /\ devices \in SUBSET Devices
    /\ exited \in BOOLEAN
    /\ task \in [Conns -> {"none", "open", "checked", "gone"}]
    /\ ident \in [Conns -> Idents]
    /\ pending \in [Conns -> Idents]
    /\ commitTx \in [Conns -> Conns \cup {NoTx}]
    /\ dropped \in [Conns -> BOOLEAN]
    /\ req \in [Conns -> Seq(Requests)]
    /\ reply \in [Conns -> Replies]
    /\ peer \in [Conns -> BOOLEAN]
    /\ inc \in Nat
    /\ mode \in Modes
    /\ connects \in Nat
    /\ cur \in Conns \cup {NoSlot}
    /\ cand \in Conns \cup {NoSlot}
    /\ me \in Idents
    /\ tx \in Conns \cup {NoTx}
    /\ op \in Requests
    /\ attempt \in Nat /\ tries \in Nat /\ ops \in Nat
    /\ done \in Requests

Init ==
    /\ nextId = 1 /\ nextConn = 1
    /\ active = None
    /\ lease = 0
    /\ committed = [t \in Conns |-> None]
    /\ controllers = [i \in Ids |-> NoHandle]
    /\ devices = {}
    /\ exited = FALSE
    /\ task = [k \in Conns |-> "none"]
    /\ ident = [k \in Conns |-> None]
    /\ pending = [k \in Conns |-> None]
    /\ commitTx = [k \in Conns |-> NoTx]
    /\ dropped = [k \in Conns |-> FALSE]
    /\ req = [k \in Conns |-> <<>>]
    /\ reply = [k \in Conns |-> NoReply]
    /\ peer = [k \in Conns |-> FALSE]
    /\ inc = 0
    /\ mode = "down"
    /\ connects = 0
    /\ cur = NoSlot /\ cand = NoSlot
    /\ me = None
    /\ tx = NoTx
    /\ op = NoReq
    /\ attempt = 0 /\ tries = 0 /\ ops = 0
    /\ done = NoReq

----------------------------------------------------------------------------
(* SupervisorState *)

IsActiveController(who) ==
    /\ who # None
    /\ active = who
    /\ controllers[who.id].conn = who.conn

(* remove_controller, for every identity in gone *)
RemoveControllers(gone) ==
    /\ controllers' = [i \in Ids |->
          IF [id |-> i, conn |-> controllers[i].conn] \in gone THEN NoHandle
          ELSE controllers[i]]
    /\ active' = IF active \in gone THEN None ELSE active

(* resume_attach_sync and the first commit of a transaction: the lease     *)
(* holder, while nobody else is active.                                    *)
MayResume(id) == lease = id /\ (active = None \/ active.id = id)

----------------------------------------------------------------------------
(* One task per connection *)

(* A request is taken unless the connection's queue overflowed (the select *)
(* is biased).                                                             *)
Serves(k, kind) ==
    /\ task[k] = "open"
    /\ ~dropped[k]
    /\ req[k] # <<>>
    /\ Head(req[k]).kind = kind

(* The response goes to the daemon if it still waits for this request;     *)
(* pending_requests drops every other one.                                 *)
Answer(k, answer) ==
    /\ req' = [req EXCEPT ![k] = Tail(@)]
    /\ reply' = [reply EXCEPT ![k] =
          IF peer[k] /\ mode \in Waiting /\ cand = k /\ Head(req[k]).n = ops
          THEN answer ELSE @]
    /\ UNCHANGED <<peer, dvars>>

(* Mutant of Refuse: a refused request is dropped without a response. *)
RefuseSilently(k) == Answer(k, NoReply) /\ UNCHANGED <<svars, tvars>>

Refuse(k) == Answer(k, Err) /\ UNCHANGED <<svars, tvars>>

(* AttachSync without resume_controller_id: attach_sync makes the newest   *)
(* attach the owner and gives it the resume lease.                         *)
ServeAttach(k) ==
    /\ Serves(k, "attach")
    /\ IF exited THEN Refuse(k)
       ELSE LET new == [id |-> nextId, conn |-> nextConn]
            IN  /\ nextId' = nextId + 1
                /\ nextConn' = nextConn + 1
                /\ controllers' = [controllers EXCEPT ![new.id] =
                                     [conn |-> new.conn, slot |-> k]]
                /\ active' = new
                /\ lease' = new.id
                /\ ident' = [ident EXCEPT ![k] = new]
                /\ Answer(k, Reply("ok", new))
                /\ UNCHANGED <<committed, devices, exited, task, pending,
                               commitTx, dropped>>

(* AttachSync with resume_controller_id: resume_attach_sync gives the      *)
(* candidate a connection id and changes nothing else.                     *)
ServeResume(k) ==
    /\ Serves(k, "resume")
    /\ LET id == Head(req[k]).who.id
       IN  IF exited \/ id = 0 \/ id >= nextId \/ ~MayResume(id) THEN Refuse(k)
           ELSE /\ nextConn' = nextConn + 1
                /\ pending' = [pending EXCEPT ![k] = [id |-> id, conn |-> nextConn]]
                /\ Answer(k, Ok)
                /\ UNCHANGED <<nextId, active, lease, committed, controllers,
                               devices, exited, task, ident, commitTx, dropped>>

(* Ping and Snapshot on the candidate: ensure_current_or_pending_controller *)
ServeValidate(k) ==
    /\ Serves(k, "validate")
    /\ IF MayResume(pending[k].id)
       THEN Answer(k, Ok) /\ UNCHANGED <<svars, tvars>>
       ELSE Refuse(k)

(* commit_controller_resume: a transaction that is committed already is    *)
(* answered from the table, without a look at the lease.                   *)
MayCommit(k, t) ==
    /\ pending[k] # None
    /\ IF committed[t] # None THEN committed[t].id = pending[k].id
       ELSE MayResume(pending[k].id)

(* Mutant of ServeCommit: a replay is answered with the new candidate. *)
ServeCommitAnswersCandidate(k) ==
    /\ Serves(k, "commit")
    /\ LET t   == Head(req[k]).tx
           who == IF committed[t] # None THEN committed[t] ELSE pending[k]
       IN  IF ~MayCommit(k, t) THEN Refuse(k)
           ELSE /\ controllers' = [controllers EXCEPT ![who.id] =
                                     [conn |-> who.conn, slot |-> k]]
                /\ active' = who
                /\ committed' = [committed EXCEPT ![t] = who]
                /\ ident' = [ident EXCEPT ![k] = who]
                /\ pending' = [pending EXCEPT ![k] = None]
                /\ commitTx' = [commitTx EXCEPT ![k] = t]
                /\ Answer(k, Reply("ok", pending[k]))
                /\ UNCHANGED <<nextId, nextConn, lease, devices, exited, task, dropped>>

(* Mutant of ServeCommit: the commit takes the lease. *)
ServeCommitTakesLease(k) ==
    /\ Serves(k, "commit")
    /\ LET t   == Head(req[k]).tx
           who == IF committed[t] # None THEN committed[t] ELSE pending[k]
       IN  IF ~MayCommit(k, t) THEN Refuse(k)
           ELSE /\ controllers' = [controllers EXCEPT ![who.id] =
                                     [conn |-> who.conn, slot |-> k]]
                /\ active' = who
                /\ lease' = who.id
                /\ committed' = [committed EXCEPT ![t] = who]
                /\ ident' = [ident EXCEPT ![k] = who]
                /\ pending' = [pending EXCEPT ![k] = None]
                /\ commitTx' = [commitTx EXCEPT ![k] = t]
                /\ Answer(k, Reply("ok", who))
                /\ UNCHANGED <<nextId, nextConn, devices, exited, task, dropped>>

ServeCommit(k) ==
    /\ Serves(k, "commit")
    /\ LET t   == Head(req[k]).tx
           who == IF committed[t] # None THEN committed[t] ELSE pending[k]
       IN  IF ~MayCommit(k, t) THEN Refuse(k)
           ELSE /\ controllers' = [controllers EXCEPT ![who.id] =
                                     [conn |-> who.conn, slot |-> k]]
                /\ active' = who
                /\ committed' = [committed EXCEPT ![t] = who]
                /\ ident' = [ident EXCEPT ![k] = who]
                /\ pending' = [pending EXCEPT ![k] = None]
                /\ commitTx' = [commitTx EXCEPT ![k] = t]
                /\ Answer(k, Reply("ok", who))
                /\ UNCHANGED <<nextId, nextConn, lease, devices, exited, task, dropped>>

(* ResetAttachedDevicesForController: check and act under one lock *)
ServeReset(k) ==
    /\ Serves(k, "reset")
    /\ IF ~IsActiveController(Head(req[k]).who) THEN Refuse(k)
       ELSE /\ devices' = {}
            /\ Answer(k, Ok)
            /\ UNCHANGED <<nextId, nextConn, active, lease, committed, controllers,
                           exited, tvars>>

(* AttachDevice, DetachDevice, Input: ensure_current_controller takes and  *)
(* releases the state lock ...                                             *)
EnsureCurrentController(k) ==
    /\ \E kind \in DeviceOps \cup {"input"} : Serves(k, kind)
    /\ IF IsActiveController(ident[k])
       THEN /\ task' = [task EXCEPT ![k] = "checked"]
            /\ UNCHANGED <<svars, ident, pending, commitTx, dropped, wvars, dvars>>
       ELSE Refuse(k)

(* ... and the request acts under a second hold of it. *)
ActOnRequest(k) ==
    /\ task[k] = "checked"
    /\ task' = [task EXCEPT ![k] = "open"]
    /\ LET r       == Head(req[k])
           refused == exited /\ r.kind # "detach_device"
       IN  /\ devices' = CASE r.kind = "attach_device" /\ ~refused -> devices \cup {r.dev}
                           [] r.kind = "detach_device"             -> devices \ {r.dev}
                           [] OTHER                                -> devices
           /\ Answer(k, IF refused THEN Err ELSE Ok)
    /\ UNCHANGED <<nextId, nextConn, active, lease, committed, controllers, exited,
                   ident, pending, commitTx, dropped>>

(* The task leaves its loop: its queue overflowed, the daemon closed the   *)
(* connection, a live frame reached a connection that is not current, or a *)
(* response could not be written and may be lost.                          *)
TaskMayEnd(k) ==
    /\ task[k] = "open"
    /\ \/ dropped[k]
       \/ ~peer[k] /\ req[k] = <<>>
       \/ ident[k] # None /\ ~IsActiveController(ident[k])
       \/ reply[k] # NoReply

(* A connection that committed a resume does not take its controller with  *)
(* it: the transaction may be retried on another one.                      *)
TaskEnds(k) ==
    /\ TaskMayEnd(k)
    /\ task' = [task EXCEPT ![k] = "gone"]
    /\ IF ident[k] = None \/ (commitTx[k] # NoTx /\ committed[commitTx[k]] = ident[k])
       THEN UNCHANGED <<controllers, active>>
       ELSE RemoveControllers({ident[k]})
    /\ ident' = [ident EXCEPT ![k] = None]
    /\ pending' = [pending EXCEPT ![k] = None]
    /\ commitTx' = [commitTx EXCEPT ![k] = NoTx]
    /\ dropped' = [dropped EXCEPT ![k] = FALSE]
    /\ req' = [req EXCEPT ![k] = <<>>]
    /\ \E lost \in BOOLEAN :
          reply' = [reply EXCEPT ![k] = IF lost THEN NoReply ELSE @]
    /\ UNCHANGED <<nextId, nextConn, lease, committed, devices, exited, peer, dvars>>

(* broadcast_terminal_frame: a controller whose task is gone or whose      *)
(* queue is full (full) is removed; the latter's overflow is signalled.    *)
Broadcast(full) ==
    LET failed(i) == /\ controllers[i] # NoHandle
                     /\ \/ task[controllers[i].slot] = "gone"
                        \/ controllers[i].slot \in full
    IN  /\ full \subseteq {controllers[i].slot : i \in Ids}
        /\ \E i \in Ids : failed(i)
        /\ RemoveControllers({[id |-> i, conn |-> controllers[i].conn] :
                              i \in {j \in Ids : failed(j)}})
        /\ dropped' = [k \in Conns |-> dropped[k] \/ (k \in full /\ task[k] # "gone")]
        /\ UNCHANGED <<nextId, nextConn, lease, committed, devices, exited, task,
                       ident, pending, commitTx, wvars, dvars>>

(* supervisor_exit_watcher *)
PtyExits ==
    /\ ~exited
    /\ exited' = TRUE
    /\ UNCHANGED <<nextId, nextConn, active, lease, committed, controllers, devices,
                   tvars, wvars, dvars>>
----------------------------------------------------------------------------
(* The daemon *)

Fresh(k) == /\ task[k] = "none"
            /\ \A j \in 1..(k - 1) : task[j] # "none"

(* A new connection with its first request; closed is the set of           *)
(* connections dropped at the same time.                                   *)
Open(k, request, closed) ==
    /\ Fresh(k)
    /\ task' = [task EXCEPT ![k] = "open"]
    /\ req' = [req EXCEPT ![k] = <<request>>]
    /\ peer' = [j \in Conns |-> j = k \/ (peer[j] /\ j \notin closed)]
    /\ cand' = k
    /\ reply' = [j \in Conns |-> NoReply]
    /\ UNCHANGED <<svars, ident, pending, commitTx, dropped>>

(* The next request on a connection; nobody reads it when the task is gone. *)
Send(k, request) ==
    /\ req' = [req EXCEPT ![k] = IF task[k] = "gone" THEN <<>> ELSE Append(@, request)]
    /\ reply' = [j \in Conns |-> NoReply]
    /\ cand' = k
    /\ UNCHANGED <<svars, tvars, peer>>

NoMessage(closed) ==
    /\ peer' = [j \in Conns |-> peer[j] /\ j \notin closed]
    /\ reply' = [j \in Conns |-> NoReply]
    /\ UNCHANGED <<svars, tvars, req>>

Received(m, status) == mode = m /\ reply[cand].status = status
Eof(m)              == mode = m /\ reply[cand] = NoReply /\ task[cand] = "gone"

(* connect_with_child_slot, once per restart of the daemon and again after *)
(* a failure.                                                              *)
Connect ==
    /\ \/ mode = "down" /\ inc < MaxDaemon /\ inc' = inc + 1 /\ connects' = 1
       \/ mode = "retry" /\ connects < MaxConnects /\ inc' = inc /\ connects' = connects + 1
    /\ \E k \in Conns : Open(k, Request("attach", NoDev, None, NoTx, ops), {})
    /\ mode' = "attach"
    /\ UNCHANGED <<cur, me, tx, op, attempt, tries, ops, done>>

ConnectGivesUp ==
    /\ mode = "retry"
    /\ connects = MaxConnects
    /\ mode' = "failed"
    /\ UNCHANGED <<svars, tvars, wvars, inc, connects, cur, cand, me, tx, op, attempt,
                   tries, ops, done>>

(* seed_attach_sync takes the identity; the old daemon's devices are reset *)
(* over a connection of its own.                                           *)
AttachAccepted ==
    /\ Received("attach", "ok")
    /\ me' = reply[cand].ident
    /\ cur' = cand
    /\ \E k \in Conns : Open(k, Request("reset", NoDev, me', NoTx, ops), {})
    /\ mode' = "reset"
    /\ UNCHANGED <<inc, connects, tx, op, attempt, tries, ops, done>>

(* request_once gives up after REQUEST_TIMEOUT, at an error or at EOF.     *)
AttachFails ==
    /\ mode = "attach"
    /\ reply[cand].status # "ok"
    /\ NoMessage({})
    /\ mode' = "retry"
    /\ cand' = NoSlot
    /\ UNCHANGED <<inc, connects, cur, me, tx, op, attempt, tries, ops, done>>

(* An EOF counts as a supervisor that does not know the request. *)
ResetEnds ==
    /\ mode = "reset"
    /\ \/ /\ Received("reset", "ok") /\ mode' = "ready"
          /\ done' = Request("reset", NoDev, None, NoTx, 0)
       \/ Received("reset", "err") /\ mode' = "retry" /\ UNCHANGED done
       \/ Eof("reset") /\ mode' = "ready" /\ UNCHANGED done
    /\ NoMessage({cand})
    /\ cand' = NoSlot
    /\ UNCHANGED <<inc, connects, cur, me, tx, op, attempt, tries, ops>>

(* The locals of request() and reconnect_ipc() go out of scope. *)
EndRequest(outcome) ==
    /\ mode' = "ready"
    /\ done' = outcome
    /\ cand' = NoSlot
    /\ op' = NoReq
    /\ attempt' = 0
    /\ tx' = NoTx
    /\ tries' = 0

(* SupervisorPtySession::request *)
StartRequest(kind, dev) ==
    /\ mode = "ready"
    /\ ops < MaxOps
    /\ ops' = ops + 1
    /\ op' = Request(kind, dev, None, NoTx, ops')
    /\ Send(cur, op')
    /\ attempt' = 1
    /\ mode' = "op"
    /\ UNCHANGED <<inc, connects, cur, me, tx, tries, done>>

RequestEnds ==
    /\ \/ Received("op", "ok") /\ EndRequest(op)
       \/ Received("op", "err") /\ EndRequest(NoReq)
       \/ mode = "op" /\ reply[cand] = NoReply /\ attempt = MaxAttempt /\ EndRequest(NoReq)
    /\ NoMessage({})
    /\ UNCHANGED <<inc, connects, cur, me, ops>>

(* A transport failure (timeout or EOF) starts reconnect_ipc: a candidate  *)
(* connection and a new transaction id.                                    *)
StartResume ==
    /\ mode = "op"
    /\ reply[cand] = NoReply
    /\ attempt < MaxAttempt
    /\ \E k \in Conns :
          /\ Open(k, Request("resume", NoDev, me, NoTx, ops), {})
          /\ tx' = k
    /\ tries' = 1
    /\ mode' = "resume"
    /\ UNCHANGED <<inc, connects, cur, me, op, attempt, ops, done>>

ResumeProceeds ==
    /\ \/ /\ Received("resume", "ok")
          /\ Send(cand, Request("validate", NoDev, None, NoTx, ops))
          /\ mode' = "validate"
       \/ /\ Received("validate", "ok")
          /\ Send(cand, Request("commit", NoDev, None, tx, ops))
          /\ mode' = "commit"
    /\ UNCHANGED <<inc, connects, cur, me, tx, op, attempt, tries, ops, done>>

(* The candidate becomes the writer and the request is sent again. *)
ResumeCommitted ==
    /\ Received("commit", "ok")
    /\ cur' = cand
    /\ me' = reply[cand].ident
    /\ Send(cand, op)
    /\ attempt' = attempt + 1
    /\ tx' = NoTx
    /\ tries' = 0
    /\ mode' = "op"
    /\ UNCHANGED <<inc, connects, op, ops, done>>

(* A refusal, an EOF, or a reader thread that does not start: the          *)
(* candidate is dropped and the same transaction tried again.              *)
ResumeFails ==
    /\ \/ \E m \in {"resume", "validate", "commit"} : Received(m, "err") \/ Eof(m)
       \/ Received("commit", "ok")
    /\ IF tries < MaxResume
       THEN /\ \E k \in Conns :
                  Open(k, Request("resume", NoDev, me, NoTx, ops), {cand})
            /\ tries' = tries + 1
            /\ mode' = "resume"
            /\ UNCHANGED <<tx, op, attempt, done>>
       ELSE NoMessage({cand}) /\ EndRequest(NoReq)
    /\ UNCHANGED <<inc, connects, cur, me, ops>>

(* The daemon process dies; what it wrote stays in the sockets. *)
DaemonCrash ==
    /\ mode # "down"
    /\ inc < MaxDaemon
    /\ mode' = "down"
    /\ peer' = [k \in Conns |-> FALSE]
    /\ reply' = [k \in Conns |-> NoReply]
    /\ cur' = NoSlot /\ cand' = NoSlot
    /\ me' = None
    /\ tx' = NoTx
    /\ op' = NoReq
    /\ connects' = 0 /\ attempt' = 0 /\ tries' = 0
    /\ done' = NoReq
    /\ UNCHANGED <<svars, tvars, req, inc, ops>>

----------------------------------------------------------------------------
ServeStep(k) ==
    \/ ServeAttach(k) \/ ServeResume(k) \/ ServeValidate(k) \/ ServeCommit(k)
    \/ ServeReset(k) \/ EnsureCurrentController(k) \/ ActOnRequest(k)

DaemonStep ==
    \/ Connect \/ ConnectGivesUp \/ AttachAccepted \/ AttachFails \/ ResetEnds
    \/ RequestEnds \/ StartResume \/ ResumeProceeds \/ ResumeCommitted \/ ResumeFails

Next ==
    \/ \E k \in Conns : ServeStep(k) \/ TaskEnds(k)
    \/ \E full \in SUBSET Conns : Broadcast(full)
    \/ PtyExits
    \/ DaemonStep
    \/ StartRequest("input", NoDev)
    \/ \E kind \in DeviceOps, dev \in Devices : StartRequest(kind, dev)
    \/ DaemonCrash

Spec == Init /\ [][Next]_vars

(* The supervisor's tasks keep running and the daemon reacts to what it    *)
(* receives; neither a new request nor a crash ever has to happen.         *)
FairSpec ==
    /\ Spec
    /\ \A k \in Conns : WF_vars(ServeStep(k)) /\ WF_vars(TaskEnds(k))
    /\ WF_vars(DaemonStep)

----------------------------------------------------------------------------
(* Properties *)

(* The active controller is registered under the connection it is active   *)
(* with: no order of attach, resume, commit, teardown and broadcast leaves *)
(* an owner that is_active_controller would refuse.                        *)
ActiveIsRegistered ==
    active # None => controllers[active.id].conn = active.conn

(* As long as one daemon connects once, it never loses the session to one  *)
(* of its own connections, whatever was lost, retried or replayed: the     *)
(* lease stays its own, authority never goes back to a connection it gave  *)
(* up, and a resume that succeeded made its new identity the active one.   *)
ReadyOwns ==
    inc = 1 /\ connects = 1 /\ mode \in {"ready", "op"} =>
        /\ lease = me.id
        /\ active # None => active.id = me.id /\ active.conn >= me.conn
        /\ mode = "op" /\ attempt > 1 => active \in {None, me}

(* Restarts, late requests and replayed commits included, the resume lease *)
(* only ever moves to a newer controller.                                  *)
LeaseNeverGoesBack == [][lease' >= lease]_vars

(* Every request ends: with a response, or as a failure after the bounded  *)
(* number of attempts, however many connections break on the way, unless   *)
(* the connections are used up (a bound of the model).                     *)
RequestsEnd ==
    (mode = "op") ~> \/ mode \in {"ready", "down"}
                     \/ \A k \in Conns : task[k] # "none"

(* The newest daemon owns the session: "old controllers ... can no longer  *)
(* modify authority or drive the PTY" (comment in attach_sync).            *)
NewestOwns == active # None => active.id = lease

(* A request that succeeded, with none failing since, holds: the device is *)
(* attached, or detached, or the reset left none behind ("a new daemon     *)
(* controller clears the attached-device authority the old one left").     *)
DoneHolds ==
    mode = "ready" =>
        /\ done.kind = "attach_device" => done.dev \in devices
        /\ done.kind = "detach_device" => done.dev \notin devices
        /\ done.kind = "reset" => devices = {}

(* Authority is coherent: a connection that believes it is ready owns the  *)
(* controller, and the active controller is a registered one.              *)
AuthorityIsCoherent == ReadyOwns /\ ActiveIsRegistered
=============================================================================
