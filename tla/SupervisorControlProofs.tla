----------------------- MODULE SupervisorControlProofs -----------------------
(***************************************************************************)
(* Who controls a session, proved for every number of connections, daemon  *)
(* incarnations, attempts and requests: types, AuthorityIsCoherent and     *)
(* LeaseNeverGoesBack of SupervisorControl.                                *)
(*                                                                         *)
(* The inductive invariant has four parts.  DaemonInv and WireInv say what *)
(* the daemon waits on and what the sockets may hold.  IdsInv counts: an   *)
(* attach is the first request of its connection, so there are never more  *)
(* controller ids than connections, and every identity in the supervisor's *)
(* state was handed out.  UnusedInv says that a slot is clean before its   *)
(* connection opens.  SoleWire and SoleAuth follow a daemon that connected *)
(* once: none but the connection it waits on can hold a request that moves *)
(* the authority, so a commit, replayed or not, never names a connection   *)
(* older than the one the daemon uses.                                     *)
(***************************************************************************)
EXTENDS SupervisorControl, TLAPS, FiniteSetTheorems

(* The four groups of the type invariant. *)
StateType ==
  /\ nextId \in Nat /\ nextConn \in Nat /\ active \in Idents /\ lease \in Nat
  /\ committed \in [Conns -> Idents] /\ controllers \in [Ids -> Handles]
  /\ devices \in SUBSET Devices /\ exited \in BOOLEAN

TasksType ==
  /\ task \in [Conns -> {"none", "open", "checked", "gone"}]
  /\ ident \in [Conns -> Idents] /\ pending \in [Conns -> Idents]
  /\ commitTx \in [Conns -> Conns \cup {NoTx}] /\ dropped \in [Conns -> BOOLEAN]

WireType ==
  /\ req \in [Conns -> Seq(Requests)] /\ reply \in [Conns -> Replies]
  /\ peer \in [Conns -> BOOLEAN]

DaemonType ==
  /\ inc \in Nat /\ mode \in Modes /\ connects \in Nat
  /\ cur \in Conns \cup {NoSlot} /\ cand \in Conns \cup {NoSlot}
  /\ me \in Idents /\ tx \in Conns \cup {NoTx} /\ op \in Requests
  /\ attempt \in Nat /\ tries \in Nat /\ ops \in Nat /\ done \in Requests

(* Where the daemon is on its own side: what it waits on is a connection,  *)
(* a resume has a transaction, and what it sends again is a device request *)
(* or input.                                                               *)
DaemonInv ==
  /\ mode \in Waiting => cand \in Conns /\ task[cand] # "none"
  /\ mode \in {"reset", "ready", "op", "resume", "validate", "commit"} => cur \in Conns /\ task[cur] # "none"
  /\ mode \in {"resume", "validate", "commit"} => tx \in Conns /\ task[tx] # "none"
  /\ op.kind \in DeviceOps \cup {"input", "none"}
  /\ op.kind = "attach_device" => op.dev \in Devices

(* What is in the sockets: an attach only as the first request of a        *)
(* connection, a commit only with a transaction that was begun; nothing in *)
(* a connection that is not open yet.                                      *)
WireInv ==
  /\ \A k \in Conns : task[k] = "none" => req[k] = <<>> /\ committed[k] = None
  /\ \A k \in Conns : task[k] = "checked" => req[k] # <<>> /\ Head(req[k]).kind \in DeviceOps \cup {"input"}
  /\ \A k \in Conns : \A i \in 1 .. Len(req[k]) :
       /\ i # 1 => req[k][i].kind # "attach"
       /\ req[k][i].kind = "commit" => req[k][i].tx \in Conns /\ task[req[k][i].tx] # "none"
       /\ req[k][i].kind = "attach_device" => req[k][i].dev \in Devices

(* Connections that are open or over, and those yet to be served an attach. *)
Opened == {k \in Conns : task[k] # "none"}
Asking == {k \in Conns : req[k] # <<>> /\ Head(req[k]).kind = "attach"}

(* Identities are handed out in order, one id for each connection that     *)
(* asked, and nothing in the supervisor's state is newer than that.        *)
Issued(w) == w = None \/ (w.id \in 1 .. (nextId - 1) /\ w.conn \in 1 .. (nextConn - 1))
IdsInv ==
  /\ nextId >= 1 /\ nextConn >= 1 /\ lease < nextId
  /\ Issued(active)
  /\ \A k \in Conns : Issued(pending[k]) /\ Issued(committed[k])
  /\ nextId + Cardinality(Asking) <= 1 + Cardinality(Opened)

LEMMA TypeGroups == TypeOK <=> StateType /\ TasksType /\ WireType /\ DaemonType
BY DEF TypeOK, StateType, TasksType, WireType, DaemonType

LEMMA TypeGroupsNext == TypeOK' <=> StateType' /\ TasksType' /\ WireType' /\ DaemonType'
BY DEF TypeOK, StateType, TasksType, WireType, DaemonType

ReqKinds == {"none", "attach", "resume", "validate", "commit", "reset", "input"} \cup DeviceOps

LEMMA RequestType ==
  ASSUME NEW kind \in ReqKinds, NEW dev \in Devices \cup {NoDev}, NEW who \in Idents,
         NEW t \in Conns \cup {NoTx}, NEW n \in Nat
  PROVE  /\ Request(kind, dev, who, t, n) \in Requests
         /\ Request(kind, dev, who, t, n).kind = kind /\ Request(kind, dev, who, t, n).tx = t
BY DEF Request, Requests, ReqKinds

LEMMA Constants ==
  /\ None \in Idents /\ NoReq \in Requests /\ NoReq.kind = "none"
  /\ NoReply \in Replies /\ Ok \in Replies /\ Err \in Replies
  /\ NoHandle \in Handles /\ \A w \in Idents : Reply("ok", w) \in Replies
  /\ \A w \in Idents : w.id \in Nat /\ w.conn \in Nat
  /\ \A r \in Replies : r.ident \in Idents
  /\ Conns \subseteq Nat \ {0} /\ NoSlot \notin Conns /\ NoTx \notin Conns
<1>1. None \in Idents
  BY DEF None, Idents
<1>2. NoReq \in Requests /\ NoReq.kind = "none"
  BY <1>1 DEF NoReq, Request, Requests
<1>3. NoReply \in Replies /\ Ok \in Replies /\ Err \in Replies /\ \A w \in Idents : Reply("ok", w) \in Replies
  BY <1>1 DEF NoReply, Ok, Err, Reply, Replies
<1>4. NoHandle \in Handles
  BY DEF NoHandle, Handles
<1> QED
  BY <1>1, <1>2, <1>3, <1>4, SupervisorControlAssumption DEF Idents, Replies, Conns, NoSlot, NoTx

(* What Answer does to the wire. *)
LEMMA AnswerType ==
  ASSUME WireType, DaemonType, NEW k \in Conns, req[k] # <<>>, NEW a \in Replies, Answer(k, a)
  PROVE  WireType' /\ DaemonType'
<1>1. req' \in [Conns -> Seq(Requests)]
  BY DEF Answer, WireType
<1>2. reply' \in [Conns -> Replies]
  BY DEF Answer, WireType
<1> QED
  BY <1>1, <1>2 DEF Answer, WireType, DaemonType, dvars

LEMMA RefuseType ==
  ASSUME TypeOK, NEW k \in Conns, req[k] # <<>>, Refuse(k)
  PROVE  TypeOK'
<1>1. WireType' /\ DaemonType'
  BY AnswerType, Constants, TypeGroups DEF Refuse
<1>2. StateType' /\ TasksType'
  BY TypeGroups DEF Refuse, svars, tvars, StateType, TasksType
<1> QED
  BY <1>1, <1>2, TypeGroupsNext

LEMMA ServeType ==
  ASSUME TypeOK, WireInv, NEW k \in Conns, ServeStep(k)
  PROVE  TypeOK'
<1>0. StateType /\ TasksType /\ WireType /\ DaemonType
  BY TypeGroups
<1> USE Constants
<1>h. ASSUME NEW kind, Serves(k, kind)
      PROVE  /\ req[k] # <<>> /\ Head(req[k]) \in Requests /\ Head(req[k]).kind = kind
             /\ Head(req[k]) = req[k][1] /\ 1 \in 1 .. Len(req[k])
  BY <1>h, <1>0 DEF Serves, WireType
<1>1. CASE ServeAttach(k)
  <2>0. req[k] # <<>>
    BY <1>1, <1>h DEF ServeAttach
  <2>1. CASE exited
    BY <1>1, <2>0, <2>1, RefuseType DEF ServeAttach
  <2>2. CASE ~exited
    <3> DEFINE new == [id |-> nextId, conn |-> nextConn]
    <3>1. new \in Idents
      BY <1>0 DEF StateType, Idents
    <3>2. /\ nextId' = nextId + 1 /\ nextConn' = nextConn + 1 /\ active' = new /\ lease' = nextId
          /\ controllers' = [controllers EXCEPT ![nextId] = [conn |-> nextConn, slot |-> k]]
          /\ ident' = [ident EXCEPT ![k] = new] /\ Answer(k, Reply("ok", new))
          /\ UNCHANGED <<committed, devices, exited, task, pending, commitTx, dropped>>
      BY <1>1, <2>2 DEF ServeAttach
    <3>3. controllers' \in [Ids -> Handles]
      BY <3>2, <1>0 DEF StateType, Handles
    <3> HIDE DEF new
    <3>4. WireType' /\ DaemonType'
      BY <3>1, <3>2, <2>0, <1>0, AnswerType
    <3>5. StateType'
      BY <3>1, <3>2, <3>3, <1>0 DEF StateType
    <3>6. TasksType'
      BY <3>1, <3>2, <1>0 DEF TasksType
    <3> QED
      BY <3>4, <3>5, <3>6, TypeGroupsNext
  <2> QED
    BY <2>1, <2>2
<1>2. CASE ServeResume(k)
  <2>0. req[k] # <<>> /\ Head(req[k]) \in Requests
    BY <1>2, <1>h DEF ServeResume
  <2>1. CASE Refuse(k)
    BY <2>0, <2>1, RefuseType
  <2>2. CASE ~Refuse(k)
    <3> DEFINE id == Head(req[k]).who.id
    <3>1. id \in Nat
      BY <2>0 DEF Requests, Idents
    <3>2. /\ nextConn' = nextConn + 1 /\ pending' = [pending EXCEPT ![k] = [id |-> id, conn |-> nextConn]]
          /\ Answer(k, Ok)
          /\ UNCHANGED <<nextId, active, lease, committed, controllers, devices, exited, task, ident,
                         commitTx, dropped>>
      BY <1>2, <2>2 DEF ServeResume
    <3> HIDE DEF id
    <3>3. [id |-> id, conn |-> nextConn] \in Idents
      BY <3>1, <1>0 DEF StateType, Idents
    <3>4. WireType' /\ DaemonType'
      BY <3>2, <2>0, <1>0, AnswerType
    <3>5. StateType'
      BY <3>2, <1>0 DEF StateType
    <3>6. TasksType'
      BY <3>2, <3>3, <1>0 DEF TasksType
    <3> QED
      BY <3>4, <3>5, <3>6, TypeGroupsNext
  <2> QED
    BY <2>1, <2>2
<1>3. CASE ServeValidate(k)
  <2>0. req[k] # <<>>
    BY <1>3, <1>h DEF ServeValidate
  <2>1. CASE Refuse(k)
    BY <2>0, <2>1, RefuseType
  <2>2. CASE ~Refuse(k)
    <3>1. Answer(k, Ok) /\ UNCHANGED <<svars, tvars>>
      BY <1>3, <2>2 DEF ServeValidate
    <3>2. WireType' /\ DaemonType'
      BY <3>1, <2>0, <1>0, AnswerType
    <3>3. StateType' /\ TasksType'
      BY <3>1, <1>0 DEF svars, tvars, StateType, TasksType
    <3> QED
      BY <3>2, <3>3, TypeGroupsNext
  <2> QED
    BY <2>1, <2>2
<1>4. CASE ServeCommit(k)
  <2>0. req[k] # <<>> /\ Head(req[k]).tx \in Conns
    BY <1>4, <1>h DEF ServeCommit, WireInv
  <2>1. CASE Refuse(k)
    BY <2>0, <2>1, RefuseType
  <2>2. CASE ~Refuse(k)
    <3> DEFINE t == Head(req[k]).tx
               who == IF committed[t] # None THEN committed[t] ELSE pending[k]
    <3>1. t \in Conns /\ who \in Idents
      BY <2>0, <1>0 DEF StateType, TasksType
    <3>2. /\ controllers' = [controllers EXCEPT ![who.id] = [conn |-> who.conn, slot |-> k]]
          /\ active' = who /\ committed' = [committed EXCEPT ![t] = who]
          /\ ident' = [ident EXCEPT ![k] = who] /\ pending' = [pending EXCEPT ![k] = None]
          /\ commitTx' = [commitTx EXCEPT ![k] = t] /\ Answer(k, Reply("ok", who))
          /\ UNCHANGED <<nextId, nextConn, lease, devices, exited, task, dropped>>
      BY <1>4, <2>2 DEF ServeCommit
    <3> HIDE DEF t, who
    <3>3. [conn |-> who.conn, slot |-> k] \in Handles
      BY <3>1 DEF Handles
    <3>4. WireType' /\ DaemonType'
      BY <3>1, <3>2, <2>0, <1>0, AnswerType
    <3>5. StateType'
      BY <3>1, <3>2, <3>3, <1>0 DEF StateType
    <3>6. TasksType'
      BY <3>1, <3>2, <1>0 DEF TasksType
    <3> QED
      BY <3>4, <3>5, <3>6, TypeGroupsNext
  <2> QED
    BY <2>1, <2>2
<1>5. CASE ServeReset(k)
  <2>0. req[k] # <<>>
    BY <1>5, <1>h DEF ServeReset
  <2>1. CASE Refuse(k)
    BY <2>0, <2>1, RefuseType
  <2>2. CASE ~Refuse(k)
    <3>1. /\ devices' = {} /\ Answer(k, Ok)
          /\ UNCHANGED <<nextId, nextConn, active, lease, committed, controllers, exited, tvars>>
      BY <1>5, <2>2 DEF ServeReset
    <3>2. WireType' /\ DaemonType'
      BY <3>1, <2>0, <1>0, AnswerType
    <3>3. StateType' /\ TasksType'
      BY <3>1, <1>0 DEF tvars, StateType, TasksType
    <3> QED
      BY <3>2, <3>3, TypeGroupsNext
  <2> QED
    BY <2>1, <2>2
<1>6. CASE EnsureCurrentController(k)
  <2>0. req[k] # <<>>
    BY <1>6, <1>h DEF EnsureCurrentController
  <2>1. CASE Refuse(k)
    BY <2>0, <2>1, RefuseType
  <2>2. CASE ~Refuse(k)
    <3>1. /\ task' = [task EXCEPT ![k] = "checked"]
          /\ UNCHANGED <<svars, ident, pending, commitTx, dropped, wvars, dvars>>
      BY <1>6, <2>2 DEF EnsureCurrentController
    <3>2. WireType' /\ DaemonType' /\ StateType'
      BY <3>1, <1>0 DEF svars, wvars, dvars, StateType, WireType, DaemonType
    <3>3. TasksType'
      BY <3>1, <1>0 DEF TasksType
    <3> QED
      BY <3>2, <3>3, TypeGroupsNext
  <2> QED
    BY <2>1, <2>2
<1>7. CASE ActOnRequest(k) /\ req[k] # <<>>
  <2>1. /\ Head(req[k]) = req[k][1] /\ 1 \in 1 .. Len(req[k])
    BY <1>7, <1>0 DEF WireType
  <2>2. Head(req[k]).kind = "attach_device" => Head(req[k]).dev \in Devices
    BY <2>1 DEF WireInv
  <2>3. devices' \in SUBSET Devices
    BY <1>7, <2>2, <1>0 DEF ActOnRequest, StateType
  <2>4. \E a \in {Err, Ok} : Answer(k, a)
    BY <1>7 DEF ActOnRequest
  <2>5. WireType' /\ DaemonType'
    BY <2>4, <1>7, <1>0, AnswerType
  <2>6. /\ task' = [task EXCEPT ![k] = "open"]
        /\ UNCHANGED <<nextId, nextConn, active, lease, committed, controllers, exited,
                       ident, pending, commitTx, dropped>>
    BY <1>7 DEF ActOnRequest
  <2>7. StateType'
    BY <2>3, <2>6, <1>0 DEF StateType
  <2>8. TasksType'
    BY <2>6, <1>0 DEF TasksType
  <2> QED
    BY <2>5, <2>7, <2>8, TypeGroupsNext
<1>8. CASE ActOnRequest(k) /\ req[k] = <<>>
  BY <1>8 DEF WireInv, ActOnRequest
<1> QED
  BY <1>1, <1>2, <1>3, <1>4, <1>5, <1>6, <1>7, <1>8 DEF ServeStep

LEMMA OpenType ==
  ASSUME TypeOK, NEW k \in Conns, NEW r \in Requests, NEW closed, Open(k, r, closed)
  PROVE  StateType' /\ TasksType' /\ WireType' /\ cand' \in Conns
<1>0. StateType /\ TasksType /\ WireType
  BY TypeGroups
<1>1. <<r>> \in Seq(Requests)
  OBVIOUS
<1>2. req' \in [Conns -> Seq(Requests)]
  BY <1>0, <1>1 DEF Open, WireType
<1>3. reply' \in [Conns -> Replies]
  BY Constants DEF Open
<1>4. peer' \in [Conns -> BOOLEAN]
  BY DEF Open
<1>5. task' \in [Conns -> {"none", "open", "checked", "gone"}]
  BY <1>0 DEF Open, TasksType
<1>6. UNCHANGED <<svars, ident, pending, commitTx, dropped>> /\ cand' = k
  BY DEF Open
<1>7. StateType'
  BY <1>0, <1>6 DEF svars, StateType
<1>8. TasksType'
  BY <1>0, <1>5, <1>6 DEF TasksType
<1>9. WireType'
  BY <1>2, <1>3, <1>4 DEF WireType
<1> QED
  BY <1>6, <1>7, <1>8, <1>9

LEMMA SendType ==
  ASSUME TypeOK, NEW k, NEW r \in Requests, Send(k, r)
  PROVE  StateType' /\ TasksType' /\ WireType' /\ cand' = k
<1>0. StateType /\ TasksType /\ WireType
  BY TypeGroups
<1>1. <<>> \in Seq(Requests) /\ \A q \in Seq(Requests) : Append(q, r) \in Seq(Requests)
  OBVIOUS
<1>2. req' \in [Conns -> Seq(Requests)]
  BY <1>0, <1>1 DEF Send, WireType
<1>3. reply' \in [Conns -> Replies]
  BY Constants DEF Send
<1>4. UNCHANGED <<svars, tvars, peer>> /\ cand' = k
  BY DEF Send
<1>5. StateType' /\ TasksType'
  BY <1>0, <1>4 DEF svars, tvars, StateType, TasksType
<1>6. WireType'
  BY <1>0, <1>2, <1>3, <1>4 DEF WireType
<1> QED
  BY <1>4, <1>5, <1>6

LEMMA NoMessageType ==
  ASSUME TypeOK, NEW closed, NoMessage(closed)
  PROVE  StateType' /\ TasksType' /\ WireType'
<1>0. StateType /\ TasksType /\ WireType
  BY TypeGroups
<1>1. reply' \in [Conns -> Replies] /\ req' = req
  BY Constants DEF NoMessage
<1>2. peer' \in [Conns -> BOOLEAN]
  BY DEF NoMessage
<1>3. StateType' /\ TasksType'
  BY <1>0 DEF NoMessage, svars, tvars, StateType, TasksType
<1>4. WireType'
  BY <1>0, <1>1, <1>2 DEF WireType
<1> QED
  BY <1>3, <1>4

(* What the daemon sends. *)
LEMMA SentTypes ==
  ASSUME DaemonType
  PROVE  /\ Request("attach", NoDev, None, NoTx, ops) \in Requests
         /\ \A w \in Idents : Request("reset", NoDev, w, NoTx, ops) \in Requests
         /\ Request("reset", NoDev, None, NoTx, 0) \in Requests
         /\ Request("resume", NoDev, me, NoTx, ops) \in Requests
         /\ Request("validate", NoDev, None, NoTx, ops) \in Requests
         /\ Request("commit", NoDev, None, tx, ops) \in Requests
         /\ \A kind \in DeviceOps \cup {"input"}, dev \in Devices \cup {NoDev}, n \in Nat :
              /\ Request(kind, dev, None, NoTx, n) \in Requests
              /\ Request(kind, dev, None, NoTx, n).kind = kind
              /\ Request(kind, dev, None, NoTx, n).dev = dev
BY Constants DEF DaemonType, Request, Requests

LEMMA DaemonSideType ==
  ASSUME TypeOK, DaemonInv,
         \/ DaemonStep \/ DaemonCrash \/ StartRequest("input", NoDev)
         \/ \E kind \in DeviceOps, dev \in Devices : StartRequest(kind, dev)
  PROVE  TypeOK'
<1>0. StateType /\ TasksType /\ WireType /\ DaemonType
  BY TypeGroups
<1> USE Constants
<1>t. /\ inc \in Nat /\ mode \in Modes /\ connects \in Nat
      /\ cur \in Conns \cup {NoSlot} /\ cand \in Conns \cup {NoSlot}
      /\ me \in Idents /\ tx \in Conns \cup {NoTx} /\ op \in Requests
      /\ attempt \in Nat /\ tries \in Nat /\ ops \in Nat /\ done \in Requests
  BY <1>0 DEF DaemonType
<1>m. /\ mode \in Waiting => cand \in Conns
      /\ mode \in {"attach", "commit"} => cand \in Conns /\ reply[cand].ident \in Idents
  BY <1>0 DEF DaemonInv, WireType, Waiting
<1>1. CASE Connect
  <2>1. StateType' /\ TasksType' /\ WireType' /\ cand' \in Conns
    BY <1>1, <1>0, OpenType, SentTypes DEF Connect
  <2>2. DaemonType'
    BY <1>1, <2>1, <1>t DEF Connect, DaemonType, Modes, Waiting
  <2> QED
    BY <2>1, <2>2, TypeGroupsNext
<1>2. CASE ConnectGivesUp
  <2>1. StateType' /\ TasksType' /\ WireType'
    BY <1>2, <1>0 DEF ConnectGivesUp, svars, tvars, wvars, StateType, TasksType, WireType
  <2>2. DaemonType'
    BY <1>2, <1>t DEF ConnectGivesUp, DaemonType, Modes
  <2> QED
    BY <2>1, <2>2, TypeGroupsNext
<1>3. CASE AttachAccepted
  <2>0. me' \in Idents /\ cur' \in Conns
    BY <1>3, <1>m DEF AttachAccepted, Received
  <2>1. StateType' /\ TasksType' /\ WireType' /\ cand' \in Conns
    <3>1. Request("reset", NoDev, me', NoTx, ops) \in Requests
      BY <2>0, <1>0, SentTypes
    <3> QED
      BY <1>3, <3>1, OpenType DEF AttachAccepted
  <2>2. DaemonType'
    BY <1>3, <2>0, <2>1, <1>t DEF AttachAccepted, DaemonType, Modes, Waiting
  <2> QED
    BY <2>1, <2>2, TypeGroupsNext
<1>4. CASE AttachFails
  <2>1. StateType' /\ TasksType' /\ WireType'
    BY <1>4, NoMessageType DEF AttachFails
  <2>2. DaemonType'
    BY <1>4, <1>t DEF AttachFails, DaemonType, Modes
  <2> QED
    BY <2>1, <2>2, TypeGroupsNext
<1>5. CASE ResetEnds
  <2>1. StateType' /\ TasksType' /\ WireType'
    BY <1>5, NoMessageType DEF ResetEnds
  <2>2. mode' \in Modes /\ done' \in Requests
    BY <1>5, <1>0, <1>t, SentTypes DEF ResetEnds, Modes
  <2>3. DaemonType'
    BY <1>5, <2>2, <1>t DEF ResetEnds, DaemonType
  <2> QED
    BY <2>1, <2>3, TypeGroupsNext
<1>e. ASSUME NEW outcome \in Requests, EndRequest(outcome), UNCHANGED <<inc, connects, cur, me, ops>>
      PROVE  DaemonType'
  BY <1>e, <1>t DEF EndRequest, DaemonType, Modes
<1>6. CASE RequestEnds
  <2>1. StateType' /\ TasksType' /\ WireType'
    BY <1>6, NoMessageType DEF RequestEnds
  <2>2. DaemonType'
    BY <1>6, <1>e, <1>t DEF RequestEnds
  <2> QED
    BY <2>1, <2>2, TypeGroupsNext
<1>7. CASE StartResume
  <2>1. StateType' /\ TasksType' /\ WireType' /\ cand' \in Conns /\ tx' \in Conns
    BY <1>7, <1>0, OpenType, SentTypes DEF StartResume
  <2>2. DaemonType'
    BY <1>7, <2>1, <1>t DEF StartResume, DaemonType, Modes, Waiting
  <2> QED
    BY <2>1, <2>2, TypeGroupsNext
<1>8. CASE ResumeProceeds
  <2>1. StateType' /\ TasksType' /\ WireType' /\ cand' = cand
    BY <1>8, <1>0, SendType, SentTypes DEF ResumeProceeds
  <2>2. mode' \in Modes
    BY <1>8 DEF ResumeProceeds, Modes, Waiting
  <2>3. DaemonType'
    BY <1>8, <2>1, <2>2, <1>t DEF ResumeProceeds, DaemonType
  <2> QED
    BY <2>1, <2>3, TypeGroupsNext
<1>9. CASE ResumeCommitted
  <2>1. StateType' /\ TasksType' /\ WireType' /\ cand' = cand
    BY <1>9, <1>t, SendType DEF ResumeCommitted
  <2>2. DaemonType'
    BY <1>9, <2>1, <1>t, <1>m DEF ResumeCommitted, Received, DaemonType, Modes, Waiting
  <2> QED
    BY <2>1, <2>2, TypeGroupsNext
<1>10. CASE ResumeFails /\ tries < MaxResume
  <2>1. StateType' /\ TasksType' /\ WireType' /\ cand' \in Conns
    BY <1>10, <1>0, OpenType, SentTypes DEF ResumeFails
  <2>2. DaemonType'
    BY <1>10, <2>1, <1>t DEF ResumeFails, DaemonType, Modes, Waiting
  <2> QED
    BY <2>1, <2>2, TypeGroupsNext
<1>11. CASE ResumeFails /\ ~(tries < MaxResume)
  <2>1. StateType' /\ TasksType' /\ WireType'
    BY <1>11, NoMessageType DEF ResumeFails
  <2>2. DaemonType'
    BY <1>11, <1>e DEF ResumeFails
  <2> QED
    BY <2>1, <2>2, TypeGroupsNext
<1>12. ASSUME NEW kind \in DeviceOps \cup {"input"}, NEW dev \in Devices \cup {NoDev}, StartRequest(kind, dev)
       PROVE  TypeOK'
  <2>0. ops' \in Nat /\ op' \in Requests
    <3>1. ops' = ops + 1 /\ op' = Request(kind, dev, None, NoTx, ops')
      BY <1>12 DEF StartRequest
    <3>2. ops' \in Nat
      BY <3>1, <1>t
    <3> QED
      BY <3>1, <3>2, <1>0, SentTypes
  <2>1. StateType' /\ TasksType' /\ WireType' /\ cand' = cur
    BY <1>12, <2>0, SendType DEF StartRequest
  <2>2. DaemonType'
    BY <1>12, <2>0, <2>1, <1>t DEF StartRequest, DaemonType, Modes, Waiting
  <2> QED
    BY <2>1, <2>2, TypeGroupsNext
<1>13. CASE DaemonCrash
  <2>1. StateType' /\ TasksType'
    BY <1>13, <1>0 DEF DaemonCrash, svars, tvars, StateType, TasksType
  <2>2. WireType'
    BY <1>13, <1>0 DEF DaemonCrash, WireType
  <2>3. DaemonType'
    BY <1>13, <1>t DEF DaemonCrash, DaemonType, Modes
  <2> QED
    BY <2>1, <2>2, <2>3, TypeGroupsNext
<1> QED
  BY <1>1, <1>2, <1>3, <1>4, <1>5, <1>6, <1>7, <1>8, <1>9, <1>10, <1>11, <1>12, <1>13 DEF DaemonStep

LEMMA SupervisorSideType ==
  ASSUME TypeOK,
         (\E k \in Conns : TaskEnds(k)) \/ (\E full \in SUBSET Conns : Broadcast(full)) \/ PtyExits
  PROVE  TypeOK'
<1>0. StateType /\ TasksType /\ WireType /\ DaemonType
  BY TypeGroups
<1> USE Constants
<1>r. ASSUME NEW gone, RemoveControllers(gone)
      PROVE  controllers' \in [Ids -> Handles] /\ active' \in Idents
  BY <1>r, <1>0 DEF RemoveControllers, StateType
<1>1. ASSUME NEW k \in Conns, TaskEnds(k)
      PROVE  TypeOK'
  <2>1. controllers' \in [Ids -> Handles] /\ active' \in Idents
    BY <1>1, <1>r, <1>0 DEF TaskEnds, StateType
  <2>2. StateType'
    BY <1>1, <2>1, <1>0 DEF TaskEnds, StateType
  <2>3. TasksType'
    BY <1>1, <1>0 DEF TaskEnds, TasksType
  <2>4. req' \in [Conns -> Seq(Requests)] /\ reply' \in [Conns -> Replies] /\ peer' = peer
    <3>1. <<>> \in Seq(Requests)
      OBVIOUS
    <3> QED
      BY <1>1, <3>1, <1>0 DEF TaskEnds, WireType
  <2>5. WireType' /\ DaemonType'
    BY <1>1, <2>4, <1>0 DEF TaskEnds, WireType, DaemonType, dvars
  <2> QED
    BY <2>2, <2>3, <2>5, TypeGroupsNext
<1>2. ASSUME NEW full \in SUBSET Conns, Broadcast(full)
      PROVE  TypeOK'
  <2>1. controllers' \in [Ids -> Handles] /\ active' \in Idents
    BY <1>2, <1>r DEF Broadcast
  <2>2. dropped' \in [Conns -> BOOLEAN]
    BY <1>2 DEF Broadcast
  <2>3. UNCHANGED <<nextId, nextConn, lease, committed, devices, exited, task, ident, pending, commitTx, wvars, dvars>>
    BY <1>2 DEF Broadcast
  <2>4. StateType' /\ TasksType'
    BY <2>1, <2>2, <2>3, <1>0 DEF StateType, TasksType
  <2>5. WireType' /\ DaemonType'
    BY <2>3, <1>0 DEF wvars, dvars, WireType, DaemonType
  <2> QED
    BY <2>4, <2>5, TypeGroupsNext
<1>3. CASE PtyExits
  <2>1. StateType' /\ TasksType' /\ WireType' /\ DaemonType'
    BY <1>3, <1>0 DEF PtyExits, tvars, wvars, dvars, StateType, TasksType, WireType, DaemonType
  <2> QED
    BY <2>1, TypeGroupsNext
<1> QED
  BY <1>1, <1>2, <1>3

LEMMA TypeStep == TypeOK /\ WireInv /\ DaemonInv /\ [Next]_vars => TypeOK'
<1>1. ASSUME TypeOK, UNCHANGED vars
      PROVE  TypeOK'
  BY <1>1 DEF TypeOK, vars, svars, tvars, wvars, dvars
<1> QED
  BY <1>1, ServeType, DaemonSideType, SupervisorSideType DEF Next

(* A connection is opened once. *)
LEMMA OpenedStays ==
  ASSUME TypeOK, [Next]_vars
  PROVE  \A k \in Conns : task[k] # "none" => task'[k] # "none"
<1>0. task \in [Conns -> {"none", "open", "checked", "gone"}]
  BY DEF TypeOK
<1>u. ASSUME task' = task
      PROVE  \A k \in Conns : task[k] # "none" => task'[k] # "none"
  BY <1>u
<1>e. ASSUME NEW j, NEW x, x # "none", task' = [task EXCEPT ![j] = x]
      PROVE  \A k \in Conns : task[k] # "none" => task'[k] # "none"
  BY <1>e, <1>0
<1>1. ASSUME NEW k \in Conns, ServeStep(k)
      PROVE  \/ task' = task
             \/ \E x : x # "none" /\ task' = [task EXCEPT ![k] = x]
  BY <1>1 DEF ServeStep, ServeAttach, ServeResume, ServeValidate, ServeCommit, ServeReset,
       EnsureCurrentController, ActOnRequest, Refuse, tvars
<1>2. ASSUME NEW k \in Conns, TaskEnds(k)
      PROVE  task' = [task EXCEPT ![k] = "gone"]
  BY <1>2 DEF TaskEnds
<1>3. ASSUME (\E full \in SUBSET Conns : Broadcast(full)) \/ PtyExits
      PROVE  task' = task
  BY <1>3 DEF Broadcast, PtyExits, tvars
<1>4. ASSUME \/ DaemonStep \/ DaemonCrash \/ StartRequest("input", NoDev)
             \/ \E kind \in DeviceOps, dev \in Devices : StartRequest(kind, dev)
      PROVE  task' = task \/ \E k \in Conns : task' = [task EXCEPT ![k] = "open"]
  BY <1>4 DEF DaemonStep, DaemonCrash, StartRequest, Connect, ConnectGivesUp, AttachAccepted, AttachFails,
       ResetEnds, RequestEnds, StartResume, ResumeProceeds, ResumeCommitted, ResumeFails, Open, Send,
       NoMessage, tvars
<1>5. ASSUME UNCHANGED vars
      PROVE  task' = task
  BY <1>5 DEF vars, tvars
<1> QED
  BY <1>1, <1>2, <1>3, <1>4, <1>5, <1>u, <1>e DEF Next

(* The supervisor's steps leave the daemon alone. *)
LEMMA SupervisorSteps ==
  ASSUME \/ \E k \in Conns : ServeStep(k) \/ TaskEnds(k)
         \/ \E full \in SUBSET Conns : Broadcast(full)
         \/ PtyExits
  PROVE  UNCHANGED dvars
BY DEF ServeStep, ServeAttach, ServeResume, ServeValidate, ServeCommit, ServeReset, EnsureCurrentController,
   ActOnRequest, Refuse, Answer, TaskEnds, Broadcast, PtyExits

LEMMA DaemonInvStep == TypeOK /\ DaemonInv /\ [Next]_vars => DaemonInv'
<1> SUFFICES ASSUME TypeOK, DaemonInv, [Next]_vars
             PROVE  DaemonInv'
  OBVIOUS
<1>0. \A k \in Conns : task[k] # "none" => task'[k] # "none"
  BY OpenedStays
<1>t. cur \in Conns \cup {NoSlot} /\ cand \in Conns \cup {NoSlot} /\ tx \in Conns \cup {NoTx} /\ DaemonType
      /\ task \in [Conns -> {"none", "open", "checked", "gone"}]
  BY TypeGroups DEF TypeOK
<1>u. ASSUME UNCHANGED <<mode, cand, cur, tx, op>>
      PROVE  DaemonInv'
  BY <1>u, <1>0 DEF DaemonInv
<1>1. CASE (\E k \in Conns : ServeStep(k) \/ TaskEnds(k)) \/ (\E full \in SUBSET Conns : Broadcast(full)) \/ PtyExits
  <2>1. UNCHANGED dvars
    BY <1>1, SupervisorSteps
  <2> QED
    BY <2>1, <1>u DEF dvars
<1>o. ASSUME NEW k \in Conns, NEW r, NEW closed, Open(k, r, closed)
      PROVE  cand' = k /\ task'[k] # "none"
  BY <1>o, <1>t DEF Open
<1>2. CASE Connect
  BY <1>2, <1>o DEF Connect, DaemonInv, Waiting
<1>3. CASE ConnectGivesUp
  BY <1>3 DEF ConnectGivesUp, DaemonInv, Waiting
<1>4. CASE AttachAccepted
  BY <1>4, <1>0, <1>o DEF AttachAccepted, Received, DaemonInv, Waiting
<1>5. CASE AttachFails
  BY <1>5 DEF AttachFails, DaemonInv, Waiting
<1>6. CASE ResetEnds
  <2>1. mode' \in {"ready", "retry"} /\ UNCHANGED <<cur, tx, op>>
    BY <1>6 DEF ResetEnds
  <2>2. cur \in Conns /\ task'[cur] # "none"
    BY <1>6, <1>0 DEF ResetEnds, DaemonInv
  <2> QED
    BY <2>1, <2>2 DEF DaemonInv, Waiting
<1>e. ASSUME NEW outcome, EndRequest(outcome), UNCHANGED cur, cur \in Conns /\ task[cur] # "none"
      PROVE  DaemonInv'
  BY <1>e, <1>0, Constants DEF EndRequest, DaemonInv, Waiting
<1>7. CASE RequestEnds
  BY <1>7, <1>e DEF RequestEnds, Received, DaemonInv
<1>8. CASE StartResume
  BY <1>8, <1>0, <1>o DEF StartResume, DaemonInv, Waiting
<1>9. CASE ResumeProceeds
  <2>1. /\ mode \in {"resume", "validate"} /\ mode' \in {"validate", "commit"} /\ cand' = cand
        /\ UNCHANGED <<cur, tx, op>>
    BY <1>9 DEF ResumeProceeds, Received, Send
  <2> QED
    BY <2>1, <1>0 DEF DaemonInv, Waiting
<1>10. CASE ResumeCommitted
  <2>1. mode = "commit" /\ mode' = "op" /\ cand' = cand /\ cur' = cand /\ op' = op
    BY <1>10 DEF ResumeCommitted, Received, Send
  <2> QED
    BY <2>1, <1>0 DEF DaemonInv, Waiting
<1>11. CASE ResumeFails
  <2>1. mode \in {"resume", "validate", "commit"} /\ cur' = cur
    BY <1>11 DEF ResumeFails, Received, Eof
  <2>2. CASE tries < MaxResume
    BY <1>11, <2>1, <2>2, <1>0, <1>o DEF ResumeFails, DaemonInv, Waiting
  <2>3. CASE ~(tries < MaxResume)
    BY <1>11, <2>1, <2>3, <1>e DEF ResumeFails, DaemonInv
  <2> QED
    BY <2>2, <2>3
<1>12. ASSUME NEW kind \in DeviceOps \cup {"input"}, NEW dev \in Devices \cup {NoDev}, StartRequest(kind, dev),
              kind = "attach_device" => dev \in Devices
       PROVE  DaemonInv'
  <2>1. /\ mode = "ready" /\ mode' = "op" /\ cand' = cur /\ cur' = cur
        /\ op' = Request(kind, dev, None, NoTx, ops')
    BY <1>12 DEF StartRequest, Send
  <2>2. op'.kind = kind /\ op'.dev = dev
    BY <2>1 DEF Request
  <2> QED
    BY <1>12, <2>1, <2>2, <1>0 DEF DaemonInv, Waiting
<1>13. CASE StartRequest("input", NoDev)
  BY <1>12, <1>13
<1>14. ASSUME NEW kind \in DeviceOps, NEW dev \in Devices, StartRequest(kind, dev)
       PROVE  DaemonInv'
  BY <1>12, <1>14
<1>15. CASE DaemonCrash
  BY <1>15, Constants DEF DaemonCrash, DaemonInv, Waiting
<1>16. CASE UNCHANGED vars
  BY <1>16, <1>u DEF vars, dvars
<1> QED
  BY <1>1, <1>2, <1>3, <1>4, <1>5, <1>6, <1>7, <1>8, <1>9, <1>10, <1>11, <1>13, <1>14, <1>15, <1>16
     DEF Next, DaemonStep

(* What a request in a socket must be, at its place. *)
Proper(tk, r, i) ==
  /\ i # 1 => r.kind # "attach"
  /\ r.kind = "commit" => r.tx \in Conns /\ tk[r.tx] # "none"
  /\ r.kind = "attach_device" => r.dev \in Devices

LEMMA WireServes ==
  ASSUME TypeOK, WireInv, NEW k \in Conns, ServeStep(k)
  PROVE  WireInv'
<1>0. /\ task \in [Conns -> {"none", "open", "checked", "gone"}] /\ req \in [Conns -> Seq(Requests)]
      /\ committed \in [Conns -> Idents]
  BY DEF TypeOK
<1>1. task[k] \in {"open", "checked"} /\ req[k] # <<>>
  BY DEF ServeStep, ServeAttach, ServeResume, ServeValidate, ServeCommit, ServeReset, EnsureCurrentController,
     ActOnRequest, Serves, WireInv
<1>2. /\ \A j \in Conns : j # k => task'[j] = task[j]
      /\ task'[k] \in {"open", "checked"}
      /\ task'[k] = "checked" => req' = req /\ Head(req[k]).kind \in DeviceOps \cup {"input"}
      /\ req' = req \/ req' = [req EXCEPT ![k] = Tail(@)]
  <2>1. CASE EnsureCurrentController(k)
    BY <2>1, <1>0, <1>1 DEF EnsureCurrentController, Serves, Refuse, Answer, tvars, wvars
  <2>2. CASE ActOnRequest(k)
    BY <2>2, <1>0, <1>1 DEF ActOnRequest, Answer
  <2>3. CASE ~EnsureCurrentController(k) /\ ~ActOnRequest(k)
    <3>1. task' = task /\ task[k] = "open" /\ req' = [req EXCEPT ![k] = Tail(@)]
      BY <2>3 DEF ServeStep, ServeAttach, ServeResume, ServeValidate, ServeCommit, ServeReset, Serves, Refuse,
           Answer, tvars
    <3> QED
      BY <3>1
  <2> QED
    BY <2>1, <2>2, <2>3
<1>3. \A t \in Conns : committed'[t] # committed[t] => task[t] # "none"
  <2>1. CASE ServeCommit(k) /\ ~Refuse(k)
    <3>1. /\ Head(req[k]) = req[k][1] /\ 1 \in 1 .. Len(req[k])
      BY <1>0, <1>1
    <3>2. task[Head(req[k]).tx] # "none"
      BY <2>1, <3>1 DEF ServeCommit, Serves, WireInv
    <3>3. \E w : committed' = [committed EXCEPT ![Head(req[k]).tx] = w]
      BY <2>1 DEF ServeCommit
    <3> QED
      BY <3>2, <3>3, <1>0
  <2>2. CASE ~ServeCommit(k) \/ Refuse(k)
    <3>1. committed' = committed
      BY <2>2 DEF ServeStep, ServeAttach, ServeResume, ServeValidate, ServeCommit, ServeReset,
           EnsureCurrentController, ActOnRequest, Refuse, svars
    <3> QED
      BY <3>1
  <2> QED
    BY <2>1, <2>2
<1>4. \A j \in Conns : j # k => req'[j] = req[j]
  BY <1>0, <1>2
<1>5. \A j \in Conns : task'[j] = "none" <=> task[j] = "none"
  BY <1>1, <1>2
<1>6. \A i \in 1 .. Len(req'[k]) : \E h \in 1 .. Len(req[k]) : req'[k][i] = req[k][h] /\ (i # 1 => h # 1)
  <2>1. CASE req' = req
    BY <2>1
  <2>2. CASE req' = [req EXCEPT ![k] = Tail(@)]
    <3>1. req'[k] = Tail(req[k]) /\ req[k] \in Seq(Requests)
      BY <2>2, <1>0
    <3>2. Len(Tail(req[k])) = Len(req[k]) - 1 /\ Len(req[k]) \in Nat
      BY <3>1, <1>1
    <3>3. \A i \in 1 .. Len(req[k]) - 1 : Tail(req[k])[i] = req[k][i + 1]
      BY <3>1, <1>1
    <3> QED
      BY <3>1, <3>2, <3>3
  <2> QED
    BY <1>2, <2>1, <2>2
<1>7. \A j \in Conns : task'[j] = "none" => req'[j] = <<>> /\ committed'[j] = None
  BY <1>1, <1>3, <1>4, <1>5 DEF WireInv
<1>8. \A j \in Conns : task'[j] = "checked" => req'[j] # <<>> /\ Head(req'[j]).kind \in DeviceOps \cup {"input"}
  BY <1>1, <1>2, <1>4 DEF WireInv
<1>9. \A j \in Conns : \A i \in 1 .. Len(req'[j]) : Proper(task', req'[j][i], i)
  <2> SUFFICES ASSUME NEW j \in Conns, NEW i \in 1 .. Len(req'[j])
               PROVE  Proper(task', req'[j][i], i)
    OBVIOUS
  <2>1. PICK h \in 1 .. Len(req[j]) : req'[j][i] = req[j][h] /\ (i # 1 => h # 1)
    BY <1>4, <1>6
  <2>2. Proper(task, req[j][h], h)
    BY DEF WireInv, Proper
  <2> QED
    BY <2>1, <2>2, <1>5 DEF Proper
<1> QED
  BY <1>7, <1>8, <1>9 DEF WireInv, Proper

LEMMA WireTaskEnds ==
  ASSUME TypeOK, WireInv, NEW k \in Conns, TaskEnds(k)
  PROVE  WireInv'
<1>0. /\ task \in [Conns -> {"none", "open", "checked", "gone"}] /\ req \in [Conns -> Seq(Requests)]
  BY DEF TypeOK
<1>1. /\ task' = [task EXCEPT ![k] = "gone"] /\ task[k] = "open" /\ req' = [req EXCEPT ![k] = <<>>]
      /\ committed' = committed
  BY DEF TaskEnds, TaskMayEnd
<1>2. \A j \in Conns : /\ j # k => task'[j] = task[j] /\ req'[j] = req[j]
                       /\ task'[k] = "gone" /\ req'[k] = <<>>
  BY <1>0, <1>1
<1>3. \A j \in Conns : task'[j] = "none" <=> task[j] = "none"
  BY <1>1, <1>2
<1>4. \A j \in Conns : \A i \in 1 .. Len(req'[j]) : Proper(task', req'[j][i], i)
  <2> SUFFICES ASSUME NEW j \in Conns, NEW i \in 1 .. Len(req'[j])
               PROVE  Proper(task', req'[j][i], i)
    OBVIOUS
  <2>1. j # k
    BY <1>2
  <2>2. Proper(task, req[j][i], i)
    BY <2>1, <1>2 DEF WireInv, Proper
  <2> QED
    BY <2>1, <2>2, <1>2, <1>3 DEF Proper
<1> QED
  BY <1>1, <1>2, <1>3, <1>4 DEF WireInv, Proper

(* A message to the supervisor: a connection opened with its first         *)
(* request, or one more request on a connection that is open.              *)
LEMMA WireOpens ==
  ASSUME TypeOK, WireInv, NEW k \in Conns, NEW r, NEW closed, Open(k, r, closed),
         r.kind \in {"attach", "reset", "resume"}
  PROVE  WireInv'
<1>0. /\ task \in [Conns -> {"none", "open", "checked", "gone"}] /\ req \in [Conns -> Seq(Requests)]
  BY DEF TypeOK
<1>1. /\ task' = [task EXCEPT ![k] = "open"] /\ task[k] = "none" /\ req' = [req EXCEPT ![k] = <<r>>]
      /\ committed' = committed
  BY DEF Open, Fresh, svars
<1>2. /\ \A j \in Conns : j # k => task'[j] = task[j] /\ req'[j] = req[j]
      /\ task'[k] = "open" /\ req'[k] = <<r>>
  BY <1>0, <1>1
<1>3. \A j \in Conns : \A i \in 1 .. Len(req'[j]) : Proper(task', req'[j][i], i)
  <2> SUFFICES ASSUME NEW j \in Conns, NEW i \in 1 .. Len(req'[j])
               PROVE  Proper(task', req'[j][i], i)
    OBVIOUS
  <2>1. CASE j = k
    <3>1. i = 1 /\ req'[j][i] = r
      BY <2>1, <1>2
    <3> QED
      BY <3>1 DEF Proper
  <2>2. CASE j # k
    <3>1. Proper(task, req[j][i], i)
      BY <2>2, <1>2 DEF WireInv, Proper
    <3> QED
      BY <2>2, <3>1, <1>2 DEF Proper
  <2> QED
    BY <2>1, <2>2
<1> QED
  BY <1>1, <1>2, <1>3 DEF WireInv, Proper

LEMMA WireSends ==
  ASSUME TypeOK, WireInv, NEW k \in Conns, NEW r \in Requests, Send(k, r), task[k] # "none",
         \A i \in Nat : Proper(task, r, i)
  PROVE  WireInv'
<1>0. /\ task \in [Conns -> {"none", "open", "checked", "gone"}] /\ req \in [Conns -> Seq(Requests)]
  BY DEF TypeOK
<1>1. /\ task' = task /\ committed' = committed
      /\ req' = [req EXCEPT ![k] = IF task[k] = "gone" THEN <<>> ELSE Append(@, r)]
  BY DEF Send, svars, tvars
<1>2. /\ \A j \in Conns : j # k => req'[j] = req[j]
      /\ req'[k] = IF task[k] = "gone" THEN <<>> ELSE Append(req[k], r)
  BY <1>0, <1>1
<1>3. \A j \in Conns : \A i \in 1 .. Len(req'[j]) : Proper(task', req'[j][i], i)
  <2> SUFFICES ASSUME NEW j \in Conns, NEW i \in 1 .. Len(req'[j])
               PROVE  Proper(task', req'[j][i], i)
    OBVIOUS
  <2>1. CASE j = k /\ task[k] # "gone"
    <3>1. req[k] \in Seq(Requests) /\ req'[k] = Append(req[k], r)
      BY <2>1, <1>0, <1>2
    <3>2. Len(req'[k]) = Len(req[k]) + 1
      BY <3>1
    <3>3. i \in Nat
      OBVIOUS
    <3>4. \/ i \in 1 .. Len(req[k]) /\ req'[k][i] = req[k][i]
          \/ req'[k][i] = r
      BY <2>1, <3>1, <3>2
    <3> QED
      BY <2>1, <3>3, <3>4, <1>1 DEF WireInv, Proper
  <2>2. CASE j # k
    BY <2>2, <1>1, <1>2 DEF WireInv, Proper
  <2>3. CASE j = k /\ task[k] = "gone"
    BY <2>3, <1>2
  <2> QED
    BY <2>1, <2>2, <2>3
<1>4. \A j \in Conns : task'[j] = "none" => req'[j] = <<>> /\ committed'[j] = None
  BY <1>1, <1>2 DEF WireInv
<1>5. \A j \in Conns : task'[j] = "checked" => req'[j] # <<>> /\ Head(req'[j]).kind \in DeviceOps \cup {"input"}
  <2> SUFFICES ASSUME NEW j \in Conns, task[j] = "checked"
               PROVE  req'[j] # <<>> /\ Head(req'[j]).kind \in DeviceOps \cup {"input"}
    BY <1>1
  <2>1. req[j] # <<>> /\ Head(req[j]).kind \in DeviceOps \cup {"input"}
    BY DEF WireInv
  <2>2. CASE j = k
    <3>1. req[k] \in Seq(Requests) /\ req'[k] = Append(req[k], r)
      BY <2>2, <1>0, <1>2
    <3>2. Head(req'[k]) = Head(req[k]) /\ req'[k] # <<>>
      BY <3>1, <2>1, <2>2
    <3> QED
      BY <3>2, <2>1, <2>2
  <2>3. CASE j # k
    BY <2>1, <2>3, <1>2
  <2> QED
    BY <2>2, <2>3
<1> QED
  BY <1>3, <1>4, <1>5 DEF WireInv, Proper

LEMMA WireInvStep == TypeOK /\ WireInv /\ DaemonInv /\ [Next]_vars => WireInv'
<1> SUFFICES ASSUME TypeOK, WireInv, DaemonInv, [Next]_vars
             PROVE  WireInv'
  OBVIOUS
<1>u. ASSUME UNCHANGED <<task, req, committed>>
      PROVE  WireInv'
  BY <1>u DEF WireInv
<1>t. DaemonType
  BY TypeGroups
<1>n. ASSUME NEW closed, NoMessage(closed)
      PROVE  WireInv'
  BY <1>n, <1>u DEF NoMessage, svars, tvars
<1>1. ASSUME (\E full \in SUBSET Conns : Broadcast(full)) \/ PtyExits
      PROVE  WireInv'
  BY <1>1, <1>u DEF Broadcast, PtyExits, tvars, wvars
<1>2. CASE Connect
  BY <1>2, WireOpens DEF Connect, Request
<1>3. CASE ConnectGivesUp
  BY <1>3, <1>u DEF ConnectGivesUp, svars, tvars, wvars
<1>4. CASE AttachAccepted
  BY <1>4, WireOpens DEF AttachAccepted, Request
<1>5. CASE AttachFails \/ ResetEnds \/ RequestEnds
  BY <1>5, <1>n DEF AttachFails, ResetEnds, RequestEnds
<1>6. CASE StartResume
  BY <1>6, WireOpens DEF StartResume, Request
<1>7. CASE ResumeProceeds
  <2>1. cand \in Conns /\ task[cand] # "none" /\ tx \in Conns /\ task[tx] # "none"
    BY <1>7 DEF ResumeProceeds, Received, DaemonInv, Waiting
  <2>2. CASE Send(cand, Request("validate", NoDev, None, NoTx, ops))
    <3>1. \A i \in Nat : Proper(task, Request("validate", NoDev, None, NoTx, ops), i)
      BY DEF Proper, Request
    <3> QED
      BY <2>1, <2>2, <3>1, <1>t, WireSends, SentTypes
  <2>3. CASE Send(cand, Request("commit", NoDev, None, tx, ops))
    <3>1. \A i \in Nat : Proper(task, Request("commit", NoDev, None, tx, ops), i)
      BY <2>1 DEF Proper, Request
    <3> QED
      BY <2>1, <2>3, <3>1, <1>t, WireSends, SentTypes
  <2> QED
    BY <1>7, <2>2, <2>3 DEF ResumeProceeds
<1>o. ASSUME NEW r \in Requests, r.kind \in DeviceOps \cup {"input", "none"},
             r.kind = "attach_device" => r.dev \in Devices
      PROVE  \A i \in Nat : Proper(task, r, i)
  BY <1>o DEF Proper, DeviceOps
<1>8. CASE ResumeCommitted
  <2>1. cand \in Conns /\ task[cand] # "none" /\ Send(cand, op) /\ op \in Requests
    BY <1>8, <1>t DEF ResumeCommitted, Received, DaemonInv, Waiting, DaemonType
  <2>2. \A i \in Nat : Proper(task, op, i)
    BY <2>1, <1>o DEF DaemonInv
  <2> QED
    BY <2>1, <2>2, WireSends
<1>9. CASE ResumeFails
  BY <1>9, <1>n, WireOpens DEF ResumeFails, Request
<1>10. ASSUME NEW kind \in DeviceOps \cup {"input"}, NEW dev \in Devices \cup {NoDev}, StartRequest(kind, dev),
              kind = "attach_device" => dev \in Devices
       PROVE  WireInv'
  <2>1. /\ mode = "ready" /\ Send(cur, op') /\ op' = Request(kind, dev, None, NoTx, ops') /\ ops' = ops + 1
    BY <1>10 DEF StartRequest
  <2>2. cur \in Conns /\ task[cur] # "none"
    BY <2>1 DEF DaemonInv
  <2>3. ops' \in Nat
    BY <2>1, <1>t DEF DaemonType
  <2>4. op' \in Requests /\ op'.kind = kind /\ op'.dev = dev
    BY SMTT(30), <2>1, <2>3, <1>t, SentTypes
  <2>5. \A i \in Nat : Proper(task, op', i)
    BY <2>4, <1>10, <1>o
  <2> QED
    BY <2>1, <2>2, <2>4, <2>5, WireSends
<1>11. CASE StartRequest("input", NoDev)
  BY <1>10, <1>11
<1>12. ASSUME NEW kind \in DeviceOps, NEW dev \in Devices, StartRequest(kind, dev)
       PROVE  WireInv'
  BY <1>10, <1>12
<1>13. CASE DaemonCrash
  BY <1>13, <1>u DEF DaemonCrash, svars, tvars
<1>14. CASE UNCHANGED vars
  BY <1>14, <1>u DEF vars, svars, tvars, wvars
<1> QED
  BY <1>1, <1>2, <1>3, <1>4, <1>5, <1>6, <1>7, <1>8, <1>9, <1>11, <1>12, <1>13, <1>14, WireServes, WireTaskEnds
     DEF Next, DaemonStep

(* The budget of controller ids, over one step. *)
LEMMA CountStep ==
  ASSUME TypeOK, TypeOK', IdsInv,
         \/ nextId' = nextId /\ Asking' \subseteq Asking /\ Opened \subseteq Opened'
         \/ \E k \in Asking : nextId' = nextId + 1 /\ Asking' \subseteq Asking \ {k} /\ Opened \subseteq Opened'
         \/ \E k \in Conns \ Opened :
              nextId' = nextId /\ Asking' \subseteq Asking \cup {k} /\ Opened \cup {k} \subseteq Opened'
  PROVE  /\ nextId' + Cardinality(Asking') <= 1 + Cardinality(Opened')
         /\ Cardinality(Opened') <= MaxConn /\ Cardinality(Opened') \in Nat /\ Cardinality(Asking') \in Nat
<1>0. IsFiniteSet(Conns) /\ Cardinality(Conns) = MaxConn
  BY FS_Interval, SupervisorControlAssumption DEF Conns
<1>1. /\ Asking \in SUBSET Conns /\ Opened \in SUBSET Conns
      /\ Asking' \in SUBSET Conns /\ Opened' \in SUBSET Conns
  BY DEF Asking, Opened
<1>f. /\ IsFiniteSet(Asking) /\ IsFiniteSet(Opened) /\ IsFiniteSet(Asking') /\ IsFiniteSet(Opened')
  BY <1>0, <1>1, FS_Subset
<1>c. ASSUME NEW S, NEW T, IsFiniteSet(T), S \subseteq T
      PROVE  Cardinality(S) <= Cardinality(T) /\ Cardinality(S) \in Nat /\ Cardinality(T) \in Nat
  <2>1. S \in SUBSET T
    BY <1>c
  <2>2. IsFiniteSet(S)
    BY <2>1, <1>c, FS_Subset
  <2>3. Cardinality(S) <= Cardinality(T)
    BY <2>1, <1>c, FS_Subset
  <2> QED
    BY <2>2, <2>3, <1>c, FS_CardinalityType
<1>2. /\ Cardinality(Asking) \in Nat /\ Cardinality(Opened) \in Nat
      /\ Cardinality(Asking') \in Nat /\ Cardinality(Opened') \in Nat
      /\ Cardinality(Opened') <= MaxConn
  BY <1>0, <1>1, <1>f, <1>c
<1>3. nextId \in Nat /\ nextId' \in Nat /\ nextId + Cardinality(Asking) <= 1 + Cardinality(Opened)
  BY DEF TypeOK, IdsInv
<1>4. CASE nextId' = nextId /\ Asking' \subseteq Asking /\ Opened \subseteq Opened'
  <2>1. Cardinality(Asking') <= Cardinality(Asking) /\ Cardinality(Opened) <= Cardinality(Opened')
    BY <1>4, <1>f, <1>c
  <2> QED
    BY <2>1, <1>2, <1>3, <1>4
<1>5. ASSUME NEW k \in Asking, nextId' = nextId + 1, Asking' \subseteq Asking \ {k}, Opened \subseteq Opened'
      PROVE  nextId' + Cardinality(Asking') <= 1 + Cardinality(Opened')
  <2>1. IsFiniteSet(Asking \ {k}) /\ Cardinality(Asking \ {k}) = Cardinality(Asking) - 1
    BY <1>f, FS_RemoveElement
  <2>2. Cardinality(Asking') <= Cardinality(Asking \ {k}) /\ Cardinality(Opened) <= Cardinality(Opened')
    BY <2>1, <1>5, <1>f, <1>c
  <2> QED
    BY <2>1, <2>2, <1>2, <1>3, <1>5
<1>6. ASSUME NEW k \in Conns \ Opened, nextId' = nextId, Asking' \subseteq Asking \cup {k},
             Opened \cup {k} \subseteq Opened'
      PROVE  nextId' + Cardinality(Asking') <= 1 + Cardinality(Opened')
  <2>1. IsFiniteSet(Opened \cup {k}) /\ Cardinality(Opened \cup {k}) = Cardinality(Opened) + 1
    BY <1>f, FS_AddElement
  <2>2. Cardinality(Opened \cup {k}) <= Cardinality(Opened')
    BY <1>6, <1>f, <1>c
  <2>3. /\ IsFiniteSet(Asking \cup {k})
        /\ Cardinality(Asking \cup {k}) = IF k \in Asking THEN Cardinality(Asking) ELSE Cardinality(Asking) + 1
    BY <1>f, FS_AddElement
  <2>4. Cardinality(Asking') <= Cardinality(Asking \cup {k})
    BY <2>3, <1>6, <1>c
  <2>5. Cardinality(Asking') <= Cardinality(Asking) + 1
    BY <2>3, <2>4, <1>2
  <2> QED
    BY <2>1, <2>2, <2>5, <1>2, <1>3, <1>6
<1> QED
  BY <1>2, <1>4, <1>5, <1>6

(* What serving a request does to the asking connections. *)
LEMMA AskingServed ==
  ASSUME TypeOK, WireInv, NEW k \in Conns, req[k] # <<>>,
         req' = [req EXCEPT ![k] = Tail(@)] \/ req' = [req EXCEPT ![k] = <<>>]
  PROVE  Asking' \subseteq Asking \ {k}
<1>0. req \in [Conns -> Seq(Requests)]
  BY DEF TypeOK
<1>1. \A j \in Conns : j # k => req'[j] = req[j]
  BY <1>0
<1>2. req'[k] # <<>> => Head(req'[k]).kind # "attach"
  <2>1. CASE req'[k] = <<>>
    BY <2>1
  <2>2. CASE req'[k] = Tail(req[k]) /\ req'[k] # <<>>
    <3>1. req[k] \in Seq(Requests) /\ Len(req[k]) \in Nat /\ Tail(req[k]) # <<>>
      BY <1>0, <2>2
    <3>2. Len(req[k]) >= 2 /\ Head(Tail(req[k])) = req[k][2]
      BY <3>1
    <3>3. 2 \in 1 .. Len(req[k])
      BY <3>1, <3>2
    <3>4. req[k][2].kind # "attach"
      BY <3>3 DEF WireInv
    <3> QED
      BY <2>2, <3>2, <3>4
  <2> QED
    BY <2>1, <2>2, <1>0
<1> QED
  BY <1>1, <1>2 DEF Asking

LEMMA IdsServe ==
  ASSUME TypeOK, TypeOK', WireInv, IdsInv, NEW k \in Conns, ServeStep(k)
  PROVE  IdsInv' /\ (ServeAttach(k) /\ ~exited => nextId \in Ids)
<1>0. /\ nextId \in Nat /\ nextConn \in Nat /\ lease \in Nat /\ active \in Idents
      /\ pending \in [Conns -> Idents] /\ committed \in [Conns -> Idents]
      /\ req \in [Conns -> Seq(Requests)] /\ task \in [Conns -> {"none", "open", "checked", "gone"}]
  BY DEF TypeOK
<1>o. Opened \subseteq Opened'
  BY OpenedStays DEF Opened, Next
<1>r. req[k] # <<>> /\ (req' = req \/ req' = [req EXCEPT ![k] = Tail(@)])
  BY DEF ServeStep, ServeAttach, ServeResume, ServeValidate, ServeCommit, ServeReset, EnsureCurrentController,
     ActOnRequest, Serves, WireInv, Refuse, Answer, wvars
<1>a. Asking' \subseteq Asking
  <2>1. CASE req' = req
    BY <2>1 DEF Asking
  <2>2. CASE req' = [req EXCEPT ![k] = Tail(@)]
    BY <2>2, <1>r, AskingServed
  <2> QED
    BY <1>r, <2>1, <2>2
<1>u. ASSUME UNCHANGED <<nextId, nextConn, lease, active, pending, committed>>
      PROVE  IdsInv'
  <2>1. nextId' + Cardinality(Asking') <= 1 + Cardinality(Opened')
    BY <1>u, <1>a, <1>o, CountStep
  <2> QED
    BY <1>u, <2>1 DEF IdsInv, Issued
<1>1. CASE ServeAttach(k) /\ ~exited
  <2>1. /\ nextId' = nextId + 1 /\ nextConn' = nextConn + 1 /\ active' = [id |-> nextId, conn |-> nextConn]
        /\ lease' = nextId /\ pending' = pending /\ committed' = committed
        /\ req' = [req EXCEPT ![k] = Tail(@)] /\ Head(req[k]).kind = "attach"
    BY <1>1 DEF ServeAttach, Serves, Answer
  <2>2. k \in Asking
    BY <2>1, <1>r DEF Asking
  <2>3. Asking' \subseteq Asking \ {k}
    BY <2>1, <1>r, AskingServed
  <2>4. /\ nextId' + Cardinality(Asking') <= 1 + Cardinality(Opened') /\ Cardinality(Opened') <= MaxConn
        /\ Cardinality(Opened') \in Nat /\ Cardinality(Asking') \in Nat
    BY <2>1, <2>2, <2>3, <1>o, CountStep
  <2>5. nextId >= 1 /\ nextConn >= 1 /\ lease < nextId
    BY DEF IdsInv
  <2>6. \A w : Issued(w) => Issued(w)'
    BY <2>1, <2>5, <1>0 DEF Issued
  <2>7. Issued(active)'
    BY <2>1, <2>5, <1>0 DEF Issued
  <2>8. \A j \in Conns : Issued(pending[j])' /\ Issued(committed[j])'
    BY <2>1, <2>6 DEF IdsInv, Issued
  <2>9. IdsInv'
    BY <2>1, <2>4, <2>5, <2>7, <2>8, <1>0 DEF IdsInv
  <2>10. nextId \in Ids
    BY <2>1, <2>4, <2>5, <1>0, SupervisorControlAssumption DEF Ids
  <2> QED
    BY <2>9, <2>10
<1>2. CASE ServeResume(k) /\ ~Refuse(k)
  <2> DEFINE id == Head(req[k]).who.id
  <2>1. /\ nextConn' = nextConn + 1 /\ pending' = [pending EXCEPT ![k] = [id |-> id, conn |-> nextConn]]
        /\ UNCHANGED <<nextId, lease, active, committed>> /\ id # 0 /\ ~(id >= nextId)
    BY <1>2 DEF ServeResume
  <2>2. id \in Nat
    <3>1. Head(req[k]) \in Requests
      BY <1>0, <1>r
    <3> QED
      BY <3>1 DEF Requests, Idents
  <2> HIDE DEF id
  <2>3. nextId' + Cardinality(Asking') <= 1 + Cardinality(Opened')
    BY <2>1, <1>a, <1>o, CountStep
  <2>5. nextId >= 1 /\ nextConn >= 1 /\ lease < nextId
    BY DEF IdsInv
  <2>6. \A w : Issued(w) => Issued(w)'
    BY <2>1, <2>5, <1>0 DEF Issued
  <2>7. \A j \in Conns : Issued(pending[j])'
    <3> SUFFICES ASSUME NEW j \in Conns
                 PROVE  Issued(pending[j])'
      OBVIOUS
    <3>1. CASE j = k
      BY <3>1, <2>1, <2>2, <2>5, <1>0 DEF Issued
    <3>2. CASE j # k
      <4>1. pending'[j] = pending[j] /\ Issued(pending[j])
        BY <3>2, <2>1, <1>0 DEF IdsInv
      <4> QED
        BY <4>1, <2>1, <1>0, <2>5 DEF Issued
    <3> QED
      BY <3>1, <3>2
  <2>8. \A j \in Conns : Issued(committed[j])'
    BY <2>1, <2>6 DEF IdsInv, Issued
  <2>9. Issued(active)'
    BY <2>1, <2>6 DEF IdsInv, Issued
  <2> QED
    BY <2>1, <2>3, <2>5, <2>7, <2>8, <2>9, <1>0 DEF IdsInv, ServeResume, Serves, ServeAttach
<1>3. CASE ServeCommit(k) /\ ~Refuse(k)
  <2> DEFINE t == Head(req[k]).tx
             who == IF committed[t] # None THEN committed[t] ELSE pending[k]
  <2>0. t \in Conns
    <3>1. Head(req[k]) = req[k][1] /\ 1 \in 1 .. Len(req[k])
      BY <1>0, <1>r
    <3> QED
      BY <3>1, <1>3 DEF ServeCommit, Serves, WireInv
  <2>1. /\ active' = who /\ committed' = [committed EXCEPT ![t] = who] /\ pending' = [pending EXCEPT ![k] = None]
        /\ UNCHANGED <<nextId, nextConn, lease>>
    BY <1>3 DEF ServeCommit
  <2>2. Issued(who)
    BY <2>0 DEF IdsInv
  <2> HIDE DEF t, who
  <2>3. nextId' + Cardinality(Asking') <= 1 + Cardinality(Opened')
    BY <2>1, <1>a, <1>o, CountStep
  <2>4. \A w : Issued(w) => Issued(w)'
    BY <2>1 DEF Issued
  <2>5. \A j \in Conns : Issued(pending[j])'
    <3> SUFFICES ASSUME NEW j \in Conns
                 PROVE  Issued(pending[j])'
      OBVIOUS
    <3>1. pending'[j] = None \/ (pending'[j] = pending[j] /\ Issued(pending[j]))
      BY <2>1, <1>0 DEF IdsInv
    <3> QED
      BY <3>1, <2>1 DEF Issued
  <2>6. \A j \in Conns : Issued(committed[j])'
    <3> SUFFICES ASSUME NEW j \in Conns
                 PROVE  Issued(committed[j])'
      OBVIOUS
    <3>1. committed'[j] = who \/ (committed'[j] = committed[j] /\ Issued(committed[j]))
      BY <2>1, <1>0 DEF IdsInv
    <3> QED
      BY <3>1, <2>1, <2>2 DEF Issued
  <2>7. Issued(active)'
    BY <2>1, <2>2 DEF Issued
  <2> QED
    BY <2>1, <2>3, <2>5, <2>6, <2>7, <1>0, <1>3 DEF IdsInv, ServeCommit, Serves, ServeAttach
<1>4. CASE ~(ServeAttach(k) /\ ~exited) /\ ~(ServeResume(k) /\ ~Refuse(k)) /\ ~(ServeCommit(k) /\ ~Refuse(k))
  <2>1. UNCHANGED <<nextId, nextConn, lease, active, pending, committed>>
    BY <1>4 DEF ServeStep, ServeAttach, ServeResume, ServeValidate, ServeCommit, ServeReset,
         EnsureCurrentController, ActOnRequest, Refuse, svars, tvars
  <2> QED
    BY <1>4, <2>1, <1>u
<1> QED
  BY <1>1, <1>2, <1>3, <1>4

(* A step that hands out no identity. *)
LEMMA IdsKept ==
  ASSUME TypeOK, TypeOK', IdsInv, UNCHANGED <<nextId, nextConn, lease, committed>>, active' \in {active, None},
         \A j \in Conns : pending'[j] \in {pending[j], None},
         \/ Asking' \subseteq Asking /\ Opened \subseteq Opened'
         \/ \E k \in Conns \ Opened : Asking' \subseteq Asking \cup {k} /\ Opened \cup {k} \subseteq Opened'
  PROVE  IdsInv'
<1>1. nextId' + Cardinality(Asking') <= 1 + Cardinality(Opened')
  BY CountStep
<1>2. Issued(active)'
  BY DEF IdsInv, Issued
<1>3. \A j \in Conns : Issued(pending[j])' /\ Issued(committed[j])'
  BY DEF IdsInv, Issued
<1> QED
  BY <1>1, <1>2, <1>3 DEF IdsInv

(* A new connection, and a request on one that is open. *)
LEMMA IdsOpens ==
  ASSUME TypeOK, TypeOK', IdsInv, NEW k \in Conns, NEW r, NEW closed, Open(k, r, closed)
  PROVE  IdsInv'
<1>0. /\ req \in [Conns -> Seq(Requests)] /\ task \in [Conns -> {"none", "open", "checked", "gone"}]
  BY DEF TypeOK
<1>1. /\ UNCHANGED <<nextId, nextConn, lease, committed, active, pending>>
      /\ req' = [req EXCEPT ![k] = <<r>>] /\ task' = [task EXCEPT ![k] = "open"] /\ task[k] = "none"
  BY DEF Open, svars, Fresh
<1>2. k \in Conns \ Opened /\ Opened \cup {k} \subseteq Opened'
  BY <1>0, <1>1 DEF Opened
<1>3. Asking' \subseteq Asking \cup {k}
  BY <1>0, <1>1 DEF Asking
<1> QED
  BY <1>1, <1>2, <1>3, IdsKept

LEMMA IdsSends ==
  ASSUME TypeOK, TypeOK', IdsInv, NEW k \in Conns, NEW r \in Requests, r.kind # "attach", Send(k, r)
  PROVE  IdsInv'
<1>0. req \in [Conns -> Seq(Requests)]
  BY DEF TypeOK
<1>1. UNCHANGED <<nextId, nextConn, lease, committed, active, pending, task>>
  BY DEF Send, svars, tvars
<1>2. Asking' \subseteq Asking
  <2> SUFFICES ASSUME NEW j \in Asking'
               PROVE  j \in Asking
    OBVIOUS
  <2>0. j \in Conns /\ req'[j] # <<>> /\ Head(req'[j]).kind = "attach"
    BY DEF Asking
  <2>1. CASE req'[j] = req[j]
    BY <2>0, <2>1 DEF Asking
  <2>2. CASE j = k /\ req'[k] = Append(req[k], r)
    <3>1. req[k] \in Seq(Requests)
      BY <1>0
    <3>2. req[k] = <<>> => Head(Append(req[k], r)) = r
      BY <3>1
    <3>3. req[k] # <<>> => Head(Append(req[k], r)) = Head(req[k])
      BY <3>1
    <3> QED
      BY <2>0, <2>2, <3>2, <3>3 DEF Asking
  <2>3. req'[j] = req[j] \/ (j = k /\ req'[k] = Append(req[k], r)) \/ req'[j] = <<>>
    BY <2>0, <1>0 DEF Send
  <2> QED
    BY <2>0, <2>1, <2>2, <2>3
<1>3. Opened \subseteq Opened'
  BY <1>1 DEF Opened
<1> QED
  BY <1>1, <1>2, <1>3, IdsKept

LEMMA IdsInvStep == TypeOK /\ TypeOK' /\ WireInv /\ DaemonInv /\ IdsInv /\ [Next]_vars => IdsInv'
<1> SUFFICES ASSUME TypeOK, TypeOK', WireInv, DaemonInv, IdsInv, [Next]_vars
             PROVE  IdsInv'
  OBVIOUS
<1>0. /\ req \in [Conns -> Seq(Requests)] /\ task \in [Conns -> {"none", "open", "checked", "gone"}]
      /\ pending \in [Conns -> Idents]
  BY DEF TypeOK
<1>t. DaemonType
  BY TypeGroups
<1>u. ASSUME UNCHANGED <<nextId, nextConn, lease, committed, pending, req, task>>, active' \in {active, None}
      PROVE  IdsInv'
  <2>1. Asking' \subseteq Asking /\ Opened \subseteq Opened'
    BY <1>u DEF Asking, Opened
  <2> QED
    BY <1>u, <2>1, IdsKept
<1>n. ASSUME NEW closed, NoMessage(closed)
      PROVE  IdsInv'
  BY <1>n, <1>u DEF NoMessage, svars, tvars
<1>0a. ASSUME NEW k \in Conns, TaskEnds(k)
       PROVE  IdsInv'
  <2>1. /\ UNCHANGED <<nextId, nextConn, lease, committed>> /\ pending' = [pending EXCEPT ![k] = None]
        /\ req' = [req EXCEPT ![k] = <<>>] /\ task' = [task EXCEPT ![k] = "gone"]
    BY <1>0a DEF TaskEnds
  <2>2. active' \in {active, None}
    BY <1>0a DEF TaskEnds, RemoveControllers
  <2>3. Asking' \subseteq Asking
    BY <2>1, <1>0 DEF Asking
  <2>4. Opened \subseteq Opened'
    BY <2>1, <1>0 DEF Opened
  <2>5. \A j \in Conns : pending'[j] \in {pending[j], None}
    BY <2>1, <1>0
  <2> QED
    BY <2>1, <2>2, <2>3, <2>4, <2>5, IdsKept
<1>1. ASSUME NEW full \in SUBSET Conns, Broadcast(full)
      PROVE  IdsInv'
  <2>1. UNCHANGED <<nextId, nextConn, lease, committed, pending, req, task>>
    BY <1>1 DEF Broadcast, wvars
  <2>2. active' \in {active, None}
    BY <1>1 DEF Broadcast, RemoveControllers
  <2> QED
    BY <2>1, <2>2, <1>u
<1>1a. CASE PtyExits
  BY <1>1a, <1>u DEF PtyExits, tvars, wvars
<1>2. CASE Connect
  BY <1>2, IdsOpens DEF Connect
<1>3. CASE ConnectGivesUp
  BY <1>3, <1>u DEF ConnectGivesUp, svars, tvars, wvars
<1>4. CASE AttachAccepted
  BY <1>4, IdsOpens DEF AttachAccepted
<1>5. CASE AttachFails \/ ResetEnds \/ RequestEnds
  BY <1>5, <1>n DEF AttachFails, ResetEnds, RequestEnds
<1>6. CASE StartResume
  BY <1>6, IdsOpens DEF StartResume
<1>7. CASE ResumeProceeds
  <2>1. cand \in Conns
    BY <1>7 DEF ResumeProceeds, Received, DaemonInv, Waiting
  <2>2. /\ Request("validate", NoDev, None, NoTx, ops).kind # "attach"
        /\ Request("commit", NoDev, None, tx, ops).kind # "attach"
    BY DEF Request
  <2> QED
    BY <1>7, <1>t, <2>1, <2>2, IdsSends, SentTypes DEF ResumeProceeds
<1>8. CASE ResumeCommitted
  <2>1. cand \in Conns /\ Send(cand, op) /\ op \in Requests /\ op.kind # "attach"
    BY <1>8, <1>t DEF ResumeCommitted, Received, DaemonInv, Waiting, DaemonType, DeviceOps
  <2> QED
    BY <2>1, IdsSends
<1>9. CASE ResumeFails
  BY <1>9, <1>n, IdsOpens DEF ResumeFails
<1>10. ASSUME NEW kind \in DeviceOps \cup {"input"}, NEW dev \in Devices \cup {NoDev}, StartRequest(kind, dev)
       PROVE  IdsInv'
  <2>1. /\ mode = "ready" /\ Send(cur, op') /\ op' = Request(kind, dev, None, NoTx, ops') /\ ops' = ops + 1
    BY <1>10 DEF StartRequest
  <2>2. cur \in Conns
    BY <2>1 DEF DaemonInv
  <2>3. ops' \in Nat
    BY <2>1, <1>t DEF DaemonType
  <2>4. op' \in Requests /\ op'.kind = kind
    BY ZenonT(30), <2>1, <2>3, <1>t, SentTypes
  <2>5. op'.kind # "attach"
    BY <2>4 DEF DeviceOps
  <2> QED
    BY <2>1, <2>2, <2>4, <2>5, IdsSends
<1>11. CASE StartRequest("input", NoDev)
  BY <1>10, <1>11
<1>12. ASSUME NEW kind \in DeviceOps, NEW dev \in Devices, StartRequest(kind, dev)
       PROVE  IdsInv'
  BY <1>10, <1>12
<1>13. CASE DaemonCrash
  BY <1>13, <1>u DEF DaemonCrash, svars, tvars
<1>14. CASE UNCHANGED vars
  BY <1>14, <1>u DEF vars, svars, tvars, wvars
<1> QED
  BY <1>0a, <1>1, <1>1a, <1>2, <1>3, <1>4, <1>5, <1>6, <1>7, <1>8, <1>9, <1>11, <1>12, <1>13, <1>14, IdsServe
     DEF Next, DaemonStep

(* The supervisor's registry: the active controller is in it. *)
LEMMA RegisteredStep ==
  TypeOK /\ TypeOK' /\ WireInv /\ IdsInv /\ ActiveIsRegistered /\ [Next]_vars => ActiveIsRegistered'
<1> SUFFICES ASSUME TypeOK, TypeOK', WireInv, IdsInv, ActiveIsRegistered, [Next]_vars
             PROVE  ActiveIsRegistered'
  OBVIOUS
<1>0. /\ controllers \in [Ids -> Handles] /\ active \in Idents /\ nextId \in Nat
      /\ req \in [Conns -> Seq(Requests)] /\ pending \in [Conns -> Idents] /\ committed \in [Conns -> Idents]
  BY DEF TypeOK
<1>i. ASSUME NEW w \in Idents, Issued(w), w # None
      PROVE  w.id \in Ids
  <2>1. w.id \in 1 .. (nextId - 1)
    BY <1>i DEF Issued
  <2>2. nextId <= 1 + MaxConn
    <3>1. nextId + Cardinality(Asking) <= 1 + Cardinality(Opened)
      BY DEF IdsInv
    <3>2. IsFiniteSet(Conns) /\ Cardinality(Conns) = MaxConn
      BY FS_Interval, SupervisorControlAssumption DEF Conns
    <3>3. Asking \in SUBSET Conns /\ Opened \in SUBSET Conns
      BY DEF Asking, Opened
    <3>4. IsFiniteSet(Asking) /\ IsFiniteSet(Opened) /\ Cardinality(Opened) <= Cardinality(Conns)
      BY <3>2, <3>3, FS_Subset
    <3>5. Cardinality(Asking) \in Nat /\ Cardinality(Opened) \in Nat
      BY <3>4, FS_CardinalityType
    <3> QED
      BY <3>1, <3>2, <3>4, <3>5, <1>0, SupervisorControlAssumption
  <2> QED
    BY <2>1, <2>2, <1>0, SupervisorControlAssumption DEF Ids
<1>u. ASSUME UNCHANGED <<active, controllers>>
      PROVE  ActiveIsRegistered'
  BY <1>u DEF ActiveIsRegistered
<1>r. ASSUME NEW gone, RemoveControllers(gone)
      PROVE  ActiveIsRegistered'
  <2> SUFFICES ASSUME active' # None
               PROVE  controllers'[active'.id].conn = active'.conn
    BY DEF ActiveIsRegistered
  <2>1. active' = active /\ active \notin gone
    BY <1>r DEF RemoveControllers
  <2>2. active.id \in Ids
    BY <2>1, <1>i, <1>0 DEF IdsInv
  <2>3. controllers[active.id].conn = active.conn
    BY <2>1 DEF ActiveIsRegistered
  <2>4. [id |-> active.id, conn |-> controllers[active.id].conn] = active
    BY <2>3, <1>0 DEF Idents
  <2>5. controllers'[active.id] = controllers[active.id]
    BY <2>1, <2>2, <2>4, <1>r DEF RemoveControllers
  <2> QED
    BY <2>1, <2>3, <2>5
<1>1. ASSUME NEW k \in Conns, ServeStep(k)
      PROVE  ActiveIsRegistered'
  <2>1. CASE ServeAttach(k) /\ ~exited
    <3>1. /\ active' = [id |-> nextId, conn |-> nextConn]
          /\ controllers' = [controllers EXCEPT ![nextId] = [conn |-> nextConn, slot |-> k]]
      BY <2>1 DEF ServeAttach
    <3>2. nextId \in Ids
      BY <2>1, <1>1, IdsServe
    <3> QED
      BY <3>1, <3>2, <1>0 DEF ActiveIsRegistered
  <2>2. CASE ServeCommit(k) /\ ~Refuse(k)
    <3> DEFINE t == Head(req[k]).tx
               who == IF committed[t] # None THEN committed[t] ELSE pending[k]
    <3>0. t \in Conns
      <4>1. Head(req[k]) = req[k][1] /\ 1 \in 1 .. Len(req[k])
        BY <1>0, <2>2 DEF ServeCommit, Serves
      <4> QED
        BY <4>1, <2>2 DEF ServeCommit, Serves, WireInv
    <3>1. /\ active' = who /\ controllers' = [controllers EXCEPT ![who.id] = [conn |-> who.conn, slot |-> k]]
      BY <2>2 DEF ServeCommit
    <3>2. Issued(who) /\ who \in Idents
      BY <3>0, <1>0 DEF IdsInv
    <3>3. who # None
      BY <2>2 DEF ServeCommit, MayCommit
    <3> HIDE DEF t, who
    <3>4. who.id \in Ids
      BY <3>2, <3>3, <1>i
    <3> QED
      BY <3>1, <3>4, <1>0 DEF ActiveIsRegistered
  <2>3. CASE ~(ServeAttach(k) /\ ~exited) /\ ~(ServeCommit(k) /\ ~Refuse(k))
    <3>1. UNCHANGED <<active, controllers>>
      BY <1>1, <2>3 DEF ServeStep, ServeAttach, ServeResume, ServeValidate, ServeCommit, ServeReset,
           EnsureCurrentController, ActOnRequest, Refuse, svars
    <3> QED
      BY <3>1, <1>u
  <2> QED
    BY <2>1, <2>2, <2>3
<1>2. ASSUME NEW k \in Conns, TaskEnds(k)
      PROVE  ActiveIsRegistered'
  BY <1>2, <1>u, <1>r DEF TaskEnds
<1>3. ASSUME NEW full \in SUBSET Conns, Broadcast(full)
      PROVE  ActiveIsRegistered'
  BY <1>3, <1>r DEF Broadcast
<1>4. CASE PtyExits
  BY <1>4, <1>u DEF PtyExits
<1>5. CASE DaemonStep
  <2>1. UNCHANGED svars
    BY <1>5 DEF DaemonStep, Connect, ConnectGivesUp, AttachAccepted, AttachFails, ResetEnds, RequestEnds,
         StartResume, ResumeProceeds, ResumeCommitted, ResumeFails, Open, Send, NoMessage
  <2> QED
    BY <2>1, <1>u DEF svars
<1>6. ASSUME NEW kind, NEW dev, StartRequest(kind, dev)
      PROVE  ActiveIsRegistered'
  BY <1>6, <1>u DEF StartRequest, Send, svars
<1>7. CASE DaemonCrash
  BY <1>7, <1>u DEF DaemonCrash, svars
<1>8. CASE UNCHANGED vars
  BY <1>8, <1>u DEF vars, svars
<1> QED
  BY <1>1, <1>2, <1>3, <1>4, <1>5, <1>6, <1>7, <1>8 DEF Next

(* Requests that never touch the authority. *)
Plain == DeviceOps \cup {"input", "reset", "validate", "none"}
Dialogue == {"attach", "resume", "validate", "commit"}

(* Connections are used once: nothing is left of them before and after. *)
UnusedInv ==
  /\ \A k \in Conns : task[k] = "none" => pending[k] = None
  /\ \A k \in Conns : task[k] = "gone" => req[k] = <<>>
  /\ inc = 0 => mode = "down" /\ nextId = 1 /\ \A k \in Conns : task[k] = "none"
  /\ mode # "down" => connects >= 1

(* A daemon that connected once: its attach, resume and commit are on the  *)
(* connection it waits on, and nothing else is in the way there ...        *)
Sole == inc = 1 /\ connects = 1 /\ mode \in Waiting \cup {"ready"}

SoleWire ==
  Sole =>
    /\ mode \in Dialogue =>
         /\ Len(req[cand]) <= 1
         /\ req[cand] # <<>> => /\ reply[cand] = NoReply
                                /\ Head(req[cand]).kind = mode
                                /\ mode = "commit" => Head(req[cand]).tx = tx
    /\ \A k \in Conns : \A i \in 1 .. Len(req[k]) :
         req[k][i].kind \in Plain \/ (k = cand /\ mode \in Dialogue)

(* ... so there is one controller id, and its connections only get newer:  *)
(* while it attaches, once it holds the session, when it sends a request   *)
(* again, while it resumes, and when the commit is answered.               *)
Attaching ==
  mode = "attach" =>
    /\ req[cand] # <<>> => nextId = 1
    /\ reply[cand].status = "ok" =>
         /\ nextId = 2 /\ lease = 1 /\ reply[cand].ident.id = 1 /\ reply[cand].ident.conn < nextConn
         /\ active \in {None, reply[cand].ident}
Holding ==
  mode # "attach" =>
    /\ nextId = 2 /\ lease = 1 /\ me.id = 1 /\ me.conn < nextConn
    /\ active # None => active.conn >= me.conn
SentAgain == mode = "op" /\ attempt > 1 => active \in {None, me}
Resuming ==
  mode \in {"resume", "validate", "commit"} =>
    /\ pending[cand] # None => pending[cand].conn >= me.conn
    /\ committed[tx] # None => committed[tx].conn >= me.conn
Committing ==
  mode = "commit" /\ reply[cand].status = "ok" =>
    /\ reply[cand].ident.id = 1 /\ reply[cand].ident.conn \in me.conn .. (nextConn - 1)
    /\ active \in {None, reply[cand].ident}
SoleAuth == Sole => Attaching /\ Holding /\ SentAgain /\ Resuming /\ Committing

(* What serving one request changes. *)
LEMMA ServeEffect ==
  ASSUME TypeOK, WireInv, NEW k \in Conns, ServeStep(k)
  PROVE  /\ task[k] \in {"open", "checked"} /\ req[k] # <<>>
         /\ task'[k] \in {"open", "checked"} /\ \A j \in Conns : j # k => task'[j] = task[j]
         /\ \/ req' = req /\ reply' = reply
            \/ req' = [req EXCEPT ![k] = Tail(@)]
         /\ \A j \in Conns : j # k => reply'[j] = reply[j]
         /\ \A j \in Conns : j # k => pending'[j] = pending[j]
<1>0. /\ task \in [Conns -> {"none", "open", "checked", "gone"}] /\ reply \in [Conns -> Replies]
      /\ pending \in [Conns -> Idents]
  BY DEF TypeOK
<1>1. task[k] \in {"open", "checked"} /\ req[k] # <<>>
  BY DEF ServeStep, ServeAttach, ServeResume, ServeValidate, ServeCommit, ServeReset, EnsureCurrentController,
     ActOnRequest, Serves, WireInv
<1>2. \/ task' = task \/ task' = [task EXCEPT ![k] = "checked"] \/ task' = [task EXCEPT ![k] = "open"]
  BY DEF ServeStep, ServeAttach, ServeResume, ServeValidate, ServeCommit, ServeReset, EnsureCurrentController,
     ActOnRequest, Refuse, tvars
<1>3. \/ req' = req /\ reply' = reply
      \/ req' = [req EXCEPT ![k] = Tail(@)] /\ \E x : reply' = [reply EXCEPT ![k] = x]
  BY DEF ServeStep, ServeAttach, ServeResume, ServeValidate, ServeCommit, ServeReset, EnsureCurrentController,
     ActOnRequest, Refuse, Answer, wvars
<1>4. pending' = pending \/ \E x : pending' = [pending EXCEPT ![k] = x]
  BY DEF ServeStep, ServeAttach, ServeResume, ServeValidate, ServeCommit, ServeReset, EnsureCurrentController,
     ActOnRequest, Refuse, tvars
<1> QED
  BY <1>0, <1>1, <1>2, <1>3, <1>4

LEMMA UnusedStep == TypeOK /\ WireInv /\ DaemonInv /\ UnusedInv /\ [Next]_vars => UnusedInv'
<1> SUFFICES ASSUME TypeOK, WireInv, DaemonInv, UnusedInv, [Next]_vars
             PROVE  UnusedInv'
  OBVIOUS
<1> DEFINE Gone == \A k \in Conns : task[k] = "gone" => req[k] = <<>>
           Idle == \A k \in Conns : task[k] = "none" => pending[k] = None
           Start == inc = 0 => mode = "down" /\ nextId = 1 /\ \A k \in Conns : task[k] = "none"
           Tried == mode # "down" => connects >= 1
<1>0. /\ task \in [Conns -> {"none", "open", "checked", "gone"}] /\ req \in [Conns -> Seq(Requests)]
      /\ pending \in [Conns -> Idents] /\ inc \in Nat /\ connects \in Nat
  BY DEF TypeOK
<1>i. Gone /\ Idle /\ Start /\ Tried
  BY DEF UnusedInv
<1>s. SUFFICES Gone' /\ Idle' /\ Start' /\ Tried'
  BY DEF UnusedInv
<1>u. ASSUME UNCHANGED <<task, req, pending, nextId>>, inc' = inc, inc = 0 => mode' = mode, Tried'
      PROVE  Gone' /\ Idle' /\ Start' /\ Tried'
  BY <1>u, <1>i
<1>1. ASSUME NEW k \in Conns, ServeStep(k)
      PROVE  Gone' /\ Idle' /\ Start' /\ Tried'
  <2>1. /\ task[k] \in {"open", "checked"} /\ req[k] # <<>>
        /\ task'[k] \in {"open", "checked"} /\ \A j \in Conns : j # k => task'[j] = task[j]
        /\ (req' = req \/ req' = [req EXCEPT ![k] = Tail(@)])
        /\ \A j \in Conns : j # k => pending'[j] = pending[j]
    BY <1>1, ServeEffect
  <2>2. UNCHANGED <<inc, mode, connects>>
    BY <1>1, SupervisorSteps DEF dvars
  <2>3. \A j \in Conns : j # k => req'[j] = req[j]
    BY <2>1, <1>0
  <2>4. Gone'
    BY <2>1, <2>3, <1>i
  <2>5. Idle'
    BY <2>1, <1>i
  <2>6. Start' /\ Tried'
    BY <2>1, <2>2, <1>i
  <2> QED
    BY <2>4, <2>5, <2>6
<1>2. ASSUME NEW k \in Conns, TaskEnds(k)
      PROVE  Gone' /\ Idle' /\ Start' /\ Tried'
  <2>1. /\ task' = [task EXCEPT ![k] = "gone"] /\ task[k] = "open" /\ req' = [req EXCEPT ![k] = <<>>]
        /\ pending' = [pending EXCEPT ![k] = None] /\ UNCHANGED <<inc, mode, connects>>
    BY <1>2 DEF TaskEnds, TaskMayEnd, dvars
  <2> QED
    BY <2>1, <1>0, <1>i
<1>3. ASSUME (\E full \in SUBSET Conns : Broadcast(full)) \/ PtyExits
      PROVE  Gone' /\ Idle' /\ Start' /\ Tried'
  <2>1. UNCHANGED <<task, req, pending, nextId, inc, mode, connects>>
    BY <1>3 DEF Broadcast, PtyExits, tvars, wvars, dvars
  <2> QED
    BY <2>1, <1>i, <1>u
<1>o. ASSUME NEW k \in Conns, NEW r, NEW closed, Open(k, r, closed)
      PROVE  Gone' /\ Idle'
  <2>1. /\ task' = [task EXCEPT ![k] = "open"] /\ req' = [req EXCEPT ![k] = <<r>>] /\ pending' = pending
    BY <1>o DEF Open
  <2> QED
    BY <2>1, <1>0, <1>i
<1>e. ASSUME NEW k, NEW r \in Requests, Send(k, r)
      PROVE  Gone' /\ Idle'
  <2>1. UNCHANGED <<task, pending>>
    BY <1>e DEF Send, tvars
  <2>2. \A j \in Conns : task[j] = "gone" => req'[j] = <<>>
    BY <1>e, <1>0, <1>i DEF Send
  <2> QED
    BY <2>1, <2>2, <1>i
<1>n. ASSUME NEW closed, NoMessage(closed)
      PROVE  UNCHANGED <<task, req, pending, nextId>>
  BY <1>n DEF NoMessage, svars, tvars
<1>m. ASSUME mode # "down", inc' = inc, mode' # "down" => connects' = connects
      PROVE  Start' /\ Tried'
  BY <1>m, <1>i
<1>4. CASE Connect
  <2>1. Gone' /\ Idle'
    BY <1>4, <1>o DEF Connect
  <2>2. inc' # 0 /\ connects' >= 1
    BY <1>4, <1>0, <1>i DEF Connect
  <2> QED
    BY <2>1, <2>2
<1>5. CASE ConnectGivesUp
  BY <1>5, <1>u, <1>i DEF ConnectGivesUp, svars, tvars, wvars
<1>6. CASE AttachAccepted
  BY <1>6, <1>o, <1>m DEF AttachAccepted, Received
<1>7. CASE AttachFails
  BY <1>7, <1>n, <1>m, <1>i DEF AttachFails
<1>8. CASE ResetEnds
  BY <1>8, <1>n, <1>m, <1>i DEF ResetEnds
<1>9. CASE RequestEnds
  <2>1. mode # "down" /\ inc' = inc /\ connects' = connects
    BY <1>9 DEF RequestEnds, Received
  <2>2. UNCHANGED <<task, req, pending, nextId>>
    BY <1>9, <1>n DEF RequestEnds
  <2> QED
    BY <2>1, <2>2, <1>m, <1>i
<1>10. CASE StartResume
  BY <1>10, <1>o, <1>m DEF StartResume
<1>t. DaemonType
  BY TypeGroups
<1>11. CASE ResumeProceeds
  BY <1>11, <1>e, <1>m, <1>t, SentTypes DEF ResumeProceeds, Received
<1>12. CASE ResumeCommitted
  BY <1>12, <1>e, <1>m, <1>t DEF ResumeCommitted, Received, DaemonType
<1>13. CASE ResumeFails
  <2>1. mode # "down" /\ inc' = inc /\ connects' = connects
    BY <1>13 DEF ResumeFails, Received, Eof
  <2>2. CASE tries < MaxResume
    BY <1>13, <2>1, <2>2, <1>o, <1>m DEF ResumeFails
  <2>3. CASE ~(tries < MaxResume)
    <3>1. UNCHANGED <<task, req, pending, nextId>>
      BY <1>13, <2>3, <1>n DEF ResumeFails
    <3> QED
      BY <2>1, <3>1, <1>m, <1>i
  <2> QED
    BY <2>2, <2>3
<1>14. ASSUME NEW kind \in DeviceOps \cup {"input"}, NEW dev \in Devices \cup {NoDev}, StartRequest(kind, dev)
       PROVE  Gone' /\ Idle' /\ Start' /\ Tried'
  <2>1. /\ mode = "ready" /\ Send(cur, op') /\ op' = Request(kind, dev, None, NoTx, ops') /\ ops' = ops + 1
        /\ UNCHANGED <<inc, connects>>
    BY <1>14 DEF StartRequest
  <2>2. ops' \in Nat
    BY <2>1, <1>t DEF DaemonType
  <2>3. op' \in Requests
    BY <2>1, <2>2, <1>t, SentTypes
  <2> QED
    BY <2>1, <2>3, <1>e, <1>m
<1>15. CASE StartRequest("input", NoDev)
  BY <1>14, <1>15
<1>16. ASSUME NEW kind \in DeviceOps, NEW dev \in Devices, StartRequest(kind, dev)
       PROVE  Gone' /\ Idle' /\ Start' /\ Tried'
  BY <1>14, <1>16
<1>17. CASE DaemonCrash
  BY <1>17, <1>m, <1>i DEF DaemonCrash, svars, tvars
<1>18. CASE UNCHANGED vars
  BY <1>18, <1>u, <1>i DEF vars, svars, tvars, wvars, dvars
<1> QED
  BY <1>1, <1>2, <1>3, <1>4, <1>5, <1>6, <1>7, <1>8, <1>9, <1>10, <1>11, <1>12, <1>13, <1>15, <1>16, <1>17, <1>18
     DEF Next, DaemonStep

AllPlain(q) == \A k \in Conns : \A i \in 1 .. Len(q[k]) : q[k][i].kind \in Plain

LEMMA PlainOpens ==
  ASSUME TypeOK, NEW k \in Conns, NEW r \in Requests, NEW closed, Open(k, r, closed), AllPlain(req)
  PROVE  /\ r.kind \in Plain => AllPlain(req')
         /\ \A j \in Conns : \A i \in 1 .. Len(req'[j]) : req'[j][i].kind \in Plain \/ j = k
         /\ Len(req'[k]) <= 1 /\ Head(req'[k]) = r /\ reply'[k] = NoReply /\ cand' = k
<1>0. req \in [Conns -> Seq(Requests)]
  BY DEF TypeOK
<1>1. req' = [req EXCEPT ![k] = <<r>>] /\ reply' = [j \in Conns |-> NoReply] /\ cand' = k
  BY DEF Open
<1>2. /\ req'[k] = <<r>> /\ \A j \in Conns : j # k => req'[j] = req[j]
  BY <1>0, <1>1
<1>3. Len(req'[k]) = 1 /\ Head(req'[k]) = r /\ req'[k][1] = r
  BY <1>2
<1>4. \A j \in Conns : \A i \in 1 .. Len(req'[j]) : req'[j][i].kind \in Plain \/ j = k
  BY <1>2 DEF AllPlain
<1>5. ASSUME r.kind \in Plain
      PROVE  AllPlain(req')
  <2> SUFFICES ASSUME NEW j \in Conns, NEW i \in 1 .. Len(req'[j])
               PROVE  req'[j][i].kind \in Plain
    BY DEF AllPlain
  <2>1. CASE j = k
    <3>1. i = 1
      BY <2>1, <1>3
    <3> QED
      BY <3>1, <2>1, <1>3, <1>5
  <2>2. CASE j # k
    BY <2>2, <1>4
  <2> QED
    BY <2>1, <2>2
<1>6. reply'[k] = NoReply
  BY <1>1
<1>7. Len(req'[k]) <= 1
  <2>1. 1 <= 1
    OBVIOUS
  <2> QED
    BY <2>1, <1>3
<1>8. Head(req'[k]) = r /\ cand' = k
  BY <1>1, <1>3
<1> QED
  BY <1>4, <1>5, <1>6, <1>7, <1>8

LEMMA PlainSends ==
  ASSUME TypeOK, NEW k \in Conns, NEW r \in Requests, Send(k, r), AllPlain(req)
  PROVE  /\ r.kind \in Plain => AllPlain(req')
         /\ \A j \in Conns : \A i \in 1 .. Len(req'[j]) : req'[j][i].kind \in Plain \/ j = k
         /\ req[k] = <<>> => Len(req'[k]) <= 1 /\ (req'[k] # <<>> => Head(req'[k]) = r)
         /\ reply'[k] = NoReply /\ cand' = k
<1>0. req \in [Conns -> Seq(Requests)]
  BY DEF TypeOK
<1>1. reply'[k] = NoReply /\ cand' = k
  BY DEF Send
<1>2. /\ req'[k] = <<>> \/ req'[k] = Append(req[k], r)
      /\ \A j \in Conns : j # k => req'[j] = req[j]
  BY <1>0 DEF Send
<1>3. \A j \in Conns : \A i \in 1 .. Len(req'[j]) : req'[j][i].kind \in Plain \/ j = k
  BY <1>2 DEF AllPlain
<1>4. req[k] = <<>> => Len(req'[k]) <= 1 /\ (req'[k] # <<>> => Head(req'[k]) = r)
  <2>1. Len(Append(<<>>, r)) = 1 /\ Head(Append(<<>>, r)) = r /\ Len(<<>>) = 0 /\ 1 <= 1 /\ 0 <= 1
    OBVIOUS
  <2> QED
    BY <2>1, <1>2
<1>5. ASSUME r.kind \in Plain
      PROVE  AllPlain(req')
  <2> SUFFICES ASSUME NEW j \in Conns, NEW i \in 1 .. Len(req'[j])
               PROVE  req'[j][i].kind \in Plain
    BY DEF AllPlain
  <2>1. CASE j = k /\ req'[k] = Append(req[k], r)
    <3>1. req[k] \in Seq(Requests) /\ Len(req[k]) \in Nat
      BY <1>0
    <3>2. Len(Append(req[k], r)) = Len(req[k]) + 1
      BY <3>1
    <3>3. i \in 1 .. Len(req[k]) \/ i = Len(req[k]) + 1
      BY <3>1, <3>2, <2>1
    <3>4. CASE i \in 1 .. Len(req[k])
      <4>1. Append(req[k], r)[i] = req[k][i]
        BY <3>1, <3>4
      <4> QED
        BY <4>1, <2>1, <3>4 DEF AllPlain
    <3>5. CASE i = Len(req[k]) + 1
      <4>1. Append(req[k], r)[i] = r
        BY <3>1, <3>5
      <4> QED
        BY <4>1, <2>1, <1>5
    <3> QED
      BY <3>3, <3>4, <3>5
  <2>2. CASE j # k
    BY <2>2, <1>3
  <2>3. CASE j = k /\ req'[k] = <<>>
    BY <2>3
  <2> QED
    BY <2>1, <2>2, <2>3, <1>2
<1> QED
  BY <1>1, <1>3, <1>4, <1>5

(* Once the connection the daemon waits on has answered, or is gone, no    *)
(* socket holds a request that could touch the authority.                  *)
LEMMA SolePlain ==
  ASSUME TypeOK, DaemonInv, UnusedInv, SoleWire, Sole,
         mode \notin Dialogue \/ reply[cand] # NoReply \/ task[cand] = "gone"
  PROVE  AllPlain(req) /\ (mode \in Dialogue => req[cand] = <<>>)
<1>1. mode \in Dialogue => cand \in Conns
  BY DEF Dialogue, DaemonInv, Waiting
<1>2. mode \in Dialogue => req[cand] = <<>>
  BY <1>1 DEF SoleWire, UnusedInv
<1>3. ASSUME NEW k \in Conns, NEW i \in 1 .. Len(req[k])
      PROVE  req[k][i].kind \in Plain
  <2>1. CASE k = cand /\ mode \in Dialogue
    BY <2>1, <1>2, <1>3
  <2> QED
    BY <2>1, <1>3 DEF SoleWire
<1> QED
  BY <1>2, <1>3 DEF AllPlain

LEMMA SoleWireStep == TypeOK /\ WireInv /\ DaemonInv /\ UnusedInv /\ SoleWire /\ [Next]_vars => SoleWire'
<1> SUFFICES ASSUME TypeOK, WireInv, DaemonInv, UnusedInv, SoleWire, [Next]_vars, Sole'
             PROVE  SoleWire'
  BY DEF SoleWire
<1>0. /\ req \in [Conns -> Seq(Requests)] /\ reply \in [Conns -> Replies] /\ inc \in Nat /\ connects \in Nat
      /\ mode \in Modes
  BY DEF TypeOK
<1>t. DaemonType
  BY TypeGroups
<1>s. ASSUME mode' \in Dialogue =>
               /\ Len(req'[cand']) <= 1
               /\ req'[cand'] # <<>> => /\ reply'[cand'] = NoReply
                                        /\ Head(req'[cand']).kind = mode'
                                        /\ mode' = "commit" => Head(req'[cand']).tx = tx',
             \A k \in Conns : \A i \in 1 .. Len(req'[k]) :
                req'[k][i].kind \in Plain \/ (k = cand' /\ mode' \in Dialogue)
      PROVE  SoleWire'
  BY <1>s DEF SoleWire
<1>p. ASSUME AllPlain(req'), mode' \notin Dialogue
      PROVE  SoleWire'
  BY <1>p, <1>s DEF AllPlain
<1>v. ASSUME UNCHANGED dvars
      PROVE  Sole
  BY <1>v DEF Sole, dvars
<1>u. ASSUME UNCHANGED <<req, reply, dvars>>
      PROVE  SoleWire'
  BY <1>u DEF SoleWire, Sole, dvars
<1>1. ASSUME NEW k \in Conns, ServeStep(k)
      PROVE  SoleWire'
  <2>1. UNCHANGED dvars
    BY <1>1, SupervisorSteps
  <2>2. UNCHANGED <<mode, cand, tx>> /\ Sole
    BY <2>1, <1>v DEF dvars
  <2>3. CASE req' = req /\ reply' = reply
    BY <2>1, <2>3, <1>u
  <2>4. CASE req' = [req EXCEPT ![k] = Tail(@)]
    <3>1. /\ req[k] # <<>> /\ \A j \in Conns : j # k => reply'[j] = reply[j] /\ req'[j] = req[j]
      BY <1>1, <2>4, <1>0, ServeEffect
    <3>2. req'[k] = Tail(req[k]) /\ req[k] \in Seq(Requests) /\ Len(req[k]) \in Nat
      BY <2>4, <1>0
    <3>3. Len(req'[k]) = Len(req[k]) - 1 /\ \A i \in 1 .. Len(req'[k]) : req'[k][i] = req[k][i + 1]
      BY <3>1, <3>2
    <3>4. \A j \in Conns : \A i \in 1 .. Len(req'[j]) :
             req'[j][i].kind \in Plain \/ (j = cand' /\ mode' \in Dialogue)
      <4> SUFFICES ASSUME NEW j \in Conns, NEW i \in 1 .. Len(req'[j])
                   PROVE  req'[j][i].kind \in Plain \/ (j = cand' /\ mode' \in Dialogue)
        OBVIOUS
      <4>1. CASE j = k
        <5>1. i + 1 \in 1 .. Len(req[k]) /\ req'[j][i] = req[k][i + 1]
          BY <4>1, <3>2, <3>3
        <5> QED
          BY <5>1, <4>1, <2>2 DEF SoleWire
      <4>2. CASE j # k
        BY <4>2, <3>1, <2>2 DEF SoleWire
      <4> QED
        BY <4>1, <4>2
    <3>5. ASSUME mode \in Dialogue
          PROVE  /\ Len(req'[cand]) <= 1
                 /\ req'[cand] # <<>> => /\ reply'[cand] = NoReply /\ Head(req'[cand]).kind = mode
                                         /\ mode = "commit" => Head(req'[cand]).tx = tx
      <4>0. cand \in Conns
        BY <3>5 DEF DaemonInv, Dialogue, Waiting
      <4>1. CASE k = cand
        <5>1. Len(req[cand]) <= 1
          BY <3>5, <2>2 DEF SoleWire
        <5>0. Len(req[k]) # 0
          BY <3>1, <3>2
        <5>6. Len(req[k]) <= 1 /\ Len(req[k]) \in Nat
          BY <5>1, <4>1, <3>2
        <5>7. \A n \in Nat : n # 0 /\ n <= 1 => n = 1
          OBVIOUS
        <5>2. Len(req[k]) = 1
          BY <5>0, <5>6, <5>7
        <5>5. Tail(req[k]) \in Seq(Requests)
          BY <3>1, <3>2
        <5>4. Len(req'[cand]) = 0 /\ req'[cand] \in Seq(Requests)
          BY <5>2, <5>5, <4>1, <3>2, <3>3
        <5>3. req'[cand] = <<>>
          BY <5>4
        <5> QED
          BY <5>4, <5>3
      <4>2. CASE k # cand
        <5>1. reply'[cand] = reply[cand] /\ req'[cand] = req[cand]
          BY <4>0, <4>2, <3>1
        <5> QED
          BY <5>1, <3>5, <2>2 DEF SoleWire
      <4> QED
        BY <4>1, <4>2
    <3> QED
      BY <3>4, <3>5, <2>2, <1>s
  <2> QED
    BY <2>3, <2>4, <1>1, ServeEffect
<1>2. ASSUME NEW k \in Conns, TaskEnds(k)
      PROVE  SoleWire'
  <2>1. UNCHANGED dvars /\ req' = [req EXCEPT ![k] = <<>>]
    BY <1>2 DEF TaskEnds
  <2>2. UNCHANGED <<mode, cand, tx>> /\ Sole
    BY <2>1, <1>v DEF dvars
  <2>3. /\ req'[k] = <<>> /\ \A j \in Conns : j # k => req'[j] = req[j]
    BY <2>1, <1>0
  <2>4. \A j \in Conns : j # k => reply'[j] = reply[j]
    BY <1>2, <1>0 DEF TaskEnds
  <2>5. \A j \in Conns : \A i \in 1 .. Len(req'[j]) :
             req'[j][i].kind \in Plain \/ (j = cand' /\ mode' \in Dialogue)
    <3> SUFFICES ASSUME NEW j \in Conns, NEW i \in 1 .. Len(req'[j])
                 PROVE  req'[j][i].kind \in Plain \/ (j = cand' /\ mode' \in Dialogue)
      OBVIOUS
    <3>1. j # k
      BY <2>3
    <3> QED
      BY <3>1, <2>2, <2>3 DEF SoleWire
  <2>6. ASSUME mode \in Dialogue
        PROVE  /\ Len(req'[cand]) <= 1
               /\ req'[cand] # <<>> => /\ reply'[cand] = NoReply /\ Head(req'[cand]).kind = mode
                                       /\ mode = "commit" => Head(req'[cand]).tx = tx
    <3>0. cand \in Conns
      BY <2>6 DEF DaemonInv, Dialogue, Waiting
    <3>1. CASE k = cand
      BY <3>1, <2>3
    <3>2. CASE k # cand
      BY <3>0, <3>2, <2>2, <2>3, <2>4, <2>6 DEF SoleWire
    <3> QED
      BY <3>1, <3>2
  <2> QED
    BY <2>2, <2>5, <2>6, <1>s
<1>3. ASSUME (\E full \in SUBSET Conns : Broadcast(full)) \/ PtyExits
      PROVE  SoleWire'
  BY <1>3, <1>u DEF Broadcast, PtyExits, wvars
<1>o. ASSUME NEW k \in Conns, NEW r \in Requests, NEW closed, Open(k, r, closed), AllPlain(req),
             mode' \in Dialogue \ {"commit"}, r.kind = mode'
      PROVE  SoleWire'
  BY <1>o, <1>s, PlainOpens
<1>e. ASSUME NEW r \in Requests, Send(cand, r), cand \in Conns, AllPlain(req), req[cand] = <<>>,
             mode' \in Dialogue, r.kind = mode', mode' = "commit" => r.tx = tx'
      PROVE  SoleWire'
  BY <1>e, <1>s, PlainSends
<1>r. /\ Request("attach", NoDev, None, NoTx, ops).kind = "attach"
      /\ \A w : Request("reset", NoDev, w, NoTx, ops).kind = "reset"
      /\ Request("resume", NoDev, me, NoTx, ops).kind = "resume"
      /\ Request("validate", NoDev, None, NoTx, ops).kind = "validate"
      /\ Request("commit", NoDev, None, tx, ops).kind = "commit"
      /\ Request("commit", NoDev, None, tx, ops).tx = tx
  BY DEF Request
<1>4. CASE Connect
  <2>1. inc = 0 /\ mode' = "attach"
    BY <1>4, <1>0 DEF Connect, Sole, UnusedInv
  <2>2. AllPlain(req)
    BY <2>1 DEF AllPlain, UnusedInv, WireInv
  <2>3. PICK k \in Conns : Open(k, Request("attach", NoDev, None, NoTx, ops), {})
    BY <1>4 DEF Connect
  <2> QED
    BY <2>1, <2>2, <2>3, <1>t, <1>o, <1>r, SentTypes DEF Dialogue
<1>5. CASE ConnectGivesUp \/ AttachFails \/ DaemonCrash
  BY <1>5 DEF ConnectGivesUp, AttachFails, DaemonCrash, Sole, Waiting
<1>n. ASSUME NEW closed, NoMessage(closed)
      PROVE  req' = req
  BY <1>n DEF NoMessage
<1>a. ASSUME UNCHANGED <<inc, connects>>, mode # "down", mode # "retry", mode # "failed"
      PROVE  Sole
  BY <1>a, <1>0 DEF Sole, Modes
<1>6. CASE AttachAccepted
  <2>1. mode = "attach" /\ reply[cand] # NoReply /\ UNCHANGED <<inc, connects>> /\ mode' = "reset"
    BY <1>6 DEF AttachAccepted, Received, NoReply, Reply
  <2>2. AllPlain(req)
    BY <2>1, <1>a, SolePlain
  <2>3. PICK k \in Conns : Open(k, Request("reset", NoDev, me', NoTx, ops), {})
    BY <1>6 DEF AttachAccepted
  <2>4. me' \in Idents
    <3>1. cand \in Conns
      BY <2>1 DEF DaemonInv, Waiting
    <3> QED
      BY <3>1, <1>0, <1>6, Constants DEF AttachAccepted
  <2>5. AllPlain(req')
    BY <2>2, <2>3, <2>4, <1>r, <1>t, SentTypes, PlainOpens DEF Plain
  <2> QED
    BY <2>1, <2>5, <1>p DEF Dialogue
<1>7. CASE ResetEnds
  <2>1. mode = "reset" /\ UNCHANGED <<inc, connects>> /\ mode' \in {"ready", "retry"} /\ req' = req
    BY <1>7, <1>n DEF ResetEnds
  <2>2. AllPlain(req)
    BY <2>1, <1>a, SolePlain DEF Dialogue
  <2> QED
    BY <2>1, <2>2, <1>p DEF Dialogue
<1>8. CASE RequestEnds
  <2>1. mode = "op" /\ UNCHANGED <<inc, connects>> /\ mode' = "ready" /\ req' = req
    BY <1>8, <1>n DEF RequestEnds, Received, EndRequest
  <2>2. AllPlain(req)
    BY <2>1, <1>a, SolePlain DEF Dialogue
  <2> QED
    BY <2>1, <2>2, <1>p DEF Dialogue
<1>9. CASE StartResume
  <2>1. mode = "op" /\ UNCHANGED <<inc, connects>> /\ mode' = "resume"
    BY <1>9 DEF StartResume
  <2>2. AllPlain(req)
    BY <2>1, <1>a, SolePlain DEF Dialogue
  <2>3. PICK k \in Conns : Open(k, Request("resume", NoDev, me, NoTx, ops), {})
    BY <1>9 DEF StartResume
  <2> QED
    BY <2>1, <2>2, <2>3, <1>t, <1>o, <1>r, SentTypes DEF Dialogue
<1>10. CASE ResumeProceeds
  <2>1. /\ mode \in {"resume", "validate"} /\ reply[cand] # NoReply /\ UNCHANGED <<inc, connects, tx>>
        /\ mode' \in {"validate", "commit"}
    BY <1>10 DEF ResumeProceeds, Received, NoReply, Reply
  <2>2. cand \in Conns
    BY <2>1 DEF DaemonInv, Waiting
  <2>3. AllPlain(req) /\ req[cand] = <<>>
    BY <2>1, <1>a, SolePlain DEF Dialogue
  <2> QED
    BY <1>10, <2>1, <2>2, <2>3, <1>t, <1>e, <1>r, SentTypes DEF Dialogue, ResumeProceeds
<1>11. CASE ResumeCommitted
  <2>1. /\ mode = "commit" /\ reply[cand] # NoReply /\ UNCHANGED <<inc, connects>> /\ mode' = "op" /\ Send(cand, op)
    BY <1>11 DEF ResumeCommitted, Received, NoReply, Reply
  <2>2. cand \in Conns /\ op \in Requests /\ op.kind \in Plain
    BY <2>1, <1>t DEF DaemonInv, Waiting, DaemonType, Plain
  <2>3. AllPlain(req) /\ req[cand] = <<>>
    BY <2>1, <1>a, SolePlain DEF Dialogue
  <2>4. AllPlain(req')
    BY <2>1, <2>2, <2>3, PlainSends
  <2> QED
    BY <2>1, <2>4, <1>p DEF Dialogue
<1>12. CASE ResumeFails
  <2>1. /\ mode \in {"resume", "validate", "commit"} /\ UNCHANGED <<inc, connects>>
        /\ (reply[cand] # NoReply \/ task[cand] = "gone")
    BY <1>12 DEF ResumeFails, Received, Eof, NoReply, Reply
  <2>2. AllPlain(req)
    BY <2>1, <1>a, SolePlain
  <2>3. CASE tries < MaxResume
    <3>1. PICK k \in Conns : Open(k, Request("resume", NoDev, me, NoTx, ops), {cand})
      BY <1>12, <2>3 DEF ResumeFails
    <3>2. mode' = "resume"
      BY <1>12, <2>3 DEF ResumeFails
    <3> QED
      BY <2>2, <3>1, <3>2, <1>t, <1>o, <1>r, SentTypes DEF Dialogue
  <2>4. CASE ~(tries < MaxResume)
    <3>1. req' = req /\ mode' = "ready"
      BY <1>12, <2>4, <1>n DEF ResumeFails, EndRequest
    <3> QED
      BY <3>1, <2>2, <1>p DEF Dialogue
  <2> QED
    BY <2>3, <2>4
<1>13. ASSUME NEW kind \in DeviceOps \cup {"input"}, NEW dev \in Devices \cup {NoDev}, StartRequest(kind, dev)
       PROVE  SoleWire'
  <2>1. /\ mode = "ready" /\ Send(cur, op') /\ op' = Request(kind, dev, None, NoTx, ops') /\ ops' = ops + 1
        /\ UNCHANGED <<inc, connects>> /\ mode' = "op"
    BY <1>13 DEF StartRequest
  <2>2. ops' \in Nat /\ cur \in Conns
    BY <2>1, <1>t DEF DaemonType, DaemonInv
  <2>3. op' \in Requests /\ op'.kind = kind
    BY <2>1, <2>2, <1>t, SentTypes
  <2>4. AllPlain(req)
    BY <2>1, <1>a, SolePlain DEF Dialogue
  <2>5. AllPlain(req')
    BY <2>1, <2>2, <2>3, <2>4, PlainSends DEF Plain
  <2> QED
    BY <2>1, <2>5, <1>p DEF Dialogue
<1>14. CASE StartRequest("input", NoDev)
  BY <1>13, <1>14
<1>15. ASSUME NEW kind \in DeviceOps, NEW dev \in Devices, StartRequest(kind, dev)
       PROVE  SoleWire'
  BY <1>13, <1>15
<1>16. CASE UNCHANGED vars
  BY <1>16, <1>u DEF vars, wvars
<1> QED
  BY <1>1, <1>2, <1>3, <1>4, <1>5, <1>6, <1>7, <1>8, <1>9, <1>10, <1>11, <1>12, <1>14, <1>15, <1>16
     DEF Next, DaemonStep

(* An attach, resume or commit that is served is the one the daemon waits for. *)
LEMMA SoleServes ==
  ASSUME TypeOK, WireInv, DaemonInv, SoleWire, Sole, NEW k \in Conns, req[k] # <<>>, Head(req[k]).kind \notin Plain
  PROVE  /\ k = cand /\ mode \in Dialogue /\ Head(req[k]).kind = mode /\ reply[k] = NoReply /\ Tail(req[k]) = <<>>
         /\ mode = "commit" => Head(req[k]).tx = tx
<1>0. req[k] \in Seq(Requests)
  BY DEF TypeOK
<1>1. 1 \in 1 .. Len(req[k]) /\ Head(req[k]) = req[k][1]
  BY <1>0
<1>2. k = cand /\ mode \in Dialogue
  BY <1>1 DEF SoleWire
<1>3. /\ Len(req[k]) <= 1 /\ reply[k] = NoReply /\ Head(req[k]).kind = mode
      /\ mode = "commit" => Head(req[k]).tx = tx
  BY <1>2 DEF SoleWire
<1>4. Tail(req[k]) \in Seq(Requests) /\ Len(Tail(req[k])) = Len(req[k]) - 1 /\ Len(req[k]) \in Nat
  BY <1>0
<1>5. Len(req[k]) # 0
  BY <1>0
<1>6. \A n \in Nat : n # 0 /\ n <= 1 => n - 1 = 0
  OBVIOUS
<1>7. Len(Tail(req[k])) = 0
  BY <1>3, <1>4, <1>5, <1>6
<1>8. Tail(req[k]) = <<>>
  <2>1. \A q \in Seq(Requests) : Len(q) = 0 => q = <<>>
    OBVIOUS
  <2> QED
    BY <2>1, <1>4, <1>7
<1> QED
  BY <1>2, <1>3, <1>8

LEMMA SoleAuthStep ==
  TypeOK /\ TypeOK' /\ WireInv /\ DaemonInv /\ UnusedInv /\ IdsInv /\ SoleWire /\ SoleAuth /\ [Next]_vars => SoleAuth'
<1> SUFFICES ASSUME TypeOK, TypeOK', WireInv, DaemonInv, UnusedInv, IdsInv, SoleWire, SoleAuth, [Next]_vars, Sole'
             PROVE  SoleAuth'
  BY DEF SoleAuth
<1>0. /\ req \in [Conns -> Seq(Requests)] /\ reply \in [Conns -> Replies] /\ inc \in Nat /\ connects \in Nat
      /\ mode \in Modes /\ nextId \in Nat /\ nextConn \in Nat /\ lease \in Nat /\ active \in Idents /\ me \in Idents
      /\ pending \in [Conns -> Idents] /\ committed \in [Conns -> Idents] /\ attempt \in Nat
  BY DEF TypeOK
<1>c. /\ \A w \in Idents : w.id \in Nat /\ w.conn \in Nat
      /\ NoReply.status = "none" /\ Ok.status = "ok" /\ Err.status = "err"
      /\ \A w : Reply("ok", w).status = "ok" /\ Reply("ok", w).ident = w
  BY DEF Idents, NoReply, Ok, Err, Reply
<1>v. ASSUME UNCHANGED dvars
      PROVE  /\ Sole /\ UNCHANGED <<mode, cand, me, tx, attempt>>
             /\ Attaching /\ Holding /\ SentAgain /\ Resuming /\ Committing
             /\ mode \in Waiting => cand \in Conns
             /\ mode \in {"resume", "validate", "commit"} => tx \in Conns
  BY <1>v DEF Sole, dvars, SoleAuth, DaemonInv
<1>w. ASSUME UNCHANGED <<nextId, nextConn, lease, committed, dvars>>, active' \in {active, None},
             \A j \in Conns : pending'[j] \in {pending[j], None},
             \A j \in Conns : reply'[j].status = "ok" => reply'[j] = reply[j] \/ j # cand \/ mode \notin {"attach", "commit"},
             \A j \in Conns : req'[j] # <<>> => req[j] # <<>>
      PROVE  SoleAuth'
  <2>1. /\ Sole /\ UNCHANGED <<mode, cand, me, tx, attempt>>
        /\ Attaching /\ Holding /\ SentAgain /\ Resuming /\ Committing /\ (mode \in Waiting => cand \in Conns)
    BY <1>w, <1>v
  <2>2. Attaching'
    BY <2>1, <1>w DEF Attaching, Waiting
  <2>3. Holding' /\ SentAgain'
    BY <2>1, <1>w DEF Holding, SentAgain
  <2>4. Resuming'
    BY <2>1, <1>w DEF Resuming, Waiting
  <2>5. Committing'
    BY <2>1, <1>w DEF Committing, Waiting
  <2> QED
    BY <2>2, <2>3, <2>4, <2>5 DEF SoleAuth
<1>1. ASSUME NEW k \in Conns, ServeStep(k)
      PROVE  SoleAuth'
  <2>0. UNCHANGED dvars
    BY <1>1, SupervisorSteps
  <2>1. /\ Sole /\ UNCHANGED <<mode, cand, me, tx, attempt>>
        /\ Attaching /\ Holding /\ SentAgain /\ Resuming /\ Committing
        /\ mode \in Waiting => cand \in Conns
        /\ mode \in {"resume", "validate", "commit"} => tx \in Conns
    BY <2>0, <1>v
  <2>2. /\ req[k] # <<>> /\ ((req' = req /\ reply' = reply) \/ req' = [req EXCEPT ![k] = Tail(@)])
        /\ \A j \in Conns : j # k => reply'[j] = reply[j] /\ pending'[j] = pending[j]
    BY <1>1, ServeEffect
  <2>3. \A j \in Conns : req'[j] # <<>> => req[j] # <<>>
    BY <2>2, <1>0
  <2>h. ASSUME mode \in {"attach", "commit"}, k = cand
        PROVE  Head(req[k]).kind = mode
    BY <2>h, <2>1, <2>2 DEF SoleWire, Dialogue
  <2>n. ASSUME mode \in {"attach", "commit"}, k = cand
        PROVE  reply[k] = NoReply
    BY <2>n, <2>1, <2>2 DEF SoleWire, Dialogue
  <2>4. CASE Refuse(k)
    <3>1. UNCHANGED <<nextId, nextConn, lease, committed, active, pending>>
      BY <2>4 DEF Refuse, svars, tvars
    <3>2. reply'[k] \in {Err, reply[k]}
      BY <2>4, <1>0 DEF Refuse, Answer
    <3>3. \A j \in Conns : reply'[j].status = "ok" => reply'[j] = reply[j]
      BY <2>2, <3>2, <1>c
    <3> QED
      BY <2>0, <2>3, <3>1, <3>3, <1>w
  <2>5. CASE ~Refuse(k) /\ ServeAttach(k)
    <3>1. Head(req[k]).kind = "attach" /\ ~exited
      BY <2>5 DEF ServeAttach, Serves
    <3>2. k = cand /\ mode = "attach" /\ reply[k] = NoReply /\ Tail(req[k]) = <<>>
      BY <3>1, <2>1, <2>2, SoleServes DEF Plain, DeviceOps
    <3>3. nextId = 1
      BY <3>2, <2>1, <2>2 DEF Attaching
    <3> DEFINE new == [id |-> nextId, conn |-> nextConn]
    <3>4. /\ nextId' = nextId + 1 /\ nextConn' = nextConn + 1 /\ active' = new /\ lease' = nextId
          /\ Answer(k, Reply("ok", new))
      BY <2>5, <3>1 DEF ServeAttach
    <3>5. new.id = 1 /\ new.conn = nextConn
      BY <3>3
    <3> HIDE DEF new
    <3>6. reply'[k] \in {NoReply, Reply("ok", new)} /\ req'[k] = <<>>
      BY <3>2, <3>4, <1>0 DEF Answer
    <3>7. Attaching'
      BY <3>2, <3>3, <3>4, <3>5, <3>6, <2>1, <1>0, <1>c DEF Attaching
    <3>8. Holding' /\ SentAgain' /\ Resuming' /\ Committing'
      BY <3>2, <2>1 DEF Holding, SentAgain, Resuming, Committing
    <3> QED
      BY <3>7, <3>8 DEF SoleAuth
  <2>6. CASE ~Refuse(k) /\ ServeResume(k)
    <3>1. Head(req[k]).kind = "resume"
      BY <2>6 DEF ServeResume, Serves
    <3>2. k = cand /\ mode = "resume"
      BY <3>1, <2>1, <2>2, SoleServes DEF Plain, DeviceOps
    <3> DEFINE id == Head(req[k]).who.id
    <3>3. /\ nextConn' = nextConn + 1 /\ pending' = [pending EXCEPT ![k] = [id |-> id, conn |-> nextConn]]
          /\ UNCHANGED <<nextId, lease, active, committed>>
      BY <2>6 DEF ServeResume
    <3> HIDE DEF id
    <3>4. pending'[k].conn = nextConn
      BY <3>3, <1>0
    <3>5. Holding'
      BY <3>2, <3>3, <2>1, <1>0, <1>c DEF Holding
    <3>6. Resuming'
      BY <3>2, <3>3, <3>4, <2>1, <1>0, <1>c DEF Resuming, Holding
    <3>7. Attaching' /\ SentAgain' /\ Committing'
      BY <3>2, <2>1 DEF Attaching, SentAgain, Committing
    <3> QED
      BY <3>5, <3>6, <3>7 DEF SoleAuth
  <2>7. CASE ~Refuse(k) /\ ServeCommit(k)
    <3>1. Head(req[k]).kind = "commit"
      BY <2>7 DEF ServeCommit, Serves
    <3>2. k = cand /\ mode = "commit" /\ reply[k] = NoReply /\ Head(req[k]).tx = tx /\ tx \in Conns
      BY <3>1, <2>1, <2>2, SoleServes DEF Plain, DeviceOps
    <3> DEFINE who == IF committed[tx] # None THEN committed[tx] ELSE pending[k]
    <3>3. /\ active' = who /\ committed' = [committed EXCEPT ![tx] = who] /\ pending' = [pending EXCEPT ![k] = None]
          /\ Answer(k, Reply("ok", who)) /\ UNCHANGED <<nextId, nextConn, lease>>
      BY <2>7, <3>2 DEF ServeCommit
    <3>4. who # None /\ who \in Idents /\ Issued(who)
      BY <2>7, <3>2, <1>0 DEF ServeCommit, MayCommit, IdsInv
    <3>5. who.conn >= me.conn
      BY <3>2, <3>4, <2>1 DEF Resuming
    <3> HIDE DEF who
    <3>6. nextId = 2 /\ lease = 1 /\ me.id = 1 /\ me.conn < nextConn
      BY <3>2, <2>1 DEF Holding
    <3>7. who.id = 1 /\ who.conn \in me.conn .. (nextConn - 1)
      BY <3>4, <3>5, <3>6, <1>0, <1>c DEF Issued
    <3>8. reply'[k] \in {NoReply, Reply("ok", who)} /\ pending'[k] = None /\ committed'[tx] = who
      BY <3>2, <3>3, <1>0 DEF Answer
    <3>9. Holding'
      BY <3>2, <3>3, <3>5, <3>6, <2>1 DEF Holding
    <3>10. Resuming'
      BY <3>2, <3>5, <3>8, <2>1 DEF Resuming
    <3>11. Committing'
      BY <3>2, <3>3, <3>7, <3>8, <2>1, <1>c DEF Committing
    <3>12. Attaching' /\ SentAgain'
      BY <3>2, <2>1 DEF Attaching, SentAgain
    <3> QED
      BY <3>9, <3>10, <3>11, <3>12 DEF SoleAuth
  <2>8. CASE ~Refuse(k) /\ (ServeValidate(k) \/ ServeReset(k) \/ EnsureCurrentController(k) \/ ActOnRequest(k))
    <3>1. UNCHANGED <<nextId, nextConn, lease, committed, active, pending>>
      BY <2>8 DEF ServeValidate, ServeReset, EnsureCurrentController, ActOnRequest, svars, tvars
    <3>2. Head(req[k]).kind \in Plain
      BY <2>8 DEF ServeValidate, ServeReset, EnsureCurrentController, ActOnRequest, Serves, WireInv, Plain
    <3>3. k # cand \/ mode \notin {"attach", "commit"}
      BY <3>2, <2>h DEF Plain, DeviceOps
    <3>4. \A j \in Conns : reply'[j].status = "ok" => reply'[j] = reply[j] \/ j # cand \/ mode \notin {"attach", "commit"}
      BY <3>3, <2>2
    <3> QED
      BY <2>0, <2>3, <3>1, <3>4, <1>w
  <2> QED
    BY <1>1, <2>4, <2>5, <2>6, <2>7, <2>8 DEF ServeStep
<1>2. ASSUME NEW k \in Conns, TaskEnds(k)
      PROVE  SoleAuth'
  <2>1. /\ UNCHANGED <<nextId, nextConn, lease, committed, dvars>> /\ pending' = [pending EXCEPT ![k] = None]
        /\ req' = [req EXCEPT ![k] = <<>>]
    BY <1>2 DEF TaskEnds
  <2>2. active' \in {active, None}
    BY <1>2 DEF TaskEnds, RemoveControllers
  <2>3. \A j \in Conns : reply'[j] \in {reply[j], NoReply}
    BY <1>2, <1>0 DEF TaskEnds
  <2>4. \A j \in Conns : reply'[j].status = "ok" => reply'[j] = reply[j]
    BY <2>3, <1>c
  <2>5. \A j \in Conns : pending'[j] \in {pending[j], None}
    BY <2>1, <1>0
  <2>6. \A j \in Conns : req'[j] # <<>> => req[j] # <<>>
    BY <2>1, <1>0
  <2> QED
    BY <2>1, <2>2, <2>4, <2>5, <2>6, <1>w
<1>3. ASSUME NEW full \in SUBSET Conns, Broadcast(full)
      PROVE  SoleAuth'
  <2>1. UNCHANGED <<nextId, nextConn, lease, committed, pending, req, reply, dvars>>
    BY <1>3 DEF Broadcast, wvars
  <2>2. active' \in {active, None}
    BY <1>3 DEF Broadcast, RemoveControllers
  <2> QED
    BY <2>1, <2>2, <1>w
<1>4. CASE PtyExits
  BY <1>4, <1>w DEF PtyExits, tvars, wvars
<1>5. CASE UNCHANGED vars
  BY <1>5, <1>w DEF vars, svars, tvars, wvars
<1>6. CASE Connect
  <2>1. inc = 0 /\ mode' = "attach"
    BY <1>6, <1>0 DEF Connect, Sole, UnusedInv
  <2>2. PICK k \in Conns : Open(k, Request("attach", NoDev, None, NoTx, ops), {})
    BY <1>6 DEF Connect
  <2>3. nextId' = 1 /\ cand' = k /\ reply'[k] = NoReply
    BY <2>1, <2>2 DEF Open, svars, UnusedInv
  <2>4. Attaching'
    BY <2>3, <1>c DEF Attaching
  <2>5. Holding' /\ SentAgain' /\ Resuming' /\ Committing'
    BY <2>1 DEF Holding, SentAgain, Resuming, Committing
  <2> QED
    BY <2>4, <2>5 DEF SoleAuth
<1>7. CASE ConnectGivesUp \/ AttachFails \/ DaemonCrash
  BY <1>7 DEF ConnectGivesUp, AttachFails, DaemonCrash, Sole, Waiting
<1>a. ASSUME UNCHANGED <<inc, connects>>, mode # "down", mode # "retry", mode # "failed"
      PROVE  Attaching /\ Holding /\ SentAgain /\ Resuming /\ Committing
  BY <1>a, <1>0 DEF Sole, Modes, SoleAuth
<1>o. ASSUME NEW k \in Conns, NEW r, NEW closed, Open(k, r, closed)
      PROVE  /\ UNCHANGED <<nextId, nextConn, lease, active, committed, pending>> /\ cand' = k
             /\ reply'[k] = NoReply /\ pending[k] = None /\ committed[k] = None
  BY <1>o DEF Open, svars, Fresh, UnusedInv, WireInv
<1>e. ASSUME NEW k, NEW r, Send(k, r)
      PROVE  /\ UNCHANGED <<nextId, nextConn, lease, active, committed, pending>> /\ cand' = k
             /\ \A j \in Conns : reply'[j] = NoReply
  BY <1>e DEF Send, svars, tvars
<1>n. ASSUME NEW closed, NoMessage(closed)
      PROVE  UNCHANGED <<nextId, nextConn, lease, active, committed, pending>>
  BY <1>n DEF NoMessage, svars, tvars
<1>8. CASE AttachAccepted
  <2>1. /\ mode = "attach" /\ reply[cand].status = "ok" /\ UNCHANGED <<inc, connects>> /\ mode' = "reset"
        /\ me' = reply[cand].ident
    BY <1>8 DEF AttachAccepted, Received
  <2>2. Attaching
    BY <2>1, <1>a
  <2>3. UNCHANGED <<nextId, nextConn, lease, active, committed, pending>>
    BY <1>8, <1>o DEF AttachAccepted
  <2>4. me' \in Idents
    BY DEF TypeOK
  <2>5. active # None => active.conn >= me'.conn
    BY <2>1, <2>2, <2>4, <1>c DEF Attaching
  <2>6. Holding'
    BY <2>1, <2>2, <2>3, <2>5 DEF Attaching, Holding
  <2>7. Attaching' /\ SentAgain' /\ Resuming' /\ Committing'
    BY <2>1 DEF Attaching, SentAgain, Resuming, Committing
  <2> QED
    BY <2>6, <2>7 DEF SoleAuth
<1>h. ASSUME UNCHANGED <<inc, connects, me, nextId, nextConn, lease, active>>, mode' = "ready",
             mode # "attach", mode # "down", mode # "retry", mode # "failed"
      PROVE  SoleAuth'
  <2>1. Holding
    BY <1>h, <1>a
  <2>2. Holding'
    BY <1>h, <2>1 DEF Holding
  <2>3. Attaching' /\ SentAgain' /\ Resuming' /\ Committing'
    BY <1>h DEF Attaching, SentAgain, Resuming, Committing
  <2> QED
    BY <2>2, <2>3 DEF SoleAuth
<1>9. CASE ResetEnds
  <2>1. mode = "reset" /\ UNCHANGED <<inc, connects, me>> /\ mode' \in {"ready", "retry"}
    BY <1>9 DEF ResetEnds
  <2>2. mode' = "ready"
    BY <2>1 DEF Sole, Waiting
  <2> QED
    BY <2>1, <2>2, <1>9, <1>n, <1>h DEF ResetEnds
<1>10. CASE RequestEnds
  <2>1. mode = "op" /\ UNCHANGED <<inc, connects, me>> /\ mode' = "ready"
    BY <1>10 DEF RequestEnds, Received, EndRequest
  <2> QED
    BY <2>1, <1>10, <1>n, <1>h DEF RequestEnds
<1>r. ASSUME mode \in {"op", "resume", "validate", "commit"}, UNCHANGED <<inc, connects, me>>, mode' = "resume",
             NEW k \in Conns, NEW r, NEW closed, Open(k, r, closed), tx' = k \/ (tx' = tx /\ mode # "op")
      PROVE  SoleAuth'
  <2>1. /\ UNCHANGED <<nextId, nextConn, lease, active, committed, pending>> /\ cand' = k
        /\ reply'[k] = NoReply /\ pending[k] = None /\ committed[k] = None
    BY <1>r, <1>o
  <2>2. Holding /\ Resuming
    BY <1>r, <1>a
  <2>3. Holding'
    BY <1>r, <2>1, <2>2 DEF Holding
  <2>4. Resuming'
    BY <1>r, <2>1, <2>2 DEF Resuming
  <2>5. Attaching' /\ SentAgain' /\ Committing'
    BY <1>r DEF Attaching, SentAgain, Committing
  <2> QED
    BY <2>3, <2>4, <2>5 DEF SoleAuth
<1>11. CASE StartResume
  BY <1>11, <1>r DEF StartResume
<1>12. CASE ResumeProceeds
  <2>1. /\ mode \in {"resume", "validate"} /\ mode' \in {"validate", "commit"} /\ UNCHANGED <<inc, connects, me, tx>>
    BY <1>12 DEF ResumeProceeds, Received
  <2>2. /\ UNCHANGED <<nextId, nextConn, lease, active, committed, pending>> /\ cand' = cand
        /\ \A j \in Conns : reply'[j] = NoReply
    BY <1>12, <1>e DEF ResumeProceeds
  <2>3. Holding /\ Resuming /\ cand \in Conns
    BY <2>1, <1>a DEF DaemonInv, Waiting
  <2>4. Holding' /\ Resuming'
    BY <2>1, <2>2, <2>3 DEF Holding, Resuming
  <2>5. Attaching' /\ SentAgain' /\ Committing'
    BY <2>1, <2>2, <2>3, <1>c DEF Attaching, SentAgain, Committing
  <2> QED
    BY <2>4, <2>5 DEF SoleAuth
<1>13. CASE ResumeCommitted
  <2>1. /\ mode = "commit" /\ reply[cand].status = "ok" /\ mode' = "op" /\ UNCHANGED <<inc, connects>>
        /\ me' = reply[cand].ident
    BY <1>13 DEF ResumeCommitted, Received
  <2>2. UNCHANGED <<nextId, nextConn, lease, active, committed, pending>>
    BY <1>13, <1>e DEF ResumeCommitted
  <2>3. Holding /\ Committing
    BY <2>1, <1>a
  <2>4. /\ me'.id = 1 /\ me'.conn < nextConn /\ active \in {None, me'} /\ me' \in Idents
    BY SMTT(30), <2>1, <2>3, <1>0, <1>c DEF Holding, Committing, TypeOK
  <2>5. active # None => active.conn >= me'.conn
    BY <2>4, <1>c
  <2>6. Holding' /\ SentAgain'
    BY <2>1, <2>2, <2>3, <2>4, <2>5 DEF Holding, SentAgain
  <2>7. Attaching' /\ Resuming' /\ Committing'
    BY <2>1 DEF Attaching, Resuming, Committing
  <2> QED
    BY <2>6, <2>7 DEF SoleAuth
<1>14. CASE ResumeFails
  <2>1. /\ mode \in {"resume", "validate", "commit"} /\ UNCHANGED <<inc, connects, me>>
    BY <1>14 DEF ResumeFails, Received, Eof
  <2>2. CASE tries < MaxResume
    BY <1>14, <2>1, <2>2, <1>r DEF ResumeFails
  <2>3. CASE ~(tries < MaxResume)
    <3>1. mode' = "ready" /\ UNCHANGED <<nextId, nextConn, lease, active, committed, pending>>
      BY <1>14, <2>3, <1>n DEF ResumeFails, EndRequest
    <3> QED
      BY <3>1, <2>1, <1>h
  <2> QED
    BY <2>2, <2>3
<1>15. ASSUME NEW kind, NEW dev, StartRequest(kind, dev)
       PROVE  SoleAuth'
  <2>1. /\ mode = "ready" /\ Send(cur, op') /\ UNCHANGED <<inc, connects, me>> /\ mode' = "op" /\ attempt' = 1
    BY <1>15 DEF StartRequest
  <2>2. UNCHANGED <<nextId, nextConn, lease, active, committed, pending>>
    BY <2>1, <1>e
  <2>3. Holding
    BY <2>1, <1>a
  <2>4. Holding' /\ SentAgain'
    BY <2>1, <2>2, <2>3 DEF Holding, SentAgain
  <2>5. Attaching' /\ Resuming' /\ Committing'
    BY <2>1 DEF Attaching, Resuming, Committing
  <2> QED
    BY <2>4, <2>5 DEF SoleAuth
<1> QED
  BY <1>1, <1>2, <1>3, <1>4, <1>5, <1>6, <1>7, <1>8, <1>9, <1>10, <1>11, <1>12, <1>13, <1>14, <1>15
     DEF Next, DaemonStep

(* The whole inductive invariant. *)
ControlInv == /\ TypeOK /\ DaemonInv /\ WireInv /\ IdsInv /\ ActiveIsRegistered /\ UnusedInv /\ SoleWire /\ SoleAuth

LEMMA ControlInit == Init => ControlInv
<1> SUFFICES ASSUME Init
             PROVE  ControlInv
  OBVIOUS
<1> USE Constants, SupervisorControlAssumption
<1>1. StateType /\ TasksType
  BY DEF Init, StateType, TasksType, Modes
<1>2. WireType
  BY DEF Init, WireType
<1>3. DaemonType
  BY DEF Init, DaemonType, Modes
<1>4. TypeOK
  BY <1>1, <1>2, <1>3, TypeGroups
<1>5. DaemonInv /\ WireInv
  BY DEF Init, DaemonInv, WireInv, Waiting
<1>6. IdsInv
  <2>1. Asking = {} /\ Opened = {}
    BY DEF Init, Asking, Opened
  <2>2. Cardinality({}) = 0
    BY FS_EmptySet
  <2> QED
    BY <2>1, <2>2 DEF Init, IdsInv, Issued
<1>7. ActiveIsRegistered /\ UnusedInv
  BY DEF Init, ActiveIsRegistered, UnusedInv
<1>8. ~Sole
  BY DEF Init, Sole
<1> QED
  BY <1>4, <1>5, <1>6, <1>7, <1>8 DEF ControlInv, SoleWire, SoleAuth

LEMMA ControlStep == ControlInv /\ [Next]_vars => ControlInv'
<1> SUFFICES ASSUME ControlInv, [Next]_vars
             PROVE  ControlInv'
  OBVIOUS
<1>0. TypeOK /\ DaemonInv /\ WireInv /\ IdsInv /\ ActiveIsRegistered /\ UnusedInv /\ SoleWire /\ SoleAuth
  BY DEF ControlInv
<1>1. TypeOK' /\ DaemonInv' /\ WireInv'
  BY <1>0, TypeStep, DaemonInvStep, WireInvStep
<1>2. IdsInv' /\ ActiveIsRegistered'
  BY <1>0, <1>1, IdsInvStep, RegisteredStep
<1>3. UnusedInv' /\ SoleWire' /\ SoleAuth'
  BY <1>0, <1>1, UnusedStep, SoleWireStep, SoleAuthStep
<1> QED
  BY <1>1, <1>2, <1>3 DEF ControlInv

(* Type correctness. *)
THEOREM TypesHold == Spec => []TypeOK
<1>1. ControlInv => TypeOK
  BY DEF ControlInv
<1> QED
  BY <1>1, ControlInit, ControlStep, PTL DEF Spec

(* The authority of a session is coherent in every behaviour: an owner is  *)
(* always registered under the connection it is active with, and a daemon  *)
(* that connected once is never overtaken by a connection of its own.      *)
THEOREM AuthorityCoherent == Spec => []AuthorityIsCoherent
<1>1. ControlInv => AuthorityIsCoherent
  <2> SUFFICES ASSUME ControlInv
               PROVE  AuthorityIsCoherent
    OBVIOUS
  <2>0. TypeOK /\ IdsInv /\ ActiveIsRegistered /\ SoleAuth
    BY DEF ControlInv
  <2>1. ASSUME inc = 1, connects = 1, mode \in {"ready", "op"}
        PROVE  /\ lease = me.id
               /\ active # None => active.id = me.id /\ active.conn >= me.conn
               /\ mode = "op" /\ attempt > 1 => active \in {None, me}
    <3>1. Sole /\ mode # "attach"
      BY <2>1 DEF Sole, Waiting
    <3>2. Holding /\ SentAgain
      BY <3>1, <2>0 DEF SoleAuth
    <3>3. nextId = 2 /\ active \in Idents /\ Issued(active)
      BY <3>1, <3>2, <2>0 DEF Holding, TypeOK, IdsInv
    <3>4. active # None => active.id = 1
      BY <3>3 DEF Issued, Idents
    <3> QED
      BY <3>1, <3>2, <3>4 DEF Holding, SentAgain
  <2> QED
    BY <2>0, <2>1 DEF AuthorityIsCoherent, ReadyOwns
<1> QED
  BY <1>1, ControlInit, ControlStep, PTL DEF Spec

(* The resume lease moves only when a newer controller attaches. *)
THEOREM LeaseMovesForward == Spec => LeaseNeverGoesBack
<1>1. ASSUME ControlInv, [Next]_vars
      PROVE  [lease' >= lease]_vars
  <2>0. lease \in Nat /\ nextId \in Nat /\ lease < nextId
    BY <1>1 DEF ControlInv, TypeOK, IdsInv
  <2>1. lease' = lease \/ lease' = nextId
    BY <1>1 DEF Next, ServeStep, ServeAttach, ServeResume, ServeValidate, ServeCommit, ServeReset,
         EnsureCurrentController, ActOnRequest, Refuse, TaskEnds, Broadcast, PtyExits, DaemonStep, Connect,
         ConnectGivesUp, AttachAccepted, AttachFails, ResetEnds, RequestEnds, StartResume, ResumeProceeds,
         ResumeCommitted, ResumeFails, StartRequest, DaemonCrash, Open, Send, NoMessage, vars, svars
  <2> QED
    BY <2>0, <2>1
<1> QED
  BY <1>1, ControlInit, ControlStep, PTL DEF Spec, LeaseNeverGoesBack
==============================================================================
