---------------------------- MODULE RelayProofs ----------------------------
(***************************************************************************)
(* What holds of the relay for every value of the constants: the registry  *)
(* of daemon tokens and the sockets it admits (RelayAdmission), the HTTP   *)
(* tunnel (HttpTunnel), and the three parts of the relay together; what    *)
(* holds of a room is in RelayRoomProofs.                                  *)
(***************************************************************************)
EXTENDS MCRelay, RelayRoomProofs

----------------------------------------------------------------------------
(* The relay's admission of a daemon *)

(* Only a registration that carries a public key goes on to store one. *)
KeysAreCarried == \A r \in Registrars : req[r] = "key" => r \in Identities

(* A socket that passed the admission check presented a token, so there is *)
(* one to replace.                                                         *)
AdmittedHaveToken ==
    \A s \in Sockets : sock[s] \in {"admitted", "live"} => mem.tok # 0

(* What a registration has to close was live when it swapped the token,    *)
(* and a socket never leaves "live" but to be closed.                      *)
OldWereLive ==
    \A r \in Registrars : \A s \in old[r] : sock[s] \in {"live", "closed"}

AdmInv ==
    /\ AdmTypeOK
    /\ KeysAreCarried
    /\ AdmittedHaveToken
    /\ OldWereLive
    /\ IdentityIsKept

(* The registry's file never has a key without a token, and keeps the      *)
(* token it was given.                                                     *)
LEMMA PersistedType ==
  ASSUME NEW e \in Entries
  PROVE  Persisted(e) \in Entries /\ Persisted(e).tok = e.tok
BY DEF Persisted, Entries

LEMMA AdmInitInv == AdmInit => AdmInv
BY AdmissionAssumption
   DEF AdmInit, AdmInv, AdmTypeOK, Entries, KeysAreCarried, AdmittedHaveToken,
       OldWereLive, IdentityIsKept, TokenIsDurable, ReplacedAreClosed

LEMMA AdmStepInv == AdmInv /\ [AdmNext]_admVars => AdmInv'
<1> SUFFICES ASSUME AdmInv, [AdmNext]_admVars
             PROVE  AdmInv'
  OBVIOUS
<1> USE AdmissionAssumption
<1>0. /\ mem \in Entries /\ disk \in Entries
      /\ \A r \in Registrars : [mem EXCEPT !.tok = r] \in Entries
      /\ \A r \in Registrars : [mem EXCEPT !.tok = r].tok = r
  BY DEF AdmInv, AdmTypeOK, Entries
<1>1. ASSUME NEW r \in Registrars, RegisterDaemon(r)
      PROVE  AdmInv'
  <2>1. /\ mem' \in Entries /\ disk' \in Entries /\ mem'.tok = r /\ disk'.tok = r
    BY <1>0, <1>1, PersistedType DEF RegisterDaemon
  <2>2. AdmTypeOK'
    BY <1>1, <2>1 DEF AdmInv, AdmTypeOK, RegisterDaemon
  <2>3. KeysAreCarried'
    BY <1>1 DEF AdmInv, AdmTypeOK, RegisterDaemon, KeysAreCarried
  <2>4. AdmittedHaveToken'
    BY <2>1, <1>1 DEF RegisterDaemon, AdmittedHaveToken
  <2>5. OldWereLive'
    BY <1>1 DEF AdmInv, AdmTypeOK, RegisterDaemon, OldWereLive
  <2>6. TokenIsDurable'
    BY <2>1 DEF TokenIsDurable
  <2>7. req'[r] \in {"key", "ok"} => old'[r] = {}
    BY <1>1 DEF AdmInv, AdmTypeOK, RegisterDaemon, AdmittedHaveToken
  <2>8. \A x \in Registrars \ {r} : req'[x] = req[x] /\ old'[x] = old[x]
    BY <1>1 DEF AdmInv, AdmTypeOK, RegisterDaemon
  <2>9. ReplacedAreClosed'
    BY <1>1, <2>7, <2>8 DEF AdmInv, RegisterDaemon, IdentityIsKept, ReplacedAreClosed
  <2> QED
    BY <2>2, <2>3, <2>4, <2>5, <2>6, <2>9 DEF AdmInv, IdentityIsKept
<1>2. ASSUME NEW r \in Registrars, RegisterFails(r)
      PROVE  AdmInv'
  <2>1. /\ disk' \in Entries /\ disk'.tok \in {disk.tok, r} /\ mem' = mem
    BY <1>0, <1>2, PersistedType DEF RegisterFails
  <2>2. AdmTypeOK'
    BY <1>2, <2>1 DEF AdmInv, AdmTypeOK, RegisterFails
  <2>3. TokenIsDurable'
    BY <1>2, <2>1 DEF AdmInv, AdmTypeOK, RegisterFails, IdentityIsKept, TokenIsDurable,
                      Entries
  <2>4. KeysAreCarried' /\ AdmittedHaveToken' /\ OldWereLive' /\ ReplacedAreClosed'
    BY <1>2 DEF AdmInv, AdmTypeOK, RegisterFails, KeysAreCarried, AdmittedHaveToken,
                OldWereLive, IdentityIsKept, ReplacedAreClosed
  <2> QED
    BY <2>2, <2>3, <2>4 DEF AdmInv, IdentityIsKept
<1>3. ASSUME NEW r \in Registrars, CloseServer(r)
      PROVE  AdmInv'
  <2>1. AdmTypeOK' /\ KeysAreCarried' /\ AdmittedHaveToken'
    BY <1>3 DEF AdmInv, AdmTypeOK, CloseServer, KeysAreCarried, AdmittedHaveToken
  <2>2. OldWereLive' /\ ReplacedAreClosed'
    BY <1>3 DEF AdmInv, AdmTypeOK, CloseServer, OldWereLive, IdentityIsKept,
                ReplacedAreClosed
  <2>3. TokenIsDurable'
    BY <1>3 DEF AdmInv, AdmTypeOK, CloseServer, IdentityIsKept, TokenIsDurable, Entries
  <2> QED
    BY <2>1, <2>2, <2>3 DEF AdmInv, IdentityIsKept
<1>4. ASSUME NEW r \in Registrars, StoreKey(r)
      PROVE  AdmInv'
  <2>1. mem' \in Entries /\ mem'.tok = mem.tok
    BY <1>0, <1>4 DEF StoreKey, AdmInv, KeysAreCarried, Entries
  <2>2. disk' \in Entries /\ disk'.tok \in {disk.tok, mem.tok}
    BY <1>0, <1>4, <2>1, PersistedType DEF StoreKey
  <2>3. AdmTypeOK' /\ KeysAreCarried' /\ AdmittedHaveToken' /\ OldWereLive'
    BY <1>4, <2>1, <2>2 DEF AdmInv, AdmTypeOK, StoreKey, KeysAreCarried,
                            AdmittedHaveToken, OldWereLive
  <2>4. ReplacedAreClosed'
    BY <1>4 DEF AdmInv, AdmTypeOK, StoreKey, IdentityIsKept, ReplacedAreClosed
  <2>5. TokenIsDurable'
    BY <1>4, <2>1, <2>2 DEF AdmInv, AdmTypeOK, StoreKey, IdentityIsKept,
                            TokenIsDurable, Entries
  <2> QED
    BY <2>3, <2>4, <2>5 DEF AdmInv, IdentityIsKept
<1>5. ASSUME NEW s \in Sockets, Admit(s)
      PROVE  AdmInv'
  <2>1. AdmTypeOK' /\ KeysAreCarried' /\ AdmittedHaveToken' /\ TokenIsDurable'
    BY <1>5 DEF AdmInv, AdmTypeOK, Admit, KeysAreCarried, AdmittedHaveToken,
                IdentityIsKept, TokenIsDurable
  <2>2. OldWereLive' /\ ReplacedAreClosed'
    BY <1>5 DEF AdmInv, AdmTypeOK, Admit, OldWereLive, IdentityIsKept,
                ReplacedAreClosed
  <2> QED
    BY <2>1, <2>2 DEF AdmInv, IdentityIsKept
<1>6. ASSUME NEW s \in Sockets, RegisterRoute(s)
      PROVE  AdmInv'
  <2>1. AdmTypeOK' /\ KeysAreCarried' /\ AdmittedHaveToken' /\ TokenIsDurable'
    BY <1>6 DEF AdmInv, AdmTypeOK, RegisterRoute, KeysAreCarried, AdmittedHaveToken,
                IdentityIsKept, TokenIsDurable
  <2>2. OldWereLive' /\ ReplacedAreClosed'
    BY <1>6 DEF AdmInv, AdmTypeOK, RegisterRoute, OldWereLive, IdentityIsKept,
                ReplacedAreClosed
  <2> QED
    BY <2>1, <2>2 DEF AdmInv, IdentityIsKept
<1>7. ASSUME NEW s \in Sockets, SocketEnds(s)
      PROVE  AdmInv'
  BY <1>7 DEF AdmInv, AdmTypeOK, SocketEnds, KeysAreCarried, AdmittedHaveToken,
              OldWereLive, IdentityIsKept, TokenIsDurable, ReplacedAreClosed
<1>8. ASSUME RelayRestarts
      PROVE  AdmInv'
  <2>1. mem' = disk /\ disk' \in Entries /\ disk'.tok = disk.tok
    BY <1>0, <1>8, PersistedType DEF RelayRestarts
  <2>2. AdmTypeOK' /\ KeysAreCarried' /\ AdmittedHaveToken' /\ TokenIsDurable'
    BY <1>8, <2>1 DEF AdmInv, AdmTypeOK, RelayRestarts, KeysAreCarried,
                      AdmittedHaveToken, TokenIsDurable
  <2>3. OldWereLive' /\ ReplacedAreClosed'
    BY <1>8 DEF AdmInv, AdmTypeOK, RelayRestarts, OldWereLive, IdentityIsKept,
                ReplacedAreClosed
  <2> QED
    BY <2>2, <2>3 DEF AdmInv, IdentityIsKept
<1>9. CASE UNCHANGED admVars
  BY <1>9 DEF admVars, AdmInv, AdmTypeOK, KeysAreCarried, AdmittedHaveToken,
              OldWereLive, IdentityIsKept, TokenIsDurable, ReplacedAreClosed
<1> QED
  BY <1>1, <1>2, <1>3, <1>4, <1>5, <1>6, <1>7, <1>8, <1>9 DEF AdmNext

(* Whatever registrations, admissions, failures of the file write and      *)
(* restarts interleave, the token the relay accepts is durable and every   *)
(* socket of a replaced daemon is closed before the registration that      *)
(* replaced it is answered (register_daemon, close_server).                *)
THEOREM AdmissionSafe == AdmSpec => [](AdmTypeOK /\ IdentityIsKept)
<1>1. AdmInv => AdmTypeOK /\ IdentityIsKept
  BY DEF AdmInv
<1> QED
  BY <1>1, AdmInitInv, AdmStepInv, PTL DEF AdmSpec

----------------------------------------------------------------------------
(* One request through the tunnel *)

(* The response frames that have passed the handler: none before the head, *)
(* then the head and the body chunks handed to the browser.                *)
Passed == IF hp = "body" THEN read + Len(bodyq) + 1 ELSE 0

(* The frames the daemon's response task has queued. *)
Queued == IF resp = -1 THEN 0 ELSE resp

(* While the handler reads, the client's queue holds the frames that       *)
(* follow those that passed it, in order: nothing is skipped on the way.   *)
QueueFollows == hp # "done" => \A i \in 1..Len(downq) : downq[i] = Passed + i - 1

(* While the pipe is open, what follows the client's queue is still in the *)
(* daemon's writer, up to the last frame the response task queued.  A pipe *)
(* that died may have lost frames, and carries no other.                   *)
PipeFollows ==
    pipe = "open" /\ hp # "done" =>
        /\ Passed + Len(downq) + Len(wq) = Queued
        /\ \A i \in 1..Len(wq) : wq[i] = Passed + Len(downq) + i - 1

(* Nothing is read before the head, and an end is seen once. *)
BodyInOrder ==
    /\ hp \notin {"body", "done"} => read = 0 /\ bodyq = <<>>
    /\ ending # "none" => hp = "done"

(* The daemon's stream and the pipe begin together, the response task with *)
(* the stream's first message.                                             *)
StreamBegins ==
    /\ dst = "none" <=> pipe = "none"
    /\ dst \in {"none", "first"} => resp = -1 /\ wq = <<>> /\ downq = <<>>
    /\ dst \in {"run", "cleanup"} => resp # -1
    /\ hp = "idle" => pipe = "none" /\ ~reg
    /\ hp \in {"head", "await", "body"} => pipe # "none"
    /\ hp = "done" => pipe # "open" /\ ~reg

HttpInv ==
    /\ HttpTypeOK
    /\ QueueFollows
    /\ PipeFollows
    /\ BodyInOrder
    /\ StreamBegins
    /\ CleanIsWhole

(* What the tunnel's queues do to a sequence. *)
LEMMA QueueOps ==
  ASSUME NEW S, NEW q \in Seq(S)
  PROVE  /\ Len(q) \in Nat
         /\ q # <<>> => /\ Head(q) = q[1] /\ Head(q) \in S
                        /\ Tail(q) \in Seq(S) /\ Len(Tail(q)) = Len(q) - 1
                        /\ Len(q) > 0
                        /\ \A i \in 1..(Len(q) - 1) : Tail(q)[i] = q[i + 1]
         /\ \A x \in S : /\ Append(q, x) \in Seq(S)
                         /\ Len(Append(q, x)) = Len(q) + 1
                         /\ \A i \in 1..Len(q) : Append(q, x)[i] = q[i]
                         /\ Append(q, x)[Len(q) + 1] = x
         /\ \A n \in 0..Len(q) : /\ SubSeq(q, 1, n) \in Seq(S)
                                 /\ Len(SubSeq(q, 1, n)) = n
                                 /\ \A i \in 1..n : SubSeq(q, 1, n)[i] = q[i]
OBVIOUS

(* The tunnel's flags. *)
HttpFlags ==
    /\ reg \in BOOLEAN /\ reqSeen \in BOOLEAN
    /\ reqOpen \in BOOLEAN /\ respDone \in BOOLEAN

(* The tunnel's queues. *)
HttpQueues ==
    /\ upq \in Seq({"head", "body", "end"}) /\ downq \in Seq(RespHead..RespEnd)
    /\ bodyq \in Seq(RespHead..RespEnd) /\ wq \in Seq(RespHead..RespEnd)

LEMMA HttpInitInv == HttpInit => HttpInv
<1> SUFFICES ASSUME HttpInit PROVE HttpInv
  OBVIOUS
<1>0. HttpFlags
  BY DEF HttpInit, HttpFlags
<1>1. HttpTypeOK
  BY <1>0, HttpTunnelAssumption DEF HttpInit, HttpFlags, HttpTypeOK, RespHead, RespEnd,
                                    Finished
<1>2. QueueFollows /\ PipeFollows /\ BodyInOrder /\ StreamBegins /\ CleanIsWhole
  BY DEF HttpInit, QueueFollows, PipeFollows, BodyInOrder, StreamBegins, CleanIsWhole,
         Passed, Queued
<1> QED
  BY <1>1, <1>2 DEF HttpInv

(* A group of variables that stays, stays variable by variable. *)
LEMMA GroupsStay ==
  /\ UNCHANGED hHandler => /\ hasDeadline' = hasDeadline /\ hp' = hp /\ status' = status
                           /\ reg' = reg /\ reqTask' = reqTask /\ reqSeen' = reqSeen
  /\ UNCHANGED hBrowser => /\ upload' = upload /\ bodyq' = bodyq /\ client' = client
                           /\ read' = read /\ ending' = ending
  /\ UNCHANGED hDaemon => /\ dst' = dst /\ reqOpen' = reqOpen /\ dbody' = dbody
                          /\ resp' = resp /\ respDone' = respDone /\ wq' = wq
BY DEF hHandler, hBrowser, hDaemon

LEMMA HttpFlagsStep == HttpTypeOK /\ [HttpNext]_httpVars => HttpFlags'
<1> SUFFICES ASSUME HttpTypeOK, [HttpNext]_httpVars
             PROVE  HttpFlags'
  OBVIOUS
<1> USE GroupsStay DEF HttpTypeOK, HttpFlags
<1>1. CASE HttpRegisters
  BY <1>1 DEF HttpRegisters
<1>2. CASE HttpPairs
  BY <1>2 DEF HttpPairs
<1>3. CASE HttpUnpaired
  BY <1>3 DEF HttpUnpaired
<1>4. CASE HandlerWaits
  BY <1>4 DEF HandlerWaits, HandlerFails
<1>5. CASE HandlerSendsHead
  BY <1>5 DEF HandlerSendsHead, HandlerFails
<1>6. CASE HandlerTimesOut
  BY <1>6 DEF HandlerTimesOut, HandlerFails
<1>7. CASE HandlerSeesRequest
  BY <1>7 DEF HandlerSeesRequest, HandlerFails
<1>8. CASE HandlerSeesPipe
  BY <1>8 DEF HandlerSeesPipe, HandlerFails
<1>9. CASE BodyForwards
  BY <1>9 DEF BodyForwards, BodyEnds
<1>10. CASE BodySeesRequest
  BY <1>10 DEF BodySeesRequest, BodyEnds
<1>11. CASE BodySeesClose
  BY <1>11 DEF BodySeesClose, BodyEnds
<1>12. CASE RequestForwards
  BY <1>12 DEF RequestForwards
<1>13. CASE BrowserReadsBody
  BY <1>13 DEF BrowserReadsBody
<1>14. CASE BrowserCancels
  BY <1>14 DEF BrowserCancels, HandlerFails
<1>15. CASE PipeDies
  BY <1>15 DEF PipeDies
<1>16. CASE DaemonFirst
  BY <1>16 DEF DaemonFirst, StreamEnds, Closed
<1>17. CASE DaemonInbound
  BY <1>17 DEF DaemonInbound
<1>18. CASE ResponseFails
  BY <1>18 DEF ResponseFails, StreamEnds
<1>19. CASE ResponseDone
  BY <1>19 DEF ResponseDone
<1>20. CASE CleanupEnds
  BY <1>20 DEF CleanupEnds, StreamEnds, Closed
<1>21. CASE StreamSeesClose
  BY <1>21 DEF StreamSeesClose, StreamEnds, Closed
<1>22. CASE HandlerTakesBody
  BY <1>22 DEF HandlerTakesBody
<1>23. CASE ResponseQueues
  BY <1>23 DEF ResponseQueues
<1>24. CASE DaemonWrites
  BY <1>24 DEF DaemonWrites, Closed
<1>25. CASE UNCHANGED httpVars
  BY <1>25 DEF httpVars
<1> QED
  BY <1>1, <1>2, <1>3, <1>4, <1>5, <1>6, <1>7, <1>8, <1>9, <1>10, <1>11, <1>12, <1>13, <1>14, <1>15, <1>16, <1>17, <1>18, <1>19, <1>20, <1>21, <1>22, <1>23, <1>24, <1>25 DEF HttpNext, RelaySide, StreamSide

LEMMA HttpQueuesStep == HttpTypeOK /\ [HttpNext]_httpVars => HttpQueues'
<1> SUFFICES ASSUME HttpTypeOK, [HttpNext]_httpVars
             PROVE  HttpQueues'
  OBVIOUS
<1> DEFINE Up == {"head", "body", "end"}
           Down == 0..(RespMax + 1)
<1>0. /\ upq \in Seq(Up) /\ downq \in Seq(Down) /\ bodyq \in Seq(Down) /\ wq \in Seq(Down)
      /\ "head" \in Up /\ "body" \in Up /\ "end" \in Up
      /\ resp \in 0..(Finished - 1) => resp \in Down
  BY HttpTunnelAssumption DEF HttpTypeOK, RespHead, RespEnd, Finished
<1> SUFFICES (upq \in Seq(Up) /\ downq \in Seq(Down) /\ bodyq \in Seq(Down) /\ wq \in Seq(Down))'
  BY DEF HttpQueues, RespHead, RespEnd
<1> HIDE DEF Up, Down
<1>a. /\ upq # <<>> => Tail(upq) \in Seq(Up)
      /\ \A x \in Up : Append(upq, x) \in Seq(Up)
  BY <1>0, QueueOps
<1>b. /\ downq # <<>> => Head(downq) \in Down /\ Tail(downq) \in Seq(Down)
      /\ bodyq # <<>> => Tail(bodyq) \in Seq(Down)
      /\ wq # <<>> => Head(wq) \in Down /\ Tail(wq) \in Seq(Down)
  BY <1>0, QueueOps
<1>c. /\ \A x \in Down : /\ Append(downq, x) \in Seq(Down) /\ Append(bodyq, x) \in Seq(Down)
                         /\ Append(wq, x) \in Seq(Down)
      /\ \A n \in 0..Len(downq) : SubSeq(downq, 1, n) \in Seq(Down)
      /\ <<>> \in Seq(Down)
  BY <1>0, QueueOps
<1> USE <1>0, <1>a, <1>b, <1>c, GroupsStay
<1>1. CASE HttpRegisters
  BY <1>1 DEF HttpRegisters
<1>2. CASE HttpPairs
  BY <1>2 DEF HttpPairs
<1>3. CASE HttpUnpaired
  BY <1>3 DEF HttpUnpaired
<1>4. CASE HandlerWaits
  BY <1>4 DEF HandlerWaits, HandlerFails
<1>5. CASE HandlerSendsHead
  BY <1>5 DEF HandlerSendsHead, HandlerFails
<1>6. CASE HandlerTimesOut
  BY <1>6 DEF HandlerTimesOut, HandlerFails
<1>7. CASE HandlerSeesRequest
  BY <1>7 DEF HandlerSeesRequest, HandlerFails
<1>8. CASE HandlerSeesPipe
  BY <1>8 DEF HandlerSeesPipe, HandlerFails
<1>9. CASE BodyForwards
  BY <1>9 DEF BodyForwards, BodyEnds
<1>10. CASE BodySeesRequest
  BY <1>10 DEF BodySeesRequest, BodyEnds
<1>11. CASE BodySeesClose
  BY <1>11 DEF BodySeesClose, BodyEnds
<1>12. CASE RequestForwards
  BY <1>12 DEF RequestForwards
<1>13. CASE BrowserReadsBody
  BY <1>13 DEF BrowserReadsBody
<1>14. CASE BrowserCancels
  BY <1>14 DEF BrowserCancels, HandlerFails
<1>15. CASE PipeDies
  BY <1>15 DEF PipeDies
<1>16. CASE DaemonFirst
  BY <1>16 DEF DaemonFirst, StreamEnds, Closed
<1>17. CASE DaemonInbound
  BY <1>17 DEF DaemonInbound
<1>18. CASE ResponseFails
  BY <1>18 DEF ResponseFails, StreamEnds
<1>19. CASE ResponseDone
  BY <1>19 DEF ResponseDone
<1>20. CASE CleanupEnds
  BY <1>20 DEF CleanupEnds, StreamEnds, Closed
<1>21. CASE StreamSeesClose
  BY <1>21 DEF StreamSeesClose, StreamEnds, Closed
<1>22. CASE HandlerTakesBody
  BY <1>22 DEF HandlerTakesBody
<1>23. CASE ResponseQueues
  BY <1>23 DEF ResponseQueues
<1>24. CASE DaemonWrites
  BY <1>24 DEF DaemonWrites, Closed
<1>25. CASE UNCHANGED httpVars
  BY <1>25 DEF httpVars
<1> QED
  BY <1>1, <1>2, <1>3, <1>4, <1>5, <1>6, <1>7, <1>8, <1>9, <1>10, <1>11, <1>12, <1>13, <1>14, <1>15, <1>16, <1>17, <1>18, <1>19, <1>20, <1>21, <1>22, <1>23, <1>24, <1>25 DEF HttpNext, RelaySide, StreamSide

LEMMA HttpTypeStep == HttpTypeOK /\ [HttpNext]_httpVars => HttpTypeOK'
<1> SUFFICES ASSUME HttpTypeOK, [HttpNext]_httpVars
             PROVE  HttpTypeOK'
  OBVIOUS
<1>0. HttpFlags' /\ HttpQueues'
  BY HttpFlagsStep, HttpQueuesStep
<1> USE <1>0, HttpTunnelAssumption, GroupsStay DEF HttpFlags, HttpQueues, HttpTypeOK,
        RespHead, RespEnd, Finished
<1>1. CASE HttpRegisters
  BY <1>1 DEF HttpRegisters
<1>2. CASE HttpPairs
  BY <1>2 DEF HttpPairs
<1>3. CASE HttpUnpaired
  BY <1>3 DEF HttpUnpaired
<1>4. CASE HandlerWaits
  BY <1>4 DEF HandlerWaits, HandlerFails
<1>5. CASE HandlerSendsHead
  BY <1>5 DEF HandlerSendsHead, HandlerFails
<1>6. CASE HandlerTimesOut
  BY <1>6 DEF HandlerTimesOut, HandlerFails
<1>7. CASE HandlerSeesRequest
  BY <1>7 DEF HandlerSeesRequest, HandlerFails
<1>8. CASE HandlerSeesPipe
  BY SMTT(30), <1>8 DEF HandlerSeesPipe, HandlerFails
<1>9. CASE BodyForwards
  BY SMTT(30), <1>9 DEF BodyForwards, BodyEnds
<1>10. CASE BodySeesRequest
  BY <1>10 DEF BodySeesRequest, BodyEnds
<1>11. CASE BodySeesClose
  BY <1>11 DEF BodySeesClose, BodyEnds
<1>12. CASE RequestForwards
  BY <1>12 DEF RequestForwards
<1>13. CASE BrowserReadsBody
  BY <1>13 DEF BrowserReadsBody
<1>14. CASE BrowserCancels
  BY <1>14 DEF BrowserCancels, HandlerFails
<1>15. CASE PipeDies
  BY <1>15 DEF PipeDies
<1>16. CASE DaemonFirst
  <2>1. dst' \in {"run", "end"} /\ pipe' \in {pipe, "dead"} /\ resp' \in {resp, 0}
    BY <1>16 DEF DaemonFirst, StreamEnds
  <2> QED
    BY <1>16, <2>1 DEF DaemonFirst
<1>17. CASE DaemonInbound
  BY <1>17 DEF DaemonInbound
<1>18. CASE ResponseFails
  BY ZenonT(30), <1>18 DEF ResponseFails, StreamEnds
<1>19. CASE ResponseDone
  BY <1>19 DEF ResponseDone
<1>20. CASE CleanupEnds
  BY ZenonT(60), <1>20 DEF CleanupEnds, StreamEnds, Closed
<1>21. CASE StreamSeesClose
  BY <1>21 DEF StreamSeesClose, StreamEnds, Closed
<1>22. CASE HandlerTakesBody
  BY <1>22 DEF HandlerTakesBody
<1>23. CASE ResponseQueues
  BY <1>23 DEF ResponseQueues
<1>24. CASE DaemonWrites
  BY <1>24 DEF DaemonWrites, Closed
<1>25. CASE UNCHANGED httpVars
  BY <1>25 DEF httpVars
<1> QED
  BY <1>1, <1>2, <1>3, <1>4, <1>5, <1>6, <1>7, <1>8, <1>9, <1>10, <1>11, <1>12, <1>13, <1>14, <1>15, <1>16, <1>17, <1>18, <1>19, <1>20, <1>21, <1>22, <1>23, <1>24, <1>25 DEF HttpNext, RelaySide, StreamSide

(* What flows through the tunnel, apart from types. *)
HttpFlow == QueueFollows /\ PipeFollows /\ BodyInOrder /\ StreamBegins /\ CleanIsWhole

LEMMA HttpFacts ==
  ASSUME HttpInv
  PROVE  /\ downq \in Seq(0..(RespMax + 1)) /\ bodyq \in Seq(0..(RespMax + 1))
         /\ wq \in Seq(0..(RespMax + 1))
         /\ Len(downq) \in Nat /\ Len(bodyq) \in Nat /\ Len(wq) \in Nat
         /\ read \in Nat /\ resp \in Int /\ Passed \in Nat
         /\ downq # <<>> => /\ Head(downq) = downq[1] /\ Head(downq) \in 0..(RespMax + 1)
                            /\ Len(downq) > 0 /\ Len(Tail(downq)) = Len(downq) - 1
                            /\ \A i \in 1..(Len(downq) - 1) : Tail(downq)[i] = downq[i + 1]
<1>1. /\ downq \in Seq(0..(RespMax + 1)) /\ bodyq \in Seq(0..(RespMax + 1))
      /\ wq \in Seq(0..(RespMax + 1)) /\ read \in Nat /\ resp \in Int
  BY HttpTunnelAssumption DEF HttpInv, HttpTypeOK, RespHead, RespEnd, Finished
<1>2. Len(downq) \in Nat /\ Len(bodyq) \in Nat /\ Len(wq) \in Nat
  BY <1>1, QueueOps
<1>3. Passed \in Nat
  BY <1>1, <1>2 DEF Passed
<1>4. downq # <<>> => /\ Head(downq) = downq[1] /\ Head(downq) \in 0..(RespMax + 1)
                      /\ Len(downq) > 0 /\ Len(Tail(downq)) = Len(downq) - 1
                      /\ \A i \in 1..(Len(downq) - 1) : Tail(downq)[i] = downq[i + 1]
  BY <1>1, QueueOps
<1> QED
  BY <1>1, <1>2, <1>3, <1>4

LEMMA HandlerSeesPipeFlow ==
  ASSUME HttpInv, HandlerSeesPipe
  PROVE  HttpFlow'
<1>1. CASE downq = <<>>
  <2>1. hp' = "done" /\ reg' = FALSE /\ pipe' # "open" /\ (pipe' = "none" <=> pipe = "none")
    BY <1>1 DEF HandlerSeesPipe, HandlerFails
  <2>2. UNCHANGED <<downq, wq, dst, resp, read, bodyq, ending>>
    BY <1>1, GroupsStay DEF HandlerSeesPipe
  <2> QED
    BY <2>1, <2>2 DEF HandlerSeesPipe, HttpInv, HttpFlow, QueueFollows, PipeFollows,
                      BodyInOrder, StreamBegins, CleanIsWhole
<1>2. CASE downq # <<>>
  <2>1. Passed = 0 /\ hp = "await" /\ read = 0 /\ bodyq = <<>> /\ ending = "none"
    BY DEF HandlerSeesPipe, Passed, HttpInv, BodyInOrder
  <2>2. downq[1] = 0 /\ Head(downq) = 0
    BY <1>2, <2>1, HttpFacts DEF HttpInv, QueueFollows
  <2>3. /\ downq' = Tail(downq) /\ hp' = "body"
        /\ UNCHANGED <<pipe, reg, wq, dst, resp, read, bodyq, ending>>
    BY <1>2, <2>2, GroupsStay DEF HandlerSeesPipe, RespHead
  <2>4. Passed' = 1 /\ Queued' = Queued
    BY <2>1, <2>3 DEF Passed, Queued
  <2>5. QueueFollows'
    BY <1>2, <2>1, <2>3, <2>4, HttpFacts DEF HttpInv, QueueFollows
  <2>6. PipeFollows'
    <3>1. Passed' + Len(downq') = Passed + Len(downq)
      BY <1>2, <2>1, <2>3, <2>4, HttpFacts
    <3> QED
      BY <2>1, <2>3, <2>4, <3>1, HttpFacts DEF HttpInv, PipeFollows
  <2>7. StreamBegins'
    BY <1>2, <2>1, <2>3 DEF HttpInv, StreamBegins
  <2> QED
    BY <2>1, <2>3, <2>5, <2>6, <2>7 DEF HttpFlow, BodyInOrder, CleanIsWhole
<1> QED
  BY <1>1, <1>2

LEMMA BodyForwardsFlow ==
  ASSUME HttpInv, BodyForwards
  PROVE  HttpFlow'
<1>0. hp = "body" /\ Passed = read + Len(bodyq) + 1 /\ ending = "none"
  BY DEF BodyForwards, Passed, HttpInv, BodyInOrder
<1>1. CASE downq = <<>>
  <2>1. hp' = "done" /\ reg' = FALSE /\ pipe' # "open" /\ (pipe' = "none" <=> pipe = "none")
        /\ ending' # "clean"
    BY <1>0, <1>1 DEF BodyForwards, BodyEnds
  <2>2. UNCHANGED <<downq, wq, dst, resp, read, bodyq>>
    BY <1>1, GroupsStay DEF BodyForwards
  <2> QED
    BY <2>1, <2>2 DEF BodyForwards, HttpInv, HttpFlow, QueueFollows, PipeFollows,
                      BodyInOrder, StreamBegins, CleanIsWhole
<1>2. CASE downq # <<>> /\ Head(downq) = RespEnd
  <2>0. downq[1] = Passed
    BY <1>0, <1>2, HttpFacts DEF HttpInv, QueueFollows
  <2>a. Head(downq) = downq[1] /\ read \in Nat /\ Len(bodyq) \in Nat /\ RespMax \in Nat
    BY <1>2, HttpFacts, HttpTunnelAssumption
  <2>1. read + Len(bodyq) = RespMax
    BY <1>0, <1>2, <2>0, <2>a DEF RespEnd
  <2>2. hp' = "done" /\ reg' = FALSE /\ pipe' # "open" /\ (pipe' = "none" <=> pipe = "none")
    BY <1>2, HttpTunnelAssumption DEF BodyForwards, BodyEnds, RespEnd
  <2>3. UNCHANGED <<wq, dst, resp, read, bodyq>>
    BY <1>2, GroupsStay, HttpTunnelAssumption DEF BodyForwards, RespEnd
  <2> QED
    BY <1>2, <2>1, <2>2, <2>3
       DEF BodyForwards, HttpInv, HttpFlow, QueueFollows, PipeFollows, BodyInOrder,
           StreamBegins, CleanIsWhole
<1>3. CASE downq # <<>> /\ Head(downq) # RespEnd
  <2>1. /\ bodyq' = Append(bodyq, Head(downq)) /\ downq' = Tail(downq)
        /\ UNCHANGED <<hp, reg, pipe, ending, read, wq, dst, resp>>
    BY <1>3, GroupsStay DEF BodyForwards
  <2>2. Len(bodyq') = Len(bodyq) + 1
    BY <1>3, <2>1, HttpFacts, QueueOps
  <2>3. Passed' = Passed + 1 /\ Queued' = Queued
    BY <1>0, <2>1, <2>2, HttpFacts DEF Passed, Queued
  <2>4. QueueFollows'
    BY <1>0, <1>3, <2>1, <2>3, HttpFacts DEF HttpInv, QueueFollows
  <2>5. PipeFollows'
    <3>1. Passed' + Len(downq') = Passed + Len(downq)
      BY <1>3, <2>1, <2>3, HttpFacts
    <3> QED
      BY <2>1, <2>3, <3>1, HttpFacts DEF HttpInv, PipeFollows
  <2>6. StreamBegins'
    BY <1>3, <2>1 DEF HttpInv, StreamBegins
  <2> QED
    BY <1>0, <2>1, <2>4, <2>5, <2>6 DEF HttpFlow, BodyInOrder, CleanIsWhole
<1> QED
  BY <1>1, <1>2, <1>3

LEMMA BrowserReadsBodyFlow ==
  ASSUME HttpInv, BrowserReadsBody
  PROVE  HttpFlow'
<1>1. bodyq # <<>> /\ read' + Len(bodyq') = read + Len(bodyq)
  BY HttpFacts, QueueOps DEF BrowserReadsBody
<1>2. UNCHANGED <<hp, reg, pipe, ending, downq, wq, dst, resp>>
  BY GroupsStay DEF BrowserReadsBody
<1>3. Passed' = Passed /\ Queued' = Queued
  BY <1>1, <1>2 DEF Passed, Queued
<1>4. QueueFollows' /\ PipeFollows' /\ StreamBegins'
  BY <1>2, <1>3 DEF HttpInv, QueueFollows, PipeFollows, StreamBegins
<1>5. BodyInOrder' /\ CleanIsWhole'
  BY <1>1, <1>2 DEF HttpInv, BodyInOrder, CleanIsWhole
<1> QED
  BY <1>4, <1>5 DEF HttpFlow

LEMMA DaemonFirstFlow ==
  ASSUME HttpInv, DaemonFirst
  PROVE  HttpFlow'
<1>1. /\ dst = "first" /\ resp = -1 /\ wq = <<>> /\ downq = <<>> /\ pipe # "none"
  BY DEF DaemonFirst, HttpInv, StreamBegins
<1>2. UNCHANGED <<hp, downq, read, bodyq, ending>>
  BY GroupsStay DEF DaemonFirst
<1>3. \/ dst' = "run" /\ resp' = 0 /\ UNCHANGED <<pipe, reg, wq>>
      \/ dst' = "end" /\ wq' = <<>> /\ pipe' # "open" /\ pipe' # "none" /\ (reg' => reg)
         /\ resp' = resp
  BY <1>1 DEF DaemonFirst, StreamEnds
<1>4. Passed' = Passed /\ Queued = 0
  BY <1>1, <1>2 DEF Passed, Queued
<1>5. PipeFollows'
  BY <1>1, <1>2, <1>3, <1>4 DEF HttpInv, PipeFollows, Queued
<1>6. QueueFollows' /\ BodyInOrder' /\ CleanIsWhole'
  BY <1>2, <1>4 DEF HttpInv, QueueFollows, BodyInOrder, CleanIsWhole
<1>7. StreamBegins'
  <2>1. CASE dst' = "run"
    BY <1>1, <1>2, <1>3, <2>1 DEF HttpInv, StreamBegins
  <2>2. CASE dst' = "end"
    BY <1>1, <1>2, <1>3, <2>2 DEF HttpInv, StreamBegins
  <2> QED
    BY <1>3, <2>1, <2>2
<1> QED
  BY <1>5, <1>6, <1>7 DEF HttpFlow

LEMMA ResponseQueuesFlow ==
  ASSUME HttpInv, ResponseQueues
  PROVE  HttpFlow'
<1>0. /\ resp \in Nat /\ resp \in 0..(RespMax + 1) /\ dst \in {"run", "cleanup"}
      /\ wq' = Append(wq, resp) /\ resp' = resp + 1
  BY HttpTunnelAssumption DEF ResponseQueues, Finished
<1>1. /\ Len(wq') = Len(wq) + 1 /\ wq'[Len(wq) + 1] = resp
      /\ \A i \in 1..Len(wq) : wq'[i] = wq[i]
  BY <1>0, HttpFacts, QueueOps
<1>2. UNCHANGED <<hp, reg, pipe, ending, downq, dst, read, bodyq>>
  BY GroupsStay DEF ResponseQueues
<1>3. Passed' = Passed /\ Queued = resp /\ Queued' = resp + 1
  BY <1>0, <1>2 DEF Passed, Queued
<1>4. PipeFollows'
  <2> SUFFICES ASSUME pipe = "open", hp # "done"
               PROVE  /\ Passed + Len(downq) + Len(wq') = resp + 1
                      /\ \A i \in 1..Len(wq') : wq'[i] = Passed + Len(downq) + i - 1
    BY <1>2, <1>3 DEF PipeFollows
  <2>1. /\ Passed + Len(downq) + Len(wq) = resp
        /\ \A i \in 1..Len(wq) : wq[i] = Passed + Len(downq) + i - 1
    BY <1>3 DEF HttpInv, PipeFollows
  <2>2. Len(downq) \in Nat /\ Len(wq) \in Nat /\ Passed \in Nat
    BY HttpFacts
  <2> QED
    BY SMTT(30), <1>1, <2>1, <2>2
<1>5. QueueFollows' /\ BodyInOrder' /\ CleanIsWhole'
  BY <1>2, <1>3 DEF HttpInv, QueueFollows, BodyInOrder, CleanIsWhole
<1>6. StreamBegins'
  BY <1>0, <1>2 DEF HttpInv, StreamBegins
<1> QED
  BY <1>4, <1>5, <1>6 DEF HttpFlow

LEMMA DaemonWritesFlow ==
  ASSUME HttpInv, DaemonWrites
  PROVE  HttpFlow'
<1>0. /\ pipe = "open" /\ wq # <<>> /\ wq' = Tail(wq) /\ downq' = Append(downq, Head(wq))
      /\ UNCHANGED <<hp, reg, pipe, ending, dst, read, bodyq, resp>>
  BY GroupsStay DEF DaemonWrites, Closed
<1>1. hp # "done" /\ dst \notin {"none", "first"}
  BY <1>0 DEF HttpInv, StreamBegins
<1>2. /\ Head(wq) = wq[1] /\ Head(wq) \in 0..(RespMax + 1) /\ Len(wq) > 0
      /\ Len(wq') = Len(wq) - 1 /\ \A i \in 1..(Len(wq) - 1) : wq'[i] = wq[i + 1]
  BY <1>0, HttpFacts, QueueOps
<1>3. Head(wq) = Passed + Len(downq)
  BY <1>0, <1>1, <1>2, HttpFacts DEF HttpInv, PipeFollows
<1>4. /\ Len(downq') = Len(downq) + 1 /\ downq'[Len(downq) + 1] = Head(wq)
      /\ \A i \in 1..Len(downq) : downq'[i] = downq[i]
  BY <1>0, <1>2, HttpFacts, QueueOps
<1>5. Passed' = Passed /\ Queued' = Queued
  BY <1>0 DEF Passed, Queued
<1>6. QueueFollows'
  BY <1>0, <1>1, <1>3, <1>4, <1>5, HttpFacts DEF HttpInv, QueueFollows
<1>7. PipeFollows'
  <2>1. /\ Passed + Len(downq) + Len(wq) = Queued
        /\ \A i \in 1..Len(wq) : wq[i] = Passed + Len(downq) + i - 1
    BY <1>0, <1>1 DEF HttpInv, PipeFollows
  <2>2. Len(downq) \in Nat /\ Len(wq) \in Nat /\ Passed \in Nat
    BY HttpFacts
  <2>3. /\ Passed + Len(downq') + Len(wq') = Queued
        /\ \A i \in 1..Len(wq') : wq'[i] = Passed + Len(downq') + i - 1
    BY <1>2, <1>4, <2>1, <2>2
  <2> QED
    BY <1>0, <1>5, <2>3 DEF PipeFollows
<1>8. BodyInOrder' /\ CleanIsWhole' /\ StreamBegins'
  BY <1>0, <1>1 DEF HttpInv, BodyInOrder, CleanIsWhole, StreamBegins
<1> QED
  BY <1>6, <1>7, <1>8 DEF HttpFlow

LEMMA HttpStep == HttpInv /\ [HttpNext]_httpVars => HttpInv'
<1> SUFFICES ASSUME HttpInv, [HttpNext]_httpVars
             PROVE  HttpFlow'
  BY HttpTypeStep DEF HttpInv, HttpFlow
<1> USE HttpTunnelAssumption, GroupsStay DEF HttpInv, HttpTypeOK,
        RespHead, RespEnd, Finished, QueueFollows, PipeFollows, BodyInOrder, StreamBegins, CleanIsWhole,
        Passed, Queued, HttpFlow
<1>1. CASE HttpRegisters
  BY <1>1, QueueOps DEF HttpRegisters
<1>2. CASE HttpPairs
  BY <1>2, QueueOps DEF HttpPairs
<1>3. CASE HttpUnpaired
  BY <1>3, QueueOps DEF HttpUnpaired
<1>4. CASE HandlerWaits
  BY <1>4, QueueOps DEF HandlerWaits, HandlerFails
<1>5. CASE HandlerSendsHead
  BY <1>5, QueueOps DEF HandlerSendsHead, HandlerFails
<1>6. CASE HandlerTimesOut
  BY <1>6, QueueOps DEF HandlerTimesOut, HandlerFails
<1>7. CASE HandlerSeesRequest
  BY <1>7, QueueOps DEF HandlerSeesRequest, HandlerFails
<1>8. CASE HandlerSeesPipe
  BY <1>8, HandlerSeesPipeFlow DEF HttpFlow
<1>9. CASE BodyForwards
  BY <1>9, BodyForwardsFlow DEF HttpFlow
<1>10. CASE BodySeesRequest
  BY <1>10, QueueOps DEF BodySeesRequest, BodyEnds
<1>11. CASE BodySeesClose
  BY <1>11, QueueOps DEF BodySeesClose, BodyEnds
<1>12. CASE RequestForwards
  BY <1>12, QueueOps DEF RequestForwards
<1>13. CASE BrowserReadsBody
  BY <1>13, BrowserReadsBodyFlow DEF HttpFlow
<1>14. CASE BrowserCancels
  BY SMTT(30), <1>14, QueueOps DEF BrowserCancels, HandlerFails
<1>15. CASE PipeDies
  BY SMTT(30), <1>15, QueueOps DEF PipeDies
<1>16. CASE DaemonFirst
  BY <1>16, DaemonFirstFlow DEF HttpFlow
<1>17. CASE DaemonInbound
  BY <1>17, QueueOps DEF DaemonInbound
<1>18. CASE ResponseFails
  BY <1>18, QueueOps DEF ResponseFails, StreamEnds
<1>19. CASE ResponseDone
  BY <1>19, QueueOps DEF ResponseDone
<1>20. CASE CleanupEnds
  BY <1>20, QueueOps DEF CleanupEnds, StreamEnds, Closed
<1>21. CASE StreamSeesClose
  BY <1>21, QueueOps DEF StreamSeesClose, StreamEnds, Closed
<1>22. CASE HandlerTakesBody
  BY <1>22, QueueOps DEF HandlerTakesBody
<1>23. CASE ResponseQueues
  BY <1>23, ResponseQueuesFlow DEF HttpFlow
<1>24. CASE DaemonWrites
  BY <1>24, DaemonWritesFlow DEF HttpFlow
<1>25. CASE UNCHANGED httpVars
  BY <1>25 DEF httpVars
<1> QED
  BY <1>1, <1>2, <1>3, <1>4, <1>5, <1>6, <1>7, <1>8, <1>9, <1>10, <1>11, <1>12, <1>13, <1>14, <1>15, <1>16, <1>17, <1>18, <1>19, <1>20, <1>21, <1>22, <1>23, <1>24, <1>25 DEF HttpNext, RelaySide, StreamSide

(* A response body that ends cleanly at the browser is the whole response, *)
(* for every length of request and response and every capacity of the      *)
(* queues: a pipe that dies, a stream that is refused, a cancelled request *)
(* or a failed handler never passes for the end                            *)
(* (relay_http_tunnel_forward_response_body).                              *)
THEOREM TunnelIsWhole == HttpSpec => [](HttpTypeOK /\ CleanIsWhole)
<1>1. HttpInv => HttpTypeOK /\ CleanIsWhole
  BY DEF HttpInv
<1> QED
  BY <1>1, HttpInitInv, HttpStep, PTL DEF HttpSpec

----------------------------------------------------------------------------
(* The three parts together *)

(* The variables of every part of the relay keep their types for every     *)
(* value of the constants, whichever part runs.                            *)
THEOREM RelayTypesHold == Spec => []TypeOK
<1>1. MCInit => RelayInv /\ HttpInv /\ AdmInv
  BY RelayInitInv, HttpInitInv, AdmInitInv DEF MCInit
<1>2. ASSUME RelayInv, HttpInv, AdmInv, [MCNext]_mcVars
      PROVE  (RelayInv /\ HttpInv /\ AdmInv)'
  <2>1. [RelayNext]_relayVars /\ [HttpNext]_httpVars /\ [AdmNext]_admVars
    BY <1>2 DEF MCNext, mcVars
  <2> QED
    BY <1>2, <2>1, RelayStep, HttpStep, AdmStepInv
<1>3. RelayInv /\ HttpInv /\ AdmInv => TypeOK
  BY RelayInvGives DEF TypeOK, HttpInv, AdmInv
<1> QED
  BY <1>1, <1>2, <1>3, PTL DEF Spec
=============================================================================
