----------------------------- MODULE HostProofs -----------------------------
(***************************************************************************)
(* What holds of the parts on a session's host for every value of the      *)
(* constants.                                                              *)
(***************************************************************************)
EXTENDS MCHost, SessionOwnershipProofs, TLAPS, FiniteSetTheorems, NaturalsInduction,
        WellFoundedInduction, SequenceTheorems

----------------------------------------------------------------------------
(* The runtime of one session *)

(* The supervisor serves the attachments the runtime watches, and without  *)
(* a handle the runtime watches none.                                      *)
WatchedAgree == host.watched = rt.watched /\ (~rt.held => rt.watched = {})

RuntimeInv == RuntimeTypeOK /\ BooksAreTrue /\ WatchedAgree

LEMMA RuntimeInitInv == RuntimeInit => RuntimeInv
<1>1. DefaultSize \in WindowSizes
  BY RuntimeAssumption DEF DefaultSize
<1>2. 0 \in 0..MaxRestart /\ 0 \in 0..MaxLoss
  BY RuntimeAssumption
<1> QED
  BY <1>1, <1>2 DEF RuntimeInit, RuntimeInv, RuntimeTypeOK, BooksAreTrue, WatchedAgree, NoHandle, NoRecord

(* What an outcome costs keeps the counter within its bound. *)
LEMMA CostsType ==
  ASSUME RuntimeTypeOK, NEW outcome \in Outcomes, Costs(outcome)
  PROVE  losses' \in 0..MaxLoss
BY RuntimeAssumption DEF RuntimeTypeOK, Outcomes, Costs

LEMMA RuntimeStep == RuntimeInv /\ [RuntimeNext]_runtimeVars => RuntimeInv'
<1> SUFFICES ASSUME RuntimeInv, [RuntimeNext]_runtimeVars
             PROVE  RuntimeInv'
  OBVIOUS
<1> USE DEF RuntimeInv
<1>0. DefaultSize \in WindowSizes
  BY RuntimeAssumption DEF DefaultSize
<1>1. ASSUME NEW size \in AnySize, CreateSession(size)
      PROVE  RuntimeInv'
  BY <1>0, <1>1 DEF CreateSession, RuntimeTypeOK, BooksAreTrue, WatchedAgree, NoHandle, NoRecord, ValidSize
<1>2. ASSUME NEW size \in AnySize, ReconnectSession(size)
      PROVE  RuntimeInv'
  BY <1>0, <1>2 DEF ReconnectSession, RuntimeTypeOK, BooksAreTrue, WatchedAgree, NoHandle, NoRecord, ValidSize
<1>3. ASSUME NEW size \in AnySize, Resize(size)
      PROVE  RuntimeInv'
  <2>1. PICK outcome \in Outcomes :
          /\ Costs(outcome)
          /\ host' = [host EXCEPT !.size = IF Takes(outcome) THEN size ELSE @]
          /\ mgr' = [mgr EXCEPT !.size = IF outcome = "done" THEN size ELSE @]
          /\ told' = [told EXCEPT !.sized =
                             CASE outcome = "done" -> TRUE
                               [] outcome = "lost" -> FALSE
                               [] OTHER -> @]
    BY <1>3 DEF Resize
  <2>2. losses' \in 0..MaxLoss
    BY <2>1, CostsType
  <2>3. size \in WindowSizes /\ rt' = rt /\ restarts' = restarts /\ EnsureOpen
    BY <1>3 DEF Resize, ValidSize
  <2>4. CASE outcome = "done"
    BY <2>1, <2>2, <2>3, <2>4 DEF RuntimeTypeOK, BooksAreTrue, WatchedAgree, Takes
  <2>5. CASE outcome = "lost"
    BY <2>1, <2>2, <2>3, <2>5 DEF RuntimeTypeOK, BooksAreTrue, WatchedAgree, Takes
  <2>6. CASE outcome = "refused"
    BY <2>1, <2>2, <2>3, <2>6 DEF RuntimeTypeOK, BooksAreTrue, WatchedAgree, Takes
  <2> QED
    BY <2>1, <2>4, <2>5, <2>6 DEF Outcomes
<1>4. ASSUME NEW size \in AnySize, RecordWatchedResize(size)
      PROVE  RuntimeInv'
  BY <1>4 DEF RecordWatchedResize, RuntimeTypeOK, BooksAreTrue, WatchedAgree, ValidSize
<1>5. ASSUME NEW d \in Operators, Attach(d)
      PROVE  RuntimeInv'
  <2>0. EnsureOpen /\ told' = [told EXCEPT !.detached = @ \ {d}] /\ restarts' = restarts
    BY <1>5 DEF Attach
  <2>1. ASSUME NEW outcome \in Outcomes, Costs(outcome),
               host' = [host EXCEPT !.devices = IF Takes(outcome) THEN @ \cup {d} ELSE @],
               IF outcome = "done"
               THEN /\ mgr' = ManagerAttach(mgr, d)
                    /\ rt' = [rt EXCEPT !.devices = @ \cup {d}]
               ELSE UNCHANGED <<rt, mgr>>
        PROVE  RuntimeInv'
    <3>1. losses' \in 0..MaxLoss
      BY <2>1, CostsType
    <3>2. CASE outcome = "done"
      <4>1. /\ host' = [host EXCEPT !.devices = host.devices \cup {d}]
            /\ mgr' = [mgr EXCEPT !.state = "running", !.devices = mgr.devices \cup {d}]
            /\ rt' = [rt EXCEPT !.devices = rt.devices \cup {d}]
        BY <2>1, <3>2 DEF Takes, ManagerAttach, RuntimeTypeOK
      <4>2. RuntimeTypeOK'
        BY <2>0, <3>1, <4>1 DEF RuntimeTypeOK
      <4>3. /\ host'.devices = host.devices \cup {d} /\ host'.size = host.size /\ host'.watched = host.watched
            /\ mgr'.devices = mgr.devices \cup {d} /\ mgr'.size = mgr.size /\ mgr'.state = "running"
            /\ rt'.devices = rt.devices \cup {d} /\ rt'.held = rt.held /\ rt'.watched = rt.watched
            /\ told'.detached = told.detached \ {d} /\ told'.sized = told.sized
        BY <2>0, <4>1 DEF RuntimeTypeOK
      <4> QED
        BY <4>2, <4>3 DEF BooksAreTrue, WatchedAgree
    <3>3. CASE outcome = "lost"
      BY <2>0, <2>1, <3>1, <3>3 DEF RuntimeTypeOK, BooksAreTrue, WatchedAgree, Takes, EnsureOpen
    <3>4. CASE outcome = "refused"
      BY <2>0, <2>1, <3>1, <3>4 DEF RuntimeTypeOK, BooksAreTrue, WatchedAgree, Takes, EnsureOpen
    <3> QED
      BY <3>2, <3>3, <3>4 DEF Outcomes
  <2>2. ASSUME ClosesNaturally, host' = [host EXCEPT !.watched = {}], UNCHANGED losses
        PROVE  RuntimeInv'
    BY <2>0, <2>2 DEF RuntimeTypeOK, BooksAreTrue, WatchedAgree, ClosesNaturally, Watchless, ManagerClose, EnsureOpen
  <2> QED
    BY <1>5, <2>1, <2>2 DEF Attach
<1>6. ASSUME NEW d \in Operators, Detach(d)
      PROVE  RuntimeInv'
  <2>1. PICK outcome \in Outcomes :
          /\ Costs(outcome)
          /\ host' = [host EXCEPT !.devices = IF Takes(outcome) THEN @ \ {d} ELSE @]
          /\ IF outcome = "done"
             THEN /\ mgr' = ManagerDetach(mgr, d)
                  /\ rt' = [rt EXCEPT !.devices = @ \ {d}]
                  /\ told' = [told EXCEPT !.detached = @ \cup {d}]
             ELSE UNCHANGED <<rt, mgr, told>>
    BY <1>6 DEF Detach
  <2>2. losses' \in 0..MaxLoss /\ restarts' = restarts
    BY <1>6, <2>1, CostsType DEF Detach
  <2>3. CASE outcome = "done"
    BY <2>1, <2>2, <2>3 DEF RuntimeTypeOK, BooksAreTrue, WatchedAgree, Takes, ManagerDetach
  <2>4. CASE outcome = "lost"
    BY <2>1, <2>2, <2>4 DEF RuntimeTypeOK, BooksAreTrue, WatchedAgree, Takes
  <2>5. CASE outcome = "refused"
    BY <2>1, <2>2, <2>5 DEF RuntimeTypeOK, BooksAreTrue, WatchedAgree, Takes
  <2> QED
    BY <2>1, <2>3, <2>4, <2>5 DEF Outcomes
<1>7. ASSUME NEW d \in Operators, WriteInput(d)
      PROVE  RuntimeInv'
  BY <1>7 DEF WriteInput, RuntimeTypeOK, BooksAreTrue, WatchedAgree, ClosesNaturally, Watchless, ManagerClose, EnsureOpen
<1>8. ASSUME NEW a \in Attachments, StartWatchedAttachment(a)
      PROVE  RuntimeInv'
  BY <1>8 DEF StartWatchedAttachment, RuntimeTypeOK, BooksAreTrue, WatchedAgree, EnsureOpen
<1>9. ASSUME NEW a \in Attachments, DropWatchedAttachment(a)
      PROVE  RuntimeInv'
  BY <1>9 DEF DropWatchedAttachment, RuntimeTypeOK, BooksAreTrue, WatchedAgree, EnsureOpen
<1>10. ASSUME ConfirmClose
       PROVE  RuntimeInv'
  <2>1. PICK outcome \in Outcomes :
          /\ Costs(outcome)
          /\ host' = [host EXCEPT !.shell = IF Takes(outcome) THEN "ended" ELSE @]
          /\ rt' = [rt EXCEPT !.dead = outcome = "done"]
    BY <1>10 DEF ConfirmClose
  <2>2. losses' \in 0..MaxLoss /\ restarts' = restarts /\ mgr' = mgr /\ told' = told
    BY <1>10, <2>1, CostsType DEF ConfirmClose
  <2> QED
    BY <2>1, <2>2 DEF RuntimeTypeOK, BooksAreTrue, WatchedAgree
<1>11. ASSUME FinalizeRuntimeClose
       PROVE  RuntimeInv'
  BY <1>11 DEF FinalizeRuntimeClose, RuntimeTypeOK, BooksAreTrue, WatchedAgree, NoHandle, ManagerClose
<1>12. ASSUME RuntimeObservesExit
       PROVE  RuntimeInv'
  BY <1>12 DEF RuntimeObservesExit, RuntimeTypeOK, BooksAreTrue, WatchedAgree, ClosesNaturally, Watchless, ManagerClose
<1>13. ASSUME TakeForCleanup
       PROVE  RuntimeInv'
  BY <1>13 DEF TakeForCleanup, RuntimeTypeOK, BooksAreTrue, WatchedAgree, NoHandle, ManagerClose
<1>14. ASSUME HostForgets
       PROVE  RuntimeInv'
  BY <1>14, RuntimeAssumption DEF HostForgets, RuntimeTypeOK, BooksAreTrue, WatchedAgree
<1>15. ASSUME ShellEnds
       PROVE  RuntimeInv'
  BY <1>15 DEF ShellEnds, RuntimeTypeOK, BooksAreTrue, WatchedAgree
<1>16. ASSUME DaemonRestarts
       PROVE  RuntimeInv'
  <2>1. restarts' \in 0..MaxRestart /\ losses' = losses
    BY <1>16, RuntimeAssumption DEF DaemonRestarts, RuntimeTypeOK
  <2> QED
    BY <1>0, <1>16, <2>1 DEF DaemonRestarts, RuntimeTypeOK, BooksAreTrue, WatchedAgree, NoHandle, NoRecord
<1>17. ASSUME UNCHANGED runtimeVars
       PROVE  RuntimeInv'
  BY <1>17 DEF runtimeVars, RuntimeTypeOK, BooksAreTrue, WatchedAgree
<1> QED
  BY <1>1, <1>2, <1>3, <1>4, <1>5, <1>6, <1>7, <1>8, <1>9, <1>10, <1>11, <1>12, <1>13, <1>14,
     <1>15, <1>16, <1>17 DEF RuntimeNext

(* The runtime's books of a session keep the promises made to callers, for *)
(* any devices, attachments, sizes, lost calls and daemon restarts         *)
(* (runtime/mod.rs, session/mod.rs).                                       *)
THEOREM BooksStayTrue == RuntimeSpec => [](RuntimeTypeOK /\ BooksAreTrue)
<1>1. RuntimeInv => RuntimeTypeOK /\ BooksAreTrue
  BY DEF RuntimeInv
<1> QED
  BY <1>1, RuntimeInitInv, RuntimeStep, PTL DEF RuntimeSpec

----------------------------------------------------------------------------
(* Closing a session *)

(* What the supervisor has confirmed or been told is true of its shell,    *)
(* and it ends only after it was told to.                                  *)
ShellIsDead ==
  /\ super.confirmed => ~super.shell
  /\ super.shutdown => ~super.shell
  /\ ~super.up => super.shutdown

(* The controller's connection carries only the close of this way.         *)
ControllerAsks ==
  /\ links[Controller].used
  /\ links[Controller].ask \in {"none", IF way = "legacy" THEN "close" ELSE "idempotent"}
  /\ way = "ledger" => links[Controller].ask = "none"
  /\ way = "legacy" /\ links[Controller].answer = "ok" => super.shutdown

(* On the connection of the exchange only its own step is asked: an answer *)
(* "ok" to a finalisation is the finalisation's.                           *)
ExchangeMatches ==
  closer.pc = "asked" /\ closer.link # Controller =>
    /\ links[closer.link].ask \in {"none", closer.step}
    /\ closer.step = "finalize" /\ links[closer.link].answer = "ok" => super.shutdown

(* Where the closing daemon is, it has a reason to be. *)
CloserHasReason ==
  /\ closer.pc \in {"reap", "closed"} => super.shutdown
  /\ closer.pc \in {"asked", "confirm", "probe", "exitwait", "reap", "closed"} => closer.closing
  /\ closer.confirmed => super.shutdown
  /\ closer.pc = "asked" /\ closer.link = Controller => way # "ledger"

CloseRest == ShellIsDead /\ ControllerAsks /\ ExchangeMatches /\ CloserHasReason
CloseInv == CloseTypeOK /\ CloseRest

LEMMA CloseInitInv == CloseInit => CloseInv
<1> SUFFICES ASSUME CloseInit
             PROVE  CloseInv
  OBVIOUS
<1>0. Controller \in CloserLinks /\ 0 \in 0..MaxAttempt
  BY CloseAssumption DEF Controller, CloserLinks
<1> HIDE DEF CloserLinks
<1> DEFINE Open == [FreshLink EXCEPT !.used = TRUE, !.open = TRUE]
           Link == [used : BOOLEAN, open : BOOLEAN, ask : Asks, answer : Answers, nonce : BOOLEAN, authed : BOOLEAN]
<1>1. FreshLink \in Link /\ Open \in Link /\ Open.used = TRUE /\ Open.ask = "none" /\ Open.answer = "none"
  BY DEF FreshLink, Asks, Answers
<1>2. links = [c \in CloserLinks |-> IF c = Controller THEN Open ELSE FreshLink]
  BY DEF CloseInit
<1> HIDE DEF Open, Link
<1>3. links \in [CloserLinks -> Link] /\ links[Controller] = Open
  BY <1>0, <1>1, <1>2
<1>4. /\ closer \in [pc : CloserPcs, link : CloserLinks, step : Asks, dead : BOOLEAN,
                   child : BOOLEAN, exited : BOOLEAN, closing : BOOLEAN,
                   confirmed : BOOLEAN, attempts : 0..MaxAttempt]
      /\ closer.pc = "idle" /\ closer.confirmed = FALSE
  <2>1. PICK child \in BOOLEAN :
          closer = [pc |-> "idle", link |-> Controller, step |-> "none", dead |-> FALSE,
                    child |-> child /\ way # "ledger", exited |-> FALSE,
                    closing |-> FALSE, confirmed |-> FALSE, attempts |-> 0]
    BY DEF CloseInit
  <2> DEFINE b == child /\ way # "ledger"
  <2>2. b \in BOOLEAN
    OBVIOUS
  <2>3. closer = [pc |-> "idle", link |-> Controller, step |-> "none", dead |-> FALSE,
                    child |-> b, exited |-> FALSE,
                    closing |-> FALSE, confirmed |-> FALSE, attempts |-> 0]
    BY <2>1
  <2> HIDE DEF b
  <2> QED
    BY <1>0, <2>2, <2>3 DEF CloserPcs, Asks
<1>5. /\ super \in [shell : BOOLEAN, up : BOOLEAN, shutdown : BOOLEAN,
                  cap : Caps \cup {NoCap}, confirmed : BOOLEAN]
      /\ super.up /\ ~super.confirmed /\ ~super.shutdown /\ way \in {"runtime", "legacy", "ledger"}
  BY DEF CloseInit
<1>6. CloseTypeOK
  BY <1>3, <1>4, <1>5 DEF CloseTypeOK, Link
<1>7. CloseRest
  BY <1>1, <1>3, <1>4, <1>5 DEF CloseRest, ShellIsDead, ControllerAsks, ExchangeMatches, CloserHasReason
<1> QED
  BY <1>6, <1>7 DEF CloseInv

LEMMA CloseIsSafe == CloseInv => CloseTypeOK /\ CloseIsConfirmed
BY DEF CloseInv, CloseRest, ShellIsDead, CloserHasReason, CloseIsConfirmed

CloserLink ==
  [used : BOOLEAN, open : BOOLEAN, ask : Asks, answer : Answers, nonce : BOOLEAN, authed : BOOLEAN]
SuperType ==
  [shell : BOOLEAN, up : BOOLEAN, shutdown : BOOLEAN, cap : Caps \cup {NoCap}, confirmed : BOOLEAN]
CloserType ==
  [pc : CloserPcs, link : CloserLinks, step : Asks, dead : BOOLEAN, child : BOOLEAN, exited : BOOLEAN,
   closing : BOOLEAN, confirmed : BOOLEAN, attempts : 0..MaxAttempt]

LEMMA CloseTypes ==
  CloseTypeOK <=> /\ way \in {"runtime", "legacy", "ledger"} /\ super \in SuperType
                  /\ links \in [CloserLinks -> CloserLink] /\ closer \in CloserType
BY DEF CloseTypeOK, SuperType, CloserLink, CloserType

(* Connection c has v and the others have what they had. *)
LinkIs(c, v) == links' \in [CloserLinks -> CloserLink] /\ links'[c] = v /\ \A d \in CloserLinks : d # c => links'[d] = links[d]

LEMMA LinkSet ==
  ASSUME links \in [CloserLinks -> CloserLink], NEW c \in CloserLinks, NEW v \in CloserLink,
         links' = [links EXCEPT ![c] = v]
  PROVE  LinkIs(c, v)
<1> HIDE DEF CloserLinks, CloserLink
<1> QED
  BY DEF LinkIs

(* The supervisor has answered the request of connection c. *)
GotAnswer(c, a) ==
  \E v \in CloserLink : LinkIs(c, v) /\ v.used = links[c].used /\ v.ask = "none" /\ v.answer \in {a, "none"}

LEMMA AnsweredGives ==
  ASSUME links \in [CloserLinks -> CloserLink], NEW c \in CloserLinks, NEW a \in Answers,
         NEW n \in BOOLEAN, NEW u \in BOOLEAN,
         \/ links' = CloseAnswered(c, a)
         \/ links' = [CloseAnswered(c, a) EXCEPT ![c].nonce = n]
         \/ links' = [CloseAnswered(c, a) EXCEPT ![c].nonce = n, ![c].authed = u]
  PROVE  GotAnswer(c, a)
<1> DEFINE w == [links[c] EXCEPT !.ask = "none", !.answer = IF links[c].open THEN a ELSE "none"]
           x == [w EXCEPT !.nonce = n]
           y == [x EXCEPT !.authed = u]
<1>0. links[c] \in CloserLink
  OBVIOUS
<1>1. w \in CloserLink /\ w.used = links[c].used /\ w.ask = "none" /\ w.answer \in {a, "none"}
  BY <1>0 DEF CloserLink, Asks, Answers
<1>2. x \in CloserLink /\ x.used = links[c].used /\ x.ask = "none" /\ x.answer \in {a, "none"}
  BY <1>0, <1>1 DEF CloserLink, Asks
<1>3. y \in CloserLink /\ y.used = links[c].used /\ y.ask = "none" /\ y.answer \in {a, "none"}
  BY ZenonT(30), <1>0, <1>2 DEF CloserLink, Asks
<1>4. CloseAnswered(c, a) = [links EXCEPT ![c] = w]
  BY DEF CloseAnswered
<1> HIDE DEF w
<1>5. [CloseAnswered(c, a) EXCEPT ![c].nonce = n] = [links EXCEPT ![c] = x]
  BY <1>4
<1> HIDE DEF x
<1>6. [CloseAnswered(c, a) EXCEPT ![c].nonce = n, ![c].authed = u] = [links EXCEPT ![c] = y]
  BY <1>4 DEF x
<1> HIDE DEF y
<1>7. LinkIs(c, w) \/ LinkIs(c, x) \/ LinkIs(c, y)
  BY <1>1, <1>2, <1>3, <1>4, <1>5, <1>6, LinkSet
<1> QED
  BY <1>1, <1>2, <1>3, <1>7 DEF GotAnswer

(* Whatever the supervisor answers, the invariant is kept if an "ok" to a  *)
(* close or a finalisation means that it has been told to end.             *)
LEMMA AnswerKeeps ==
  ASSUME CloseInv, NEW c \in CloserLinks, NEW a \in Answers, GotAnswer(c, a), UNCHANGED <<way, closer>>,
         super' \in SuperType, ShellIsDead', super.shutdown => super'.shutdown, links[c].ask # "none",
         a = "ok" /\ links[c].ask \in {"close", "finalize"} => super'.shutdown
  PROVE  CloseInv'
<1>0. /\ way \in {"runtime", "legacy", "ledger"} /\ super \in SuperType
      /\ links \in [CloserLinks -> CloserLink] /\ closer \in CloserType
  BY CloseTypes DEF CloseInv
<1>1. PICK v \in CloserLink : LinkIs(c, v) /\ v.used = links[c].used /\ v.ask = "none" /\ v.answer \in {a, "none"}
  BY DEF GotAnswer
<1>2. CloseTypeOK'
  BY <1>0, <1>1 DEF LinkIs, CloseTypeOK, CloserLink, CloserType, SuperType
<1>3. Controller \in CloserLinks /\ closer.link \in CloserLinks
  BY <1>0, CloseAssumption DEF Controller, CloserLinks, CloserType
<1>4. ControllerAsks'
  <2>1. CASE c = Controller
    BY <1>1, <1>3, <2>1 DEF ControllerAsks, CloseInv, CloseRest, LinkIs
  <2>2. CASE c # Controller
    BY <1>1, <1>3, <2>2 DEF ControllerAsks, CloseInv, CloseRest, LinkIs
  <2> QED
    BY <2>1, <2>2
<1>5. ExchangeMatches'
  <2>1. CASE c = closer.link
    BY <1>1, <1>3, <2>1 DEF ExchangeMatches, CloseInv, CloseRest, LinkIs
  <2>2. CASE c # closer.link
    BY <1>1, <1>3, <2>2 DEF ExchangeMatches, CloseInv, CloseRest, LinkIs
  <2> QED
    BY <2>1, <2>2
<1>6. CloserHasReason'
  BY DEF CloserHasReason, CloseInv, CloseRest
<1> QED
  BY <1>2, <1>4, <1>5, <1>6 DEF CloseInv, CloseRest

LEMMA HandlersKeep ==
  ASSUME CloseInv, NEW c \in CloserLinks,
         \/ HandleClose(c) \/ HandleCloseIdempotent(c) \/ HandleChallenge(c) \/ HandleAuthenticate(c)
         \/ HandleCleanupClose(c) \/ HandleCloseStatus(c) \/ HandleFinalize(c)
  PROVE  CloseInv'
<1>0. /\ super \in SuperType /\ links \in [CloserLinks -> CloserLink] /\ ShellIsDead /\ links[c] \in CloserLink
  BY CloseTypes DEF CloseInv, CloseRest
<1>1. ASSUME HandleClose(c) PROVE CloseInv'
  <2>1. /\ links' = CloseAnswered(c, "ok") /\ links[c].ask = "close" /\ UNCHANGED <<way, closer>>
        /\ super' = [super EXCEPT !.shell = FALSE, !.shutdown = TRUE]
    BY <1>1 DEF HandleClose, Serving, KillShell
  <2>2. super' \in SuperType /\ ShellIsDead' /\ super'.shutdown
    BY <1>0, <2>1 DEF SuperType, ShellIsDead
  <2>3. GotAnswer(c, "ok")
    BY <1>0, <2>1, AnsweredGives DEF Answers
  <2> QED
    BY <2>1, <2>2, <2>3, AnswerKeeps DEF Answers
<1>2. ASSUME HandleCloseIdempotent(c) PROVE CloseInv'
  <2>0. links[c].ask = "idempotent" /\ UNCHANGED <<way, closer>>
    BY <1>2 DEF HandleCloseIdempotent, Serving
  <2>1. CASE super' = [KillShell EXCEPT !.confirmed = TRUE] /\ links' = CloseAnswered(c, "yes")
    <3>1. super' = [super EXCEPT !.shell = FALSE, !.confirmed = TRUE]
      BY <2>1 DEF KillShell
    <3>2. super' \in SuperType /\ ShellIsDead' /\ super'.shutdown = super.shutdown
      BY <1>0, <3>1 DEF SuperType, ShellIsDead
    <3>3. GotAnswer(c, "yes")
      BY <1>0, <2>1, AnsweredGives DEF Answers
    <3> QED
      BY <2>0, <3>2, <3>3, AnswerKeeps DEF Answers
  <2>2. CASE UNCHANGED super /\ links' = CloseAnswered(c, "err")
    <3>1. super' \in SuperType /\ ShellIsDead' /\ super'.shutdown = super.shutdown
      BY <1>0, <2>2 DEF ShellIsDead
    <3>2. GotAnswer(c, "err")
      BY <1>0, <2>2, AnsweredGives DEF Answers
    <3> QED
      BY <2>0, <3>1, <3>2, AnswerKeeps DEF Answers
  <2> QED
    BY <1>2, <2>1, <2>2 DEF HandleCloseIdempotent
<1>3. ASSUME HandleChallenge(c) PROVE CloseInv'
  <2>0. links[c].ask = "challenge" /\ UNCHANGED <<way, closer, super>>
    BY <1>3 DEF HandleChallenge, Serving
  <2>1. super' \in SuperType /\ ShellIsDead' /\ super'.shutdown = super.shutdown
    BY <1>0, <2>0 DEF ShellIsDead
  <2>2. \E a \in Answers : GotAnswer(c, a)
    <3>1. CASE super.cap = NoCap
      <4>1. links' = CloseAnswered(c, "err")
        BY <1>3, <3>1 DEF HandleChallenge
      <4> QED
        BY <1>0, <4>1, AnsweredGives DEF Answers
    <3>2. CASE super.cap # NoCap
      <4> DEFINE a == IF super.cap = OurCap THEN "proof" ELSE "wrongproof"
      <4>1. a \in Answers
        BY DEF Answers
      <4>2. links' = [CloseAnswered(c, a) EXCEPT ![c].nonce = TRUE]
        BY <1>3, <3>2 DEF HandleChallenge
      <4> HIDE DEF a
      <4>3. GotAnswer(c, a)
        BY <1>0, <4>1, <4>2, AnsweredGives
      <4> QED
        BY <4>1, <4>3
    <3> QED
      BY <3>1, <3>2
  <2>3. PICK a \in Answers : GotAnswer(c, a)
    BY <2>2
  <2> QED
    BY <2>0, <2>1, <2>3, AnswerKeeps
<1>4. ASSUME HandleAuthenticate(c) PROVE CloseInv'
  <2>0. links[c].ask = "authenticate" /\ UNCHANGED <<way, closer, super>>
    BY <1>4 DEF HandleAuthenticate, Serving
  <2>1. super' \in SuperType /\ ShellIsDead' /\ super'.shutdown = super.shutdown
    BY <1>0, <2>0 DEF ShellIsDead
  <2> DEFINE au == links[c].nonce /\ super.cap = OurCap
             a == IF au THEN "ok" ELSE "err"
             u == links[c].authed \/ au
  <2>2. a \in Answers /\ u \in BOOLEAN
    BY <1>0 DEF Answers, CloserLink
  <2>3. links' = [CloseAnswered(c, a) EXCEPT ![c].nonce = FALSE, ![c].authed = u]
    <3>1. CloseAnswered(c, a)[c].authed = links[c].authed
      BY <1>0 DEF CloseAnswered, CloserLink
    <3> HIDE DEF a
    <3>2. links' = [CloseAnswered(c, a) EXCEPT ![c].nonce = FALSE, ![c].authed = @ \/ au]
      BY <1>4 DEF HandleAuthenticate, a
    <3> QED
      BY <3>1, <3>2
  <2> HIDE DEF a, u
  <2>4. GotAnswer(c, a)
    BY <1>0, <2>2, <2>3, AnsweredGives
  <2> QED
    BY <2>0, <2>1, <2>2, <2>4, AnswerKeeps
<1>5. ASSUME HandleCleanupClose(c) PROVE CloseInv'
  <2>0. links[c].ask = "cleanup" /\ UNCHANGED <<way, closer>>
    BY <1>5 DEF HandleCleanupClose, Serving
  <2>1. CASE super' = [KillShell EXCEPT !.confirmed = TRUE] /\ links' = CloseAnswered(c, "yes")
    <3>1. super' = [super EXCEPT !.shell = FALSE, !.confirmed = TRUE]
      BY <2>1 DEF KillShell
    <3>2. super' \in SuperType /\ ShellIsDead' /\ super'.shutdown = super.shutdown
      BY <1>0, <3>1 DEF SuperType, ShellIsDead
    <3>3. GotAnswer(c, "yes")
      BY <1>0, <2>1, AnsweredGives DEF Answers
    <3> QED
      BY <2>0, <3>2, <3>3, AnswerKeeps DEF Answers
  <2>2. CASE UNCHANGED super /\ links' = CloseAnswered(c, "err")
    <3>1. super' \in SuperType /\ ShellIsDead' /\ super'.shutdown = super.shutdown
      BY <1>0, <2>2 DEF ShellIsDead
    <3>2. GotAnswer(c, "err")
      BY <1>0, <2>2, AnsweredGives DEF Answers
    <3> QED
      BY <2>0, <3>1, <3>2, AnswerKeeps DEF Answers
  <2> QED
    BY <1>5, <2>1, <2>2 DEF HandleCleanupClose
<1>6. ASSUME HandleCloseStatus(c) PROVE CloseInv'
  <2>0. links[c].ask = "status" /\ UNCHANGED <<way, closer, super>>
    BY <1>6 DEF HandleCloseStatus, Serving
  <2>1. super' \in SuperType /\ ShellIsDead' /\ super'.shutdown = super.shutdown
    BY <1>0, <2>0 DEF ShellIsDead
  <2> DEFINE a == CASE ~HasAuthority(c) -> "err" [] HasAuthority(c) /\ super.confirmed -> "yes" [] OTHER -> "no"
  <2>2. a \in Answers
    BY DEF Answers
  <2>3. links' = CloseAnswered(c, a)
    BY <1>6 DEF HandleCloseStatus
  <2> HIDE DEF a
  <2>4. GotAnswer(c, a)
    BY <1>0, <2>2, <2>3, AnsweredGives
  <2> QED
    BY <2>0, <2>1, <2>2, <2>4, AnswerKeeps
<1>7. ASSUME HandleFinalize(c) PROVE CloseInv'
  <2>0. links[c].ask = "finalize" /\ UNCHANGED <<way, closer>>
    BY <1>7 DEF HandleFinalize, Serving
  <2>1. CASE HasAuthority(c) /\ super.confirmed
    <3>1. super' = [super EXCEPT !.shutdown = TRUE] /\ links' = CloseAnswered(c, "ok")
      BY <1>0, <1>7, <2>1 DEF HandleFinalize
    <3>2. super' \in SuperType /\ ShellIsDead' /\ super'.shutdown
      BY <1>0, <2>1, <3>1 DEF SuperType, ShellIsDead
    <3>3. GotAnswer(c, "ok")
      BY <1>0, <3>1, AnsweredGives DEF Answers
    <3> QED
      BY <2>0, <3>2, <3>3, AnswerKeeps DEF Answers
  <2>2. CASE ~(HasAuthority(c) /\ super.confirmed)
    <3>1. super' = super /\ links' = CloseAnswered(c, "err")
      BY <1>0, <1>7, <2>2 DEF HandleFinalize, SuperType
    <3>2. super' \in SuperType /\ ShellIsDead' /\ super'.shutdown = super.shutdown
      BY <1>0, <3>1 DEF ShellIsDead
    <3>3. GotAnswer(c, "err")
      BY <1>0, <3>1, AnsweredGives DEF Answers
    <3> QED
      BY <2>0, <3>2, <3>3, AnswerKeeps DEF Answers
  <2> QED
    BY <2>1, <2>2
<1> QED
  BY <1>1, <1>2, <1>3, <1>4, <1>5, <1>6, <1>7

(* A step of the closing daemon leaves the supervisor as it is. *)
LEMMA CloserKeeps ==
  ASSUME CloseInv, UNCHANGED <<way, super>>, links' \in [CloserLinks -> CloserLink], closer' \in CloserType,
         ControllerAsks', ExchangeMatches', CloserHasReason'
  PROVE  CloseInv'
<1>0. /\ way' \in {"runtime", "legacy", "ledger"} /\ super' \in SuperType
  BY CloseTypes DEF CloseInv
<1>1. CloseTypeOK'
  BY <1>0 DEF CloseTypeOK, SuperType, CloserLink, CloserType
<1>2. ShellIsDead'
  BY DEF ShellIsDead, CloseInv, CloseRest
<1> QED
  BY <1>1, <1>2 DEF CloseInv, CloseRest

(* ... and often the connections too. *)
LEMMA CloserAlone ==
  ASSUME CloseInv, UNCHANGED <<way, super, links>>, closer' \in CloserType, closer'.pc # "asked" \/ closer'.pc = closer.pc,
         closer'.link = closer.link, closer'.step = closer.step, CloserHasReason'
  PROVE  CloseInv'
<1>0. links' \in [CloserLinks -> CloserLink]
  BY CloseTypes DEF CloseInv
<1>1. ControllerAsks'
  BY DEF CloseInv, CloseRest, ControllerAsks
<1>2. ExchangeMatches'
  BY DEF CloseInv, CloseRest, ExchangeMatches
<1> QED
  BY <1>0, <1>1, <1>2, CloserKeeps

LEMMA SupervisorKeeps ==
  ASSUME CloseInv, SupervisorEnds \/ SupervisedExits \/ InstallCleanupCapability
  PROVE  CloseInv'
<1>0. /\ way \in {"runtime", "legacy", "ledger"} /\ super \in SuperType
      /\ links \in [CloserLinks -> CloserLink] /\ closer \in CloserType
  BY CloseTypes DEF CloseInv
<1>1. Controller \in CloserLinks /\ closer.link \in CloserLinks
  BY <1>0, CloseAssumption DEF Controller, CloserLinks, CloserType
<1> HIDE DEF CloserLinks
<1>2. UNCHANGED <<way, closer>>
  BY DEF SupervisorEnds, SupervisedExits, InstallCleanupCapability
<1>3. super' \in SuperType /\ ShellIsDead' /\ (super.shutdown => super'.shutdown)
  BY <1>0 DEF SupervisorEnds, SupervisedExits, InstallCleanupCapability, SuperType, ShellIsDead, CloseInv, CloseRest, KillShell
<1>4. /\ links' \in [CloserLinks -> CloserLink]
      /\ \A c \in CloserLinks : links'[c].used = links[c].used /\ links'[c].ask = links[c].ask /\ links'[c].answer = links[c].answer
  <2>1. CASE SupervisorEnds
    <3>1. \A c \in CloserLinks : links'[c] = [links[c] EXCEPT !.open = FALSE] /\ links[c] \in CloserLink
      BY <1>0, <2>1 DEF SupervisorEnds
    <3>2. \A c \in CloserLinks : links'[c] \in CloserLink /\ links'[c].used = links[c].used /\ links'[c].ask = links[c].ask /\ links'[c].answer = links[c].answer
      BY <3>1 DEF CloserLink
    <3>3. links' = [c \in CloserLinks |-> links'[c]]
      BY <2>1 DEF SupervisorEnds
    <3> HIDE DEF CloserLink
    <3> QED
      BY <3>2, <3>3
  <2>2. CASE SupervisedExits \/ InstallCleanupCapability
    BY <1>0, <2>2 DEF SupervisedExits, InstallCleanupCapability
  <2> QED
    BY <2>1, <2>2
<1>5. CloseTypeOK'
  BY <1>0, <1>2, <1>3, <1>4 DEF CloseTypeOK, SuperType, CloserLink, CloserType
<1>6. ControllerAsks'
  BY <1>1, <1>2, <1>3, <1>4 DEF ControllerAsks, CloseInv, CloseRest
<1>7. ExchangeMatches'
  BY <1>1, <1>2, <1>3, <1>4 DEF ExchangeMatches, CloseInv, CloseRest
<1>8. CloserHasReason'
  BY <1>2, <1>3 DEF CloserHasReason, CloseInv, CloseRest
<1> QED
  BY <1>3, <1>5, <1>6, <1>7, <1>8 DEF CloseInv, CloseRest

LEMMA LinkBreaksKeeps ==
  ASSUME CloseInv, NEW c \in CloserLinks, LinkBreaks(c)
  PROVE  CloseInv'
<1>0. links \in [CloserLinks -> CloserLink] /\ closer \in CloserType
  BY CloseTypes DEF CloseInv
<1>1. Controller \in CloserLinks /\ closer.link \in CloserLinks
  BY <1>0, CloseAssumption DEF Controller, CloserLinks, CloserType
<1> HIDE DEF CloserLinks
<1> DEFINE v == [links[c] EXCEPT !.open = FALSE, !.answer = "none"]
<1>2. v \in CloserLink /\ v.used = links[c].used /\ v.ask = links[c].ask /\ v.answer = "none"
  <2>1. links[c] \in CloserLink
    BY <1>0
  <2> QED
    BY <2>1 DEF CloserLink, Answers
<1>3. links' = [links EXCEPT ![c] = v] /\ UNCHANGED <<way, super, closer>>
  BY DEF LinkBreaks
<1> HIDE DEF v
<1>4. LinkIs(c, v)
  BY <1>0, <1>2, <1>3, LinkSet
<1>5. ControllerAsks'
  BY <1>1, <1>2, <1>3, <1>4 DEF ControllerAsks, CloseInv, CloseRest, LinkIs
<1>6. ExchangeMatches'
  BY <1>1, <1>2, <1>3, <1>4 DEF ExchangeMatches, CloseInv, CloseRest, LinkIs
<1>7. CloserHasReason'
  BY <1>3 DEF CloserHasReason, CloseInv, CloseRest
<1>8. links' \in [CloserLinks -> CloserLink]
  BY <1>4 DEF LinkIs
<1> QED
  BY <1>0, <1>3, <1>5, <1>6, <1>7, <1>8, CloserKeeps

LEMMA CloserWaits ==
  ASSUME CloseInv, ExitFrameArrives \/ WaitForExit \/ ReapChild \/ ConfirmCloseFails \/ ConfirmCloseSucceeds
                   \/ ReconcileSucceeds
  PROVE  CloseInv'
<1>0. closer \in CloserType /\ super \in SuperType
  BY CloseTypes DEF CloseInv
<1>1. UNCHANGED <<way, super, links>>
  BY DEF ExitFrameArrives, WaitForExit, ReapChild, ConfirmCloseFails, ConfirmCloseSucceeds, ReconcileSucceeds
<1>2. closer' \in CloserType /\ closer'.link = closer.link /\ closer'.step = closer.step
  <2>1. CASE ExitFrameArrives
    BY <1>0, <2>1 DEF ExitFrameArrives, CloserType
  <2>2. CASE WaitForExit
    BY <1>0, <2>2 DEF WaitForExit, CloserType, CloserPcs
  <2>3. CASE ReapChild
    <3> DEFINE b == closer.child /\ super.up
               p == IF b THEN "probe" ELSE "closed"
    <3>1. b \in BOOLEAN /\ p \in CloserPcs
      BY <1>0 DEF CloserType, SuperType, CloserPcs
    <3>2. closer' = [closer EXCEPT !.pc = p, !.child = b]
      BY <2>3, <1>0 DEF ReapChild, CloserType
    <3> HIDE DEF b, p
    <3> QED
      BY <1>0, <3>1, <3>2 DEF CloserType
  <2>4. CASE ConfirmCloseFails
    BY <1>0, <2>4 DEF ConfirmCloseFails, CloserType, CloserPcs
  <2>5. CASE ConfirmCloseSucceeds
    BY <1>0, <2>5 DEF ConfirmCloseSucceeds, CloserType, CloserPcs
  <2>6. CASE ReconcileSucceeds
    <3>1. closer'= [closer EXCEPT !.pc = "ended", !.confirmed = TRUE] \/ closer' = [closer EXCEPT !.pc = "failed", !.confirmed = FALSE]
      BY <1>0, <2>6 DEF ReconcileSucceeds, CloserType
    <3> QED
      BY <1>0, <3>1 DEF CloserType, CloserPcs
  <2> QED
    BY <2>1, <2>2, <2>3, <2>4, <2>5, <2>6
<1>3. CloserHasReason' /\ (closer'.pc # "asked" \/ closer'.pc = closer.pc)
  <2> USE DEF CloserHasReason, ShellIsDead, CloseInv, CloseRest
  <2>1. CASE ExitFrameArrives
    BY <1>0, <1>1, <2>1 DEF ExitFrameArrives, CloserType
  <2>2. CASE WaitForExit
    BY <1>0, <1>1, <2>2 DEF WaitForExit, CloserType, ProbeExit
  <2>3. CASE ReapChild
    BY <1>0, <1>1, <2>3 DEF ReapChild, CloserType
  <2>4. CASE ConfirmCloseFails
    BY <1>0, <1>1, <2>4 DEF ConfirmCloseFails, CloserType, FinalizeIsPending
  <2>5. CASE ConfirmCloseSucceeds
    BY <1>0, <1>1, <2>5 DEF ConfirmCloseSucceeds, CloserType
  <2>6. CASE ReconcileSucceeds
    BY <1>0, <1>1, <2>6 DEF ReconcileSucceeds, CloserType
  <2> QED
    BY <2>1, <2>2, <2>3, <2>4, <2>5, <2>6
<1> QED
  BY <1>1, <1>2, <1>3, CloserAlone

LEMMA TerminateKeeps ==
  ASSUME CloseInv, Terminate \/ TerminateAnswered
  PROVE  CloseInv'
<1>0. links \in [CloserLinks -> CloserLink] /\ closer \in CloserType /\ way \in {"runtime", "legacy", "ledger"}
  BY CloseTypes DEF CloseInv
<1>1. Controller \in CloserLinks /\ links[Controller] \in CloserLink
  BY <1>0, CloseAssumption DEF Controller, CloserLinks
<1> HIDE DEF CloserLinks
<1>2. UNCHANGED <<way, super>> /\ way # "ledger"
  BY DEF Terminate, TerminateAnswered
<1>3. closer' \in CloserType /\ CloserHasReason'
      /\ (closer'.pc = "asked" => closer'.link = Controller)
  <2>1. CASE Terminate
    <3>1. closer.attempts + 1 \in 0..MaxAttempt /\ ~closer.confirmed
      BY <1>0, <2>1, CloseAssumption DEF Terminate, CloserType
    <3>2. \/ closer' = [closer EXCEPT !.pc = "asked", !.link = Controller,
                             !.closing = TRUE, !.dead = FALSE, !.attempts = closer.attempts + 1]
          \/ closer' = [closer EXCEPT !.closing = TRUE, !.dead = FALSE,
                             !.attempts = closer.attempts + 1, !.pc = "exitwait"]
          \/ closer' = [closer EXCEPT !.closing = TRUE, !.dead = FALSE,
                             !.attempts = closer.attempts + 1, !.pc = "confirm"]
      BY <1>0, <2>1 DEF Terminate, CloserType
    <3>3. closer' \in CloserType
      BY <1>0, <1>1, <3>1, <3>2 DEF CloserType, CloserPcs
    <3>4. closer'.pc \in {"asked", "exitwait", "confirm"} /\ closer'.closing /\ closer'.confirmed = closer.confirmed
          /\ (closer'.pc = "asked" => closer'.link = Controller)
      BY <1>0, <3>2 DEF CloserType
    <3> QED
      BY <1>2, <3>1, <3>3, <3>4 DEF CloserHasReason
  <2>2. CASE TerminateAnswered
    <3>1. \E p \in {"confirm", "closed", "probe", "exitwait"} :
             closer' = [closer EXCEPT !.pc = p] /\ (p = "closed" => way = "legacy" /\ links[Controller].answer = "ok")
      <4> DEFINE x == links[Controller].answer
                 Done(p) == closer' = [closer EXCEPT !.pc = p] /\ (p = "closed" => way = "legacy" /\ x = "ok")
      <4>1. CASE x # "none" /\ way = "runtime"
        <5>1. Done("confirm")
          BY <2>2, <4>1 DEF TerminateAnswered
        <5> QED
          BY <5>1
      <4>2. CASE x # "none" /\ way = "legacy" /\ x = "ok"
        <5>1. Done("closed")
          BY <2>2, <4>2 DEF TerminateAnswered
        <5> QED
          BY <5>1
      <4>3. CASE x # "none" /\ way = "legacy" /\ x # "ok"
        <5>1. Done("probe")
          BY <2>2, <4>3 DEF TerminateAnswered
        <5> QED
          BY <5>1
      <4>4. CASE x = "none" /\ way = "legacy"
        <5>1. Done("exitwait")
          BY <2>2, <4>4 DEF TerminateAnswered
        <5> QED
          BY <5>1
      <4>5. CASE x = "none" /\ way = "runtime"
        <5>1. Done("confirm")
          BY <2>2, <4>5 DEF TerminateAnswered
        <5> QED
          BY <5>1
      <4> QED
        BY <1>0, <1>2, <4>1, <4>2, <4>3, <4>4, <4>5
    <3>2. PICK p \in {"confirm", "closed", "probe", "exitwait"} :
             closer' = [closer EXCEPT !.pc = p] /\ (p = "closed" => way = "legacy" /\ links[Controller].answer = "ok")
      BY <3>1
    <3>3. closer' \in CloserType /\ closer'.pc = p /\ closer'.closing = closer.closing /\ closer'.confirmed = closer.confirmed
      BY <1>0, <3>2 DEF CloserType, CloserPcs
    <3>4. closer.pc = "asked"
      BY <2>2 DEF TerminateAnswered
    <3> QED
      BY <1>2, <3>2, <3>3, <3>4 DEF CloserHasReason, CloseInv, CloseRest, ControllerAsks
  <2> QED
    BY <2>1, <2>2
<1>4. links' \in [CloserLinks -> CloserLink] /\ ControllerAsks'
  <2>1. CASE UNCHANGED links
    BY <1>0, <1>2, <2>1 DEF ControllerAsks, CloseInv, CloseRest
  <2>2. ASSUME NEW a \in {links[Controller].ask, IF way = "legacy" THEN "close" ELSE "idempotent"},
               links' = [links EXCEPT ![Controller] = [links[Controller] EXCEPT !.ask = a, !.answer = "none"]]
        PROVE  links' \in [CloserLinks -> CloserLink] /\ ControllerAsks'
    <3> DEFINE v == [links[Controller] EXCEPT !.ask = a, !.answer = "none"]
    <3>1. v \in CloserLink /\ v.used = links[Controller].used /\ v.ask = a /\ v.answer = "none"
      BY <1>1, <2>2 DEF CloserLink, Asks, Answers
    <3> HIDE DEF v
    <3>2. LinkIs(Controller, v)
      BY <1>0, <1>1, <2>2, <3>1, LinkSet DEF v
    <3> QED
      BY <1>2, <2>2, <3>1, <3>2 DEF LinkIs, ControllerAsks, CloseInv, CloseRest
  <2>3. CASE Terminate
    <3>1. UNCHANGED links \/ links' = [links EXCEPT ![Controller] = [links[Controller] EXCEPT !.ask = IF way = "legacy" THEN "close" ELSE "idempotent", !.answer = "none"]]
      BY <2>3 DEF Terminate, Sent
    <3> QED
      BY <2>1, <2>2, <3>1
  <2>4. CASE TerminateAnswered
    <3>1. links' = [links EXCEPT ![Controller] = [links[Controller] EXCEPT !.answer = "none"]]
      BY <2>4 DEF TerminateAnswered
    <3>2. [links[Controller] EXCEPT !.answer = "none"] = [links[Controller] EXCEPT !.ask = links[Controller].ask, !.answer = "none"]
      BY <1>1 DEF CloserLink
    <3>3. links[Controller].ask \in {links[Controller].ask, IF way = "legacy" THEN "close" ELSE "idempotent"}
      OBVIOUS
    <3> QED
      BY <2>2, <3>1, <3>2, <3>3
  <2> QED
    BY <2>3, <2>4
<1>5. ExchangeMatches'
  BY <1>3 DEF ExchangeMatches
<1> QED
  BY <1>2, <1>3, <1>4, <1>5, CloserKeeps

(* A fresh restricted connection starts with the challenge. *)
LEMMA ConnectKeeps ==
  ASSUME CloseInv, NEW c \in CloserLinks, CloserConnects(c), UNCHANGED <<way, super>>,
         links' = [links EXCEPT ![c] = [FreshLink EXCEPT !.used = TRUE, !.open = TRUE, !.ask = "challenge"]],
         closer' \in CloserType, closer'.pc = "asked", closer'.link = c, closer'.step = "challenge",
         closer'.closing, closer'.confirmed => super.shutdown
  PROVE  CloseInv'
<1>0. links \in [CloserLinks -> CloserLink]
  BY CloseTypes DEF CloseInv
<1>1. Controller \in CloserLinks /\ c # Controller
  BY CloseAssumption DEF Controller, CloserLinks, CloserConnects, CloseInv, CloseRest, ControllerAsks
<1> HIDE DEF CloserLinks
<1> DEFINE v == [FreshLink EXCEPT !.used = TRUE, !.open = TRUE, !.ask = "challenge"]
<1>2. v \in CloserLink /\ v.ask = "challenge" /\ v.answer = "none"
  BY DEF FreshLink, CloserLink, Asks, Answers
<1> HIDE DEF v
<1>3. LinkIs(c, v)
  BY <1>0, <1>2, LinkSet DEF v
<1>4. ControllerAsks'
  BY <1>1, <1>3 DEF LinkIs, ControllerAsks, CloseInv, CloseRest
<1>5. ExchangeMatches'
  BY <1>2, <1>3 DEF LinkIs, ExchangeMatches
<1>6. CloserHasReason'
  BY <1>1 DEF CloserHasReason
<1>7. links' \in [CloserLinks -> CloserLink]
  BY <1>3 DEF LinkIs
<1> QED
  BY <1>4, <1>5, <1>6, <1>7, CloserKeeps

LEMMA ConfirmKeeps ==
  ASSUME CloseInv, ConfirmRound
  PROVE  CloseInv'
<1>0. closer \in CloserType /\ super \in SuperType
  BY CloseTypes DEF CloseInv
<1>1. closer.pc = "confirm" /\ UNCHANGED <<way, super>> /\ closer.closing /\ (closer.confirmed => super.shutdown)
      /\ (~super.up => super.shutdown)
  BY DEF ConfirmRound, CloseInv, CloseRest, CloserHasReason, ShellIsDead
<1>2. ASSUME NEW p \in {"reap", "probe"}, closer' = [closer EXCEPT !.pc = p], UNCHANGED links, p = "reap" => super.shutdown
      PROVE  CloseInv'
  <2>1. /\ closer' \in CloserType /\ closer'.link = closer.link /\ closer'.step = closer.step
        /\ closer'.pc = p /\ closer'.closing = closer.closing /\ closer'.confirmed = closer.confirmed
    BY <1>0, <1>2 DEF CloserType, CloserPcs
  <2>2. CloserHasReason'
    BY <1>1, <1>2, <2>1 DEF CloserHasReason
  <2> QED
    BY <1>1, <1>2, <2>1, <2>2, CloserAlone
<1>3. ASSUME NEW c \in CloserLinks, CloserConnects(c),
             links' = [links EXCEPT ![c] = [FreshLink EXCEPT !.used = TRUE, !.open = TRUE, !.ask = "challenge"]],
             closer' = [closer EXCEPT !.pc = "asked", !.link = c, !.step = "challenge"]
      PROVE  CloseInv'
  <2>1. /\ closer' \in CloserType /\ closer'.link = c /\ closer'.step = "challenge"
        /\ closer'.pc = "asked" /\ closer'.closing = closer.closing /\ closer'.confirmed = closer.confirmed
    BY <1>0, <1>3 DEF CloserType, CloserPcs, Asks
  <2> QED
    BY <1>1, <1>3, <2>1, ConnectKeeps
<1> QED
  BY <1>1, <1>2, <1>3 DEF ConfirmRound, ProbeExit

LEMMA ReconcileKeeps ==
  ASSUME CloseInv, ReconcileClose
  PROVE  CloseInv'
<1>0. closer \in CloserType
  BY CloseTypes DEF CloseInv
<1>1. PICK c \in CloserLinks :
          /\ CloserConnects(c)
          /\ links' = [links EXCEPT ![c] = [FreshLink EXCEPT !.used = TRUE, !.open = TRUE, !.ask = "challenge"]]
          /\ closer' = [closer EXCEPT !.pc = "asked", !.link = c, !.closing = TRUE,
                                      !.step = "challenge", !.dead = FALSE, !.attempts = @ + 1]
  BY DEF ReconcileClose
<1>2. closer.attempts + 1 \in 0..MaxAttempt /\ UNCHANGED <<way, super>>
  BY <1>0, CloseAssumption DEF ReconcileClose, CloserType
<1>3. /\ closer' \in CloserType /\ closer'.link = c /\ closer'.step = "challenge"
      /\ closer'.pc = "asked" /\ closer'.closing /\ closer'.confirmed = closer.confirmed
  BY <1>0, <1>1, <1>2 DEF CloserType, CloserPcs, Asks
<1>4. closer.confirmed => super.shutdown
  BY DEF CloseInv, CloseRest, CloserHasReason
<1> QED
  BY <1>1, <1>2, <1>3, <1>4, ConnectKeeps

LEMMA ExchangeKeeps ==
  ASSUME CloseInv, ExchangeAnswered \/ ExchangeLost
  PROVE  CloseInv'
<1>0. links \in [CloserLinks -> CloserLink] /\ closer \in CloserType /\ way \in {"runtime", "legacy", "ledger"}
  BY CloseTypes DEF CloseInv
<1> DEFINE c == closer.link
           a == links[c].answer
           k == NextAsk(closer.step, a)
<1>1. Controller \in CloserLinks /\ c \in CloserLinks /\ c # Controller /\ closer.pc = "asked" /\ closer.closing
      /\ (closer.confirmed => super.shutdown) /\ UNCHANGED <<way, super>>
  BY <1>0, CloseAssumption DEF Controller, CloserLinks, CloserType, ExchangeAnswered, ExchangeLost,
     CloseInv, CloseRest, CloserHasReason
<1> HIDE DEF CloserLinks
<1>2. links[c] \in CloserLink /\ a \in Answers /\ k \in Asks
  BY <1>0, <1>1 DEF CloserLink, NextAsk, Asks
<1>3. ASSUME NEW v \in CloserLink, links' = [links EXCEPT ![c] = v]
      PROVE  LinkIs(c, v) /\ ControllerAsks'
  <2>1. LinkIs(c, v)
    BY <1>0, <1>1, <1>3, LinkSet
  <2>2. ControllerAsks'
    BY <1>1, <2>1 DEF LinkIs, ControllerAsks, CloseInv, CloseRest
  <2> QED
    BY <2>1, <2>2
<1>4. ASSUME closer' \in {ExchangeOver, FinalizeAcknowledged}, NEW v \in CloserLink, links' = [links EXCEPT ![c] = v],
             closer' = FinalizeAcknowledged => super.shutdown
      PROVE  CloseInv'
  <2>1. closer' \in CloserType /\ closer'.pc \in {"failed", "confirm", "exitwait", "reap"} /\ closer'.closing
        /\ closer'.confirmed = closer.confirmed
    BY <1>0, <1>1, <1>4 DEF ExchangeOver, FinalizeAcknowledged, CloserType, CloserPcs
  <2>2. closer'.pc = "reap" => super.shutdown
    BY <1>0, <1>4 DEF ExchangeOver, FinalizeAcknowledged, CloserType
  <2>3. ExchangeMatches' /\ CloserHasReason'
    BY <1>1, <2>1, <2>2 DEF ExchangeMatches, CloserHasReason
  <2>4. LinkIs(c, v) /\ ControllerAsks'
    BY <1>3, <1>4
  <2>5. links' \in [CloserLinks -> CloserLink]
    BY <2>4 DEF LinkIs
  <2> QED
    BY <1>1, <2>1, <2>3, <2>4, <2>5, CloserKeeps
<1>5. CASE ExchangeAnswered /\ k # "none"
  <2> DEFINE v == [links[c] EXCEPT !.ask = k, !.answer = "none"]
             b == closer.dead \/ a = "yes"
  <2>1. v \in CloserLink /\ v.ask = k /\ v.answer = "none"
    <3> HIDE DEF k, c
    <3> QED
      BY <1>2 DEF CloserLink, Answers
  <2>2. links' = [links EXCEPT ![c] = v] /\ closer' = [closer EXCEPT !.step = k, !.dead = b]
    BY <1>0, <1>5 DEF ExchangeAnswered, Sent, CloserType
  <2>3. b \in BOOLEAN
    BY <1>0 DEF CloserType
  <2> HIDE DEF v, b, k
  <2>4. /\ closer' \in CloserType /\ closer'.pc = closer.pc /\ closer'.link = closer.link /\ closer'.step = k
        /\ closer'.closing = closer.closing /\ closer'.confirmed = closer.confirmed
    BY <1>0, <1>2, <2>2, <2>3 DEF CloserType
  <2>5. LinkIs(c, v) /\ ControllerAsks'
    BY <1>3, <2>1, <2>2
  <2>6. ExchangeMatches' /\ CloserHasReason'
    BY <1>1, <2>1, <2>4, <2>5 DEF LinkIs, ExchangeMatches, CloserHasReason
  <2>7. links' \in [CloserLinks -> CloserLink]
    BY <2>5 DEF LinkIs
  <2> QED
    BY <1>1, <2>4, <2>5, <2>6, <2>7, CloserKeeps
<1>6. CASE ExchangeAnswered /\ k = "none"
  <2> DEFINE v == [links[c] EXCEPT !.open = FALSE, !.answer = "none"]
  <2>1. v \in CloserLink
    <3> HIDE DEF c
    <3> QED
      BY <1>2 DEF CloserLink, Answers
  <2>2. /\ links' = [links EXCEPT ![c] = v]
        /\ closer' = IF closer.step = "finalize" /\ a = "ok" THEN FinalizeAcknowledged ELSE ExchangeOver
    BY <1>6 DEF ExchangeAnswered
  <2>3. closer.step = "finalize" /\ a = "ok" => super.shutdown
    BY <1>1 DEF CloseInv, CloseRest, ExchangeMatches
  <2> HIDE DEF v, a
  <2>4. CASE closer.step = "finalize" /\ a = "ok"
    BY <1>4, <2>1, <2>2, <2>3, <2>4
  <2>5. CASE ~(closer.step = "finalize" /\ a = "ok")
    <3>1. ExchangeOver.pc \in {"failed", "confirm"} /\ FinalizeAcknowledged.pc \in {"exitwait", "reap"}
      BY <1>0 DEF ExchangeOver, FinalizeAcknowledged, CloserType
    <3> QED
      BY <1>4, <2>1, <2>2, <2>5, <3>1
  <2> QED
    BY <2>4, <2>5
<1>7. CASE ExchangeLost
  <2> DEFINE v == [links[c] EXCEPT !.open = FALSE]
  <2>1. v \in CloserLink
    <3> HIDE DEF c
    <3> QED
      BY <1>2 DEF CloserLink, Answers
  <2>2. links' = [links EXCEPT ![c] = v] /\ closer' = ExchangeOver
    BY <1>7 DEF ExchangeLost
  <2> HIDE DEF v
  <2>3. ExchangeOver.pc \in {"failed", "confirm"} /\ FinalizeAcknowledged.pc \in {"exitwait", "reap"}
    BY <1>0 DEF ExchangeOver, FinalizeAcknowledged, CloserType
  <2> QED
    BY <1>4, <2>1, <2>2, <2>3
<1> QED
  BY <1>5, <1>6, <1>7

LEMMA CloseStep == CloseInv /\ [CloseNext]_closeVars => CloseInv'
<1>1. ASSUME CloseInv, UNCHANGED closeVars
      PROVE  CloseInv'
  BY <1>1 DEF closeVars, CloseInv, CloseTypeOK, CloseRest, ShellIsDead, ControllerAsks, ExchangeMatches, CloserHasReason
<1> QED
  BY <1>1, HandlersKeep, SupervisorKeeps, LinkBreaksKeeps, CloserWaits, TerminateKeeps, ConfirmKeeps, ReconcileKeeps,
     ExchangeKeeps DEF CloseNext

(* Whatever is lost, repeated or carried out late on any number of         *)
(* connections, a session the daemon calls closed has no shell and its     *)
(* supervisor has been told to end (terminate, confirm_close,              *)
(* finalize_supervisor_close_with_capability).                             *)
THEOREM CloseIsReal == CloseSpec => [](CloseTypeOK /\ CloseIsConfirmed)
BY CloseInitInv, CloseStep, CloseIsSafe, PTL DEF CloseSpec
----------------------------------------------------------------------------
(* The supervisor's socket *)

Binding == {"restrict", "publish", "verify", "untemp", "match"}
Repairing == {"checks", "clear", "unlink", "bind"} \cup Binding
SvType ==
  [pc : SocketPcs, dir : RuntimeDirs, first : BOOLEAN, old : Bound \cup {Nothing, Theirs},
   new : Bound \cup {Nothing}, served : Bound \cup {Nothing}, binds : 0..MaxBind, ok : BOOLEAN, quiet : BOOLEAN]

(* Sockets are numbered as they are bound; the one served is an earlier    *)
(* one while the next is published.                                        *)
SocketsAreNumbered ==
  /\ sv.served <= sv.binds /\ sv.new <= sv.binds
  /\ sv.pc \in Binding => sv.new # sv.served /\ sv.new # Nothing
  /\ sv.served = Nothing <=> sv.first
  /\ sv.pc = "serving" => ~sv.first
  /\ sv.pc \in {"clear", "unlink", "open"} => sv.first

(* Of the supervisor's own sockets only the last one it bound can be at    *)
(* the name, and once it is served its temporary name is gone.             *)
NamesAreLast ==
  /\ \A d \in RuntimeDirs : nameAt[d] \in Bound =>
        d = sv.dir /\ nameAt[d] = sv.new /\ sv.pc \in {"verify", "untemp", "match", "serving", "exited"}
  /\ sv.served = sv.new => sv.served \notin tempAt[sv.dir]
  /\ sv.pc = "match" => sv.new \notin tempAt[sv.dir]

(* What an undisturbed repair knows at each of its steps. *)
QuietRepair ==
  sv.quiet =>
    /\ sv.pc \in Repairing => place = sv.dir /\ private[sv.dir]
    /\ sv.pc = "checks" /\ ~sv.first => nameAt[sv.dir] = Nothing
    /\ sv.pc = "unlink" => nameAt[sv.dir] = sv.old
    /\ sv.pc \in {"bind", "restrict", "publish"} => nameAt[sv.dir] = Nothing
    /\ sv.pc \in {"restrict", "publish", "verify", "untemp"} => sv.new \in tempAt[sv.dir]
    /\ sv.pc \in {"verify", "untemp", "match"} => nameAt[sv.dir] = sv.new
    /\ sv.pc = "serving" =>
         /\ sv.ok <=> place = sv.dir /\ private[sv.dir] /\ nameAt[sv.dir] = sv.served
         /\ ~sv.ok /\ place = sv.dir /\ private[sv.dir] /\ sv.binds < MaxBind => nameAt[sv.dir] # Nothing

SocketRest == SocketsAreNumbered /\ NamesAreLast /\ QuietRepair
SocketInv == SocketTypeOK /\ SocketRest

LEMMA SocketInvSafe == SocketInv => SocketTypeOK /\ SocketIsRepaired
<1> SUFFICES ASSUME SocketInv, sv.pc = "serving", sv.quiet
             PROVE  SocketIsRepaired
  BY DEF SocketIsRepaired, SocketInv
<1>1. sv.served \in Bound /\ sv.dir \in RuntimeDirs
  BY DEF SocketInv, SocketTypeOK, SocketRest, SocketsAreNumbered
<1>2. nameAt[sv.dir] = sv.served => sv.served = sv.new /\ sv.served \notin tempAt[sv.dir]
  BY <1>1 DEF SocketInv, SocketRest, NamesAreLast
<1> QED
  BY <1>2 DEF SocketInv, SocketRest, QuietRepair, SocketIsRepaired

NameType == [RuntimeDirs -> Bound \cup {Nothing, Theirs, NoSocket}]
TempType == [RuntimeDirs -> SUBSET Bound]

LEMMA SocketTypes ==
  SocketTypeOK <=> /\ place \in RuntimeDirs \cup {"missing", "unsafe"} /\ private \in [RuntimeDirs -> BOOLEAN]
                   /\ nameAt \in NameType /\ tempAt \in TempType /\ sv \in SvType /\ tampers \in 0..MaxTamper
BY DEF SocketTypeOK, SvType, NameType, TempType

LEMMA NameSet ==
  ASSUME nameAt \in NameType, NEW d \in RuntimeDirs, NEW x \in Bound \cup {Nothing, Theirs, NoSocket},
         nameAt' = [nameAt EXCEPT ![d] = x]
  PROVE  nameAt' \in NameType /\ nameAt'[d] = x /\ \A e \in RuntimeDirs : e # d => nameAt'[e] = nameAt[e]
BY DEF NameType

LEMMA TempSet ==
  ASSUME tempAt \in TempType, NEW d \in RuntimeDirs, NEW x \in SUBSET Bound,
         tempAt' = [tempAt EXCEPT ![d] = x]
  PROVE  tempAt' \in TempType /\ tempAt'[d] = x /\ \A e \in RuntimeDirs : e # d => tempAt'[e] = tempAt[e]
BY DEF TempType

(* A name is only taken back, never changed otherwise. *)
LEMMA UnlinkGives ==
  ASSUME nameAt \in NameType, NEW d \in RuntimeDirs, NEW x, nameAt' = UnlinkIfIdentity(d, x)
  PROVE  /\ nameAt' \in NameType /\ \A e \in RuntimeDirs : nameAt'[e] \in {nameAt[e], Nothing}
         /\ nameAt'[d] = IF private[d] /\ nameAt[d] = x THEN Nothing ELSE nameAt[d]
<1> DEFINE v == IF private[d] /\ nameAt[d] = x THEN Nothing ELSE nameAt[d]
<1>1. v \in Bound \cup {Nothing, Theirs, NoSocket} /\ v \in {nameAt[d], Nothing}
  BY DEF NameType
<1>2. nameAt' = [nameAt EXCEPT ![d] = v]
  BY DEF UnlinkIfIdentity, EnsurePrivate
<1> HIDE DEF v
<1>3. nameAt' \in NameType /\ nameAt'[d] = v /\ \A e \in RuntimeDirs : e # d => nameAt'[e] = nameAt[e]
  BY <1>1, <1>2, NameSet
<1> QED
  BY <1>1, <1>3 DEF v

LEMMA UntempGives ==
  ASSUME tempAt \in TempType, NEW d \in RuntimeDirs, NEW x, tempAt' = UnlinkTempIfIdentity(d, x)
  PROVE  /\ tempAt' \in TempType /\ \A e \in RuntimeDirs : tempAt'[e] \subseteq tempAt[e]
         /\ private[d] => tempAt'[d] = tempAt[d] \ {x}
<1> DEFINE v == IF private[d] THEN tempAt[d] \ {x} ELSE tempAt[d]
<1>1. v \in SUBSET Bound /\ v \subseteq tempAt[d]
  BY DEF TempType
<1>2. tempAt' = [tempAt EXCEPT ![d] = v]
  BY DEF UnlinkTempIfIdentity, EnsurePrivate
<1> HIDE DEF v
<1>3. tempAt' \in TempType /\ tempAt'[d] = v /\ \A e \in RuntimeDirs : e # d => tempAt'[e] = tempAt[e]
  BY <1>1, <1>2, TempSet
<1> QED
  BY <1>1, <1>3 DEF v

(* An attempt that fails after the temporary bind was disturbed. *)
LEMMA FailureKeeps ==
  ASSUME SocketInv, sv.pc \in Binding, ~sv.quiet, sv' = Failed, UNCHANGED <<place, private, tampers>>,
         nameAt' \in NameType, \A e \in RuntimeDirs : nameAt'[e] \in {nameAt[e], Nothing},
         tempAt' \in TempType, \A e \in RuntimeDirs : tempAt'[e] \subseteq tempAt[e]
  PROVE  SocketInv'
<1>0. /\ place \in RuntimeDirs \cup {"missing", "unsafe"} /\ private \in [RuntimeDirs -> BOOLEAN]
      /\ nameAt \in NameType /\ tempAt \in TempType /\ sv \in SvType /\ tampers \in 0..MaxTamper
  BY SocketTypes DEF SocketInv
<1>1. /\ sv' \in SvType /\ sv'.pc \in {"exited", "serving"} /\ (sv'.pc = "serving" => ~sv.first)
      /\ sv'.dir = sv.dir /\ sv'.first = sv.first
      /\ sv'.new = sv.new /\ sv'.served = sv.served /\ sv'.binds = sv.binds /\ ~sv'.quiet
  BY <1>0 DEF SvType, Failed, SocketPcs
<1>2. sv.dir \in RuntimeDirs
  BY <1>0 DEF SvType
<1>3. SocketTypeOK'
  BY <1>0, <1>1 DEF SocketTypeOK, SvType, NameType, TempType
<1>4. SocketsAreNumbered'
  BY <1>1 DEF SocketsAreNumbered, SocketInv, SocketRest, Binding
<1>5. NamesAreLast'
  BY <1>1, <1>2 DEF NamesAreLast, SocketInv, SocketRest, Nothing, Bound
<1>6. QuietRepair'
  BY <1>1 DEF QuietRepair
<1> QED
  BY <1>3, <1>4, <1>5, <1>6 DEF SocketInv, SocketRest

LEMMA PublishFailsKeeps ==
  ASSUME SocketInv, sv.pc \in Binding, ~sv.quiet, PublishFails, UNCHANGED <<place, private, tampers>>
  PROVE  SocketInv'
<1>0. nameAt \in NameType /\ tempAt \in TempType /\ sv.dir \in RuntimeDirs
  BY SocketTypes DEF SocketInv, SvType
<1>1. nameAt' = UnlinkIfIdentity(sv.dir, sv.new) /\ tempAt' = UnlinkTempIfIdentity(sv.dir, sv.new) /\ sv' = Failed
  BY DEF PublishFails
<1> QED
  BY <1>0, <1>1, UnlinkGives, UntempGives, FailureKeeps

(* Other processes end the quiet. *)
LEMMA TamperKeeps ==
  ASSUME SocketInv, Tampers,
         \/ UNCHANGED <<place, private, tempAt>> /\ \E d \in RuntimeDirs, entry \in {Nothing, Theirs, NoSocket} :
              nameAt' = [nameAt EXCEPT ![d] = entry]
         \/ UNCHANGED <<place, private, nameAt>> /\ \E d \in RuntimeDirs : tempAt' = [tempAt EXCEPT ![d] = {}]
         \/ UNCHANGED <<private, nameAt, tempAt>> /\ place' \in RuntimeDirs \cup {"missing", "unsafe"}
         \/ UNCHANGED <<place, nameAt, tempAt>> /\ \E d \in RuntimeDirs : private' = [private EXCEPT ![d] = ~@]
  PROVE  SocketInv'
<1>0. /\ place \in RuntimeDirs \cup {"missing", "unsafe"} /\ private \in [RuntimeDirs -> BOOLEAN]
      /\ nameAt \in NameType /\ tempAt \in TempType /\ sv \in SvType /\ tampers \in 0..MaxTamper
  BY SocketTypes DEF SocketInv
<1>1. /\ sv' \in SvType /\ sv'.pc = sv.pc /\ sv'.dir = sv.dir /\ sv'.first = sv.first
      /\ sv'.new = sv.new /\ sv'.served = sv.served /\ sv'.binds = sv.binds /\ ~sv'.quiet
  BY <1>0 DEF SvType, Tampers
<1>2. tampers' \in 0..MaxTamper
  BY <1>0, SocketAssumption DEF Tampers
<1>3. nameAt' \in NameType /\ \A e \in RuntimeDirs : nameAt'[e] = nameAt[e] \/ nameAt'[e] \notin Bound
  <2>1. ASSUME NEW d \in RuntimeDirs, NEW entry \in {Nothing, Theirs, NoSocket}, nameAt' = [nameAt EXCEPT ![d] = entry]
        PROVE  nameAt' \in NameType /\ \A e \in RuntimeDirs : nameAt'[e] = nameAt[e] \/ nameAt'[e] \notin Bound
    <3>1. entry \in Bound \cup {Nothing, Theirs, NoSocket} /\ entry \notin Bound
      BY DEF Bound, Nothing, Theirs, NoSocket
    <3>2. nameAt' \in NameType /\ nameAt'[d] = entry /\ \A e \in RuntimeDirs : e # d => nameAt'[e] = nameAt[e]
      BY <1>0, <2>1, <3>1, NameSet
    <3> QED
      BY <3>1, <3>2
  <2> QED
    BY <1>0, <2>1
<1>4. tempAt' \in TempType /\ \A e \in RuntimeDirs : tempAt'[e] \subseteq tempAt[e]
  <2>1. ASSUME NEW d \in RuntimeDirs, tempAt' = [tempAt EXCEPT ![d] = {}]
        PROVE  tempAt' \in TempType /\ \A e \in RuntimeDirs : tempAt'[e] \subseteq tempAt[e]
    <3>1. tempAt' \in TempType /\ tempAt'[d] = {} /\ \A e \in RuntimeDirs : e # d => tempAt'[e] = tempAt[e]
      BY <1>0, <2>1, TempSet
    <3> QED
      BY <3>1
  <2> QED
    BY <1>0, <2>1
<1>5. place' \in RuntimeDirs \cup {"missing", "unsafe"} /\ private' \in [RuntimeDirs -> BOOLEAN]
  BY <1>0
<1>6. sv.dir \in RuntimeDirs
  BY <1>0 DEF SvType
<1>7. SocketTypeOK'
  BY <1>1, <1>2, <1>3, <1>4, <1>5 DEF SocketTypeOK, SvType, NameType, TempType
<1>8. SocketsAreNumbered'
  BY <1>1 DEF SocketsAreNumbered, SocketInv, SocketRest
<1>9. NamesAreLast'
  BY <1>1, <1>3, <1>4, <1>6 DEF NamesAreLast, SocketInv, SocketRest
<1>10. QuietRepair'
  BY <1>1 DEF QuietRepair
<1> QED
  BY <1>7, <1>8, <1>9, <1>10 DEF SocketInv, SocketRest

(* What the proofs of the remaining steps begin from. *)
LEMMA SocketFacts ==
  ASSUME SocketInv
  PROVE  /\ place \in RuntimeDirs \cup {"missing", "unsafe"} /\ private \in [RuntimeDirs -> BOOLEAN]
         /\ nameAt \in NameType /\ tempAt \in TempType /\ sv \in SvType /\ tampers \in 0..MaxTamper
         /\ SocketsAreNumbered /\ NamesAreLast /\ QuietRepair /\ sv.dir \in RuntimeDirs
         /\ \A d \in RuntimeDirs : tempAt[d] \subseteq Bound
BY SocketTypes DEF SocketInv, SocketRest, SvType, TempType

(* A step of the supervisor with sv moved to pc and nothing else. *)
LEMMA SvMoves ==
  ASSUME sv \in SvType, NEW p \in SocketPcs, sv' = [sv EXCEPT !.pc = p]
  PROVE  /\ sv' \in SvType /\ sv'.pc = p /\ sv'.dir = sv.dir /\ sv'.first = sv.first /\ sv'.old = sv.old
         /\ sv'.new = sv.new /\ sv'.served = sv.served /\ sv'.binds = sv.binds /\ sv'.ok = sv.ok /\ sv'.quiet = sv.quiet
BY DEF SvType

LEMMA OpenKeeps == SocketInv /\ OpenSecureRuntimeDir => SocketInv'
<1> SUFFICES ASSUME SocketInv, OpenSecureRuntimeDir
             PROVE  SocketInv'
  OBVIOUS
<1>0. /\ place \in RuntimeDirs \cup {"missing", "unsafe"} /\ private \in [RuntimeDirs -> BOOLEAN]
      /\ nameAt \in NameType /\ tempAt \in TempType /\ sv \in SvType /\ tampers \in 0..MaxTamper
      /\ SocketsAreNumbered /\ NamesAreLast /\ QuietRepair /\ sv.dir \in RuntimeDirs
      /\ \A d \in RuntimeDirs : tempAt[d] \subseteq Bound
  BY SocketFacts
<1>1. sv.pc = "open" /\ tempAt' = tempAt /\ tampers' = tampers /\ sv.first /\ sv.served = Nothing
  BY <1>0 DEF OpenSecureRuntimeDir, SocketsAreNumbered
<1>2. Nothing \notin Bound
  BY DEF Nothing, Bound
<1>3. CASE place = "unsafe"
  <2>1. sv' = [sv EXCEPT !.pc = "exited"] /\ UNCHANGED <<place, private, nameAt>>
    BY <1>3, SocketAssumption DEF OpenSecureRuntimeDir
  <2>2. /\ sv' \in SvType /\ sv'.pc = "exited" /\ sv'.dir = sv.dir /\ sv'.first = sv.first
        /\ sv'.new = sv.new /\ sv'.served = sv.served /\ sv'.binds = sv.binds
    BY <1>0, <2>1 DEF SvType, SocketPcs
  <2> QED
    BY <1>0, <1>1, <2>1, <2>2 DEF SocketInv, SocketTypeOK, SvType, NameType, TempType, SocketRest, SocketsAreNumbered,
       NamesAreLast, QuietRepair, Binding, Repairing
<1>4. ASSUME NEW d \in RuntimeDirs, place' = d, private' = [private EXCEPT ![d] = TRUE],
             \/ nameAt' = [nameAt EXCEPT ![d] = Nothing]
             \/ nameAt' = nameAt,
             sv' = [sv EXCEPT !.pc = "checks", !.dir = d]
      PROVE  SocketInv'
  <2>1. /\ sv' \in SvType /\ sv'.pc = "checks" /\ sv'.dir = d /\ sv'.first = sv.first
        /\ sv'.new = sv.new /\ sv'.served = sv.served /\ sv'.binds = sv.binds
    BY <1>0, <1>4 DEF SvType, SocketPcs
  <2>2. private' \in [RuntimeDirs -> BOOLEAN] /\ private'[d] = TRUE
    BY <1>0, <1>4
  <2>3. nameAt' \in NameType /\ \A e \in RuntimeDirs : nameAt'[e] \in {nameAt[e], Nothing}
    BY <1>0, <1>4, NameSet
  <2>4. SocketTypeOK'
    BY <1>0, <1>1, <1>4, <2>1, <2>2, <2>3 DEF SocketTypeOK, SvType, NameType, TempType
  <2>5. SocketsAreNumbered'
    BY <1>0, <1>1, <2>1 DEF SocketsAreNumbered, Binding
  <2>6. NamesAreLast'
    BY <1>0, <1>1, <1>2, <2>1, <2>3 DEF NamesAreLast
  <2>7. QuietRepair'
    BY <1>1, <1>4, <2>1, <2>2 DEF QuietRepair
  <2> QED
    BY <2>4, <2>5, <2>6, <2>7 DEF SocketInv, SocketRest
<1>5. CASE place = "missing"
  BY <1>4, <1>5, SocketAssumption DEF OpenSecureRuntimeDir
<1>6. CASE place \in RuntimeDirs
  <2>1. place' = place /\ private' = [private EXCEPT ![place] = TRUE] /\ nameAt' = nameAt
        /\ sv' = [sv EXCEPT !.pc = "checks", !.dir = place]
    BY <1>6, SocketAssumption DEF OpenSecureRuntimeDir
  <2> QED
    BY <1>4, <1>6, <2>1
<1> QED
  BY <1>0, <1>3, <1>5, <1>6

LEMMA BindKeeps == SocketInv /\ BindTempListener => SocketInv'
<1> SUFFICES ASSUME SocketInv, BindTempListener
             PROVE  SocketInv'
  OBVIOUS
<1>0. /\ place \in RuntimeDirs \cup {"missing", "unsafe"} /\ private \in [RuntimeDirs -> BOOLEAN]
      /\ nameAt \in NameType /\ tempAt \in TempType /\ sv \in SvType /\ tampers \in 0..MaxTamper
      /\ SocketsAreNumbered /\ NamesAreLast /\ QuietRepair /\ sv.dir \in RuntimeDirs
      /\ \A d \in RuntimeDirs : tempAt[d] \subseteq Bound
  BY SocketFacts
<1> DEFINE n == sv.binds + 1
<1>1. /\ sv.pc = "bind" /\ UNCHANGED <<place, private, nameAt, tampers>> /\ sv.binds < MaxBind
      /\ sv' = [sv EXCEPT !.pc = "restrict", !.new = n, !.binds = n]
      /\ tempAt' = [tempAt EXCEPT ![sv.dir] = tempAt[sv.dir] \cup {n}]
  BY <1>0 DEF BindTempListener, BindUnixSocketAt, SvType
<1>2. n \in Bound /\ n \in 0..MaxBind /\ n # Nothing /\ n # sv.served /\ sv.served <= n
  BY <1>0, <1>1, SocketAssumption DEF SvType, Bound, Nothing, SocketsAreNumbered
<1> HIDE DEF n
<1>3. /\ sv' \in SvType /\ sv'.pc = "restrict" /\ sv'.dir = sv.dir /\ sv'.first = sv.first /\ sv'.quiet = sv.quiet
      /\ sv'.new = n /\ sv'.served = sv.served /\ sv'.binds = n
  BY <1>0, <1>1, <1>2 DEF SvType, SocketPcs
<1>4. tempAt[sv.dir] \cup {n} \in SUBSET Bound
  BY <1>0, <1>2
<1>5. tempAt' \in TempType /\ n \in tempAt'[sv.dir]
  <2> DEFINE x == tempAt[sv.dir] \cup {n}
  <2>1. n \in x /\ x \in SUBSET Bound /\ tempAt' = [tempAt EXCEPT ![sv.dir] = x]
    BY <1>1, <1>4
  <2> HIDE DEF x
  <2>2. tempAt' \in TempType /\ tempAt'[sv.dir] = x
    BY <1>0, <2>1, TempSet
  <2> QED
    BY <2>1, <2>2
<1>6. SocketTypeOK'
  BY <1>0, <1>1, <1>3, <1>5 DEF SocketTypeOK, SvType, NameType, TempType
<1>7. SocketsAreNumbered'
  BY <1>0, <1>1, <1>2, <1>3 DEF SocketsAreNumbered, Binding, Nothing, Bound
<1>8. NamesAreLast'
  BY <1>0, <1>1, <1>2, <1>3 DEF NamesAreLast
<1>9. QuietRepair'
  BY <1>0, <1>1, <1>3, <1>5 DEF QuietRepair, Repairing
<1> QED
  BY <1>6, <1>7, <1>8, <1>9 DEF SocketInv, SocketRest

LEMMA PublishKeeps ==
  ASSUME SocketInv, RestrictSocketPermissions \/ LinkNoReplace \/ VerifyPublished \/ UnlinkTemp
  PROVE  SocketInv'
<1>0. /\ place \in RuntimeDirs \cup {"missing", "unsafe"} /\ private \in [RuntimeDirs -> BOOLEAN]
      /\ nameAt \in NameType /\ tempAt \in TempType /\ sv \in SvType /\ tampers \in 0..MaxTamper
      /\ SocketsAreNumbered /\ NamesAreLast /\ QuietRepair /\ sv.dir \in RuntimeDirs
      /\ \A d \in RuntimeDirs : tempAt[d] \subseteq Bound
  BY SocketFacts
<1>1. UNCHANGED <<place, private, tampers>> /\ sv.pc \in Binding
  BY DEF RestrictSocketPermissions, LinkNoReplace, VerifyPublished, UnlinkTemp, Binding
<1>2. CASE PublishFails
  <2>2. sv'.pc \in {"exited", "serving"}
    BY <1>0, <1>2 DEF PublishFails, Failed, SvType
  <2>3. CASE RestrictSocketPermissions
    <3>1. sv.pc = "restrict" /\ ~(private[sv.dir] /\ sv.new \in tempAt[sv.dir])
      <4>1. sv' # [sv EXCEPT !.pc = "publish"]
        BY <1>0, <2>2 DEF SvType
      <4> QED
        BY <2>3, <4>1 DEF RestrictSocketPermissions, EnsurePrivate
    <3>2. ~sv.quiet
      BY <1>0, <3>1 DEF QuietRepair, Repairing, Binding
    <3> QED
      BY <1>1, <1>2, <3>2, PublishFailsKeeps
  <2>4. CASE LinkNoReplace
    <3>1. sv.pc = "publish" /\ ~(sv.new \in tempAt[sv.dir] /\ nameAt[sv.dir] = Nothing)
      <4>1. sv' # [sv EXCEPT !.pc = "verify"]
        BY <1>0, <2>2 DEF SvType
      <4> QED
        BY <2>4, <4>1 DEF LinkNoReplace
    <3>2. ~sv.quiet
      BY <1>0, <3>1 DEF QuietRepair
    <3> QED
      BY <1>1, <1>2, <3>2, PublishFailsKeeps
  <2>5. CASE VerifyPublished
    <3>1. sv.pc = "verify" /\ nameAt[sv.dir] # sv.new
      <4>1. sv' # [sv EXCEPT !.pc = "untemp"]
        BY <1>0, <2>2 DEF SvType
      <4> QED
        BY <2>5, <4>1 DEF VerifyPublished
    <3>2. ~sv.quiet
      BY <1>0, <3>1 DEF QuietRepair
    <3> QED
      BY <1>1, <1>2, <3>2, PublishFailsKeeps
  <2>6. CASE UnlinkTemp
    <3>1. sv.pc = "untemp" /\ ~(private[sv.dir] /\ sv.new \in tempAt[sv.dir])
      <4>1. sv' # [sv EXCEPT !.pc = "match"]
        BY <1>0, <2>2 DEF SvType
      <4> QED
        BY <2>6, <4>1 DEF UnlinkTemp, EnsurePrivate
    <3>2. ~sv.quiet
      BY <1>0, <3>1 DEF QuietRepair, Repairing, Binding
    <3> QED
      BY <1>1, <1>2, <3>2, PublishFailsKeeps
  <2> QED
    BY <2>3, <2>4, <2>5, <2>6
<1>3. ASSUME NEW p \in {"publish", "untemp"}, sv' = [sv EXCEPT !.pc = p], UNCHANGED <<nameAt, tempAt>>,
             p = "publish" => sv.pc = "restrict", p = "untemp" => sv.pc = "verify" /\ nameAt[sv.dir] = sv.new
      PROVE  SocketInv'
  <2>1. /\ sv' \in SvType /\ sv'.pc = p /\ sv'.dir = sv.dir /\ sv'.first = sv.first /\ sv'.old = sv.old
        /\ sv'.new = sv.new /\ sv'.served = sv.served /\ sv'.binds = sv.binds /\ sv'.ok = sv.ok /\ sv'.quiet = sv.quiet
    BY <1>0, <1>3, SvMoves DEF SocketPcs
  <2>2. SocketTypeOK'
    BY <1>0, <1>1, <1>3, <2>1 DEF SocketTypeOK, SvType, NameType, TempType
  <2>3. SocketsAreNumbered'
    BY <1>0, <1>1, <2>1 DEF SocketsAreNumbered, Binding
  <2>4. NamesAreLast'
    BY <1>0, <1>3, <2>1 DEF NamesAreLast
  <2>5. QuietRepair'
    BY <1>0, <1>1, <1>3, <2>1 DEF QuietRepair, Repairing, Binding
  <2> QED
    BY <2>2, <2>3, <2>4, <2>5 DEF SocketInv, SocketRest
<1>4. ASSUME sv.pc = "publish", nameAt[sv.dir] = Nothing, nameAt' = [nameAt EXCEPT ![sv.dir] = sv.new],
             sv' = [sv EXCEPT !.pc = "verify"], UNCHANGED tempAt
      PROVE  SocketInv'
  <2>1. /\ sv' \in SvType /\ sv'.pc = "verify" /\ sv'.dir = sv.dir /\ sv'.first = sv.first /\ sv'.old = sv.old
        /\ sv'.new = sv.new /\ sv'.served = sv.served /\ sv'.binds = sv.binds /\ sv'.ok = sv.ok /\ sv'.quiet = sv.quiet
    BY <1>0, <1>4, SvMoves DEF SocketPcs
  <2>2. sv.new \in Bound \cup {Nothing}
    BY <1>0 DEF SvType
  <2>3. nameAt' \in NameType /\ nameAt'[sv.dir] = sv.new /\ \A e \in RuntimeDirs : e # sv.dir => nameAt'[e] = nameAt[e]
    BY <1>0, <1>4, <2>2, NameSet
  <2>4. SocketTypeOK'
    BY <1>0, <1>1, <1>4, <2>1, <2>3 DEF SocketTypeOK, SvType, NameType, TempType
  <2>5. SocketsAreNumbered'
    BY <1>0, <1>1, <2>1 DEF SocketsAreNumbered, Binding
  <2>6. NamesAreLast'
    BY <1>0, <1>4, <2>1, <2>3 DEF NamesAreLast
  <2>7. QuietRepair'
    BY <1>0, <1>1, <1>4, <2>1, <2>3 DEF QuietRepair, Repairing, Binding
  <2> QED
    BY <2>4, <2>5, <2>6, <2>7 DEF SocketInv, SocketRest
<1>5. ASSUME sv.pc = "untemp", private[sv.dir], tempAt' = UnlinkTempIfIdentity(sv.dir, sv.new),
             sv' = [sv EXCEPT !.pc = "match"], UNCHANGED nameAt
      PROVE  SocketInv'
  <2>1. /\ sv' \in SvType /\ sv'.pc = "match" /\ sv'.dir = sv.dir /\ sv'.first = sv.first /\ sv'.old = sv.old
        /\ sv'.new = sv.new /\ sv'.served = sv.served /\ sv'.binds = sv.binds /\ sv'.ok = sv.ok /\ sv'.quiet = sv.quiet
    BY <1>0, <1>5, SvMoves DEF SocketPcs
  <2>2. tempAt' \in TempType /\ tempAt'[sv.dir] = tempAt[sv.dir] \ {sv.new}
    BY <1>0, <1>5, UntempGives
  <2>3. SocketTypeOK'
    BY <1>0, <1>1, <1>5, <2>1, <2>2 DEF SocketTypeOK, SvType, NameType, TempType
  <2>4. SocketsAreNumbered'
    BY <1>0, <1>1, <2>1 DEF SocketsAreNumbered, Binding
  <2>5. NamesAreLast'
    BY <1>0, <1>5, <2>1, <2>2 DEF NamesAreLast
  <2>6. QuietRepair'
    BY <1>0, <1>1, <1>5, <2>1, <2>2 DEF QuietRepair, Repairing, Binding
  <2> QED
    BY <2>3, <2>4, <2>5, <2>6 DEF SocketInv, SocketRest
<1> QED
  BY <1>2, <1>3, <1>4, <1>5 DEF RestrictSocketPermissions, LinkNoReplace, VerifyPublished, UnlinkTemp, EnsurePrivate

LEMMA MatchKeeps == SocketInv /\ BindMatches => SocketInv'
<1> SUFFICES ASSUME SocketInv, BindMatches
             PROVE  SocketInv'
  OBVIOUS
<1>0. /\ place \in RuntimeDirs \cup {"missing", "unsafe"} /\ private \in [RuntimeDirs -> BOOLEAN]
      /\ nameAt \in NameType /\ tempAt \in TempType /\ sv \in SvType /\ tampers \in 0..MaxTamper
      /\ SocketsAreNumbered /\ NamesAreLast /\ QuietRepair /\ sv.dir \in RuntimeDirs
      /\ \A d \in RuntimeDirs : tempAt[d] \subseteq Bound
  BY SocketFacts
<1>1. sv.pc = "match" /\ UNCHANGED <<place, private, tempAt, tampers>>
  BY DEF BindMatches
<1>2. CASE place = sv.dir
  <2>1. sv' = [sv EXCEPT !.pc = "serving", !.served = sv.new, !.first = FALSE, !.ok = TRUE] /\ nameAt' = nameAt
    BY <1>2 DEF BindMatches, EnsurePathMatches, Opens
  <2>2. /\ sv' \in SvType /\ sv'.pc = "serving" /\ sv'.dir = sv.dir /\ sv'.first = FALSE /\ sv'.quiet = sv.quiet
        /\ sv'.new = sv.new /\ sv'.served = sv.new /\ sv'.binds = sv.binds /\ sv'.ok = TRUE
    BY <1>0, <2>1 DEF SvType, SocketPcs
  <2>3. SocketTypeOK'
    BY <1>0, <1>1, <2>1, <2>2 DEF SocketTypeOK, SvType, NameType, TempType
  <2>4. SocketsAreNumbered'
    BY <1>0, <1>1, <2>2 DEF SocketsAreNumbered, Binding
  <2>5. NamesAreLast'
    BY <1>0, <1>1, <2>1, <2>2 DEF NamesAreLast
  <2>6. QuietRepair'
    BY <1>0, <1>1, <1>2, <2>1, <2>2 DEF QuietRepair, Repairing, Binding
  <2> QED
    BY <2>3, <2>4, <2>5, <2>6 DEF SocketInv, SocketRest
<1>3. CASE place # sv.dir
  <2>1. ~sv.quiet /\ sv.pc \in Binding
    BY <1>0, <1>1, <1>3 DEF QuietRepair, Repairing, Binding
  <2>2. nameAt' = UnlinkIfIdentity(sv.dir, sv.new) /\ sv' = Failed
    BY <1>3 DEF BindMatches, EnsurePathMatches, Opens
  <2>3. nameAt' \in NameType /\ \A e \in RuntimeDirs : nameAt'[e] \in {nameAt[e], Nothing}
    BY <1>0, <2>2, UnlinkGives
  <2> QED
    BY <1>0, <1>1, <2>1, <2>2, <2>3, FailureKeeps
<1> QED
  BY <1>2, <1>3

LEMMA LookKeeps == SocketInv /\ EnsureSocketBound => SocketInv'
<1> SUFFICES ASSUME SocketInv, EnsureSocketBound
             PROVE  SocketInv'
  OBVIOUS
<1>0. /\ place \in RuntimeDirs \cup {"missing", "unsafe"} /\ private \in [RuntimeDirs -> BOOLEAN]
      /\ nameAt \in NameType /\ tempAt \in TempType /\ sv \in SvType /\ tampers \in 0..MaxTamper
      /\ SocketsAreNumbered /\ NamesAreLast /\ QuietRepair /\ sv.dir \in RuntimeDirs
      /\ \A d \in RuntimeDirs : tempAt[d] \subseteq Bound
  BY SocketFacts
<1>1. sv.pc = "serving" /\ UNCHANGED <<place, private, nameAt, tempAt, tampers>> /\ sv.served # Nothing /\ ~sv.first
  BY <1>0 DEF EnsureSocketBound, SocketsAreNumbered
<1> DEFINE good == place = sv.dir /\ private[sv.dir]
           goes == good /\ nameAt[sv.dir] = Nothing
           w == good /\ nameAt[sv.dir] = sv.served
<1>2. /\ ~goes => sv' = [sv EXCEPT !.quiet = TRUE, !.ok = w]
      /\ goes => sv' = [sv EXCEPT !.quiet = TRUE, !.pc = "checks"]
  <2>1. CASE ~good
    BY <2>1 DEF EnsureSocketBound, EnsurePathMatches, Opens, EnsurePrivate
  <2>2. CASE good /\ nameAt[sv.dir] = sv.served
    BY <1>1, <2>2 DEF EnsureSocketBound, EnsurePathMatches, Opens, EnsurePrivate
  <2>3. CASE good /\ nameAt[sv.dir] = Nothing
    BY <1>1, <2>3 DEF EnsureSocketBound, EnsurePathMatches, Opens, EnsurePrivate
  <2>4. CASE good /\ nameAt[sv.dir] # Nothing /\ nameAt[sv.dir] # sv.served
    BY <1>1, <2>4 DEF EnsureSocketBound, EnsurePathMatches, Opens, EnsurePrivate
  <2> QED
    BY <2>1, <2>2, <2>3, <2>4
<1>3. w \in BOOLEAN /\ goes \in BOOLEAN /\ (goes => good /\ nameAt[sv.dir] = Nothing)
  OBVIOUS
<1>4. /\ sv' \in SvType /\ sv'.dir = sv.dir /\ sv'.first = sv.first /\ sv'.quiet
      /\ sv'.new = sv.new /\ sv'.served = sv.served /\ sv'.binds = sv.binds
      /\ ~goes => sv'.pc = "serving" /\ (sv'.ok <=> w)
      /\ goes => sv'.pc = "checks"
  <2> HIDE DEF w, goes
  <2>1. CASE ~goes
    BY <1>0, <1>1, <1>2, <1>3, <2>1 DEF SvType
  <2>2. CASE goes
    BY <1>0, <1>2, <2>2 DEF SvType, SocketPcs
  <2> QED
    BY <2>1, <2>2
<1>5. SocketTypeOK'
  BY <1>0, <1>1, <1>4 DEF SocketTypeOK, SvType, NameType, TempType
<1>6. SocketsAreNumbered'
  BY <1>0, <1>1, <1>4 DEF SocketsAreNumbered, Binding
<1>7. NamesAreLast'
  <2>1. goes => \A d \in RuntimeDirs : nameAt[d] \notin Bound
    BY <1>0 DEF NamesAreLast, Nothing, Bound
  <2> QED
    BY <1>0, <1>1, <1>4, <2>1 DEF NamesAreLast
<1>8. QuietRepair'
  BY <1>0, <1>1, <1>4 DEF QuietRepair, Repairing, Binding
<1> QED
  BY <1>5, <1>6, <1>7, <1>8 DEF SocketInv, SocketRest

LEMMA SocketInitInv == SocketInit => SocketInv
<1> SUFFICES ASSUME SocketInit
             PROVE  SocketInv
  OBVIOUS
<1>1. (CHOOSE d \in RuntimeDirs : TRUE) \in RuntimeDirs /\ 0 \in 0..MaxBind /\ 0 \in 0..MaxTamper
  BY SocketAssumption
<1>2. SocketTypeOK
  BY <1>1 DEF SocketInit, SocketTypeOK, SocketPcs
<1>3. SocketRest
  BY <1>1 DEF SocketInit, SocketRest, SocketsAreNumbered, NamesAreLast, QuietRepair, Binding, Repairing, Bound, Nothing,
     Theirs, NoSocket
<1> QED
  BY <1>2, <1>3 DEF SocketInv

LEMMA SocketStep == SocketInv /\ [SocketNext]_socketVars => SocketInv'
<1> SUFFICES ASSUME SocketInv, [SocketNext]_socketVars
             PROVE  SocketInv'
  OBVIOUS
<1>0. SocketTypeOK /\ SocketRest
  BY DEF SocketInv
<1>1. CASE BindChecks
  <2> USE SocketAssumption DEF Nothing, Theirs, NoSocket, Bound
  <2>1. SocketTypeOK'
    BY <1>0, <1>1 DEF BindChecks, SocketTypeOK, SocketPcs, SocketRest, SocketsAreNumbered, EnsurePathMatches, Opens, EnsurePrivate, Failed
  <2>2. SocketsAreNumbered'
    BY <1>0, <1>1 DEF BindChecks, SocketTypeOK, SocketRest, SocketsAreNumbered, Binding, EnsurePathMatches, Opens, EnsurePrivate, Failed
  <2>3. NamesAreLast'
    BY <1>0, <1>1 DEF BindChecks, SocketTypeOK, SocketRest, SocketsAreNumbered, NamesAreLast, Binding, EnsurePathMatches, Opens, EnsurePrivate, Failed
  <2>4. QuietRepair'
    BY <1>0, <1>1 DEF BindChecks, SocketTypeOK, SocketRest, SocketsAreNumbered, QuietRepair, NamesAreLast, Binding, Repairing, EnsurePathMatches, Opens, EnsurePrivate, Failed
  <2> QED
    BY <2>1, <2>2, <2>3, <2>4 DEF SocketInv, SocketRest
<1>2. CASE RemoveExistingOpens
  <2> USE SocketAssumption DEF Nothing, Theirs, NoSocket, Bound
  <2>1. SocketTypeOK'
    BY <1>0, <1>2 DEF RemoveExistingOpens, SocketTypeOK, SocketPcs, SocketRest, SocketsAreNumbered, Failed
  <2>2. SocketsAreNumbered'
    BY <1>0, <1>2 DEF RemoveExistingOpens, SocketTypeOK, SocketRest, SocketsAreNumbered, Binding, Failed
  <2>3. NamesAreLast'
    BY <1>0, <1>2 DEF RemoveExistingOpens, SocketTypeOK, SocketRest, SocketsAreNumbered, NamesAreLast, Binding, Failed
  <2>4. QuietRepair'
    BY <1>0, <1>2 DEF RemoveExistingOpens, SocketTypeOK, SocketRest, SocketsAreNumbered, QuietRepair, NamesAreLast, Binding, Repairing, Failed
  <2> QED
    BY <2>1, <2>2, <2>3, <2>4 DEF SocketInv, SocketRest
<1>3. CASE RemoveExistingUnlinks
  <2> USE SocketAssumption DEF Nothing, Theirs, NoSocket, Bound
  <2>1. SocketTypeOK'
    BY <1>0, <1>3 DEF RemoveExistingUnlinks, SocketTypeOK, SocketPcs, SocketRest, SocketsAreNumbered, UnlinkIfIdentity, EnsurePrivate, Failed
  <2>2. SocketsAreNumbered'
    BY <1>0, <1>3 DEF RemoveExistingUnlinks, SocketTypeOK, SocketRest, SocketsAreNumbered, Binding, UnlinkIfIdentity, EnsurePrivate, Failed
  <2>3. NamesAreLast'
    BY <1>0, <1>3 DEF RemoveExistingUnlinks, SocketTypeOK, SocketRest, SocketsAreNumbered, NamesAreLast, Binding, UnlinkIfIdentity, EnsurePrivate, Failed
  <2>4. QuietRepair'
    BY <1>0, <1>3 DEF RemoveExistingUnlinks, SocketTypeOK, SocketRest, SocketsAreNumbered, QuietRepair, NamesAreLast, Binding, Repairing, UnlinkIfIdentity, EnsurePrivate, Failed
  <2> QED
    BY <2>1, <2>2, <2>3, <2>4 DEF SocketInv, SocketRest
<1>4. CASE BindTempListenerFails
  <2> USE SocketAssumption DEF Nothing, Theirs, NoSocket, Bound
  <2>1. SocketTypeOK'
    BY <1>0, <1>4 DEF BindTempListenerFails, SocketTypeOK, SocketPcs, SocketRest, SocketsAreNumbered, Failed
  <2>2. SocketsAreNumbered'
    BY <1>0, <1>4 DEF BindTempListenerFails, SocketTypeOK, SocketRest, SocketsAreNumbered, Binding, Failed
  <2>3. NamesAreLast'
    BY <1>0, <1>4 DEF BindTempListenerFails, SocketTypeOK, SocketRest, SocketsAreNumbered, NamesAreLast, Binding, Failed
  <2>4. QuietRepair'
    BY <1>0, <1>4 DEF BindTempListenerFails, SocketTypeOK, SocketRest, SocketsAreNumbered, QuietRepair, NamesAreLast, Binding, Repairing, Failed
  <2> QED
    BY <2>1, <2>2, <2>3, <2>4 DEF SocketInv, SocketRest
<1>5. CASE RemoveSocketIfCurrent
  <2> USE SocketAssumption DEF Nothing, Theirs, NoSocket, Bound
  <2>1. SocketTypeOK'
    BY <1>0, <1>5 DEF RemoveSocketIfCurrent, SocketTypeOK, SocketPcs, SocketRest, SocketsAreNumbered, UnlinkIfIdentity, EnsurePrivate
  <2>2. SocketsAreNumbered'
    BY <1>0, <1>5 DEF RemoveSocketIfCurrent, SocketTypeOK, SocketRest, SocketsAreNumbered, Binding, UnlinkIfIdentity, EnsurePrivate
  <2>3. NamesAreLast'
    BY <1>0, <1>5 DEF RemoveSocketIfCurrent, SocketTypeOK, SocketRest, SocketsAreNumbered, NamesAreLast, Binding, UnlinkIfIdentity, EnsurePrivate
  <2>4. QuietRepair'
    BY <1>0, <1>5 DEF RemoveSocketIfCurrent, SocketTypeOK, SocketRest, SocketsAreNumbered, QuietRepair, NamesAreLast, Binding, Repairing, UnlinkIfIdentity, EnsurePrivate
  <2> QED
    BY <2>1, <2>2, <2>3, <2>4 DEF SocketInv, SocketRest
<1>6. CASE TamperName \/ TamperTemp \/ TamperPlace \/ TamperMode
  BY <1>6, TamperKeeps DEF TamperName, TamperTemp, TamperPlace, TamperMode
<1>7. CASE UNCHANGED socketVars
  BY <1>0, <1>7 DEF socketVars, SocketInv, SocketTypeOK, SocketRest, SocketsAreNumbered, NamesAreLast, QuietRepair
<1> QED
  BY <1>1, <1>2, <1>3, <1>4, <1>5, <1>6, <1>7, OpenKeeps, BindKeeps, PublishKeeps, MatchKeeps, LookKeeps DEF SocketNext

(* For any number of directories, binds and steps of other processes: a    *)
(* repair of the supervisor's socket that nobody disturbed reports what is *)
(* so (ensure_supervisor_socket_bound).                                    *)
THEOREM RepairTellsTruth == SocketSpec => [](SocketTypeOK /\ SocketIsRepaired)
BY SocketInitInv, SocketStep, SocketInvSafe, PTL DEF SocketSpec
-----------------------------------------------------------------------------
(* A set of naturals has a least element: what stands in for induction. *)
LEMMA LeastNat ==
  ASSUME NEW T \in SUBSET Nat, T # {}
  PROVE  \E m \in T : \A k \in T : m <= k
<1>1. IsWellFoundedOn(OpToRel(<, Nat), Nat)
  BY NatLessThanWellFounded
<1>2. PICK m \in T : \A k \in T : ~(<<k, m>> \in OpToRel(<, Nat))
  BY <1>1, WFMin
<1>3. m \in Nat /\ \A k \in T : k \in Nat /\ ~(k < m)
  BY <1>2 DEF OpToRel
<1> QED
  BY <1>3

-----------------------------------------------------------------------------
(* From the PTY to the journal *)

(* The chunks of q hold the bytes after a up to b, without gap or overlap. *)
Chain(q, a, b) ==
  \E off \in [0..Len(q) -> Nat] :
     /\ off[0] = a /\ off[Len(q)] = b
     /\ \A i \in 1..Len(q) : off[i - 1] <= off[i] /\ q[i] = Upto(off[i - 1], off[i])

Chunks == Seq(Seq(Nat))

(* A sequence cut in two. *)
LEMMA SeqCut ==
  ASSUME NEW S, NEW s \in Seq(S), NEW k \in 0..Len(s)
  PROVE  /\ SubSeq(s, 1, k) \in Seq(S) /\ Len(SubSeq(s, 1, k)) = k
         /\ \A i \in 1..k : SubSeq(s, 1, k)[i] = s[i]
         /\ SubSeq(s, k + 1, Len(s)) \in Seq(S) /\ Len(SubSeq(s, k + 1, Len(s))) = Len(s) - k
         /\ \A i \in 1..(Len(s) - k) : SubSeq(s, k + 1, Len(s))[i] = s[k + i]
<1>1. Len(s) \in Nat /\ k \in Nat /\ k <= Len(s)
  OBVIOUS
<1>2. SubSeq(s, 1, k) \in Seq(S) /\ Len(SubSeq(s, 1, k)) = k
  BY <1>1
<1>3. \A i \in 1..k : SubSeq(s, 1, k)[i] = s[i]
  BY <1>1
<1>4. SubSeq(s, k + 1, Len(s)) \in Seq(S) /\ Len(SubSeq(s, k + 1, Len(s))) = Len(s) - k
  BY <1>1
<1>5. \A i \in 1..(Len(s) - k) : SubSeq(s, k + 1, Len(s))[i] = s[k + i]
  BY <1>1
<1> QED
  BY <1>2, <1>3, <1>4, <1>5

LEMMA ChunksCat ==
  ASSUME NEW x \in Chunks, NEW y \in Chunks
  PROVE  /\ x \o y \in Chunks /\ Len(x) \in Nat /\ Len(y) \in Nat
         /\ Len(x \o y) = Len(x) + Len(y)
         /\ \A i \in 1..Len(x \o y) :
               \/ i \in 1..Len(x) /\ (x \o y)[i] = x[i]
               \/ i > Len(x) /\ i - Len(x) \in 1..Len(y) /\ (x \o y)[i] = y[i - Len(x)]
<1> DEFINE z == x \o y
<1>1. x \in Seq(Seq(Nat)) /\ y \in Seq(Seq(Nat)) /\ Len(x) \in Nat /\ Len(y) \in Nat
  BY DEF Chunks
<1>2. /\ z \in Seq(Seq(Nat))
      /\ Len(z) = Len(x) + Len(y)
      /\ \A i \in 1..(Len(x) + Len(y)) : z[i] = IF i <= Len(x) THEN x[i] ELSE y[i - Len(x)]
  BY <1>1, ConcatProperties
<1> HIDE DEF z
<1>3. ASSUME NEW i \in 1..Len(z)
      PROVE  \/ i \in 1..Len(x) /\ z[i] = x[i]
             \/ i > Len(x) /\ i - Len(x) \in 1..Len(y) /\ z[i] = y[i - Len(x)]
  BY SMTT(30), <1>1, <1>2
<1> QED
  BY <1>1, <1>2, <1>3 DEF Chunks, z

LEMMA UptoFacts ==
  ASSUME NEW a \in Nat, NEW b \in Nat, a <= b
  PROVE  /\ Upto(a, b) \in Seq(Nat)
         /\ Len(Upto(a, b)) = b - a
         /\ Upto(a, b) = <<>> <=> a = b
         /\ \A i \in 1..(b - a) : Upto(a, b)[i] = a + i
<1>1. b - a \in Nat
  OBVIOUS
<1>2. \A i \in 1..(b - a) : a + i \in Nat
  OBVIOUS
<1>3. Upto(a, b) \in Seq(Nat) /\ Len(Upto(a, b)) = b - a
  BY <1>1, <1>2 DEF Upto
<1> QED
  BY <1>1, <1>3 DEF Upto

LEMMA UptoJoin ==
  ASSUME NEW a \in Nat, NEW b \in Nat, NEW c \in Nat, a <= b, b <= c
  PROVE  Upto(a, b) \o Upto(b, c) = Upto(a, c) /\ a <= c
<1> DEFINE x == Upto(a, b)
           y == Upto(b, c)
           z == Upto(a, c)
<1>1. x \in Seq(Nat) /\ Len(x) = b - a /\ \A i \in 1..(b - a) : x[i] = a + i
  BY UptoFacts
<1>2. y \in Seq(Nat) /\ Len(y) = c - b /\ \A i \in 1..(c - b) : y[i] = b + i
  BY UptoFacts
<1>3. a <= c
  OBVIOUS
<1>4. z \in Seq(Nat) /\ Len(z) = c - a /\ \A i \in 1..(c - a) : z[i] = a + i
  BY <1>3, UptoFacts
<1> HIDE DEF x, y, z
<1> DEFINE j == x \o y
<1>5. j \in Seq(Nat) /\ Len(j) = c - a
  <2>1. j \in Seq(Nat) /\ Len(j) = Len(x) + Len(y)
    BY <1>1, <1>2, ConcatProperties
  <2>2. (b - a) + (c - b) = c - a
    OBVIOUS
  <2> HIDE DEF j
  <2> QED
    BY <1>1, <1>2, <2>1, <2>2
<1>6. ASSUME NEW i \in 1..(c - a)
      PROVE  j[i] = z[i]
  <2>1. CASE i <= b - a
    <3>1. i \in 1..(b - a) /\ i \in 1..Len(x)
      BY <1>1, <2>1
    <3>2. j[i] = x[i]
      BY <1>1, <1>2, <3>1
    <3> QED
      BY <1>1, <1>4, <3>1, <3>2
  <2>2. CASE i > b - a
    <3>1. i - (b - a) \in 1..(c - b) /\ b + (i - (b - a)) = a + i
      BY <2>2
    <3>2. j[i] = y[i - Len(x)]
      BY SMTT(30), <1>1, <1>2, <2>2
    <3> QED
      BY <1>1, <1>2, <1>4, <3>1, <3>2
  <2>3. i <= b - a \/ i > b - a
    OBVIOUS
  <2> QED
    BY <2>1, <2>2, <2>3
<1> HIDE DEF j
<1>7. j = z
  BY <1>4, <1>5, <1>6
<1> QED
  BY <1>3, <1>7 DEF j, x, y, z

LEMMA UptoCut ==
  ASSUME NEW a \in Nat, NEW b \in Nat, NEW n \in Nat, a + n <= b
  PROVE  /\ SubSeq(Upto(a, b), 1, n) = Upto(a, a + n)
         /\ SubSeq(Upto(a, b), n + 1, Len(Upto(a, b))) = Upto(a + n, b)
<1> DEFINE u == Upto(a, b)
<1>1. /\ u \in Seq(Nat) /\ Len(u) = b - a
      /\ \A i \in 1..(b - a) : u[i] = a + i
  BY UptoFacts
<1>2. /\ Upto(a, a + n) \in Seq(Nat) /\ Len(Upto(a, a + n)) = n
      /\ \A i \in 1..n : Upto(a, a + n)[i] = a + i
  <2>1. a + n \in Nat /\ a <= a + n /\ (a + n) - a = n
    OBVIOUS
  <2> QED
    BY <2>1, UptoFacts
<1>3. /\ Upto(a + n, b) \in Seq(Nat) /\ Len(Upto(a + n, b)) = b - a - n
      /\ \A i \in 1..(b - a - n) : Upto(a + n, b)[i] = a + n + i
  <2>1. a + n \in Nat /\ b - (a + n) = b - a - n
    OBVIOUS
  <2> QED
    BY <2>1, UptoFacts
<1> HIDE DEF u
<1> DEFINE v == SubSeq(u, 1, n)
           w == SubSeq(u, n + 1, Len(u))
<1>4. v \in Seq(Nat) /\ Len(v) = n /\ \A i \in 1..n : v[i] = u[i]
  BY <1>1
<1>5. /\ w \in Seq(Nat) /\ Len(w) = b - a - n
      /\ \A i \in 1..(b - a - n) : w[i] = u[n + i]
  BY <1>1
<1> HIDE DEF v, w
<1>6. ASSUME NEW i \in 1..n
      PROVE  v[i] = Upto(a, a + n)[i]
  <2>1. i \in 1..(b - a)
    OBVIOUS
  <2> QED
    BY <1>1, <1>2, <1>4, <2>1
<1>7. v = Upto(a, a + n)
  BY <1>2, <1>4, <1>6
<1>8. \A i \in 1..(b - a - n) : w[i] = Upto(a + n, b)[i]
  BY <1>1, <1>3, <1>5
<1>9. w = Upto(a + n, b)
  BY <1>3, <1>5, <1>8
<1> QED
  BY <1>7, <1>9 DEF u, v, w

LEMMA UptoCuts ==
  \A u, v, w \in Nat : u + w <= v =>
     /\ SubSeq(Upto(u, v), 1, w) = Upto(u, u + w)
     /\ SubSeq(Upto(u, v), w + 1, Len(Upto(u, v))) = Upto(u + w, v)
BY UptoCut

(* FlattenSeq of a chain is the run of its bytes. *)
LEMMA ChainFlat ==
  ASSUME NEW q \in Chunks, NEW a \in Nat, NEW b \in Nat, Chain(q, a, b)
  PROVE  a <= b /\ FlattenSeq(q) = Upto(a, b)
<1>1. PICK off \in [0..Len(q) -> Nat] :
         /\ off[0] = a /\ off[Len(q)] = b
         /\ \A i \in 1..Len(q) : off[i - 1] <= off[i] /\ q[i] = Upto(off[i - 1], off[i])
  BY DEF Chain
<1>2. Len(q) \in Nat
  BY DEF Chunks
<1>3. \A i \in 0..Len(q) : off[i] \in Nat
  BY <1>1
<1>4. \A i \in 0..Len(q) : a <= off[i]
  <2> DEFINE T == {i \in 0..Len(q) : ~(a <= off[i])}
  <2> SUFFICES ASSUME T # {} PROVE FALSE
    OBVIOUS
  <2>1. T \in SUBSET Nat
    BY <1>2
  <2>2. PICK m \in T : \A k \in T : m <= k
    BY <2>1, LeastNat
  <2>3. m # 0 /\ m \in 1..Len(q) /\ m - 1 \in 0..Len(q) /\ ~(m <= m - 1)
    BY <1>1, <1>2, <2>2
  <2>4. m - 1 \notin T
    BY <2>2, <2>3
  <2>5. a <= off[m - 1] /\ off[m - 1] <= off[m] /\ off[m] \in Nat /\ off[m - 1] \in Nat
    BY <1>1, <1>3, <2>3, <2>4
  <2> QED
    BY <2>2, <2>5
<1>5. CASE Len(q) = 0
  <2>1. q = <<>> /\ a = b
    BY <1>1, <1>5 DEF Chunks
  <2>2. Upto(a, b) = <<>>
    BY <2>1, UptoFacts
  <2> QED
    BY <2>1, <2>2 DEF FlattenSeq
<1>6. CASE Len(q) # 0
  <2> DEFINE Step(f) == [i \in 1..Len(q) |-> IF i = 1 THEN q[i] ELSE f[i - 1] \o q[i]]
             w == [i \in 1..Len(q) |-> Upto(a, off[i])]
             fl == CHOOSE f : f = Step(f)
  <2>1. ASSUME NEW i \in 1..Len(q)
        PROVE  Upto(a, off[i]) = IF i = 1 THEN q[i] ELSE Upto(a, off[i - 1]) \o q[i]
    <3>1. off[i] \in Nat /\ off[i - 1] \in Nat /\ off[i - 1] <= off[i] /\ a <= off[i - 1]
          /\ q[i] = Upto(off[i - 1], off[i])
      BY <1>1, <1>2, <1>3, <1>4
    <3>2. CASE i = 1
      BY <1>1, <3>1, <3>2
    <3>3. CASE i # 1
      <4>1. Upto(a, off[i - 1]) \o Upto(off[i - 1], off[i]) = Upto(a, off[i])
        BY <3>1, UptoJoin
      <4> QED
        BY <3>1, <3>3, <4>1
    <3> QED
      BY <3>2, <3>3
  <2>2. w = Step(w)
    <3>1. \A i \in 1..Len(q) : i # 1 => i - 1 \in 1..Len(q)
      BY <1>2
    <3> QED
      BY <2>1, <3>1
  <2>3. fl = Step(fl)
    BY <2>2
  <2>4. \A i \in 1..Len(q) : fl[i] = w[i]
    <3> DEFINE T == {i \in 1..Len(q) : fl[i] # w[i]}
    <3> SUFFICES ASSUME T # {} PROVE FALSE
      OBVIOUS
    <3> HIDE DEF fl, w
    <3>1. T \in SUBSET Nat
      BY <1>2
    <3>2. PICK m \in T : \A k \in T : m <= k
      BY <3>1, LeastNat
    <3>3. m \in 1..Len(q)
      BY <3>2
    <3>4. fl[m] = (IF m = 1 THEN q[m] ELSE fl[m - 1] \o q[m])
          /\ w[m] = (IF m = 1 THEN q[m] ELSE w[m - 1] \o q[m])
      BY <2>2, <2>3, <3>3
    <3>5. m # 1 => m - 1 \in 1..Len(q) /\ ~(m <= m - 1)
      BY <1>2, <3>3
    <3>6. m # 1 => fl[m - 1] = w[m - 1]
      BY <3>2, <3>5
    <3> QED
      BY <3>2, <3>4, <3>6
  <2>5. FlattenSeq(q) = fl[Len(q)]
    BY <1>6 DEF FlattenSeq
  <2>6. Len(q) \in 1..Len(q)
    BY <1>2, <1>6
  <2>7. fl[Len(q)] = w[Len(q)]
    BY <2>4, <2>6
  <2>8. w[Len(q)] = Upto(a, off[Len(q)])
    BY <2>6
  <2>9. Len(q) \in 0..Len(q)
    BY <1>2
  <2> HIDE DEF fl, w
  <2> QED
    BY <1>1, <1>4, <2>5, <2>7, <2>8, <2>9
<1> QED
  BY <1>5, <1>6

LEMMA ChainNone ==
  ASSUME NEW a \in Nat
  PROVE  Chain(<<>>, a, a)
<1> DEFINE off == [i \in 0..0 |-> a]
<1>1. Len(<<>>) = 0 /\ off \in [0..0 -> Nat] /\ off[0] = a
  OBVIOUS
<1>2. \A i \in 1..0 : FALSE
  OBVIOUS
<1> HIDE DEF off
<1> SUFFICES \E o \in [0..0 -> Nat] :
               /\ o[0] = a
               /\ \A i \in 1..0 : o[i - 1] <= o[i] /\ <<>>[i] = Upto(o[i - 1], o[i])
  BY <1>1 DEF Chain
<1> QED
  BY <1>1, <1>2

(* A chain goes on with one chunk more, at its end or at its front. *)
LEMMA ChainAppend ==
  ASSUME NEW q \in Chunks, NEW a \in Nat, NEW b \in Nat, NEW c \in Nat, b <= c, Chain(q, a, b)
  PROVE  Chain(Append(q, Upto(b, c)), a, c)
<1>1. PICK off \in [0..Len(q) -> Nat] :
         /\ off[0] = a /\ off[Len(q)] = b
         /\ \A i \in 1..Len(q) : off[i - 1] <= off[i] /\ q[i] = Upto(off[i - 1], off[i])
  BY DEF Chain
<1>2. Len(q) \in Nat
  BY DEF Chunks
<1> DEFINE r == Append(q, Upto(b, c))
           new == [i \in 0..(Len(q) + 1) |-> IF i = Len(q) + 1 THEN c ELSE off[i]]
<1>3. Upto(b, c) \in Seq(Nat)
  BY UptoFacts
<1>4. /\ Len(r) = Len(q) + 1
      /\ r[Len(q) + 1] = Upto(b, c)
      /\ \A i \in 1..Len(q) : r[i] = q[i]
  BY <1>3 DEF Chunks
<1> HIDE DEF r
<1>5. new \in [0..Len(r) -> Nat]
  BY <1>1, <1>2, <1>4
<1>6. new[0] = a /\ new[Len(r)] = c
  BY <1>1, <1>2, <1>4
<1>7. ASSUME NEW i \in 1..Len(r)
      PROVE  new[i - 1] <= new[i] /\ r[i] = Upto(new[i - 1], new[i])
  <2>1. CASE i = Len(q) + 1
    <3>1. new[i] = c /\ new[i - 1] = b
      BY <1>1, <1>2, <2>1
    <3> HIDE DEF new
    <3> QED
      BY <1>4, <2>1, <3>1
  <2>2. CASE i # Len(q) + 1
    <3>1. i \in 1..Len(q) /\ i - 1 \in 0..Len(q)
      BY <1>2, <1>4, <2>2
    <3>2. new[i] = off[i] /\ new[i - 1] = off[i - 1]
      BY <1>2, <3>1
    <3> HIDE DEF new
    <3> QED
      BY <1>1, <1>4, <3>1, <3>2
  <2> QED
    BY <2>1, <2>2
<1> HIDE DEF new
<1> QED
  BY <1>5, <1>6, <1>7 DEF Chain, r

(* Two chains that meet are one. *)
LEMMA ChainJoin ==
  ASSUME NEW q \in Chunks, NEW r \in Chunks, NEW a \in Nat, NEW b \in Nat, NEW c \in Nat,
         Chain(q, a, b), Chain(r, b, c)
  PROVE  Chain(q \o r, a, c)
<1>1. PICK off \in [0..Len(q) -> Nat] :
         /\ off[0] = a /\ off[Len(q)] = b
         /\ \A i \in 1..Len(q) : off[i - 1] <= off[i] /\ q[i] = Upto(off[i - 1], off[i])
  BY DEF Chain
<1>2. PICK on \in [0..Len(r) -> Nat] :
         /\ on[0] = b /\ on[Len(r)] = c
         /\ \A i \in 1..Len(r) : on[i - 1] <= on[i] /\ r[i] = Upto(on[i - 1], on[i])
  BY DEF Chain
<1>3. Len(q) \in Nat /\ Len(r) \in Nat
  BY DEF Chunks
<1> DEFINE z == q \o r
           m == Len(q)
           new == [i \in 0..(m + Len(r)) |-> IF i <= m THEN off[i] ELSE on[i - m]]
<1>4. /\ Len(z) = m + Len(r)
      /\ \A i \in 1..m : z[i] = q[i]
      /\ \A i \in (m + 1)..(m + Len(r)) : z[i] = r[i - m]
  BY DEF Chunks
<1> HIDE DEF z
<1>5. \A i \in 0..(m + Len(r)) : i > m => i - m \in 0..Len(r)
  BY <1>3
<1>6. new \in [0..Len(z) -> Nat]
  <2> SUFFICES ASSUME NEW i \in 0..(m + Len(r))
               PROVE  (IF i <= m THEN off[i] ELSE on[i - m]) \in Nat
    BY <1>4
  <2>1. CASE i <= m
    <3>1. i \in 0..m
      BY <1>3, <2>1
    <3> QED
      BY <1>1, <2>1, <3>1
  <2>2. CASE ~(i <= m)
    <3>1. i - m \in 0..Len(r)
      BY <1>3, <2>2
    <3> QED
      BY <1>2, <2>2, <3>1
  <2> QED
    BY <2>1, <2>2
<1>7. \A i \in 0..m : new[i] = off[i]
  BY <1>3
<1>8. \A i \in m..(m + Len(r)) : new[i] = on[i - m]
  BY <1>1, <1>2, <1>3
<1> HIDE DEF new
<1>9. new[0] = a /\ new[Len(z)] = c
  <2>1. 0 \in 0..m /\ m + Len(r) \in m..(m + Len(r)) /\ (m + Len(r)) - m = Len(r)
    BY <1>3
  <2> QED
    BY <1>1, <1>2, <1>4, <1>7, <1>8, <2>1
<1>10. ASSUME NEW i \in 1..Len(z)
       PROVE  new[i - 1] <= new[i] /\ z[i] = Upto(new[i - 1], new[i])
  <2>1. CASE i <= m
    <3>1. i \in 1..m /\ i \in 0..m /\ i - 1 \in 0..m
      BY <1>3, <2>1
    <3> QED
      BY <1>1, <1>4, <1>7, <3>1
  <2>2. CASE i > m
    <3>1. /\ i \in (m + 1)..(m + Len(r)) /\ i \in m..(m + Len(r)) /\ i - 1 \in m..(m + Len(r))
          /\ i - m \in 1..Len(r) /\ (i - 1) - m = (i - m) - 1
      BY <1>3, <1>4, <2>2
    <3>2. new[i] = on[i - m] /\ new[i - 1] = on[(i - m) - 1] /\ z[i] = r[i - m]
      BY <1>4, <1>8, <3>1
    <3> QED
      BY <1>2, <3>1, <3>2
  <2>3. i <= m \/ i > m
    BY <1>3, <1>4
  <2> QED
    BY <2>1, <2>2, <2>3
<1> QED
  BY <1>6, <1>9, <1>10 DEF Chain, z

(* A chain cut anywhere is two. *)
LEMMA ChainCut ==
  ASSUME NEW q \in Chunks, NEW a \in Nat, NEW c \in Nat, NEW k \in 0..Len(q), Chain(q, a, c)
  PROVE  \E b \in Nat : Chain(SubSeq(q, 1, k), a, b) /\ Chain(SubSeq(q, k + 1, Len(q)), b, c)
<1>1. PICK off \in [0..Len(q) -> Nat] :
         /\ off[0] = a /\ off[Len(q)] = c
         /\ \A i \in 1..Len(q) : off[i - 1] <= off[i] /\ q[i] = Upto(off[i - 1], off[i])
  BY DEF Chain
<1>2. Len(q) \in Nat /\ k \in Nat /\ k <= Len(q) /\ Len(q) - k \in Nat
  BY DEF Chunks
<1> DEFINE x == SubSeq(q, 1, k)
           y == SubSeq(q, k + 1, Len(q))
           m == Len(q)
           ox == [i \in 0..k |-> off[i]]
           oy == [i \in 0..(m - k) |-> off[k + i]]
<1>3. Len(x) = k /\ \A i \in 1..k : x[i] = q[i]
  BY SeqCut DEF Chunks
<1>4. Len(y) = m - k /\ \A i \in 1..(m - k) : y[i] = q[k + i]
  BY SeqCut DEF Chunks
<1> HIDE DEF x, y
<1>5. Chain(x, a, off[k])
  <2>1. ox \in [0..Len(x) -> Nat] /\ ox[0] = a /\ ox[Len(x)] = off[k]
    BY <1>1, <1>2, <1>3
  <2>2. ASSUME NEW i \in 1..Len(x)
        PROVE  ox[i - 1] <= ox[i] /\ x[i] = Upto(ox[i - 1], ox[i])
    <3>1. i \in 1..m /\ i \in 0..k /\ i - 1 \in 0..k /\ i \in 1..k
      BY <1>2, <1>3
    <3>2. ox[i] = off[i] /\ ox[i - 1] = off[i - 1] /\ x[i] = q[i]
      BY <1>3, <3>1
    <3> QED
      BY <1>1, <3>1, <3>2
  <2> HIDE DEF ox
  <2> QED
    BY <2>1, <2>2 DEF Chain
<1>6. Chain(y, off[k], c)
  <2>1. \A i \in 0..(m - k) : k + i \in 0..m
    BY <1>2
  <2>2. oy \in [0..Len(y) -> Nat]
    BY <1>1, <1>4, <2>1
  <2>3. 0 \in 0..(m - k) /\ m - k \in 0..(m - k) /\ k + 0 = k /\ k + (m - k) = m
    BY <1>2
  <2>4. oy[0] = off[k] /\ oy[Len(y)] = c
    BY <1>1, <1>4, <2>3
  <2>5. ASSUME NEW i \in 1..Len(y)
        PROVE  oy[i - 1] <= oy[i] /\ y[i] = Upto(oy[i - 1], oy[i])
    <3>1. k + i \in 1..m /\ i \in 0..(m - k) /\ i - 1 \in 0..(m - k) /\ i \in 1..(m - k)
          /\ k + (i - 1) = (k + i) - 1
      BY <1>2, <1>4
    <3>2. oy[i] = off[k + i] /\ oy[i - 1] = off[(k + i) - 1] /\ y[i] = q[k + i]
      BY <1>4, <3>1
    <3> QED
      BY <1>1, <3>1, <3>2
  <2> HIDE DEF oy
  <2> QED
    BY <2>2, <2>4, <2>5 DEF Chain
<1>7. off[k] \in Nat
  BY <1>1
<1> QED
  BY <1>5, <1>6, <1>7 DEF x, y

(* A chain of one chunk. *)
LEMMA ChainOne ==
  ASSUME NEW a \in Nat, NEW b \in Nat, a <= b
  PROVE  Chain(<<Upto(a, b)>>, a, b)
<1>1. Chain(<<>>, a, a) /\ <<>> \in Chunks
  BY ChainNone DEF Chunks
<1>2. Chain(Append(<<>>, Upto(a, b)), a, b)
  BY <1>1, ChainAppend
<1>3. Append(<<>>, Upto(a, b)) = <<Upto(a, b)>>
  BY UptoFacts
<1> QED
  BY <1>2, <1>3

(* The first chunk of a chain. *)
LEMMA ChainHead ==
  ASSUME NEW q \in Chunks, NEW a \in Nat, NEW c \in Nat, q # <<>>, Chain(q, a, c)
  PROVE  \E b \in Nat : a <= b /\ q[1] = Upto(a, b) /\ Chain(Tail(q), b, c)
<1>1. Len(q) \in Nat /\ Len(q) >= 1 /\ 1 \in 0..Len(q) /\ 1 \in 1..Len(q)
  BY DEF Chunks
<1>2. PICK b \in Nat : Chain(SubSeq(q, 1, 1), a, b) /\ Chain(SubSeq(q, 2, Len(q)), b, c)
  <2>1. 1 + 1 = 2
    OBVIOUS
  <2> QED
    BY <1>1, <2>1, ChainCut
<1>3. Tail(q) = SubSeq(q, 2, Len(q))
  BY <1>1 DEF Chunks
<1> DEFINE s == SubSeq(q, 1, 1)
<1>4. Len(s) = 1 /\ s[1] = q[1]
  BY <1>1 DEF Chunks
<1> HIDE DEF s
<1>5. Chain(s, a, b)
  BY <1>2 DEF s
<1>6. PICK off \in [0..Len(s) -> Nat] :
         /\ off[0] = a /\ off[Len(s)] = b
         /\ \A i \in 1..Len(s) : off[i - 1] <= off[i] /\ s[i] = Upto(off[i - 1], off[i])
  BY <1>5 DEF Chain
<1>7. 1 \in 1..Len(s) /\ 1 - 1 = 0
  BY <1>4
<1>8. off[0] <= off[1] /\ s[1] = Upto(off[0], off[1])
  BY <1>6, <1>7
<1> QED
  BY <1>2, <1>3, <1>4, <1>6, <1>8

(* The reader thread has met the error and passed it on. *)
ErrorIsOut ==
  /\ ptyEnd = "error" /\ bridge.at = typed
  /\ bridge.pc = "done" \/ (bridge.pc = "signal" /\ bridge.hand = ReadError)

BridgeRecords ==
  /\ typed \in Nat
  /\ bridge \in [pc : {"read", "send", "signal", "done"}, hand : Seq(Nat), at : Nat]
  /\ channel \in Chunks /\ buffered \in Chunks
  /\ pump \in [pc : {"wait", "drain"}, reads : Nat, batch : Seq(Nat), size : Nat \ {0}]
  /\ sent \in Seq(Nat)

(* Every stage of the way holds the bytes that follow those of the stage   *)
(* before it.                                                              *)
BytesInv ==
  \E a, b, c, d \in Nat :
     /\ a <= b /\ d <= bridge.at
     /\ sent = Upto(0, a) /\ pump.batch = Upto(a, b)
     /\ Chain(buffered, b, c) /\ Chain(channel, c, d)
     /\ IF bridge.pc = "send" THEN bridge.hand = Upto(d, bridge.at) ELSE d = bridge.at

(* The error is the last thing on its way, after all bytes. *)
ErrorInv ==
  /\ \A i \in 1..Len(buffered) : buffered[i] # ReadError
  /\ \A i \in 1..Len(channel) : channel[i] = ReadError => i = Len(channel) /\ ErrorIsOut
  /\ bridge.pc \in {"send", "signal"} /\ bridge.hand = ReadError =>
        ptyEnd = "error" /\ bridge.at = typed
  /\ failed => ErrorIsOut /\ channel = <<>>
  /\ reported => ErrorIsOut /\ channel = <<>> /\ buffered = <<>> /\ pump.batch = <<>>

WakeInv ==
  pump.pc = "wait" /\ ~woken /\ bridge.pc # "signal" =>
     channel = <<>> /\ buffered = <<>> /\ ~failed

BridgeInv == BridgeTypeOK /\ BridgeRecords /\ BytesInv /\ ErrorInv /\ WakeInv

(* Min and Max of a few naturals. *)
LEMMA MinOfTwo ==
  ASSUME NEW x \in Nat, NEW y \in Nat
  PROVE  Min({x, y}) \in {x, y} /\ Min({x, y}) <= x /\ Min({x, y}) <= y
<1>1. \E z \in {x, y} : \A w \in {x, y} : z <= w
  OBVIOUS
<1> QED
  BY <1>1 DEF Min

LEMMA MinOfThree ==
  ASSUME NEW x \in Nat, NEW y \in Nat, NEW z \in Nat
  PROVE  /\ Min({x, y, z}) \in {x, y, z}
         /\ Min({x, y, z}) <= x /\ Min({x, y, z}) <= y /\ Min({x, y, z}) <= z
<1>1. \E v \in {x, y, z} : \A w \in {x, y, z} : v <= w
  OBVIOUS
<1> QED
  BY <1>1 DEF Min

LEMMA MaxOfTwo ==
  ASSUME NEW x \in Int
  PROVE  Max({x, 0}) \in Nat /\ (x >= 0 => Max({x, 0}) = x)
<1>1. \E v \in {x, 0} : \A w \in {x, 0} : v >= w
  OBVIOUS
<1> QED
  BY <1>1 DEF Max

LEMMA BridgeInitInv == BridgeInit => BridgeInv
<1> SUFFICES ASSUME BridgeInit PROVE BridgeInv
  OBVIOUS
<1>1. BridgeTypeOK /\ BridgeRecords
  <2>1. <<>> \in Seq(Nat) /\ <<>> \in Seq(Seq(Nat)) /\ Len(<<>>) = 0
    OBVIOUS
  <2>2. \A size \in PumpBuffers : size \in Nat \ {0}
    BY BridgeAssumption
  <2>3. TickMax \in Nat /\ ChannelMax \in Nat /\ MaxByte \in Nat
    BY BridgeAssumption
  <2>4. BridgeRecords
    BY <2>1, <2>2 DEF BridgeInit, BridgeRecords, Chunks, ReadError
  <2>5. 0 \in 0..MaxByte /\ 0 \in 0..0 /\ 0 \in 0..TickMax /\ 0 <= ChannelMax
    BY <2>3
  <2>6. pump.pc = "drain" /\ pump.reads = 0
    BY DEF BridgeInit
  <2>7. /\ bridge.pc = "read" /\ bridge.at = 0 /\ typed = 0
        /\ Len(channel) = 0 /\ Len(buffered) = 0
    BY <2>1 DEF BridgeInit
  <2>8. {failed, woken, reported} \subseteq BOOLEAN /\ ptyEnd = "open"
    BY DEF BridgeInit
  <2>9. BridgeTypeOK
    BY <2>5, <2>6, <2>7, <2>8 DEF BridgeTypeOK
  <2> QED
    BY <2>4, <2>9
<1>2. BytesInv
  <2>1. Upto(0, 0) = <<>>
    BY UptoFacts
  <2>2. Chain(<<>>, 0, 0)
    BY ChainNone
  <2> QED
    BY <2>1, <2>2 DEF BridgeInit, BytesInv
<1>3. ErrorInv /\ WakeInv
  BY DEF BridgeInit, ErrorInv, WakeInv, ErrorIsOut
<1> QED
  BY <1>1, <1>2, <1>3 DEF BridgeInv

LEMMA BridgeSafe == BridgeInv => BridgeTypeOK /\ OutputIsDelivered
<1> SUFFICES ASSUME BridgeInv PROVE OutputIsDelivered
  BY DEF BridgeInv
<1>0. BridgeRecords /\ BytesInv /\ ErrorInv /\ WakeInv
  BY DEF BridgeInv
<1>1. PICK a \in Nat, b \in Nat, c \in Nat, d \in Nat :
     /\ a <= b /\ d <= bridge.at
     /\ sent = Upto(0, a) /\ pump.batch = Upto(a, b)
     /\ Chain(buffered, b, c) /\ Chain(channel, c, d)
     /\ IF bridge.pc = "send" THEN bridge.hand = Upto(d, bridge.at) ELSE d = bridge.at
  BY <1>0 DEF BytesInv
<1>t. bridge.at \in Nat /\ buffered \in Chunks /\ channel \in Chunks
  BY <1>0 DEF BridgeRecords
<1>2. b <= c /\ FlattenSeq(buffered) = Upto(b, c)
  BY <1>1, <1>t, ChainFlat
<1>3. c <= d /\ FlattenSeq(channel) = Upto(c, d)
  BY <1>1, <1>t, ChainFlat
<1> DEFINE h == IF bridge.pc = "send" THEN bridge.hand ELSE <<>>
<1>4. h = Upto(d, bridge.at)
  <2>1. d = bridge.at => Upto(d, bridge.at) = <<>>
    BY <1>t, UptoFacts
  <2> QED
    BY <1>1, <2>1
<1> HIDE DEF h
<1>5. Upto(a, b) \o Upto(b, c) = Upto(a, c) /\ a <= c
  BY <1>1, <1>2, UptoJoin
<1>6. Upto(a, c) \o Upto(c, d) = Upto(a, d) /\ a <= d
  BY <1>3, <1>5, UptoJoin
<1>7. Upto(a, d) \o Upto(d, bridge.at) = Upto(a, bridge.at) /\ a <= bridge.at
  BY <1>1, <1>6, <1>t, UptoJoin
<1>0a. 0 \in Nat /\ 0 <= a
  OBVIOUS
<1>8. Upto(0, a) \o Upto(a, bridge.at) = Upto(0, bridge.at)
  BY <1>0a, <1>7, <1>t, UptoJoin
<1>9. Underway = Upto(a, bridge.at)
  BY <1>1, <1>2, <1>3, <1>4, <1>5, <1>6, <1>7 DEF Underway, h
<1>10. ASSUME reported PROVE sent = Upto(0, typed)
  <2>1. channel = <<>> /\ buffered = <<>> /\ pump.batch = <<>> /\ bridge.at = typed /\ bridge.pc # "send"
    BY <1>0, <1>10 DEF ErrorInv, ErrorIsOut
  <2>2. FlattenSeq(<<>>) = <<>>
    BY DEF FlattenSeq
  <2>3. a = b
    BY ZenonT(40), <1>1, <2>1, UptoFacts
  <2>4. b = c
    BY <1>2, <2>1, <2>2, UptoFacts
  <2>5. c = d
    BY <1>3, <2>1, <2>2, UptoFacts
  <2> QED
    BY <1>1, <2>1, <2>3, <2>4, <2>5
<1> QED
  BY <1>0, <1>1, <1>8, <1>9, <1>10 DEF OutputIsDelivered, WakeInv

(* Publishing cuts the bytes at hand in two. *)
LEMMA PublishesCuts ==
  ASSUME NEW a \in Nat, NEW b \in Nat, NEW e \in Nat, a <= b, b <= e
  PROVE  \E m \in Nat : /\ a <= m /\ m <= e
                        /\ Publishes(Upto(a, b), Upto(b, e)).out = Upto(a, m)
                        /\ Publishes(Upto(a, b), Upto(b, e)).batch = Upto(m, e)
<1> DEFINE x == Upto(a, b)
           y == Upto(b, e)
<1>1. x \o y = Upto(a, e) /\ a <= e
  BY UptoJoin
<1>2. x \in Seq(Nat) /\ y \in Seq(Nat) /\ Upto(a, e) \in Seq(Nat) /\ Upto(e, e) = <<>> /\ Upto(a, a) = <<>>
  BY <1>1, UptoFacts
<1>3. a \in Nat /\ a <= a /\ e \in Nat /\ e <= e
  OBVIOUS
<1> DEFINE early == IF Len(x) + Len(y) > pump.size THEN x ELSE <<>>
           kept == (IF early = <<>> THEN x ELSE <<>>) \o y
<1>4. Publishes(x, y) = IF Len(kept) >= pump.size THEN [out |-> early \o kept, batch |-> <<>>]
                        ELSE [out |-> early, batch |-> kept]
  BY DEF Publishes
<1> HIDE DEF x, y
<1>5. CASE early = <<>>
  <2>1. kept = x \o y
    BY <1>5
  <2> HIDE DEF early, kept
  <2>1b. kept = Upto(a, e)
    BY <1>1, <2>1
  <2>1a. kept = Upto(a, e) /\ early \o kept = Upto(a, e)
    BY <1>2, <1>5, <2>1b
  <2>2. CASE Len(kept) >= pump.size
    BY <1>1, <1>2, <1>3, <1>4, <2>1a, <2>2 DEF x, y
  <2>3. CASE ~(Len(kept) >= pump.size)
    BY <1>1, <1>2, <1>3, <1>4, <1>5, <2>1a, <2>3 DEF x, y
  <2> QED
    BY <2>2, <2>3
<1>6. CASE early # <<>>
  <2>1. early = x /\ kept = y
    BY <1>2, <1>6
  <2> HIDE DEF early, kept
  <2>2. CASE Len(kept) >= pump.size
    <3>1. early \o kept = Upto(a, e)
      BY <1>1, <2>1
    <3> QED
      BY <1>1, <1>2, <1>3, <1>4, <2>2, <3>1 DEF x, y
  <2>3. CASE ~(Len(kept) >= pump.size)
    BY <1>4, <2>1, <2>3 DEF x, y
  <2> QED
    BY <2>2, <2>3
<1> QED
  BY <1>5, <1>6

(* What drain_ready_output moves: chunks up to the error, if it meets it.  *)
LEMMA DrainMoves ==
  ASSUME BridgeInv
  PROVE  \E k \in 0..Len(channel) :
           /\ Drained.buffered = buffered \o SubSeq(channel, 1, k)
           /\ \A i \in 1..k : channel[i] # ReadError
           /\ k <= ChannelMax - Len(buffered)
           /\ \/ /\ Drained.channel = SubSeq(channel, k + 1, Len(channel))
                 /\ Drained.failed = failed
                 /\ k = 0 /\ ~failed /\ buffered = <<>> => channel = <<>>
              \/ /\ Drained.channel = <<>> /\ Drained.failed = TRUE /\ ~failed
                 /\ k + 1 = Len(channel) /\ channel[k + 1] = ReadError
<1>0. /\ channel \in Chunks /\ buffered \in Chunks /\ Len(buffered) <= ChannelMax
      /\ failed \in BOOLEAN
  BY DEF BridgeInv, BridgeRecords, BridgeTypeOK
<1>1. /\ DrainMax \in Nat /\ DrainMax > 1 /\ ChannelMax \in Nat \ {0}
      /\ Len(channel) \in Nat /\ Len(buffered) \in Nat
  BY <1>0, BridgeAssumption DEF Chunks
<1> DEFINE gap == ChannelMax - Len(buffered)
           room == Min({DrainMax, Max({gap, 0}), Len(channel)})
           errors == {i \in 1..room : channel[i] = ReadError}
           taken == IF failed THEN 0 ELSE IF errors = {} THEN room ELSE Min(errors)
           fresh == SubSeq(channel, 1, IF failed \/ errors = {} THEN taken ELSE taken - 1)
<1>2. /\ Drained.channel = SubSeq(channel, taken + 1, Len(channel))
      /\ Drained.buffered = buffered \o fresh
      /\ Drained.failed = (failed \/ (~failed /\ errors # {}))
  BY DEF Drained
<1>3. gap \in Nat
  BY <1>0, <1>1
<1>4. Max({gap, 0}) = gap
  BY <1>3, MaxOfTwo
<1>5. room \in {DrainMax, gap, Len(channel)} /\ room <= gap /\ room <= Len(channel)
  BY <1>1, <1>3, <1>4, MinOfThree
<1>6. room \in Nat /\ room \in 0..Len(channel)
  BY <1>1, <1>3, <1>5
<1>7. room = 0 /\ buffered = <<>> => channel = <<>>
  <2> SUFFICES ASSUME room = 0, buffered = <<>>
               PROVE  channel = <<>>
    OBVIOUS
  <2>1. Len(buffered) = 0
    OBVIOUS
  <2>2. gap # 0 /\ DrainMax # 0
    BY <1>1, <2>1
  <2>3. Len(channel) = 0
    BY <1>5, <2>2
  <2> QED
    BY <1>0, <2>3 DEF Chunks
<1> HIDE DEF room
<1>8. CASE failed
  <2>1. taken = 0 /\ fresh = SubSeq(channel, 1, 0) /\ Drained.failed = failed
    BY <1>2, <1>8
  <2>2. 0 \in 0..Len(channel) /\ 0 <= gap /\ \A i \in 1..0 : channel[i] # ReadError
    BY <1>1, <1>3
  <2> HIDE DEF taken, fresh
  <2> QED
    BY <1>2, <1>8, <2>1, <2>2
<1>9. CASE ~failed /\ errors = {}
  <2>1. taken = room /\ fresh = SubSeq(channel, 1, room) /\ Drained.failed = failed
    BY <1>0, <1>2, <1>9
  <2>2. \A i \in 1..room : channel[i] # ReadError
    BY <1>9
  <2> HIDE DEF taken, fresh, errors
  <2> QED
    BY <1>2, <1>5, <1>6, <1>7, <2>1, <2>2
<1>10. CASE ~failed /\ errors # {}
  <2>1. errors \in SUBSET Nat
    BY <1>6
  <2>2. PICK e \in errors : \A x \in errors : e <= x
    BY <1>10, <2>1, LeastNat
  <2>3. Min(errors) \in errors /\ \A x \in errors : Min(errors) <= x
    BY <2>2 DEF Min
  <2> DEFINE m == Min(errors)
  <2>4. m \in 1..room /\ channel[m] = ReadError
    BY <2>3
  <2>5. m \in 1..Len(channel)
    BY <1>1, <1>5, <1>6, <2>4
  <2>6. m = Len(channel)
    BY <2>4, <2>5 DEF BridgeInv, ErrorInv
  <2>7. taken = m /\ fresh = SubSeq(channel, 1, m - 1) /\ Drained.failed = TRUE
    BY <1>0, <1>2, <1>10
  <2>8. ASSUME NEW i \in 1..(m - 1)
        PROVE  channel[i] # ReadError
    <3>1. i \in 1..room /\ ~(m <= i)
      BY <1>6, <2>4
    <3> QED
      BY <2>3, <3>1
  <2> HIDE DEF taken, fresh, errors, m
  <2>9. SubSeq(channel, m + 1, Len(channel)) = <<>>
    BY <1>0, <1>1, <2>6 DEF Chunks
  <2>10. m - 1 \in 0..Len(channel) /\ (m - 1) + 1 = m /\ m - 1 <= gap
    BY <1>1, <1>3, <1>5, <1>6, <2>4, <2>5
  <2> QED
    BY <1>2, <1>10, <2>4, <2>6, <2>7, <2>8, <2>9, <2>10
<1> QED
  BY <1>0, <1>8, <1>9, <1>10

(* Seen by the pump: bytes in order, no error among the chunks, nothing    *)
(* left behind by a drain that finds nothing.                              *)
LEMMA DrainKeeps ==
  ASSUME BridgeInv, NEW b \in Nat, NEW c \in Nat, NEW d \in Nat,
         Chain(buffered, b, c), Chain(channel, c, d)
  PROVE  /\ \E e \in Nat : Chain(Drained.buffered, b, e) /\ Chain(Drained.channel, e, d)
         /\ Drained.buffered \in Chunks /\ Drained.channel \in Chunks
         /\ Len(Drained.buffered) <= ChannelMax /\ Len(Drained.channel) <= ChannelMax
         /\ \A i \in 1..Len(Drained.buffered) : Drained.buffered[i] # ReadError
         /\ \A i \in 1..Len(Drained.channel) : Drained.channel[i] = ReadError =>
               i = Len(Drained.channel) /\ ErrorIsOut
         /\ Drained.failed \in BOOLEAN
         /\ Drained.failed => ErrorIsOut /\ Drained.channel = <<>>
         /\ Drained.buffered = <<>> => Drained.channel = <<>>
<1>0. /\ channel \in Chunks /\ buffered \in Chunks /\ Len(buffered) <= ChannelMax
      /\ Len(channel) <= ChannelMax /\ failed \in BOOLEAN
  BY DEF BridgeInv, BridgeRecords, BridgeTypeOK
<1>1. ChannelMax \in Nat /\ Len(channel) \in Nat /\ Len(buffered) \in Nat
  BY <1>0, BridgeAssumption DEF Chunks
<1>2. ErrorInv
  BY DEF BridgeInv
<1>3. PICK k \in 0..Len(channel) :
           /\ Drained.buffered = buffered \o SubSeq(channel, 1, k)
           /\ \A i \in 1..k : channel[i] # ReadError
           /\ k <= ChannelMax - Len(buffered)
           /\ \/ /\ Drained.channel = SubSeq(channel, k + 1, Len(channel))
                 /\ Drained.failed = failed
                 /\ k = 0 /\ ~failed /\ buffered = <<>> => channel = <<>>
              \/ /\ Drained.channel = <<>> /\ Drained.failed = TRUE /\ ~failed
                 /\ k + 1 = Len(channel) /\ channel[k + 1] = ReadError
  BY DrainMoves
<1> DEFINE x == SubSeq(channel, 1, k)
           y == SubSeq(channel, k + 1, Len(channel))
<1>4. x \in Chunks /\ Len(x) = k /\ \A i \in 1..k : x[i] = channel[i]
  BY <1>0, SeqCut DEF Chunks
<1>5. /\ y \in Chunks /\ Len(y) = Len(channel) - k
      /\ \A i \in 1..(Len(channel) - k) : y[i] = channel[k + i]
  BY <1>0, SeqCut DEF Chunks
<1>6. PICK e \in Nat : Chain(x, c, e) /\ Chain(y, e, d)
  BY <1>0, ChainCut
<1> HIDE DEF x, y
<1>7. Chain(buffered \o x, b, e)
  BY <1>0, <1>4, <1>6, ChainJoin
<1> DEFINE z == buffered \o x
<1>8. /\ z \in Chunks /\ Len(z) = Len(buffered) + k
      /\ \A i \in 1..Len(z) : \/ i \in 1..Len(buffered) /\ z[i] = buffered[i]
                              \/ i - Len(buffered) \in 1..k /\ z[i] = x[i - Len(buffered)]
  BY <1>0, <1>4, ChunksCat
<1>9. Drained.buffered = z
  BY <1>3 DEF x
<1> HIDE DEF z
<1>10. Len(z) <= ChannelMax
  BY <1>1, <1>3, <1>8
<1>11. ASSUME NEW i \in 1..Len(z)
       PROVE  z[i] # ReadError
  <2>1. \/ i \in 1..Len(buffered) /\ z[i] = buffered[i]
        \/ i - Len(buffered) \in 1..k /\ z[i] = x[i - Len(buffered)]
    BY <1>8
  <2> QED
    BY <1>2, <1>3, <1>4, <2>1 DEF ErrorInv
<1>12. z = <<>> => k = 0 /\ buffered = <<>>
  <2> SUFFICES ASSUME z = <<>> PROVE k = 0 /\ buffered = <<>>
    OBVIOUS
  <2>1. Len(buffered) + k = 0
    BY <1>8
  <2>2. k = 0 /\ Len(buffered) = 0
    BY <1>1, <2>1
  <2> QED
    BY <1>0, <2>2 DEF Chunks
<1>13. CASE /\ Drained.channel = y
            /\ Drained.failed = failed
            /\ k = 0 /\ ~failed /\ buffered = <<>> => channel = <<>>
  <2>1. Len(y) <= ChannelMax
    BY <1>0, <1>1, <1>5
  <2>2. ASSUME NEW i \in 1..Len(y), y[i] = ReadError
        PROVE  i = Len(y) /\ ErrorIsOut
    <3>1. k + i \in 1..Len(channel) /\ i \in 1..(Len(channel) - k)
      BY <1>1, <1>5
    <3>2. k + i = Len(channel) /\ ErrorIsOut
      BY <1>2, <1>5, <2>2, <3>1 DEF ErrorInv
    <3>3. k \in Int /\ i \in Int /\ Len(channel) \in Int
      BY <1>1, <1>5
    <3>4. k + i = Len(channel) => i = Len(channel) - k
      BY <3>3
    <3> QED
      BY <1>5, <3>2, <3>4
  <2>3. channel = <<>> => y = <<>>
    <3> SUFFICES ASSUME channel = <<>> PROVE y = <<>>
      OBVIOUS
    <3>1. Len(channel) = 0
      OBVIOUS
    <3>2. Len(y) = 0
      BY <1>1, <1>5, <3>1
    <3> QED
      BY <1>5, <3>2 DEF Chunks
  <2>4. failed => ErrorIsOut /\ channel = <<>>
    BY <1>2 DEF ErrorInv
  <2>5. z = <<>> => y = <<>>
    BY <1>12, <1>13, <2>3, <2>4
  <2> QED
    BY <1>0, <1>5, <1>6, <1>7, <1>8, <1>9, <1>10, <1>11, <1>13, <2>1, <2>2, <2>3, <2>4, <2>5 DEF z
<1>14. CASE /\ Drained.channel = <<>> /\ Drained.failed = TRUE /\ ~failed
            /\ k + 1 = Len(channel) /\ channel[k + 1] = ReadError
  <2>1. Len(y) = 1 /\ y[1] = ReadError
    <3>1. 1 \in 1..(Len(channel) - k) /\ Len(channel) - k = 1
      BY <1>1, <1>14
    <3> QED
      BY <1>5, <1>14, <3>1
  <2>2. y # <<>>
    BY <2>1
  <2>3. PICK f \in Nat : e <= f /\ y[1] = Upto(e, f) /\ Chain(Tail(y), f, d)
    BY <1>5, <1>6, <2>2, ChainHead
  <2>4. e = f
    BY <2>1, <2>3, UptoFacts DEF ReadError
  <2>5. Tail(y) = <<>>
    <3>1. y \in Seq(Seq(Nat)) /\ Len(y) = 1
      BY <1>5, <2>1 DEF Chunks
    <3>2. Tail(y) \in Seq(Seq(Nat)) /\ Len(Tail(y)) = 0
      BY <3>1
    <3> QED
      BY <3>2, EmptySeq
  <2>6. Chain(<<>>, e, d)
    BY <2>3, <2>4, <2>5
  <2>7. Len(channel) \in 1..Len(channel) /\ channel[Len(channel)] = ReadError
    BY <1>1, <1>14
  <2>8. ErrorIsOut
    BY <1>2, <2>7 DEF ErrorInv
  <2>9. <<>> \in Chunks /\ Len(<<>>) <= ChannelMax /\ \A i \in 1..Len(<<>>) : FALSE
    BY <1>1 DEF Chunks
  <2> QED
    BY <1>7, <1>8, <1>9, <1>10, <1>11, <1>14, <2>6, <2>8, <2>9 DEF z
<1> QED
  BY <1>3, <1>13, <1>14 DEF y

(* One read of the pump. *)
LEMMA PumpReadsKeeps == BridgeInv /\ PumpReads => BridgeInv'
<1> SUFFICES ASSUME BridgeInv, PumpReads PROVE BridgeInv'
  OBVIOUS
<1>0. BridgeTypeOK /\ BridgeRecords /\ ErrorInv
  BY DEF BridgeInv
<1>1. PICK a \in Nat, b \in Nat, c \in Nat, d \in Nat :
     /\ a <= b /\ d <= bridge.at
     /\ sent = Upto(0, a) /\ pump.batch = Upto(a, b)
     /\ Chain(buffered, b, c) /\ Chain(channel, c, d)
     /\ IF bridge.pc = "send" THEN bridge.hand = Upto(d, bridge.at) ELSE d = bridge.at
  BY DEF BridgeInv, BytesInv
<1> DEFINE dr == Drained
           buf == dr.buffered
           ch == dr.channel
           bad == dr.failed
<1>2. /\ \E e \in Nat : Chain(buf, b, e) /\ Chain(ch, e, d)
      /\ buf \in Chunks /\ ch \in Chunks
      /\ Len(buf) <= ChannelMax /\ Len(ch) <= ChannelMax
      /\ \A i \in 1..Len(buf) : buf[i] # ReadError
      /\ \A i \in 1..Len(ch) : ch[i] = ReadError => i = Len(ch) /\ ErrorIsOut
      /\ bad \in BOOLEAN
      /\ bad => ErrorIsOut /\ ch = <<>>
      /\ buf = <<>> => ch = <<>>
  BY <1>1, DrainKeeps
<1>3. PICK e \in Nat : Chain(buf, b, e) /\ Chain(ch, e, d)
  BY <1>2
<1>3a. ASSUME NEW f \in Nat, NEW x \in Nat, b + x <= f
       PROVE  /\ SubSeq(Upto(b, f), 1, x) = Upto(b, b + x)
              /\ SubSeq(Upto(b, f), x + 1, Len(Upto(b, f))) = Upto(b + x, f)
  <2>1. \A v, w \in Nat : b + w <= v =>
           /\ SubSeq(Upto(b, v), 1, w) = Upto(b, b + w)
           /\ SubSeq(Upto(b, v), w + 1, Len(Upto(b, v))) = Upto(b + w, v)
    BY ONLY b \in Nat, UptoCuts
  <2>2. \A w \in Nat : b + w <= f =>
           /\ SubSeq(Upto(b, f), 1, w) = Upto(b, b + w)
           /\ SubSeq(Upto(b, f), w + 1, Len(Upto(b, f))) = Upto(b + w, f)
    BY ONLY f \in Nat, <2>1
  <2> QED
    BY ONLY <1>3a, <2>2, x \in Nat
<1>3b. \A f \in Nat : b <= f =>
          \E m \in Nat : /\ a <= m /\ m <= f
                         /\ Publishes(Upto(a, b), Upto(b, f)).out = Upto(a, m)
                         /\ Publishes(Upto(a, b), Upto(b, f)).batch = Upto(m, f)
  <2>1. a \in Nat /\ b \in Nat /\ a <= b
    BY <1>1
  <2> QED
    BY ONLY <2>1, PublishesCuts
<1> DEFINE got == IF buf = <<>> THEN <<>> ELSE Head(buf)
           n == Min({Len(got), pump.size})
           left == SubSeq(got, n + 1, Len(got))
           rest == Tail(buf)
           p == Publishes(pump.batch, SubSeq(got, 1, n))
<1>4. /\ pump.pc = "drain" /\ pump.reads < TickMax
      /\ channel' = ch
      /\ IF buf = <<>>
         THEN /\ buffered' = <<>>
              /\ failed' = FALSE
              /\ reported' = (reported \/ bad)
              /\ sent' = sent \o pump.batch
              /\ pump' = [pump EXCEPT !.pc = "wait", !.reads = 0, !.batch = <<>>]
              /\ UNCHANGED woken
         ELSE /\ buffered' = (IF left = <<>> THEN <<>> ELSE <<left>>) \o rest
              /\ failed' = bad
              /\ woken' = (woken \/ StillPending(left, rest, bad))
              /\ sent' = sent \o p.out
              /\ pump' = [pump EXCEPT !.reads = @ + 1, !.batch = p.batch]
              /\ UNCHANGED reported
      /\ UNCHANGED <<typed, ptyEnd, bridge>>
  BY DEF PumpReads
<1> HIDE DEF dr, buf, ch, bad
<1>5. /\ TickMax \in Nat /\ ChannelMax \in Nat /\ pump.reads \in Nat /\ pump.size \in Nat \ {0}
      /\ bridge.at \in Nat /\ reported \in BOOLEAN /\ woken \in BOOLEAN
  BY <1>0, BridgeAssumption DEF BridgeRecords, BridgeTypeOK
<1>6. ErrorIsOut' <=> ErrorIsOut
  BY <1>4 DEF ErrorIsOut
<1>7. CASE buf = <<>>
  <2> HIDE DEF got, n, left, rest, p
  <2>1. ch = <<>>
    BY <1>2, <1>7
  <2>2. sent' = Upto(0, b) /\ Upto(b, b) = <<>>
    <3>1. 0 \in Nat /\ 0 <= a /\ b <= b
      OBVIOUS
    <3>2. Upto(0, a) \o Upto(a, b) = Upto(0, b)
      BY <1>1, <3>1, UptoJoin
    <3>3. Upto(b, b) = <<>>
      BY <3>1, UptoFacts
    <3> QED
      BY <1>1, <1>4, <1>7, <3>2, <3>3
  <2>3. pump' = [pump EXCEPT !.pc = "wait", !.reads = 0, !.batch = <<>>] /\ pump'.batch = <<>>
        /\ pump'.pc = "wait" /\ pump'.reads = 0
    BY <1>0, <1>4, <1>7 DEF BridgeRecords
  <2>4. Upto(0, b) \in Seq(Nat) /\ <<>> \in Chunks /\ <<>> \in Seq(Nat) /\ Len(<<>>) = 0
    BY UptoFacts DEF Chunks
  <2>5. BridgeRecords'
    BY <1>0, <1>4, <1>7, <2>1, <2>2, <2>3, <2>4 DEF BridgeRecords
  <2>6. BridgeTypeOK'
    <3>1. Len(channel') <= ChannelMax /\ Len(buffered') <= ChannelMax
      BY <1>4, <1>5, <1>7, <2>1, <2>4
    <3>2. pump'.reads \in 0..TickMax
      BY <1>5, <2>3
    <3>3. {failed', woken', reported'} \subseteq BOOLEAN
      BY <1>2, <1>4, <1>5, <1>7
    <3> QED
      BY <1>0, <1>4, <2>3, <3>1, <3>2, <3>3 DEF BridgeTypeOK
  <2>7. BytesInv'
    <3>1. Chain(buffered', b, e) /\ Chain(channel', e, d)
      BY <1>3, <1>4, <1>7
    <3>2. b <= b /\ d <= bridge'.at
      BY <1>1, <1>4
    <3>3. IF bridge'.pc = "send" THEN bridge'.hand = Upto(d, bridge'.at) ELSE d = bridge'.at
      BY <1>1, <1>4
    <3>4. sent' = Upto(0, b) /\ pump'.batch = Upto(b, b)
      BY <2>2, <2>3
    <3> QED
      BY <3>1, <3>2, <3>3, <3>4 DEF BytesInv
  <2>8. ErrorInv'
    <3>1. channel' = <<>> /\ buffered' = <<>> /\ ~failed'
      BY <1>4, <1>7, <2>1
    <3>2. reported' => ErrorIsOut
      BY <1>0, <1>2, <1>4, <1>7 DEF ErrorInv
    <3>3. bridge'.pc \in {"send", "signal"} /\ bridge'.hand = ReadError =>
             ptyEnd' = "error" /\ bridge'.at = typed'
      BY <1>0, <1>4 DEF ErrorInv
    <3>4. \A i \in 1..0 : FALSE
      OBVIOUS
    <3> QED
      BY <1>6, <2>3, <2>4, <3>1, <3>2, <3>3, <3>4 DEF ErrorInv
  <2>9. WakeInv'
    BY <1>4, <1>7, <2>1 DEF WakeInv
  <2> QED
    BY <2>5, <2>6, <2>7, <2>8, <2>9 DEF BridgeInv
<1>8. CASE buf # <<>>
  <2>1. PICK f \in Nat : b <= f /\ buf[1] = Upto(b, f) /\ Chain(Tail(buf), f, e)
    BY <1>2, <1>3, <1>8, ChainHead
  <2>2. got = Upto(b, f) /\ Len(got) = f - b /\ got \in Seq(Nat)
    <3>1. got = buf[1]
      BY <1>2, <1>8 DEF Chunks
    <3> HIDE DEF got
    <3> QED
      BY <2>1, <3>1, UptoFacts
  <2> HIDE DEF got
  <2>3. Len(got) \in Nat /\ n \in Nat /\ n <= Len(got)
    <3>1. Len(got) \in Nat
      BY <2>2
    <3> QED
      BY <1>5, <3>1, MinOfTwo
  <2> HIDE DEF n
  <2>4. b + n \in Nat /\ b + n <= f /\ b <= b + n
    BY <2>1, <2>2, <2>3
  <2>5. SubSeq(got, 1, n) = Upto(b, b + n) /\ left = Upto(b + n, f)
    <3>1. /\ SubSeq(Upto(b, f), 1, n) = Upto(b, b + n)
          /\ SubSeq(Upto(b, f), n + 1, Len(Upto(b, f))) = Upto(b + n, f)
      <4>1. n \in Nat /\ b + n <= f
        BY <2>3, <2>4
      <4> HIDE DEF left, p
      <4> QED
        BY <1>3a, <4>1
    <3> QED
      BY <2>2, <3>1
  <2> HIDE DEF left
  <2>6. PICK m \in Nat : a <= m /\ m <= b + n /\ p.out = Upto(a, m) /\ p.batch = Upto(m, b + n)
    <3>1. \E m \in Nat : /\ a <= m /\ m <= b + n
                         /\ Publishes(Upto(a, b), Upto(b, b + n)).out = Upto(a, m)
                         /\ Publishes(Upto(a, b), Upto(b, b + n)).batch = Upto(m, b + n)
      <4>1. a <= b /\ b <= b + n /\ b + n \in Nat
        BY <1>1, <2>4
      <4> QED
        BY ONLY <4>1, <1>3b
    <3> QED
      BY <1>1, <2>5, <3>1
  <2> HIDE DEF p
  <2>7. rest \in Chunks /\ Len(rest) = Len(buf) - 1 /\ Len(buf) \in Nat \ {0}
        /\ \A i \in 1..Len(rest) : rest[i] = buf[i + 1]
    BY <1>2, <1>8 DEF Chunks
  <2> DEFINE first == IF left = <<>> THEN <<>> ELSE <<left>>
  <2>8. /\ first \in Chunks /\ Chain(first, b + n, f) /\ Len(first) \in {0, 1}
        /\ \A i \in 1..Len(first) : first[i] # <<>>
    <3>1. left \in Seq(Nat)
      BY <2>4, <2>5, UptoFacts
    <3>2. CASE left = <<>>
      <4>1. b + n = f
        <5>1. Upto(b + n, f) = <<>> <=> b + n = f
          BY <2>4, UptoFacts
        <5> QED
          BY <2>5, <3>2, <5>1
      <4>2. Chain(<<>>, f, f)
        BY ChainNone
      <4> QED
        BY <3>2, <4>1, <4>2 DEF Chunks
    <3>3. CASE left # <<>>
      <4>1. Chain(<<left>>, b + n, f)
        BY <2>4, <2>5, ChainOne
      <4>2. <<left>> \in Chunks /\ Len(<<left>>) = 1 /\ <<left>>[1] = left
        BY <3>1 DEF Chunks
      <4> QED
        BY <3>3, <4>1, <4>2
    <3> QED
      BY <3>2, <3>3
  <2> DEFINE nb == first \o rest
  <2>9. Chain(nb, b + n, e)
    <3>1. Chain(rest, f, e)
      BY <2>1
    <3> HIDE DEF first, rest
    <3> QED
      BY <2>4, <2>7, <2>8, <3>1, ChainJoin
  <2> HIDE DEF rest, first
  <2>10. /\ nb \in Chunks /\ Len(nb) = Len(first) + Len(rest) /\ Len(nb) <= ChannelMax
         /\ \A i \in 1..Len(nb) : nb[i] # <<>>
    <3>1. /\ nb \in Chunks /\ Len(nb) = Len(first) + Len(rest)
          /\ \A i \in 1..Len(nb) : \/ i \in 1..Len(first) /\ nb[i] = first[i]
                                   \/ i - Len(first) \in 1..Len(rest) /\ nb[i] = rest[i - Len(first)]
      BY <2>7, <2>8, ChunksCat
    <3>2. Len(nb) <= ChannelMax
      <4>1. Len(first) \in 0..1 /\ Len(buf) \in Nat
        BY <2>7, <2>8
      <4> HIDE DEF nb
      <4>2. Len(buf) <= ChannelMax /\ ChannelMax \in Nat
        BY <1>2, <1>5
      <4>3. Len(nb) = Len(first) + (Len(buf) - 1)
        BY <2>7, <3>1
      <4>4. \A x \in 0..1, y \in Nat, z \in Nat : y <= z => x + (y - 1) <= z
        OBVIOUS
      <4> QED
        BY <4>1, <4>2, <4>3, <4>4
    <3> HIDE DEF nb
    <3>3. ASSUME NEW i \in 1..Len(nb)
          PROVE  nb[i] # <<>>
      <4>1. CASE i \in 1..Len(first) /\ nb[i] = first[i]
        BY <2>8, <4>1
      <4>2. CASE i - Len(first) \in 1..Len(rest) /\ nb[i] = rest[i - Len(first)]
        <5>1. (i - Len(first)) + 1 \in 1..Len(buf)
          BY <2>7, <2>8, <4>2
        <5> QED
          BY <1>2, <2>7, <4>2, <5>1 DEF ReadError
      <4> QED
        BY <3>1, <4>1, <4>2
    <3> QED
      BY <3>1, <3>2, <3>3
  <2>11. /\ buffered' = nb /\ failed' = bad
         /\ woken' = (woken \/ StillPending(left, rest, bad))
         /\ sent' = sent \o p.out
         /\ pump' = [pump EXCEPT !.reads = @ + 1, !.batch = p.batch]
         /\ reported' = reported
    BY <1>4, <1>8 DEF first
  <2> HIDE DEF nb
  <2>12. /\ sent' = Upto(0, m) /\ pump'.batch = Upto(m, b + n) /\ pump'.reads = pump.reads + 1
         /\ pump'.pc = pump.pc
         /\ pump' \in [pc : {"wait", "drain"}, reads : Nat, batch : Seq(Nat), size : Nat \ {0}]
    <3>1. sent' = Upto(0, m)
      <4>1. 0 \in Nat /\ 0 <= a
        OBVIOUS
      <4>2. Upto(0, a) \o Upto(a, m) = Upto(0, m)
        BY ZenonT(30), <2>6, <4>1, UptoJoin
      <4> QED
        BY <1>1, <2>6, <2>11, <4>2
    <3>2. Upto(m, b + n) \in Seq(Nat)
      BY <2>4, <2>6, UptoFacts
    <3>3. pump \in [pc : {"wait", "drain"}, reads : Nat, batch : Seq(Nat), size : Nat \ {0}]
      BY <1>0 DEF BridgeRecords
    <3>4. pump.reads + 1 \in Nat
      BY <1>5
    <3>5. pump' = [pump EXCEPT !.reads = pump.reads + 1, !.batch = Upto(m, b + n)]
      BY <2>6, <2>11
    <3>6. pump'.batch = Upto(m, b + n) /\ pump'.reads = pump.reads + 1 /\ pump'.pc = pump.pc
      BY <3>3, <3>5
    <3>7. pump' \in [pc : {"wait", "drain"}, reads : Nat, batch : Seq(Nat), size : Nat \ {0}]
      BY <3>2, <3>3, <3>4, <3>5
    <3> QED
      BY <3>1, <3>6, <3>7
  <2>13. BridgeRecords'
    <3>1. Upto(0, m) \in Seq(Nat)
      BY <2>6, UptoFacts
    <3> QED
      BY <1>0, <1>2, <1>4, <2>10, <2>11, <2>12, <3>1 DEF BridgeRecords
  <2>14. BridgeTypeOK'
    <3>1. pump'.reads \in 0..TickMax /\ pump'.pc \in {"wait", "drain"}
      <4>0. pump.reads < TickMax /\ pump.reads \in Nat /\ TickMax \in Nat
        BY <1>4, <1>5
      <4>1. pump.reads + 1 \in 0..TickMax
        BY <4>0
      <4> QED
        BY <1>4, <2>12, <4>1
    <3>2. {failed', woken', reported'} \subseteq BOOLEAN
      BY <1>2, <1>5, <2>11 DEF StillPending
    <3> QED
      BY <1>0, <1>2, <1>4, <2>10, <2>11, <3>1, <3>2 DEF BridgeTypeOK
  <2>15. BytesInv'
    <3>1. /\ m <= b + n /\ d <= bridge'.at
          /\ IF bridge'.pc = "send" THEN bridge'.hand = Upto(d, bridge'.at) ELSE d = bridge'.at
      BY <1>1, <1>4, <2>6
    <3>2. Chain(buffered', b + n, e) /\ Chain(channel', e, d)
      BY <1>3, <1>4, <2>9, <2>11
    <3> QED
      BY <2>4, <2>12, <3>1, <3>2 DEF BytesInv
  <2>16. ~reported
    <3> SUFFICES ASSUME reported PROVE FALSE
      OBVIOUS
    <3>1. channel = <<>> /\ buffered = <<>>
      BY <1>0 DEF ErrorInv
    <3>2. PICK k \in 0..Len(channel) : buf = buffered \o SubSeq(channel, 1, k)
      BY DrainMoves DEF buf, dr
    <3>3. k = 0
      BY <3>1
    <3>4. buf = <<>>
      BY <3>1, <3>2, <3>3
    <3> QED
      BY <1>8, <3>4
  <2>17. ErrorInv'
    <3>1. \A i \in 1..Len(buffered') : buffered'[i] # ReadError
      BY <2>10, <2>11 DEF ReadError
    <3>2. \A i \in 1..Len(channel') : channel'[i] = ReadError => i = Len(channel') /\ ErrorIsOut'
      BY <1>2, <1>4, <1>6
    <3>3. bridge'.pc \in {"send", "signal"} /\ bridge'.hand = ReadError =>
             ptyEnd' = "error" /\ bridge'.at = typed'
      BY <1>0, <1>4 DEF ErrorInv
    <3>4. (failed' => ErrorIsOut' /\ channel' = <<>>) /\ ~reported'
      BY <1>2, <1>4, <1>6, <2>11, <2>16
    <3> QED
      BY <3>1, <3>2, <3>3, <3>4 DEF ErrorInv
  <2>18. WakeInv'
    BY <1>4, <2>12 DEF WakeInv
  <2> QED
    BY <2>13, <2>14, <2>15, <2>17, <2>18 DEF BridgeInv
<1> QED
  BY <1>7, <1>8

(* The steps of the program, the reader thread and the idle pump. *)
LEMMA BridgeStep == BridgeInv /\ [BridgeNext]_bridgeVars => BridgeInv'
<1> SUFFICES ASSUME BridgeInv, [BridgeNext]_bridgeVars PROVE BridgeInv'
  OBVIOUS
<1>0. BridgeTypeOK /\ BridgeRecords /\ BytesInv /\ ErrorInv /\ WakeInv
  BY DEF BridgeInv
<1>1. PICK a \in Nat, b \in Nat, c \in Nat, d \in Nat :
     /\ a <= b /\ d <= bridge.at
     /\ sent = Upto(0, a) /\ pump.batch = Upto(a, b)
     /\ Chain(buffered, b, c) /\ Chain(channel, c, d)
     /\ IF bridge.pc = "send" THEN bridge.hand = Upto(d, bridge.at) ELSE d = bridge.at
  BY <1>0 DEF BytesInv
<1>2. /\ bridge \in [pc : {"read", "send", "signal", "done"}, hand : Seq(Nat), at : Nat]
      /\ bridge.at \in Nat /\ bridge.hand \in Seq(Nat) /\ typed \in Nat
      /\ bridge.at <= typed /\ typed <= MaxByte /\ MaxByte \in Nat
      /\ pump \in [pc : {"wait", "drain"}, reads : Nat, batch : Seq(Nat), size : Nat \ {0}]
      /\ channel \in Chunks /\ buffered \in Chunks
  BY <1>0, BridgeAssumption DEF BridgeRecords, BridgeTypeOK
<1>3. CASE ProgramTypes
  <2>1. /\ typed < MaxByte /\ ptyEnd = "open" /\ typed' = typed + 1
        /\ UNCHANGED <<ptyEnd, bridge, channel, buffered, failed, woken, pump, sent, reported>>
    BY <1>3 DEF ProgramTypes
  <2>2. typed' \in 0..MaxByte /\ bridge.at \in 0..typed' /\ typed' \in Nat
    BY <1>2, <2>1
  <2>3. BridgeTypeOK' /\ BridgeRecords'
    BY <1>0, <2>1, <2>2 DEF BridgeTypeOK, BridgeRecords
  <2>4. BytesInv'
    BY <1>0, <2>1 DEF BytesInv
  <2>5. ~ErrorIsOut
    BY <2>1 DEF ErrorIsOut
  <2>6. ErrorInv' /\ WakeInv'
    BY <1>0, <2>1, <2>5 DEF ErrorInv, WakeInv
  <2> QED
    BY <2>3, <2>4, <2>6 DEF BridgeInv
<1>4. CASE \E how \in {"eof", "error"} : PtyEnds(how)
  <2>1. /\ ptyEnd = "open" /\ ptyEnd' \in {"eof", "error"}
        /\ UNCHANGED <<typed, bridge, channel, buffered, failed, woken, pump, sent, reported>>
    BY <1>4 DEF PtyEnds
  <2>2. BridgeTypeOK' /\ BridgeRecords'
    BY <1>0, <2>1 DEF BridgeTypeOK, BridgeRecords
  <2>3. BytesInv'
    BY <1>0, <2>1 DEF BytesInv
  <2>4. ~ErrorIsOut
    BY <2>1 DEF ErrorIsOut
  <2>5. ErrorInv' /\ WakeInv'
    BY <1>0, <2>1, <2>4 DEF ErrorInv, WakeInv
  <2> QED
    BY <2>2, <2>3, <2>5 DEF BridgeInv
<1>5. CASE BridgeReads
  <2>1. /\ bridge.pc = "read"
        /\ UNCHANGED <<typed, ptyEnd, channel, buffered, failed, woken, pump, sent, reported>>
    BY <1>5 DEF BridgeReads
  <2>2. d = bridge.at /\ ~ErrorIsOut
    BY <1>1, <2>1 DEF ErrorIsOut
  <2>3. ~failed /\ ~reported /\ \A i \in 1..Len(channel) : channel[i] # ReadError
    BY <1>0, <2>2 DEF ErrorInv
  <2>4. CASE bridge.at < typed
    <3>1. PICK n \in 1..Min({ReaderChunk, typed - bridge.at}) :
              bridge' = [pc |-> "send", hand |-> Upto(bridge.at, bridge.at + n),
                         at |-> bridge.at + n]
      BY <1>5, <2>4 DEF BridgeReads
    <3>2. ReaderChunk \in Nat /\ typed - bridge.at \in Nat
      BY <1>2, <2>4, BridgeAssumption
    <3>3. Min({ReaderChunk, typed - bridge.at}) <= typed - bridge.at
          /\ Min({ReaderChunk, typed - bridge.at}) \in Nat
      BY <3>2, MinOfTwo
    <3> DEFINE m == Min({ReaderChunk, typed - bridge.at})
    <3> HIDE DEF m
    <3>4. n \in Nat /\ n # 0 /\ n <= typed - bridge.at
      <4>1. n \in 1..m /\ m \in Nat /\ m <= typed - bridge.at
        BY <3>3 DEF m
      <4> QED
        BY <1>2, <4>1
    <3>5. bridge.at + n \in Nat /\ bridge.at <= bridge.at + n /\ bridge.at + n \in 0..typed
          /\ bridge.at # bridge.at + n
      BY <1>2, <3>4
    <3>6. Upto(bridge.at, bridge.at + n) \in Seq(Nat) /\ Upto(bridge.at, bridge.at + n) # <<>>
      BY ZenonT(30), <1>2, <3>5, UptoFacts
    <3>7. BridgeTypeOK' /\ BridgeRecords'
      BY <1>0, <2>1, <3>1, <3>5, <3>6 DEF BridgeTypeOK, BridgeRecords
    <3>8. BytesInv'
      BY <1>1, <1>2, <2>1, <2>2, <3>1, <3>5 DEF BytesInv
    <3>9. ErrorInv' /\ WakeInv'
      BY <1>0, <2>1, <2>3, <3>1, <3>6 DEF ErrorInv, WakeInv, ReadError
    <3> QED
      BY <3>7, <3>8, <3>9 DEF BridgeInv
  <2>5. CASE ~(bridge.at < typed)
    <3>1. /\ ptyEnd # "open"
          /\ bridge' = [bridge EXCEPT !.pc = IF ptyEnd = "eof" THEN "done" ELSE "send",
                                      !.hand = ReadError]
      BY <1>5, <2>5 DEF BridgeReads
    <3>2. bridge.at = typed
      BY <1>2, <2>5
    <3>3. bridge'.pc = (IF ptyEnd = "eof" THEN "done" ELSE "send") /\ bridge'.hand = <<>>
          /\ bridge'.at = bridge.at
      BY <1>2, <3>1 DEF ReadError
    <3>4. bridge' \in [pc : {"read", "send", "signal", "done"}, hand : Seq(Nat), at : Nat]
      <4>1. ReadError \in Seq(Nat)
        BY DEF ReadError
      <4>2. (IF ptyEnd = "eof" THEN "done" ELSE "send") \in {"read", "send", "signal", "done"}
        OBVIOUS
      <4> QED
        BY <1>2, <3>1, <4>1, <4>2
    <3>5. BridgeTypeOK' /\ BridgeRecords'
      BY <1>0, <2>1, <3>3, <3>4 DEF BridgeTypeOK, BridgeRecords
    <3>6. Upto(d, d) = <<>> /\ d <= d
      <4>1. d <= d
        OBVIOUS
      <4> QED
        BY <4>1, UptoFacts
    <3>7. BytesInv'
      BY <1>1, <2>1, <2>2, <3>3, <3>6 DEF BytesInv
    <3>8. ptyEnd \in {"open", "eof", "error"}
      BY <1>0 DEF BridgeTypeOK
    <3>9. bridge'.pc = "send" => ptyEnd = "error"
      BY <3>1, <3>3, <3>8
    <3>10. bridge'.pc # "signal"
      BY <3>3
    <3>11. ErrorInv'
      BY <1>0, <2>1, <2>3, <3>2, <3>3, <3>9, <3>10 DEF ErrorInv
    <3>12. WakeInv'
      BY <1>0, <2>1 DEF WakeInv
    <3> QED
      BY <3>5, <3>7, <3>11, <3>12 DEF BridgeInv
  <2> QED
    BY <2>4, <2>5
<1>6. CASE BridgeSends
  <2>1. /\ bridge.pc = "send" /\ Len(channel) < ChannelMax
        /\ channel' = Append(channel, bridge.hand)
        /\ bridge' = [bridge EXCEPT !.pc = "signal"]
        /\ UNCHANGED <<typed, ptyEnd, buffered, failed, woken, pump, sent, reported>>
    BY <1>6 DEF BridgeSends
  <2>2. bridge.hand = Upto(d, bridge.at) /\ d <= bridge.at
    BY <1>1, <2>1
  <2>3. bridge'.pc = "signal" /\ bridge'.hand = bridge.hand /\ bridge'.at = bridge.at
        /\ bridge' \in [pc : {"read", "send", "signal", "done"}, hand : Seq(Nat), at : Nat]
    BY <1>2, <2>1
  <2>4. Chain(channel', c, bridge.at)
    BY <1>1, <1>2, <2>1, <2>2, ChainAppend
  <2>5. /\ channel' \in Chunks /\ Len(channel') = Len(channel) + 1 /\ Len(channel) \in Nat
        /\ channel'[Len(channel) + 1] = bridge.hand
        /\ \A i \in 1..Len(channel) : channel'[i] = channel[i]
    BY <1>2, <2>1 DEF Chunks
  <2>6. Len(channel') <= ChannelMax
    <3>1. ChannelMax \in Nat
      BY BridgeAssumption
    <3> QED
      BY <2>1, <2>5, <3>1
  <2>7. BridgeTypeOK' /\ BridgeRecords'
    BY <1>0, <2>1, <2>3, <2>5, <2>6 DEF BridgeTypeOK, BridgeRecords
  <2>8. BytesInv'
    <3>1. bridge.at <= bridge.at
      BY <1>2
    <3> QED
      BY <1>1, <1>2, <2>1, <2>3, <2>4, <3>1 DEF BytesInv
  <2>9. ~ErrorIsOut
    BY <2>1 DEF ErrorIsOut
  <2>10. ~failed /\ ~reported /\ \A i \in 1..Len(channel) : channel[i] # ReadError
    BY <1>0, <2>9 DEF ErrorInv
  <2>11. ASSUME NEW i \in 1..Len(channel'), channel'[i] = ReadError
         PROVE  i = Len(channel') /\ ErrorIsOut'
    <3>1. i = Len(channel) + 1
      <4>1. i \in 1..Len(channel) \/ i = Len(channel) + 1
        BY <2>5
      <4> QED
        BY <2>5, <2>10, <2>11, <4>1
    <3>2. bridge.hand = ReadError
      BY <2>5, <2>11, <3>1
    <3>3. ptyEnd = "error" /\ bridge.at = typed
      BY <1>0, <2>1, <3>2 DEF ErrorInv
    <3> QED
      BY <2>1, <2>3, <2>5, <3>1, <3>2, <3>3 DEF ErrorIsOut
  <2>12. ErrorInv'
    <3>1. \A i \in 1..Len(buffered') : buffered'[i] # ReadError
      BY <1>0, <2>1 DEF ErrorInv
    <3>2. bridge'.hand = ReadError => ptyEnd' = "error" /\ bridge'.at = typed'
      BY <1>0, <2>1, <2>3 DEF ErrorInv
    <3> QED
      BY <2>1, <2>10, <2>11, <3>1, <3>2 DEF ErrorInv
  <2>13. WakeInv'
    BY <2>3 DEF WakeInv
  <2> QED
    BY <2>7, <2>8, <2>12, <2>13 DEF BridgeInv
<1>7. CASE BridgeSignals
  <2>1. /\ bridge.pc = "signal" /\ woken' = TRUE
        /\ bridge' = [bridge EXCEPT !.pc = IF bridge.hand = ReadError THEN "done" ELSE "read",
                                    !.hand = ReadError]
        /\ UNCHANGED <<typed, ptyEnd, channel, buffered, failed, pump, sent, reported>>
    BY <1>7 DEF BridgeSignals
  <2>2. /\ bridge'.pc = (IF bridge.hand = ReadError THEN "done" ELSE "read")
        /\ bridge'.at = bridge.at
        /\ bridge' \in [pc : {"read", "send", "signal", "done"}, hand : Seq(Nat), at : Nat]
    <3>1. ReadError \in Seq(Nat)
      BY DEF ReadError
    <3>2. (IF bridge.hand = ReadError THEN "done" ELSE "read") \in {"read", "send", "signal", "done"}
      OBVIOUS
    <3> QED
      BY <1>2, <2>1, <3>1, <3>2
  <2>3. bridge'.pc \in {"done", "read"}
    BY <2>2
  <2>4. BridgeTypeOK' /\ BridgeRecords'
    BY <1>0, <2>1, <2>2 DEF BridgeTypeOK, BridgeRecords
  <2>5. BytesInv'
    BY <1>1, <2>1, <2>2, <2>3 DEF BytesInv
  <2>6. ErrorIsOut => ErrorIsOut'
    BY <2>1, <2>2 DEF ErrorIsOut
  <2>7. ErrorInv'
    BY <1>0, <2>1, <2>3, <2>6 DEF ErrorInv
  <2>8. WakeInv'
    BY <2>1 DEF WakeInv
  <2> QED
    BY <2>4, <2>5, <2>7, <2>8 DEF BridgeInv
<1>8. CASE PumpYields
  <2>1. /\ pump.pc = "drain"
        /\ sent' = sent \o pump.batch
        /\ pump' = [pump EXCEPT !.reads = 0, !.batch = <<>>]
        /\ UNCHANGED <<typed, ptyEnd, bridge, channel, buffered, failed, woken, reported>>
    BY <1>8 DEF PumpYields
  <2>2. 0 \in Nat /\ 0 <= a /\ b <= b /\ 0 <= b
    OBVIOUS
  <2>3. Upto(0, a) \o Upto(a, b) = Upto(0, b)
    BY <1>1, <2>2, UptoJoin
  <2>4. sent' = Upto(0, b) /\ Upto(0, b) \in Seq(Nat)
    BY <1>1, <2>1, <2>2, <2>3, UptoFacts
  <2>5. Upto(b, b) = <<>>
    BY <2>2, UptoFacts
  <2>6. pump'.pc = "drain" /\ pump'.reads = 0 /\ pump'.batch = <<>>
        /\ pump' \in [pc : {"wait", "drain"}, reads : Nat, batch : Seq(Nat), size : Nat \ {0}]
    <3>1. <<>> \in Seq(Nat) /\ 0 \in Nat
      OBVIOUS
    <3> QED
      BY <1>2, <2>1, <3>1
  <2>7. 0 \in 0..TickMax
    BY BridgeAssumption
  <2>8. BridgeTypeOK' /\ BridgeRecords'
    BY <1>0, <2>1, <2>4, <2>6, <2>7 DEF BridgeTypeOK, BridgeRecords
  <2>9. BytesInv'
    BY <1>1, <2>1, <2>2, <2>4, <2>5, <2>6 DEF BytesInv
  <2>10. ErrorIsOut' <=> ErrorIsOut
    BY <2>1 DEF ErrorIsOut
  <2>11. ErrorInv'
    BY <1>0, <2>1, <2>6, <2>10 DEF ErrorInv
  <2>12. WakeInv'
    BY <2>6 DEF WakeInv
  <2> QED
    BY <2>8, <2>9, <2>11, <2>12 DEF BridgeInv
<1>9. CASE PumpWakes
  <2>1. /\ woken' = FALSE /\ pump' = [pump EXCEPT !.pc = "drain"]
        /\ UNCHANGED <<typed, ptyEnd, bridge, channel, buffered, failed, sent, reported>>
    BY <1>9 DEF PumpWakes
  <2>2. pump'.pc = "drain" /\ pump'.reads = pump.reads /\ pump'.batch = pump.batch
        /\ pump' \in [pc : {"wait", "drain"}, reads : Nat, batch : Seq(Nat), size : Nat \ {0}]
    BY <1>2, <2>1
  <2>3. BridgeTypeOK' /\ BridgeRecords'
    BY <1>0, <2>1, <2>2 DEF BridgeTypeOK, BridgeRecords
  <2>4. BytesInv'
    BY <1>1, <2>1, <2>2 DEF BytesInv
  <2>5. ErrorIsOut' <=> ErrorIsOut
    BY <2>1 DEF ErrorIsOut
  <2>6. ErrorInv' /\ WakeInv'
    BY <1>0, <2>1, <2>2, <2>5 DEF ErrorInv, WakeInv
  <2> QED
    BY <2>3, <2>4, <2>6 DEF BridgeInv
<1>10. CASE UNCHANGED bridgeVars
  <2>1. ErrorIsOut' <=> ErrorIsOut
    BY <1>10 DEF ErrorIsOut, bridgeVars
  <2>2. BridgeTypeOK' /\ BridgeRecords' /\ BytesInv'
    BY <1>0, <1>10 DEF BridgeTypeOK, BridgeRecords, BytesInv, bridgeVars
  <2>3. ErrorInv' /\ WakeInv'
    BY <1>0, <1>10, <2>1 DEF ErrorInv, WakeInv, bridgeVars
  <2> QED
    BY <2>2, <2>3 DEF BridgeInv
<1> QED
  BY <1>3, <1>4, <1>5, <1>6, <1>7, <1>8, <1>9, <1>10, PumpReadsKeeps DEF BridgeNext

(* For every length of output and every size of chunk, queue, buffer and   *)
(* tick: the journal gets each byte of the PTY once and in order, an error *)
(* only after them, and a pump that sleeps has left nothing to read        *)
(* (read_pty_output, drain_ready_output, supervisor_output_pump).          *)
THEOREM OutputReachesJournal == BridgeSpec => [](BridgeTypeOK /\ OutputIsDelivered)
BY BridgeInitInv, BridgeStep, BridgeSafe, PTL DEF BridgeSpec
-----------------------------------------------------------------------------
(* The daemon's mirror of a terminal *)

(* The screen after the first n events, and the snapshot of it. *)
ScreenAt(n) == [seq |-> n, has |-> 1..n]
WholeFrame(n) == SnapshotAt(n, 1..n)

(* The events after number n, one after the other. *)
Lives(q, n) == \A i \in 1..Len(q) : q[i] = Live(n + i)

(* The number shown once i frames of q are read, and a queue whose every   *)
(* frame gives a whole screen when it is read.                             *)
SeqAt(v, q, i) == IF i = 0 THEN v.seq ELSE q[i].seq
QueueEnd(v, q) == SeqAt(v, q, Len(q))
QueueWhole(v, q) ==
  /\ v = ScreenAt(v.seq)
  /\ \A i \in 1..Len(q) : q[i] = WholeFrame(q[i].seq) \/ q[i] = Live(SeqAt(v, q, i - 1) + 1)

MirrorScreens == [seq : 0..MaxEvent, has : SUBSET Events]
ReaderPcs == {"off", "reading", "applied", "signal", "ended"}

MirrorTypes ==
  /\ emitted \in 0..MaxEvent /\ registered \in 0..(1 + MaxResume)
  /\ wire \in [Conns -> Seq(MirrorFrames)]
  /\ ipc \in [pc : {"connect", "seed", "ready", "commit", "boot"}, conn : Conns,
              sync : MirrorFrames, resumes : 0..MaxResume]
  /\ mirror \in MirrorScreens /\ viewed \in MirrorScreens
  /\ bootstrap \in Seq(Seq(MirrorFrames)) /\ Len(bootstrap) <= 1
  /\ pending \in Seq(MirrorFrames) /\ Len(pending) <= FrameMax
  /\ readers \in [Conns -> [pc : ReaderPcs, frame : MirrorFrames]]
  /\ unseen \in BOOLEAN

(* The connecting thread starts the reader of its own connection once. *)
ConnectorInv ==
  /\ ipc.conn = 1 + ipc.resumes
  /\ \A c \in Conns : c > ipc.conn => readers[c].pc = "off"
  /\ ipc.pc \in {"connect", "commit"} => readers[ipc.conn].pc = "off"

(* Before the first resume: what the connection brought is set aside, and  *)
(* later applied, without a gap; what is still on the wire follows it.     *)
Connecting ==
  /\ registered = 0 /\ wire[1] = <<>> /\ bootstrap = Booting(<<>>)

Seeding ==
  /\ bootstrap # NotBooting /\ readers[1].pc # "off"
  /\ ipc.sync = WholeFrame(ipc.sync.seq)
  /\ Lives(bootstrap[1], ipc.sync.seq)
  /\ Len(bootstrap[1]) <= FrameMax
  /\ ipc.sync.seq + Len(bootstrap[1]) <= emitted
  /\ readers[1].pc = "reading" =>
       /\ registered = 1
       /\ Lives(wire[1], ipc.sync.seq + Len(bootstrap[1]))
       /\ ipc.sync.seq + Len(bootstrap[1]) + Len(wire[1]) = emitted

Fed ==
  /\ bootstrap = NotBooting
  /\ mirror = ScreenAt(mirror.seq)
  /\ QueueWhole(viewed, pending)
  /\ IF readers[1].pc = "applied"
     THEN readers[1].frame = Live(mirror.seq) /\ QueueEnd(viewed, pending) + 1 = mirror.seq
     ELSE QueueEnd(viewed, pending) = mirror.seq
  /\ readers[1].pc # "ended" =>
       /\ registered = 1
       /\ Lives(wire[1], mirror.seq)
       /\ mirror.seq + Len(wire[1]) = emitted

FirstInv ==
  ipc.resumes = 0 =>
    /\ ipc.pc \in {"connect", "seed", "ready"}
    /\ ipc.pc # "ready" =>
         /\ mirror = NewMirror /\ pending = <<>> /\ viewed = NewMirror
         /\ readers[1].pc \in {"off", "reading", "ended"}
    /\ ipc.pc = "connect" => Connecting
    /\ ipc.pc = "seed" => Seeding
    /\ ipc.pc = "ready" => Fed

MirrorInv == MirrorTypes /\ ConnectorInv /\ QueueIsSignalled /\ FirstInv

LEMMA MirrorSets ==
  /\ MaxEvent \in Nat /\ FrameMax \in Nat /\ FrameMax >= 1 /\ MaxResume \in Nat
  /\ 1 \in Conns /\ Conns \subseteq Nat
  /\ \A n \in 1..MaxEvent : Live(n) \in MirrorFrames
  /\ \A n \in 0..MaxEvent : WholeFrame(n) \in MirrorFrames /\ ScreenAt(n) \in MirrorScreens
  /\ NewMirror = ScreenAt(0)
<1>1. /\ MaxEvent \in Nat /\ FrameMax \in Nat /\ FrameMax >= 1 /\ MaxResume \in Nat
      /\ 1 \in Conns /\ Conns \subseteq Nat
  BY MirrorAssumption DEF Conns
<1>2. ASSUME NEW n \in 1..MaxEvent  PROVE  Live(n) \in MirrorFrames
  BY <1>1 DEF Live, MirrorFrames, Events
<1>3. ASSUME NEW n \in 0..MaxEvent
      PROVE  WholeFrame(n) \in MirrorFrames /\ ScreenAt(n) \in MirrorScreens
  <2>1. 1..n \in SUBSET Events
    BY <1>1 DEF Events
  <2> QED
    BY <2>1 DEF WholeFrame, SnapshotAt, ScreenAt, MirrorFrames, MirrorScreens
<1>4. NewMirror = ScreenAt(0)
  <2>1. 1..0 = {}
    OBVIOUS
  <2> QED
    BY <2>1 DEF NewMirror, ScreenAt
<1> QED
  BY <1>1, <1>2, <1>3, <1>4

LEMMA ApplyTypes ==
  ASSUME NEW m \in MirrorScreens, NEW f \in MirrorFrames
  PROVE  /\ ApplyFrame(m, f) \in MirrorScreens
         /\ MirrorSnapshot(m) \in MirrorFrames
         /\ Shows(m, f) \in MirrorScreens
BY DEF ApplyFrame, MirrorSnapshot, SnapshotAt, Shows, MirrorScreens, MirrorFrames

LEMMA EnqueueTypes ==
  ASSUME NEW q \in Seq(MirrorFrames), Len(q) <= FrameMax,
         NEW m \in MirrorScreens, NEW f \in MirrorFrames
  PROVE  /\ Enqueue(q, m, f) \in Seq(MirrorFrames)
         /\ Len(Enqueue(q, m, f)) <= FrameMax /\ Enqueue(q, m, f) # <<>>
<1>1. MirrorSnapshot(m) \in MirrorFrames
  BY ApplyTypes
<1>2. CASE Len(q) < FrameMax
  <2>1. Append(q, f) \in Seq(MirrorFrames) /\ Len(Append(q, f)) = Len(q) + 1
    BY AppendProperties
  <2>2. Append(q, f) # <<>>
    BY <2>1
  <2> QED
    BY <1>2, <2>1, <2>2, MirrorSets DEF Enqueue
<1>3. CASE ~(Len(q) < FrameMax)
  BY <1>1, <1>3, MirrorSets DEF Enqueue
<1> QED
  BY <1>2, <1>3

(* What a seed has done so far. *)
AccOK(a) ==
  /\ a.mirror \in MirrorScreens
  /\ a.pending \in Seq(MirrorFrames) /\ Len(a.pending) <= FrameMax
  /\ a.published \in BOOLEAN
  /\ a.pending # <<>> => a.published

LEMMA SeedKeeps ==
  ASSUME NEW a, AccOK(a), NEW f \in MirrorFrames
  PROVE  AccOK(ApplyAndEnqueue(a, f))
<1> DEFINE m == ApplyFrame(a.mirror, f)
           q == Enqueue(a.pending, m, f)
<1>1. m \in MirrorScreens
  BY ApplyTypes DEF AccOK
<1>2. q \in Seq(MirrorFrames) /\ Len(q) <= FrameMax /\ q # <<>>
  BY <1>1, EnqueueTypes DEF AccOK
<1>3. ApplyAndEnqueue(a, f) =
        IF Accepts(a.mirror, f) THEN [mirror |-> m, pending |-> q, published |-> TRUE] ELSE a
  BY DEF ApplyAndEnqueue
<1> HIDE DEF m, q
<1>4. AccOK([mirror |-> m, pending |-> q, published |-> TRUE])
  BY <1>1, <1>2 DEF AccOK
<1> QED
  BY <1>3, <1>4

LEMMA NumberedKeeps ==
  ASSUME NEW a, AccOK(a), NEW q \in Seq(MirrorFrames), NEW n
  PROVE  AccOK(ApplyNumbered(q, a, n))
<1>1. NumberedFrame(q, n) \subseteq MirrorFrames
  BY DEF NumberedFrame
<1>2. CASE NumberedFrame(q, n) # {}
  <2> DEFINE f == CHOOSE x \in NumberedFrame(q, n) : TRUE
  <2>1. f \in MirrorFrames
    BY <1>1, <1>2
  <2>2. AccOK(ApplyAndEnqueue(a, f))
    BY <2>1, SeedKeeps
  <2> QED
    BY <1>2, <2>2 DEF ApplyNumbered
<1> QED
  BY <1>2 DEF ApplyNumbered

(* The seed as the function it is computed by. *)
SeedStart(m, sync) ==
  ApplyAndEnqueue([mirror |-> m, pending |-> <<>>, published |-> FALSE], sync)
SeedSteps(u, m, sync, q, k) ==
  u = [n \in sync.seq..k |-> IF n = sync.seq THEN SeedStart(m, sync)
                             ELSE ApplyNumbered(q, u[n - 1], n)]

LEMMA SeedExists ==
  ASSUME NEW m, NEW sync, sync.seq \in 0..MaxEvent, NEW q
  PROVE  \E u : SeedSteps(u, m, sync, q, MaxEvent)
<1> DEFINE T == {k \in Nat : k >= sync.seq /\ ~ \E u : SeedSteps(u, m, sync, q, k)}
<1>1. ASSUME T # {}  PROVE FALSE
  <2>1. PICK k \in T : \A j \in T : k <= j
    BY <1>1, LeastNat
  <2>2. k \in Nat /\ sync.seq \in Nat /\ k >= sync.seq /\ ~ \E u : SeedSteps(u, m, sync, q, k)
    BY <2>1
  <2>3. CASE k = sync.seq
    <3> DEFINE g == [n \in sync.seq..k |-> SeedStart(m, sync)]
    <3>1. g = [n \in sync.seq..k |-> IF n = sync.seq THEN SeedStart(m, sync)
                                     ELSE ApplyNumbered(q, g[n - 1], n)]
      BY <2>2, <2>3
    <3> QED
      BY <3>1, <2>2 DEF SeedSteps
  <2>4. CASE k # sync.seq
    <3>1. k - 1 \in Nat /\ k - 1 >= sync.seq /\ k - 1 \notin T
      BY <2>1, <2>2, <2>4
    <3>2. PICK u : SeedSteps(u, m, sync, q, k - 1)
      BY <3>1
    <3> DEFINE g == [n \in sync.seq..k |-> IF n = k THEN ApplyNumbered(q, u[k - 1], k) ELSE u[n]]
    <3>3. \A n \in sync.seq..(k - 1) :
             u[n] = IF n = sync.seq THEN SeedStart(m, sync) ELSE ApplyNumbered(q, u[n - 1], n)
      BY <3>2 DEF SeedSteps
    <3>4. ASSUME NEW n \in sync.seq..k
          PROVE  g[n] = IF n = sync.seq THEN SeedStart(m, sync) ELSE ApplyNumbered(q, g[n - 1], n)
      <4>1. CASE n = k
        <5>1. g[k - 1] = u[k - 1]
          BY <2>2, <3>1
        <5> QED
          BY <4>1, <5>1, <2>4
      <4>2. CASE n # k /\ n = sync.seq
        BY <4>2, <3>3, <3>1, <2>2
      <4>3. CASE n # k /\ n # sync.seq
        <5>1. n \in sync.seq..(k - 1) /\ n - 1 \in sync.seq..k /\ n - 1 # k
          BY <4>3, <2>2
        <5>2. g[n] = u[n] /\ g[n - 1] = u[n - 1]
          BY <5>1, <4>3
        <5> QED
          BY <5>1, <5>2, <3>3, <4>3
      <4> QED
        BY <4>1, <4>2, <4>3
    <3>5. g = [n \in sync.seq..k |-> IF n = sync.seq THEN SeedStart(m, sync)
                                     ELSE ApplyNumbered(q, g[n - 1], n)]
      BY <3>4
    <3>6. SeedSteps(g, m, sync, q, k)
      BY <3>5 DEF SeedSteps
    <3> QED
      BY <3>6, <2>2
  <2> QED
    BY <2>3, <2>4
<1> QED
  BY <1>1, MirrorSets

LEMMA SeedUnfolds ==
  ASSUME NEW m, NEW sync, sync.seq \in 0..MaxEvent, NEW q
  PROVE  \E u : /\ u[sync.seq] = SeedStart(m, sync)
                /\ \A n \in (sync.seq + 1)..MaxEvent : u[n] = ApplyNumbered(q, u[n - 1], n)
                /\ Seeded(m, sync, q) = u[MaxEvent]
<1> DEFINE u == CHOOSE u : SeedSteps(u, m, sync, q, MaxEvent)
<1>1. SeedSteps(u, m, sync, q, MaxEvent)
  BY SeedExists
<1>2. Seeded(m, sync, q) = u[MaxEvent]
  BY DEF Seeded, SeedSteps, SeedStart
<1> HIDE DEF u
<1>3. \A n \in sync.seq..MaxEvent :
         u[n] = IF n = sync.seq THEN SeedStart(m, sync) ELSE ApplyNumbered(q, u[n - 1], n)
  BY <1>1 DEF SeedSteps
<1>4. /\ u[sync.seq] = SeedStart(m, sync)
      /\ \A n \in (sync.seq + 1)..MaxEvent : u[n] = ApplyNumbered(q, u[n - 1], n)
  BY <1>3, MirrorSets
<1> QED
  BY <1>2, <1>4

LEMMA SeededTypes ==
  ASSUME NEW m \in MirrorScreens, NEW sync \in MirrorFrames, NEW q \in Seq(MirrorFrames)
  PROVE  AccOK(Seeded(m, sync, q))
<1> DEFINE s == sync.seq
<1>1. s \in 0..MaxEvent /\ s \in Nat /\ MaxEvent \in Nat /\ s <= MaxEvent
  BY MirrorSets DEF MirrorFrames
<1>2. PICK u : /\ u[s] = SeedStart(m, sync)
               /\ \A n \in (s + 1)..MaxEvent : u[n] = ApplyNumbered(q, u[n - 1], n)
               /\ Seeded(m, sync, q) = u[MaxEvent]
  BY <1>1, SeedUnfolds
<1>3. AccOK(u[s])
  <2> DEFINE a == [mirror |-> m, pending |-> <<>>, published |-> FALSE]
  <2>1. AccOK(a)
    BY MirrorSets DEF AccOK
  <2> HIDE DEF a
  <2>2. AccOK(ApplyAndEnqueue(a, sync))
    BY <2>1, SeedKeeps
  <2> QED
    BY <1>2, <2>2 DEF SeedStart, a
<1> HIDE DEF s
<1> DEFINE T == {k \in Nat : k >= s /\ k <= MaxEvent /\ ~AccOK(u[k])}
<1>4. ASSUME T # {}  PROVE FALSE
  <2>1. PICK k \in T : \A j \in T : k <= j
    BY <1>4, LeastNat
  <2>2. k \in Nat /\ k > s /\ k <= MaxEvent /\ ~AccOK(u[k])
    BY <2>1, <1>1, <1>3
  <2>3. k - 1 \in Nat /\ k - 1 >= s /\ k - 1 <= MaxEvent /\ k - 1 \notin T
    BY <2>1, <2>2, <1>1
  <2>4. AccOK(u[k - 1])
    BY <2>3
  <2>5. u[k] = ApplyNumbered(q, u[k - 1], k)
    BY <1>1, <1>2, <2>2
  <2> QED
    BY <2>2, <2>4, <2>5, NumberedKeeps
<1>5. AccOK(u[MaxEvent])
  BY <1>1, <1>4
<1> QED
  BY <1>2, <1>5

(* The next event keeps the queue whole, whether it is appended or the     *)
(* queue is full and replaced by a snapshot.                               *)
LEMMA EnqueueWhole ==
  ASSUME NEW v \in MirrorScreens, NEW q \in Seq(MirrorFrames), QueueWhole(v, q),
         NEW n \in 1..MaxEvent, n = QueueEnd(v, q) + 1
  PROVE  /\ QueueWhole(v, Enqueue(q, ScreenAt(n), Live(n)))
         /\ QueueEnd(v, Enqueue(q, ScreenAt(n), Live(n))) = n
<1>1. Live(n) \in MirrorFrames /\ Live(n).seq = n /\ WholeFrame(n).seq = n
  BY MirrorSets DEF Live, WholeFrame, SnapshotAt
<1>2. CASE Len(q) < FrameMax
  <2> DEFINE r == Append(q, Live(n))
  <2>1. /\ r \in Seq(MirrorFrames) /\ Len(r) = Len(q) + 1 /\ Len(q) \in Nat
        /\ \A i \in 1..Len(q) : r[i] = q[i]
        /\ r[Len(q) + 1] = Live(n)
    BY <1>1, AppendProperties
  <2>2. Enqueue(q, ScreenAt(n), Live(n)) = r
    BY <1>2 DEF Enqueue
  <2> HIDE DEF r
  <2>3. \A i \in 0..Len(q) : SeqAt(v, r, i) = SeqAt(v, q, i)
    BY <2>1 DEF SeqAt
  <2>4. ASSUME NEW i \in 1..Len(r)
        PROVE  r[i] = WholeFrame(r[i].seq) \/ r[i] = Live(SeqAt(v, r, i - 1) + 1)
    <3>1. CASE i = Len(q) + 1
      BY <3>1, <2>1, <2>3 DEF QueueEnd
    <3>2. CASE i \in 1..Len(q)
      <4>1. i - 1 \in 0..Len(q)
        BY <3>2, <2>1
      <4> QED
        BY <3>2, <4>1, <2>1, <2>3 DEF QueueWhole
    <3> QED
      BY <2>1, <3>1, <3>2
  <2>5. QueueEnd(v, r) = n
    BY <1>1, <2>1 DEF QueueEnd, SeqAt
  <2> QED
    BY <2>2, <2>4, <2>5 DEF QueueWhole
<1>3. CASE ~(Len(q) < FrameMax)
  <2>1. Enqueue(q, ScreenAt(n), Live(n)) = <<WholeFrame(n)>>
    BY <1>3 DEF Enqueue, MirrorSnapshot, ScreenAt, WholeFrame
  <2> DEFINE r == <<WholeFrame(n)>>
  <2>2. Len(r) = 1 /\ r[1] = WholeFrame(n)
    OBVIOUS
  <2> HIDE DEF r
  <2>3. \A i \in 1..Len(r) : r[i] = WholeFrame(r[i].seq)
    BY <1>1, <2>2
  <2>4. QueueEnd(v, r) = n
    BY <1>1, <2>2 DEF QueueEnd, SeqAt
  <2> QED
    BY <2>1, <2>3, <2>4 DEF QueueWhole, r
<1> QED
  BY <1>2, <1>3

(* Events set aside one after the other are found by their numbers. *)
LEMMA LivesNumbered ==
  ASSUME NEW q \in Seq(MirrorFrames), NEW s \in Nat, Lives(q, s), NEW n \in Nat, n > s
  PROVE  NumberedFrame(q, n) = IF n <= s + Len(q) THEN {Live(n)} ELSE {}
<1>1. Len(q) \in Nat /\ DOMAIN q = 1..Len(q)
  OBVIOUS
<1>2. \A i \in DOMAIN q : q[i] = Live(s + i) /\ q[i].seq = s + i
  BY <1>1 DEF Lives, Live
<1>3. CASE n <= s + Len(q)
  <2>a. n - s \in 1..Len(q) /\ s + (n - s) = n
    BY <1>1, <1>3
  <2>1. n - s \in DOMAIN q /\ q[n - s] = Live(n)
    BY <2>a, <1>1, <1>2
  <2>2. ASSUME NEW j \in DOMAIN q  PROVE  q[j].seq = n <=> j = n - s
    <3>1. j \in Nat /\ q[j].seq = s + j
      BY <1>1, <1>2
    <3> QED
      BY <3>1
  <2>3. \A k \in 1..(n - s - 1) : q[k].seq # n
    BY <1>1, <1>2, <1>3
  <2>4. {j \in DOMAIN q : q[j].seq = n /\ \A k \in 1..(j - 1) : q[k].seq # n} = {n - s}
    BY <2>1, <2>2, <2>3
  <2> QED
    BY <1>3, <2>1, <2>4 DEF NumberedFrame
<1>4. CASE ~(n <= s + Len(q))
  <2>1. \A j \in DOMAIN q : q[j].seq # n
    BY <1>1, <1>2, <1>4
  <2> QED
    BY <1>4, <2>1 DEF NumberedFrame
<1> QED
  BY <1>3, <1>4

LEMMA ApplyNext ==
  ASSUME NEW n \in 1..MaxEvent
  PROVE  /\ Accepts(ScreenAt(n - 1), Live(n))
         /\ ApplyFrame(ScreenAt(n - 1), Live(n)) = ScreenAt(n)
<1>1. n \in Nat /\ n >= 1 /\ n > n - 1
  BY MirrorSets
<1>2. (1..(n - 1)) \cup {n} = 1..n
  BY <1>1
<1>3. Accepts(ScreenAt(n - 1), Live(n))
  BY <1>1 DEF Accepts, ScreenAt, Live
<1> QED
  BY <1>2, <1>3 DEF ApplyFrame, ScreenAt, Live

(* The seed of a first connection. *)
SeededTo(a, n) ==
  /\ a.mirror = ScreenAt(n)
  /\ QueueWhole(NewMirror, a.pending) /\ QueueEnd(NewMirror, a.pending) = n

LEMMA FirstSeed ==
  ASSUME NEW s \in 0..MaxEvent, NEW q \in Seq(MirrorFrames), Lives(q, s),
         s + Len(q) <= MaxEvent
  PROVE  SeededTo(Seeded(NewMirror, WholeFrame(s), q), s + Len(q))
<1> DEFINE sync == WholeFrame(s)
           e == s + Len(q)
           At(k) == IF k <= e THEN k ELSE e
<1>1. /\ s \in Nat /\ MaxEvent \in Nat /\ s <= MaxEvent /\ sync.seq = s /\ sync \in MirrorFrames
      /\ e \in Nat /\ e >= s /\ e <= MaxEvent
      /\ NewMirror \in MirrorScreens
  <2>1. sync.seq = s
    BY DEF WholeFrame, SnapshotAt
  <2>2. sync \in MirrorFrames /\ NewMirror \in MirrorScreens
    BY MirrorSets
  <2> QED
    BY <2>1, <2>2, MirrorSets
<1>2. PICK u : /\ u[s] = SeedStart(NewMirror, sync)
               /\ \A n \in (s + 1)..MaxEvent : u[n] = ApplyNumbered(q, u[n - 1], n)
               /\ Seeded(NewMirror, sync, q) = u[MaxEvent]
  <2> HIDE DEF sync
  <2>1. sync.seq \in 0..MaxEvent
    BY <1>1
  <2>2. \E u : /\ u[sync.seq] = SeedStart(NewMirror, sync)
               /\ \A n \in (sync.seq + 1)..MaxEvent : u[n] = ApplyNumbered(q, u[n - 1], n)
               /\ Seeded(NewMirror, sync, q) = u[MaxEvent]
    BY <2>1, SeedUnfolds
  <2> QED
    BY <1>1, <2>2
<1>3. AccOK(u[s]) /\ SeededTo(u[s], s)
  <2> DEFINE a == [mirror |-> NewMirror, pending |-> <<>>, published |-> FALSE]
  <2>1. AccOK(a) /\ a.mirror = NewMirror /\ a.pending = <<>>
    BY <1>1, MirrorSets DEF AccOK
  <2> HIDE DEF a
  <2>2. AccOK(ApplyAndEnqueue(a, sync))
    BY <1>1, <2>1, SeedKeeps
  <2>3. Accepts(NewMirror, sync)
    BY <1>1 DEF Accepts, WholeFrame, SnapshotAt, NewMirror
  <2>4. ApplyFrame(NewMirror, sync) = ScreenAt(s)
    BY <2>3 DEF ApplyFrame, ScreenAt, WholeFrame, SnapshotAt
  <2>5. Enqueue(<<>>, ScreenAt(s), sync) = <<sync>>
    BY MirrorSets DEF Enqueue
  <2>6. /\ ApplyAndEnqueue(a, sync).mirror = ScreenAt(s)
        /\ ApplyAndEnqueue(a, sync).pending = <<sync>>
    BY <2>1, <2>3, <2>4, <2>5 DEF ApplyAndEnqueue
  <2>7. NewMirror = ScreenAt(NewMirror.seq)
    BY MirrorSets DEF NewMirror
  <2>8. QueueWhole(NewMirror, <<sync>>) /\ QueueEnd(NewMirror, <<sync>>) = s
    BY <1>1, <2>7 DEF QueueWhole, QueueEnd, SeqAt
  <2> QED
    BY <1>2, <2>2, <2>6, <2>8 DEF SeedStart, SeededTo, a
<1> HIDE DEF sync
<1> DEFINE T == {k \in Nat : k >= s /\ k <= MaxEvent /\ ~(AccOK(u[k]) /\ SeededTo(u[k], At(k)))}
<1>4. ASSUME T # {}  PROVE FALSE
  <2>1. PICK k \in T : \A j \in T : k <= j
    BY <1>4, LeastNat
  <2>2. k \in Nat /\ k > s /\ k <= MaxEvent /\ ~(AccOK(u[k]) /\ SeededTo(u[k], At(k)))
    BY <2>1, <1>1, <1>3
  <2>3. k - 1 \in Nat /\ k - 1 >= s /\ k - 1 <= MaxEvent /\ k - 1 \notin T
    BY <2>1, <2>2, <1>1
  <2>4. AccOK(u[k - 1]) /\ SeededTo(u[k - 1], At(k - 1))
    BY <2>3
  <2>5. u[k] = ApplyNumbered(q, u[k - 1], k)
    BY <1>1, <1>2, <2>2
  <2>6. AccOK(u[k])
    BY <2>4, <2>5, NumberedKeeps
  <2>7. NumberedFrame(q, k) = IF k <= e THEN {Live(k)} ELSE {}
    BY <1>1, <2>2, LivesNumbered
  <2>8. CASE k <= e
    <3> DEFINE a == u[k - 1]
    <3>1. k \in 1..MaxEvent /\ At(k) = k /\ At(k - 1) = k - 1
      BY <2>2, <2>8, <1>1
    <3>2. (CHOOSE f \in {Live(k)} : TRUE) = Live(k)
      OBVIOUS
    <3>3. u[k] = ApplyAndEnqueue(a, Live(k))
      BY <2>5, <2>7, <2>8, <3>2 DEF ApplyNumbered
    <3>4. a.mirror = ScreenAt(k - 1) /\ QueueEnd(NewMirror, a.pending) = k - 1
      BY <2>4, <3>1 DEF SeededTo
    <3>5. /\ Accepts(a.mirror, Live(k)) /\ ApplyFrame(a.mirror, Live(k)) = ScreenAt(k)
      BY <3>1, <3>4, ApplyNext
    <3>6. /\ u[k].mirror = ScreenAt(k)
          /\ u[k].pending = Enqueue(a.pending, ScreenAt(k), Live(k))
      BY <3>3, <3>5 DEF ApplyAndEnqueue
    <3>7. /\ QueueWhole(NewMirror, Enqueue(a.pending, ScreenAt(k), Live(k)))
          /\ QueueEnd(NewMirror, Enqueue(a.pending, ScreenAt(k), Live(k))) = k
      <4>1. a.pending \in Seq(MirrorFrames) /\ QueueWhole(NewMirror, a.pending)
        BY <2>4 DEF AccOK, SeededTo
      <4>2. k = QueueEnd(NewMirror, a.pending) + 1
        BY <3>1, <3>4, MirrorSets
      <4> QED
        BY <1>1, <3>1, <4>1, <4>2, EnqueueWhole
    <3>8. SeededTo(u[k], At(k))
      BY <3>1, <3>6, <3>7 DEF SeededTo
    <3> QED
      BY <2>2, <2>6, <3>8
  <2>9. CASE ~(k <= e)
    <3>1. u[k] = u[k - 1]
      BY <2>5, <2>7, <2>9 DEF ApplyNumbered
    <3>2. At(k) = At(k - 1)
      BY <2>9, <2>2, <1>1
    <3> QED
      BY <3>1, <3>2, <2>2, <2>4
  <2> QED
    BY <2>8, <2>9
<1>5. SeededTo(u[MaxEvent], At(MaxEvent)) /\ At(MaxEvent) = e
  BY <1>1, <1>4
<1> QED
  BY <1>2, <1>5 DEF sync

(* A consumer that reads a whole queue shows a whole screen. *)
LEMMA ReadAllGives ==
  ASSUME NEW v \in MirrorScreens, NEW q \in Seq(MirrorFrames), QueueWhole(v, q)
  PROVE  ReadAll(v, q) = ScreenAt(QueueEnd(v, q))
<1> DEFINE Fn(g) == g = [i \in 0..Len(q) |-> IF i = 0 THEN v ELSE Shows(g[i - 1], q[i])]
           w == [i \in 0..Len(q) |-> ScreenAt(SeqAt(v, q, i))]
           g == CHOOSE g : Fn(g)
<1>1. Len(q) \in Nat /\ v = ScreenAt(v.seq) /\ v.seq \in Nat /\ \A i \in 1..Len(q) : q[i] \in MirrorFrames
  BY MirrorSets DEF QueueWhole, MirrorScreens
<1>2. ASSUME NEW i \in 1..Len(q)
      PROVE  Shows(ScreenAt(SeqAt(v, q, i - 1)), q[i]) = ScreenAt(SeqAt(v, q, i))
  <2>1. SeqAt(v, q, i) = q[i].seq
    BY <1>1 DEF SeqAt
  <2>2. CASE q[i] = WholeFrame(q[i].seq)
    <3>1. q[i].kind = "snapshot" /\ q[i].has = 1..q[i].seq
      BY <2>2 DEF WholeFrame, SnapshotAt
    <3> QED
      BY <2>1, <3>1 DEF Shows, ScreenAt
  <2>3. CASE q[i] = Live(SeqAt(v, q, i - 1) + 1)
    <3> DEFINE n == SeqAt(v, q, i - 1)
    <3>1. n \in Nat
      <4>1. CASE i = 1
        BY <4>1, <1>1 DEF SeqAt
      <4>2. CASE i # 1
        <5>1. i - 1 \in 1..Len(q) /\ i - 1 # 0
          BY <4>2, <1>1
        <5>2. q[i - 1].seq \in 0..MaxEvent
          BY <1>1, <5>1 DEF MirrorFrames
        <5> QED
          BY <5>1, <5>2 DEF SeqAt
      <4> QED
        BY <4>1, <4>2
    <3> HIDE DEF n
    <3>2. q[i].kind = "live" /\ q[i].has = {n + 1} /\ q[i].seq = n + 1
      BY <2>3 DEF Live, n
    <3>3. (1..n) \cup {n + 1} = 1..(n + 1)
      BY <3>1
    <3>4. Shows(ScreenAt(n), q[i]) = ScreenAt(n + 1)
      BY <3>2, <3>3 DEF Shows, ScreenAt
    <3> QED
      BY <2>1, <3>2, <3>4 DEF n
  <2> QED
    BY <2>2, <2>3 DEF QueueWhole
<1>3. Fn(w)
  <2>1. ASSUME NEW i \in 0..Len(q)
        PROVE  ScreenAt(SeqAt(v, q, i)) = IF i = 0 THEN v ELSE Shows(w[i - 1], q[i])
    <3>1. CASE i = 0
      BY <3>1, <1>1 DEF SeqAt
    <3>2. CASE i # 0
      <4>1. i \in 1..Len(q) /\ i - 1 \in 0..Len(q)
        BY <3>2, <1>1
      <4>2. w[i - 1] = ScreenAt(SeqAt(v, q, i - 1))
        BY <4>1
      <4> QED
        BY <3>2, <4>1, <4>2, <1>2
    <3> QED
      BY <3>1, <3>2
  <2> QED
    BY <2>1
<1> HIDE DEF w
<1>4. Fn(g)
  BY <1>3
<1>5. ReadAll(v, q) = g[Len(q)]
  BY DEF ReadAll
<1> HIDE DEF g
<1>6. \A i \in 0..Len(q) : g[i] = IF i = 0 THEN v ELSE Shows(g[i - 1], q[i])
  BY <1>4
<1> DEFINE T == {i \in Nat : i <= Len(q) /\ g[i] # ScreenAt(SeqAt(v, q, i))}
<1>7. ASSUME T # {}  PROVE FALSE
  <2>1. PICK i \in T : \A j \in T : i <= j
    BY <1>7, LeastNat
  <2>2. i \in 0..Len(q) /\ g[i] # ScreenAt(SeqAt(v, q, i))
    BY <2>1, <1>1
  <2>3. i # 0
    BY <2>2, <1>1, <1>6 DEF SeqAt
  <2>4. i - 1 \in Nat /\ i - 1 <= Len(q) /\ i - 1 \notin T
    BY <2>1, <2>2, <2>3, <1>1
  <2>5. g[i - 1] = ScreenAt(SeqAt(v, q, i - 1))
    BY <2>4
  <2>6. i \in 1..Len(q)
    BY <2>2, <2>3, <1>1
  <2> QED
    BY <2>2, <2>3, <2>5, <2>6, <1>2, <1>6
<1> QED
  BY <1>1, <1>5, <1>7 DEF QueueEnd

LEMMA MirrorInitInv == MirrorInit => MirrorInv
<1> SUFFICES ASSUME MirrorInit  PROVE MirrorInv
  OBVIOUS
<1> USE DEF MirrorInit
<1>1. SnapshotAt(0, {}) = WholeFrame(0) /\ WholeFrame(0) \in MirrorFrames
  <2>1. 1..0 = {}
    OBVIOUS
  <2> QED
    BY <2>1, MirrorSets DEF WholeFrame
<1>2. Live(1) \in MirrorFrames
  BY MirrorSets, MirrorAssumption
<1>3. MirrorTypes
  <2>1. emitted \in 0..MaxEvent /\ registered \in 0..(1 + MaxResume)
    BY MirrorAssumption
  <2>2. wire \in [Conns -> Seq(MirrorFrames)]
    OBVIOUS
  <2>3. ipc \in [pc : {"connect", "seed", "ready", "commit", "boot"}, conn : Conns,
                 sync : MirrorFrames, resumes : 0..MaxResume]
    BY <1>1, MirrorSets
  <2>4. mirror \in MirrorScreens /\ viewed \in MirrorScreens
    BY MirrorSets
  <2>5. bootstrap \in Seq(Seq(MirrorFrames)) /\ Len(bootstrap) <= 1
    BY DEF Booting
  <2>6. pending \in Seq(MirrorFrames) /\ Len(pending) <= FrameMax
    BY MirrorSets
  <2>7. readers \in [Conns -> [pc : ReaderPcs, frame : MirrorFrames]]
    BY <1>2 DEF ReaderPcs
  <2> QED
    BY <2>1, <2>2, <2>3, <2>4, <2>5, <2>6, <2>7 DEF MirrorTypes
<1>4. ConnectorInv
  BY MirrorSets DEF ConnectorInv
<1>5. QueueIsSignalled
  BY DEF QueueIsSignalled
<1>6. FirstInv
  BY MirrorSets DEF FirstInv, Connecting
<1> QED
  BY <1>3, <1>4, <1>5, <1>6 DEF MirrorInv

LEMMA MirrorSafe == MirrorInv => MirrorTypeOK /\ MirrorIsFed
<1> SUFFICES ASSUME MirrorInv  PROVE MirrorTypeOK /\ MirrorIsFed
  OBVIOUS
<1> USE DEF MirrorInv
<1>1. MirrorTypeOK
  <2>1. \A c \in Conns : wire[c] \in Seq(MirrorFrames)
    BY DEF MirrorTypes
  <2>2. \A c \in Conns : ToSet(wire[c]) \subseteq MirrorFrames
    BY <2>1 DEF ToSet
  <2>3. ToSet(pending) \subseteq MirrorFrames
    BY DEF ToSet, MirrorTypes
  <2>4. bootstrap = NotBooting \/ ToSet(bootstrap[1]) \subseteq MirrorFrames
    <3>1. CASE bootstrap # NotBooting
      <4>1. bootstrap[1] \in Seq(MirrorFrames)
        BY <3>1 DEF NotBooting, MirrorTypes
      <4> QED
        BY <4>1 DEF ToSet
    <3> QED
      BY <3>1
  <2>5. \A c \in Conns : readers[c].pc \in {"off", "reading", "applied", "signal", "ended"}
    BY DEF MirrorTypes, ReaderPcs
  <2> QED
    BY <2>2, <2>3, <2>4, <2>5 DEF MirrorTypeOK, MirrorTypes, MirrorScreens
<1>2. FirstConnectionIsWhole
  <2> SUFFICES ASSUME ipc.resumes = 0
               PROVE  /\ mirror.has = 1..mirror.seq
                      /\ ReadAll(viewed, pending).has = 1..ReadAll(viewed, pending).seq
                      /\ (\A c \in Conns : readers[c].pc # "applied") =>
                            ReadAll(viewed, pending) = mirror
    BY DEF FirstConnectionIsWhole
  <2>1. /\ mirror = ScreenAt(mirror.seq)
        /\ QueueWhole(viewed, pending)
        /\ readers[1].pc # "applied" => QueueEnd(viewed, pending) = mirror.seq
    <3>1. CASE ipc.pc = "ready"
      BY <3>1 DEF FirstInv, Fed
    <3>2. CASE ipc.pc # "ready"
      <4>1. mirror = NewMirror /\ pending = <<>> /\ viewed = NewMirror
        BY <3>2 DEF FirstInv
      <4>2. NewMirror = ScreenAt(0) /\ NewMirror.seq = 0
        BY MirrorSets DEF NewMirror
      <4> QED
        BY <4>1, <4>2 DEF QueueWhole, QueueEnd, SeqAt
    <3> QED
      BY <3>1, <3>2
  <2>2. ReadAll(viewed, pending) = ScreenAt(QueueEnd(viewed, pending))
    BY <2>1, ReadAllGives DEF MirrorTypes
  <2>3. \A n : ScreenAt(n).has = 1..n /\ ScreenAt(n).seq = n
    BY DEF ScreenAt
  <2>4. mirror.has = 1..mirror.seq
    BY <2>1, <2>3
  <2>5. ReadAll(viewed, pending).has = 1..ReadAll(viewed, pending).seq
    BY <2>2, <2>3
  <2> QED
    BY <2>1, <2>2, <2>4, <2>5, MirrorSets
<1> QED
  BY <1>1, <1>2 DEF MirrorIsFed
-----------------------------------------------------------------------------
LEMMA EmitKeeps == MirrorInv /\ SupervisorEmits => MirrorInv'
<1> SUFFICES ASSUME MirrorInv, SupervisorEmits  PROVE MirrorInv'
  OBVIOUS
<1> USE DEF MirrorInv, SupervisorEmits
<1>1. /\ emitted \in 0..MaxEvent /\ emitted' = emitted + 1 /\ emitted' \in 1..MaxEvent
      /\ MaxEvent \in Nat /\ emitted \in Nat
  BY MirrorSets DEF MirrorTypes
<1>2. Live(emitted + 1) \in MirrorFrames
  BY <1>1, MirrorSets
<1>3. wire' \in [Conns -> Seq(MirrorFrames)]
  <2>1. wire \in [Conns -> Seq(MirrorFrames)] /\ (registered # 0 => registered \in Conns)
    BY MirrorSets DEF MirrorTypes, Conns
  <2>2. registered # 0 => Append(wire[registered], Live(emitted + 1)) \in Seq(MirrorFrames)
    BY <1>2, <2>1, AppendProperties
  <2> QED
    BY <2>1, <2>2
<1>4. MirrorTypes'
  BY <1>1, <1>3 DEF MirrorTypes
<1>5. ConnectorInv' /\ QueueIsSignalled'
  BY DEF ConnectorInv, QueueIsSignalled
<1>6. FirstInv'
  <2> SUFFICES ASSUME ipc.resumes = 0  PROVE FirstInv'
    BY DEF FirstInv
  <2>1. ASSUME registered = 1, NEW n \in Nat, Lives(wire[1], n), n + Len(wire[1]) = emitted
        PROVE  Lives(wire'[1], n) /\ n + Len(wire'[1]) = emitted'
    <3> DEFINE w == wire[1]
    <3>1. wire'[1] = Append(w, Live(emitted + 1)) /\ w \in Seq(MirrorFrames)
      BY <2>1, MirrorSets DEF MirrorTypes
    <3> HIDE DEF w
    <3>2. /\ Len(wire'[1]) = Len(w) + 1 /\ Len(w) \in Nat
          /\ \A i \in 1..Len(w) : wire'[1][i] = w[i]
          /\ wire'[1][Len(w) + 1] = Live(emitted + 1)
      BY <1>2, <3>1, AppendProperties
    <3>3. emitted + 1 = n + (Len(w) + 1)
      BY <2>1, <3>2, <1>1 DEF w
    <3>4. ASSUME NEW i \in 1..Len(wire'[1])  PROVE  wire'[1][i] = Live(n + i)
      <4>1. CASE i = Len(w) + 1
        BY <4>1, <3>2, <3>3
      <4>2. CASE i \in 1..Len(w)
        BY <4>2, <3>2, <2>1 DEF Lives, w
      <4> QED
        BY <3>2, <4>1, <4>2
    <3> QED
      BY <1>1, <3>2, <3>3, <3>4 DEF Lives
  <2>2. CASE ipc.pc = "connect"
    <3>1. wire' = wire
      BY <2>2 DEF FirstInv, Connecting
    <3> QED
      BY <2>2, <3>1 DEF FirstInv, Connecting
  <2>3. CASE ipc.pc = "seed"
    <3> DEFINE n == ipc.sync.seq + Len(bootstrap[1])
    <3>1. Seeding
      BY <2>3 DEF FirstInv
    <3>2. n \in Nat
      <4>1. bootstrap[1] \in Seq(MirrorFrames)
        BY <3>1 DEF Seeding, NotBooting, MirrorTypes
      <4>2. ipc.sync.seq \in 0..MaxEvent
        BY DEF MirrorTypes, MirrorFrames
      <4> QED
        BY <4>1, <4>2, MirrorSets
    <3>3. n <= emitted'
      BY <3>1, <3>2, <1>1 DEF Seeding
    <3>4. readers[1].pc = "reading" =>
            registered = 1 /\ Lives(wire'[1], n) /\ n + Len(wire'[1]) = emitted'
      BY <3>1, <3>2, <2>1 DEF Seeding
    <3>5. Seeding'
      BY <3>1, <3>3, <3>4 DEF Seeding
    <3> QED
      BY <2>3, <3>5 DEF FirstInv
  <2>4. CASE ipc.pc = "ready"
    <3>1. Fed /\ mirror.seq \in Nat
      BY <2>4, MirrorSets DEF FirstInv, MirrorTypes, MirrorScreens
    <3>2. readers[1].pc # "ended" =>
            registered = 1 /\ Lives(wire'[1], mirror.seq) /\ mirror.seq + Len(wire'[1]) = emitted'
      BY <3>1, <2>1 DEF Fed
    <3>3. Fed'
      BY <3>1, <3>2 DEF Fed
    <3> QED
      BY <2>4, <3>3 DEF FirstInv
  <2> QED
    BY <2>2, <2>3, <2>4 DEF FirstInv
<1> QED
  BY <1>4, <1>5, <1>6

LEMMA BreakKeeps ==
  ASSUME MirrorInv, NEW c \in Conns, ConnectionBreaks(c)
  PROVE  MirrorInv'
<1> USE DEF MirrorInv, ConnectionBreaks
<1>1. /\ readers' \in [Conns -> [pc : ReaderPcs, frame : MirrorFrames]]
      /\ wire' \in [Conns -> Seq(MirrorFrames)]
      /\ \A d \in Conns : readers'[d].pc = IF d = c THEN "ended" ELSE readers[d].pc
  <2>1. /\ readers' \in [Conns -> [pc : ReaderPcs, frame : MirrorFrames]]
        /\ \A d \in Conns : readers'[d].pc = IF d = c THEN "ended" ELSE readers[d].pc
    BY DEF MirrorTypes, ReaderPcs
  <2>2. wire' \in [Conns -> Seq(MirrorFrames)]
    BY DEF MirrorTypes
  <2> QED
    BY <2>1, <2>2
<1>2. MirrorTypes'
  BY <1>1, MirrorSets DEF MirrorTypes
<1>3. ConnectorInv'
  BY <1>1, MirrorSets DEF ConnectorInv, MirrorTypes
<1>4. QueueIsSignalled'
  BY <1>1 DEF QueueIsSignalled
<1>5. FirstInv'
  <2> SUFFICES ASSUME ipc.resumes = 0  PROVE FirstInv'
    BY DEF FirstInv
  <2>1. c = 1 /\ ipc.pc = "ready" /\ readers'[1].pc = "ended" /\ readers[1].pc = "reading"
    BY <1>1 DEF ConnectorInv
  <2>2. Fed'
    BY <2>1 DEF FirstInv, Fed
  <2> QED
    BY <2>1, <2>2 DEF FirstInv
<1> QED
  BY <1>2, <1>3, <1>4, <1>5

LEMMA AttachSyncKeeps == MirrorInv /\ AttachSync => MirrorInv'
<1> SUFFICES ASSUME MirrorInv, AttachSync  PROVE MirrorInv'
  OBVIOUS
<1> USE DEF MirrorInv, AttachSync
<1>0. emitted \in 0..MaxEvent /\ emitted \in Nat /\ ipc.conn \in Conns
  BY MirrorSets DEF MirrorTypes
<1>1. /\ readers' \in [Conns -> [pc : ReaderPcs, frame : MirrorFrames]]
      /\ \A d \in Conns : readers'[d].pc = IF d = ipc.conn THEN "reading" ELSE readers[d].pc
  BY <1>0 DEF MirrorTypes, ReaderPcs, StartsReader
<1>2. SnapshotAt(emitted, 1..emitted) = WholeFrame(emitted) /\ WholeFrame(emitted) \in MirrorFrames
  BY <1>0, MirrorSets DEF WholeFrame
<1>3. /\ ipc' \in [pc : {"connect", "seed", "ready", "commit", "boot"}, conn : Conns,
                   sync : MirrorFrames, resumes : 0..MaxResume]
      /\ ipc'.pc = "seed" /\ ipc'.conn = ipc.conn /\ ipc'.resumes = ipc.resumes
      /\ ipc'.sync = WholeFrame(emitted)
  BY <1>2 DEF MirrorTypes
<1>4. MirrorTypes'
  BY <1>0, <1>1, <1>3, MirrorSets DEF MirrorTypes, Conns
<1>5. ConnectorInv'
  BY <1>0, <1>1, <1>3, MirrorSets DEF ConnectorInv
<1>6. QueueIsSignalled'
  BY <1>1 DEF QueueIsSignalled, ConnectorInv
<1>7. FirstInv'
  <2> SUFFICES ASSUME ipc.resumes = 0  PROVE FirstInv'
    BY <1>3 DEF FirstInv
  <2>1. ipc.conn = 1 /\ Connecting
    BY DEF ConnectorInv, FirstInv
  <2>2. ipc'.sync.seq = emitted
    BY <1>3 DEF WholeFrame, SnapshotAt
  <2>3. /\ bootstrap' = Booting(<<>>) /\ bootstrap' # NotBooting /\ bootstrap'[1] = <<>>
        /\ wire'[1] = <<>> /\ registered' = 1
    BY <2>1 DEF Connecting, Booting, NotBooting
  <2>4. Seeding'
    <3>1. readers'[1].pc = "reading" /\ Len(<<>>) = 0
      BY <1>1, <2>1, MirrorSets
    <3> QED
      BY <1>0, <1>3, <2>2, <2>3, <3>1, MirrorSets DEF Seeding, Lives
  <2> QED
    BY <1>1, <1>3, <2>1, <2>4, MirrorSets DEF FirstInv
<1> QED
  BY <1>4, <1>5, <1>6, <1>7

LEMMA SeedSyncKeeps == MirrorInv /\ SeedAttachSync => MirrorInv'
<1> SUFFICES ASSUME MirrorInv, SeedAttachSync  PROVE MirrorInv'
  OBVIOUS
<1> DEFINE aside == IF bootstrap = NotBooting THEN <<>> ELSE bootstrap[1]
           seed == Seeded(mirror, ipc.sync, pending \o aside)
<1>1. /\ ipc.pc = "seed"
      /\ mirror' = seed.mirror /\ pending' = seed.pending
      /\ unseen' = (unseen \/ seed.published)
      /\ bootstrap' = NotBooting
      /\ ipc' = [ipc EXCEPT !.pc = "ready", !.sync = SnapshotAt(0, {})]
      /\ UNCHANGED <<emitted, registered, wire, readers, viewed>>
  BY DEF SeedAttachSync
<1> USE DEF MirrorInv
<1>2. aside \in Seq(MirrorFrames)
  BY DEF NotBooting, MirrorTypes
<1>3. pending \o aside \in Seq(MirrorFrames)
  BY <1>2, ConcatProperties DEF MirrorTypes
<1>4. AccOK(seed)
  BY <1>3, SeededTypes DEF MirrorTypes
<1>5. SnapshotAt(0, {}) \in MirrorFrames
  BY MirrorSets DEF SnapshotAt, MirrorFrames
<1>6. /\ ipc' \in [pc : {"connect", "seed", "ready", "commit", "boot"}, conn : Conns,
                   sync : MirrorFrames, resumes : 0..MaxResume]
      /\ ipc'.pc = "ready" /\ ipc'.conn = ipc.conn /\ ipc'.resumes = ipc.resumes
  BY <1>1, <1>5 DEF MirrorTypes
<1>7. FirstInv'
  <2> SUFFICES ASSUME ipc.resumes = 0  PROVE FirstInv'
    BY <1>6 DEF FirstInv
  <2> DEFINE s == ipc.sync.seq
             q == bootstrap[1]
  <2>1. /\ Seeding /\ mirror = NewMirror /\ pending = <<>> /\ viewed = NewMirror
        /\ readers[1].pc \in {"off", "reading", "ended"}
    BY <1>1 DEF FirstInv
  <2>2. aside = q /\ q \in Seq(MirrorFrames) /\ Lives(q, s) /\ ipc.sync = WholeFrame(s)
    BY <1>2, <2>1 DEF Seeding
  <2>3. pending \o aside = q
    BY <2>1, <2>2, ConcatEmptySeq
  <2>4. /\ s \in 0..MaxEvent /\ s \in Nat /\ Len(q) \in Nat
        /\ s + Len(q) <= emitted /\ emitted <= MaxEvent /\ emitted \in Nat /\ MaxEvent \in Nat
    <3>1. s \in 0..MaxEvent
      BY DEF MirrorTypes, MirrorFrames
    <3>2. Len(q) \in Nat
      BY <2>2
    <3>3. s + Len(q) <= emitted /\ emitted \in 0..MaxEvent
      BY <2>1 DEF Seeding, MirrorTypes
    <3> HIDE DEF s, q
    <3> QED
      BY <3>1, <3>2, <3>3, MirrorSets
  <2>5. SeededTo(Seeded(NewMirror, WholeFrame(s), q), s + Len(q))
    <3> HIDE DEF s, q
    <3> QED
      BY <2>2, <2>4, FirstSeed
  <2>6. SeededTo(seed, s + Len(q))
    BY <2>1, <2>2, <2>3, <2>5
  <2>7. /\ mirror' = ScreenAt(s + Len(q)) /\ mirror'.seq = s + Len(q)
        /\ QueueWhole(viewed', pending') /\ QueueEnd(viewed', pending') = mirror'.seq
    BY <1>1, <2>1, <2>6 DEF SeededTo, ScreenAt
  <2>8. readers[1].pc = "reading" =>
          registered = 1 /\ Lives(wire[1], s + Len(q)) /\ s + Len(q) + Len(wire[1]) = emitted
    BY <2>1 DEF Seeding
  <2>9. CASE readers[1].pc # "off"
    <3>1. Fed'
      BY <1>1, <2>1, <2>7, <2>8, <2>9 DEF Fed
    <3> QED
      BY <1>6, <3>1 DEF FirstInv
  <2> QED
    BY <2>1, <2>9 DEF Seeding
<1>8. MirrorTypes'
  <2>1. /\ mirror' \in MirrorScreens /\ pending' \in Seq(MirrorFrames)
        /\ Len(pending') <= FrameMax /\ unseen' \in BOOLEAN
    BY <1>1, <1>4 DEF AccOK, MirrorTypes
  <2>2. bootstrap' \in Seq(Seq(MirrorFrames)) /\ Len(bootstrap') <= 1
    BY <1>1 DEF NotBooting
  <2> QED
    BY <1>1, <1>6, <2>1, <2>2 DEF MirrorTypes
<1>9. ConnectorInv'
  BY <1>1, <1>6 DEF ConnectorInv
<1>10. QueueIsSignalled'
  <2>1. pending' # <<>> => seed.published
    BY <1>1, <1>4 DEF AccOK
  <2> QED
    BY <1>1, <2>1 DEF QueueIsSignalled
<1> QED
  BY <1>7, <1>8, <1>9, <1>10

LEMMA ResumeKeeps ==
  ASSUME MirrorInv, CandidateSyncs \/ CommitsResume \/ BeginsBootstrap
  PROVE  MirrorInv'
<1> USE DEF MirrorInv
<1>0. /\ emitted \in 0..MaxEvent /\ emitted \in Nat /\ ipc.conn \in Conns
      /\ ipc.resumes \in 0..MaxResume /\ MaxResume \in Nat
  BY MirrorSets DEF MirrorTypes
<1>1. CASE CandidateSyncs
  <2>1. SnapshotAt(emitted, 1..emitted) \in MirrorFrames
    BY <1>0, MirrorSets DEF WholeFrame
  <2>2. ipc.conn + 1 \in Conns /\ ipc.resumes + 1 \in 0..MaxResume /\ ipc.resumes + 1 # 0
    BY <1>0, <1>1 DEF CandidateSyncs, ConnectorInv, Conns
  <2>3. /\ ipc' \in [pc : {"connect", "seed", "ready", "commit", "boot"}, conn : Conns,
                     sync : MirrorFrames, resumes : 0..MaxResume]
        /\ ipc'.pc = "commit" /\ ipc'.conn = ipc.conn + 1 /\ ipc'.resumes = ipc.resumes + 1
    BY <1>1, <2>1, <2>2 DEF CandidateSyncs, MirrorTypes
  <2>4. MirrorTypes'
    BY <1>1, <2>3 DEF MirrorTypes, CandidateSyncs
  <2>5. ConnectorInv'
    BY <1>0, <1>1, <2>2, <2>3, MirrorSets DEF ConnectorInv, CandidateSyncs, Conns
  <2>6. QueueIsSignalled' /\ FirstInv'
    BY <1>1, <2>2, <2>3 DEF QueueIsSignalled, FirstInv, CandidateSyncs
  <2> QED
    BY <2>4, <2>5, <2>6
<1>2. CASE CommitsResume
  <2>1. /\ readers' \in [Conns -> [pc : ReaderPcs, frame : MirrorFrames]]
        /\ \A d \in Conns : readers'[d].pc = IF d = ipc.conn THEN "reading" ELSE readers[d].pc
    BY <1>0, <1>2 DEF MirrorTypes, ReaderPcs, StartsReader, CommitsResume
  <2>2. /\ ipc' \in [pc : {"connect", "seed", "ready", "commit", "boot"}, conn : Conns,
                     sync : MirrorFrames, resumes : 0..MaxResume]
        /\ ipc'.pc = "boot" /\ ipc'.conn = ipc.conn /\ ipc'.resumes = ipc.resumes
    BY <1>2 DEF CommitsResume, MirrorTypes
  <2>3. registered' \in 0..(1 + MaxResume)
    BY <1>0, <1>2 DEF CommitsResume, Conns
  <2>4. MirrorTypes'
    BY <1>2, <2>1, <2>2, <2>3 DEF MirrorTypes, CommitsResume
  <2>5. ConnectorInv'
    BY <1>0, <1>2, <2>1, <2>2, MirrorSets DEF ConnectorInv, CommitsResume
  <2>6. QueueIsSignalled'
    BY <1>2, <2>1 DEF QueueIsSignalled, ConnectorInv, CommitsResume
  <2>7. FirstInv'
    BY <1>2, <2>2 DEF FirstInv, CommitsResume
  <2> QED
    BY <2>4, <2>5, <2>6, <2>7
<1>3. CASE BeginsBootstrap
  <2>1. /\ ipc' \in [pc : {"connect", "seed", "ready", "commit", "boot"}, conn : Conns,
                     sync : MirrorFrames, resumes : 0..MaxResume]
        /\ ipc'.pc = "seed" /\ ipc'.conn = ipc.conn /\ ipc'.resumes = ipc.resumes
    BY <1>3 DEF BeginsBootstrap, MirrorTypes
  <2>2. bootstrap' \in Seq(Seq(MirrorFrames)) /\ Len(bootstrap') <= 1
    BY <1>3 DEF BeginsBootstrap, Booting
  <2>3. MirrorTypes'
    BY <1>3, <2>1, <2>2 DEF MirrorTypes, BeginsBootstrap
  <2>4. ConnectorInv' /\ QueueIsSignalled'
    BY <1>3, <2>1 DEF ConnectorInv, QueueIsSignalled, BeginsBootstrap
  <2>5. FirstInv'
    BY <1>3, <2>1 DEF FirstInv, BeginsBootstrap
  <2> QED
    BY <2>3, <2>4, <2>5
<1> QED
  BY <1>1, <1>2, <1>3

(* The first frame of what follows number n is event n + 1. *)
LEMMA LivesTail ==
  ASSUME NEW q \in Seq(MirrorFrames), q # <<>>, NEW n \in Nat, Lives(q, n)
  PROVE  /\ Head(q) = Live(n + 1) /\ Tail(q) \in Seq(MirrorFrames)
         /\ Lives(Tail(q), n + 1) /\ Len(Tail(q)) + 1 = Len(q) /\ Len(q) \in Nat
<1>1. /\ Len(q) \in Nat /\ Len(q) >= 1 /\ Head(q) = q[1]
      /\ Tail(q) \in Seq(MirrorFrames) /\ Len(Tail(q)) = Len(q) - 1
      /\ \A i \in 1..(Len(q) - 1) : Tail(q)[i] = q[i + 1]
  BY HeadTailProperties
<1>2. ASSUME NEW i \in 1..Len(Tail(q))  PROVE  Tail(q)[i] = Live((n + 1) + i)
  <2>1. i + 1 \in 1..Len(q) /\ Tail(q)[i] = q[i + 1] /\ n + (i + 1) = (n + 1) + i
    BY <1>1
  <2> QED
    BY <2>1 DEF Lives
<1> QED
  BY <1>1, <1>2 DEF Lives

(* The reader of a connection that has been handed its stream. *)
LEMMA ReaderFacts ==
  ASSUME MirrorInv, NEW c \in Conns, readers[c].pc # "off", ipc.resumes = 0
  PROVE  c = 1 /\ ipc.pc \in {"seed", "ready"}
<1>1. c \in Nat /\ c >= 1 /\ ipc.conn = 1
  BY MirrorSets DEF MirrorInv, ConnectorInv, Conns
<1>2. c = 1
  BY <1>1 DEF MirrorInv, ConnectorInv
<1> QED
  BY <1>1, <1>2 DEF MirrorInv, ConnectorInv, FirstInv

LEMMA AsideKeeps ==
  ASSUME MirrorInv, NEW c \in Conns, ReaderSetsAside(c)
  PROVE  MirrorInv'
<1> USE DEF MirrorInv
<1> DEFINE q == bootstrap[1]
           f == Head(wire[c])
           full == Len(q) >= FrameMax
<1>1. /\ readers[c].pc = "reading" /\ wire[c] # <<>> /\ bootstrap # NotBooting
      /\ wire' = [wire EXCEPT ![c] = Tail(@)]
      /\ full => bootstrap' = Booting(<<>>) /\ readers' = [readers EXCEPT ![c].pc = "ended"]
      /\ ~full => bootstrap' = Booting(Append(q, f)) /\ readers' = readers
      /\ UNCHANGED <<emitted, registered, ipc, mirror, pending, unseen, viewed>>
  BY DEF ReaderSetsAside
<1>2. /\ wire[c] \in Seq(MirrorFrames) /\ q \in Seq(MirrorFrames)
      /\ f \in MirrorFrames /\ Tail(wire[c]) \in Seq(MirrorFrames)
  <2>1. wire[c] \in Seq(MirrorFrames) /\ q \in Seq(MirrorFrames)
    BY <1>1 DEF MirrorTypes, NotBooting
  <2> QED
    BY <1>1, <2>1, HeadTailProperties
<1>3. /\ Append(q, f) \in Seq(MirrorFrames) /\ Len(q) \in Nat /\ Len(Append(q, f)) = Len(q) + 1
      /\ \A i \in 1..Len(q) : Append(q, f)[i] = q[i]
      /\ Append(q, f)[Len(q) + 1] = f
  BY <1>2, AppendProperties
<1>4. wire' \in [Conns -> Seq(MirrorFrames)] /\ wire'[c] = Tail(wire[c])
  BY <1>1, <1>2 DEF MirrorTypes
<1>5. /\ readers' \in [Conns -> [pc : ReaderPcs, frame : MirrorFrames]]
      /\ \A d \in Conns : readers'[d].pc = IF d = c /\ full THEN "ended" ELSE readers[d].pc
  <2>1. CASE full
    <3>1. readers' = [readers EXCEPT ![c].pc = "ended"]
      BY <1>1, <2>1
    <3>2. readers \in [Conns -> [pc : ReaderPcs, frame : MirrorFrames]] /\ "ended" \in ReaderPcs
      BY <1>1 DEF MirrorTypes, ReaderPcs
    <3> QED
      BY <2>1, <3>1, <3>2
  <2>2. CASE ~full
    BY <1>1, <2>2 DEF MirrorTypes
  <2> QED
    BY <2>1, <2>2
<1>6. /\ bootstrap' \in Seq(Seq(MirrorFrames)) /\ Len(bootstrap') <= 1 /\ bootstrap' # NotBooting
      /\ bootstrap'[1] = IF full THEN <<>> ELSE Append(q, f)
  <2>1. CASE full
    <3> DEFINE r == <<>>
    <3>1. bootstrap' = <<r>> /\ r \in Seq(MirrorFrames)
      BY <1>1, <2>1 DEF Booting
    <3>2. <<r>> \in Seq(Seq(MirrorFrames)) /\ Len(<<r>>) = 1 /\ <<r>>[1] = r /\ <<r>> # <<>>
      BY <3>1
    <3> QED
      BY <2>1, <3>1, <3>2 DEF NotBooting
  <2>2. CASE ~full
    <3> DEFINE r == Append(q, f)
    <3>1. bootstrap' = <<r>> /\ r \in Seq(MirrorFrames)
      BY <1>1, <1>3, <2>2 DEF Booting
    <3> HIDE DEF r
    <3>2. <<r>> \in Seq(Seq(MirrorFrames)) /\ Len(<<r>>) = 1 /\ <<r>>[1] = r /\ <<r>> # <<>>
      BY <3>1
    <3> QED
      BY <2>2, <3>1, <3>2 DEF NotBooting, r
  <2> QED
    BY <2>1, <2>2
<1>7. MirrorTypes'
  BY <1>1, <1>4, <1>5, <1>6 DEF MirrorTypes
<1>8. ConnectorInv'
  BY <1>1, <1>5 DEF ConnectorInv, MirrorTypes
<1>9. QueueIsSignalled'
  BY <1>1, <1>5 DEF QueueIsSignalled
<1>10. FirstInv'
  <2> SUFFICES ASSUME ipc.resumes = 0  PROVE FirstInv'
    BY <1>1 DEF FirstInv
  <2>1. c = 1 /\ ipc.pc \in {"seed", "ready"}
    BY <1>1, ReaderFacts
  <2>2. ipc.pc = "seed" /\ Seeding
    BY <1>1, <2>1 DEF FirstInv, Fed
  <2> DEFINE s == ipc.sync.seq
             n == s + Len(q)
  <2>3. /\ s \in Nat /\ n \in Nat /\ emitted \in Nat
        /\ Lives(q, s) /\ Lives(wire[1], n) /\ n + Len(wire[1]) = emitted
        /\ n <= emitted /\ registered = 1
    <3>1. s \in 0..MaxEvent /\ emitted \in 0..MaxEvent
      BY DEF MirrorTypes, MirrorFrames
    <3>2. s \in Nat /\ emitted \in Nat
      BY <3>1, MirrorSets
    <3> QED
      BY <1>1, <1>3, <2>1, <2>2, <3>2 DEF Seeding
  <2>4. /\ f = Live(n + 1) /\ Lives(wire'[1], n + 1)
        /\ Len(wire'[1]) + 1 = Len(wire[1]) /\ Len(wire[1]) \in Nat /\ Len(wire'[1]) \in Nat
    <3> HIDE DEF s, q
    <3> QED
      BY <1>1, <1>2, <1>4, <2>1, <2>3, LivesTail
  <2>5. CASE full
    <3>1. /\ Lives(bootstrap'[1], s) /\ Len(bootstrap'[1]) <= FrameMax
          /\ s + Len(bootstrap'[1]) <= emitted
      BY <1>3, <1>6, <2>3, <2>5, MirrorSets DEF Lives
    <3>2. readers'[1].pc = "ended"
      BY <1>5, <2>1, <2>5
    <3>3. Seeding'
      BY <1>1, <1>6, <2>2, <3>1, <3>2 DEF Seeding
    <3> QED
      BY <1>1, <2>2, <3>2, <3>3 DEF FirstInv
  <2>6. CASE ~full
    <3> DEFINE r == Append(q, f)
    <3>1. Lives(r, s)
      <4>1. ASSUME NEW i \in 1..Len(r)  PROVE r[i] = Live(s + i)
        <5>1. CASE i = Len(q) + 1
          <6>1. s + i = n + 1
            <7> HIDE DEF s, q
            <7> QED
              BY <5>1, <2>3, <1>3
          <6> QED
            BY <5>1, <6>1, <1>3, <2>4
        <5>2. CASE i \in 1..Len(q)
          BY <5>2, <1>3, <2>3 DEF Lives
        <5> QED
          BY <1>3, <5>1, <5>2
      <4> QED
        BY <4>1 DEF Lives
    <3>2. Len(r) = Len(q) + 1 /\ s + Len(r) = n + 1 /\ Len(r) <= FrameMax
      BY <1>3, <2>3, <2>6, MirrorSets
    <3>3. n + 1 <= emitted /\ (n + 1) + Len(wire'[1]) = emitted
      BY <2>3, <2>4
    <3>4. bootstrap'[1] = r /\ readers' = readers
      BY <1>1, <1>6, <2>6
    <3> HIDE DEF r
    <3>5. Seeding'
      BY <1>1, <1>6, <2>2, <2>3, <2>4, <3>1, <3>2, <3>3, <3>4 DEF Seeding
    <3> QED
      BY <1>1, <2>2, <3>4, <3>5 DEF FirstInv
  <2> QED
    BY <2>5, <2>6
<1> QED
  BY <1>7, <1>8, <1>9, <1>10

LEMMA AppliesKeeps ==
  ASSUME MirrorInv, NEW c \in Conns, ReaderApplies(c)
  PROVE  MirrorInv'
<1> USE DEF MirrorInv
<1> DEFINE f == Head(wire[c])
           takes == Accepts(mirror, f)
<1>1. /\ readers[c].pc = "reading" /\ wire[c] # <<>> /\ bootstrap = NotBooting
      /\ wire' = [wire EXCEPT ![c] = Tail(@)]
      /\ mirror' = ApplyFrame(mirror, f)
      /\ readers' = IF takes THEN [readers EXCEPT ![c] = [pc |-> "applied", frame |-> f]]
                    ELSE readers
      /\ UNCHANGED <<emitted, registered, ipc, bootstrap, pending, unseen, viewed>>
  BY DEF ReaderApplies
<1>2. /\ wire[c] \in Seq(MirrorFrames)
      /\ f \in MirrorFrames /\ Tail(wire[c]) \in Seq(MirrorFrames)
  <2>1. wire[c] \in Seq(MirrorFrames)
    BY DEF MirrorTypes
  <2> QED
    BY <1>1, <2>1, HeadTailProperties
<1>3. wire' \in [Conns -> Seq(MirrorFrames)] /\ wire'[c] = Tail(wire[c])
  BY <1>1, <1>2 DEF MirrorTypes
<1>4. mirror' \in MirrorScreens
  BY <1>1, <1>2, ApplyTypes DEF MirrorTypes
<1>5. /\ readers' \in [Conns -> [pc : ReaderPcs, frame : MirrorFrames]]
      /\ \A d \in Conns : readers'[d].pc = IF d = c /\ takes THEN "applied" ELSE readers[d].pc
      /\ takes => readers'[c].frame = f
  <2> HIDE DEF f, takes
  <2>1. CASE takes
    BY <1>1, <1>2, <2>1 DEF MirrorTypes, ReaderPcs
  <2>2. CASE ~takes
    BY <1>1, <2>2 DEF MirrorTypes
  <2> QED
    BY <2>1, <2>2
<1>6. MirrorTypes'
  BY <1>1, <1>3, <1>4, <1>5 DEF MirrorTypes
<1>7. ConnectorInv'
  BY <1>1, <1>5 DEF ConnectorInv, MirrorTypes
<1>8. QueueIsSignalled'
  BY <1>1, <1>5 DEF QueueIsSignalled
<1>9. FirstInv'
  <2> SUFFICES ASSUME ipc.resumes = 0  PROVE FirstInv'
    BY <1>1 DEF FirstInv
  <2>1. c = 1 /\ ipc.pc = "ready" /\ Fed
    BY <1>1, ReaderFacts DEF FirstInv, Seeding
  <2> DEFINE n == mirror.seq
  <2>2. n \in 0..MaxEvent /\ n \in Nat /\ emitted \in 0..MaxEvent /\ emitted \in Nat /\ MaxEvent \in Nat
    BY MirrorSets DEF MirrorTypes, MirrorScreens
  <2>3. /\ mirror = ScreenAt(n) /\ Lives(wire[1], n) /\ n + Len(wire[1]) = emitted /\ registered = 1
        /\ QueueWhole(viewed, pending) /\ QueueEnd(viewed, pending) = n
    BY <1>1, <2>1 DEF Fed
  <2> HIDE DEF n
  <2>4. /\ f = Live(n + 1) /\ Lives(wire'[1], n + 1)
        /\ Len(wire'[1]) + 1 = Len(wire[1]) /\ Len(wire[1]) \in Nat /\ Len(wire'[1]) \in Nat
    BY <1>1, <1>2, <1>3, <2>1, <2>2, <2>3, LivesTail
  <2>5. n + 1 \in 1..MaxEvent /\ (n + 1) - 1 = n /\ (n + 1) + Len(wire'[1]) = emitted
    <3> DEFINE k == Len(wire'[1])
               l == Len(wire[1])
    <3>1. k \in Nat /\ l \in Nat /\ k + 1 = l /\ n + l = emitted
      BY <2>3, <2>4
    <3> HIDE DEF k, l
    <3>2. n + 1 \in 1..MaxEvent /\ (n + 1) - 1 = n /\ (n + 1) + k = emitted
      BY <2>2, <3>1
    <3> QED
      BY <3>2 DEF k
  <2>6. takes /\ mirror' = ScreenAt(n + 1)
    <3>1. /\ Accepts(ScreenAt((n + 1) - 1), Live(n + 1))
          /\ ApplyFrame(ScreenAt((n + 1) - 1), Live(n + 1)) = ScreenAt(n + 1)
      BY <2>5, ApplyNext
    <3> QED
      BY <1>1, <2>3, <2>4, <2>5, <3>1
  <2>7. mirror'.seq = n + 1
    BY <2>6 DEF ScreenAt
  <2>8. readers'[1].pc = "applied" /\ readers'[1].frame = Live(n + 1)
    BY <1>5, <2>1, <2>4, <2>6
  <2>9. Fed'
    BY <1>1, <2>3, <2>4, <2>5, <2>6, <2>7, <2>8 DEF Fed
  <2> QED
    BY <1>1, <2>1, <2>9 DEF FirstInv
<1> QED
  BY <1>6, <1>7, <1>8, <1>9

LEMMA EnqueuesKeeps ==
  ASSUME MirrorInv, NEW c \in Conns, ReaderEnqueues(c)
  PROVE  MirrorInv'
<1> USE DEF MirrorInv
<1>1. /\ readers[c].pc = "applied"
      /\ pending' = Enqueue(pending, mirror, readers[c].frame)
      /\ readers' = [readers EXCEPT ![c].pc = "signal"]
      /\ UNCHANGED <<emitted, registered, wire, ipc, mirror, bootstrap, unseen, viewed>>
  BY DEF ReaderEnqueues
<1>2. readers[c].frame \in MirrorFrames
  BY DEF MirrorTypes
<1>3. pending' \in Seq(MirrorFrames) /\ Len(pending') <= FrameMax
  BY <1>1, <1>2, EnqueueTypes DEF MirrorTypes
<1>4. /\ readers' \in [Conns -> [pc : ReaderPcs, frame : MirrorFrames]]
      /\ \A d \in Conns : readers'[d].pc = IF d = c THEN "signal" ELSE readers[d].pc
  BY <1>1 DEF MirrorTypes, ReaderPcs
<1>5. MirrorTypes'
  BY <1>1, <1>3, <1>4 DEF MirrorTypes
<1>6. ConnectorInv'
  BY <1>1, <1>4 DEF ConnectorInv, MirrorTypes
<1>7. QueueIsSignalled'
  BY <1>4 DEF QueueIsSignalled
<1>8. FirstInv'
  <2> SUFFICES ASSUME ipc.resumes = 0  PROVE FirstInv'
    BY <1>1 DEF FirstInv
  <2>1. c = 1 /\ ipc.pc = "ready" /\ Fed
    BY <1>1, ReaderFacts DEF FirstInv
  <2> DEFINE n == mirror.seq
  <2>2. n \in 0..MaxEvent /\ n \in Nat
    BY MirrorSets DEF MirrorTypes, MirrorScreens
  <2>3. /\ mirror = ScreenAt(n) /\ readers[1].frame = Live(n)
        /\ QueueWhole(viewed, pending) /\ QueueEnd(viewed, pending) + 1 = n
    BY <1>1, <2>1 DEF Fed
  <2>4. QueueEnd(viewed, pending) \in Nat
    <3>1. viewed.seq \in Nat /\ pending \in Seq(MirrorFrames)
      BY MirrorSets DEF MirrorTypes, MirrorScreens
    <3>2. ASSUME NEW i \in 1..Len(pending)  PROVE  pending[i].seq \in Nat
      <4>1. pending[i] \in MirrorFrames
        BY <3>1
      <4>2. pending[i].seq \in 0..MaxEvent
        BY <4>1 DEF MirrorFrames
      <4> QED
        BY <4>2, MirrorSets
    <3> QED
      BY <3>1, <3>2 DEF QueueEnd, SeqAt
  <2> HIDE DEF n
  <2>5. n \in 1..MaxEvent
    BY <2>2, <2>3, <2>4, MirrorSets
  <2>6. QueueWhole(viewed, pending') /\ QueueEnd(viewed, pending') = n
    BY <1>1, <2>1, <2>3, <2>5, EnqueueWhole DEF MirrorTypes
  <2>7. readers'[1].pc = "signal"
    BY <1>4, <2>1
  <2>8. Fed'
    BY <1>1, <2>1, <2>3, <2>6, <2>7 DEF Fed, n
  <2> QED
    BY <1>1, <2>1, <2>8 DEF FirstInv
<1> QED
  BY <1>5, <1>6, <1>7, <1>8

LEMMA SignalsKeeps ==
  ASSUME MirrorInv, NEW c \in Conns, ReaderSignals(c)
  PROVE  MirrorInv'
<1> USE DEF MirrorInv
<1>1. /\ readers[c].pc = "signal" /\ unseen' = TRUE
      /\ readers' = [readers EXCEPT ![c].pc = "reading"]
      /\ UNCHANGED <<emitted, registered, wire, ipc, mirror, bootstrap, pending, viewed>>
  BY DEF ReaderSignals
<1>2. /\ readers' \in [Conns -> [pc : ReaderPcs, frame : MirrorFrames]]
      /\ \A d \in Conns : readers'[d].pc = IF d = c THEN "reading" ELSE readers[d].pc
  BY <1>1 DEF MirrorTypes, ReaderPcs
<1>3. MirrorTypes'
  BY <1>1, <1>2 DEF MirrorTypes
<1>4. ConnectorInv'
  BY <1>1, <1>2 DEF ConnectorInv, MirrorTypes
<1>5. QueueIsSignalled'
  BY <1>1 DEF QueueIsSignalled
<1>6. FirstInv'
  <2> SUFFICES ASSUME ipc.resumes = 0  PROVE FirstInv'
    BY <1>1 DEF FirstInv
  <2>1. c = 1 /\ ipc.pc = "ready" /\ Fed
    BY <1>1, ReaderFacts DEF FirstInv
  <2>2. Fed'
    BY <1>1, <1>2, <2>1 DEF Fed
  <2> QED
    BY <1>1, <2>1, <2>2 DEF FirstInv
<1> QED
  BY <1>3, <1>4, <1>5, <1>6

(* Reading the first frame of a whole queue. *)
LEMMA WholeTail ==
  ASSUME NEW v \in MirrorScreens, NEW q \in Seq(MirrorFrames), q # <<>>, QueueWhole(v, q)
  PROVE  /\ QueueWhole(Shows(v, Head(q)), Tail(q))
         /\ QueueEnd(Shows(v, Head(q)), Tail(q)) = QueueEnd(v, q)
<1> DEFINE w == Shows(v, Head(q))
           t == Tail(q)
<1>1. /\ Len(q) \in Nat /\ Len(q) >= 1 /\ Head(q) = q[1]
      /\ t \in Seq(MirrorFrames) /\ Len(t) = Len(q) - 1
      /\ \A i \in 1..(Len(q) - 1) : t[i] = q[i + 1]
  BY HeadTailProperties
<1>2. w.seq = q[1].seq /\ v = ScreenAt(v.seq) /\ v.seq \in Nat
  BY <1>1, MirrorSets DEF Shows, QueueWhole, MirrorScreens
<1>3. w = ScreenAt(w.seq)
  <2>1. q[1] = WholeFrame(q[1].seq) \/ q[1] = Live(v.seq + 1)
    BY <1>1 DEF QueueWhole, SeqAt
  <2>2. CASE q[1] = WholeFrame(q[1].seq)
    <3>1. q[1].kind = "snapshot" /\ q[1].has = 1..q[1].seq
      BY <2>2 DEF WholeFrame, SnapshotAt
    <3> QED
      BY <1>1, <3>1 DEF Shows, ScreenAt
  <2>3. CASE q[1] = Live(v.seq + 1)
    <3>1. q[1].kind = "live" /\ q[1].has = {v.seq + 1} /\ q[1].seq = v.seq + 1
      BY <2>3 DEF Live
    <3>2. (1..v.seq) \cup {v.seq + 1} = 1..(v.seq + 1)
      BY <1>2
    <3>3. v.has = 1..v.seq
      BY <1>2 DEF ScreenAt
    <3> QED
      BY <1>1, <3>1, <3>2, <3>3 DEF Shows, ScreenAt
  <2> QED
    BY <2>1, <2>2, <2>3
<1> HIDE DEF w, t
<1>4. \A i \in 0..Len(t) : SeqAt(w, t, i) = SeqAt(v, q, i + 1)
  <2> SUFFICES ASSUME NEW i \in 0..Len(t)  PROVE SeqAt(w, t, i) = SeqAt(v, q, i + 1)
    OBVIOUS
  <2>1. CASE i = 0
    BY <2>1, <1>1, <1>2 DEF SeqAt
  <2>2. CASE i # 0
    BY <2>2, <1>1 DEF SeqAt
  <2> QED
    BY <2>1, <2>2
<1>5. ASSUME NEW i \in 1..Len(t)
      PROVE  t[i] = WholeFrame(t[i].seq) \/ t[i] = Live(SeqAt(w, t, i - 1) + 1)
  <2>1. i + 1 \in 1..Len(q) /\ (i + 1) - 1 = i /\ t[i] = q[i + 1] /\ i - 1 \in 0..Len(t)
    BY <1>1
  <2>2. SeqAt(w, t, i - 1) = SeqAt(v, q, i)
    <3>1. (i - 1) + 1 = i
      BY <1>1
    <3> QED
      BY <1>4, <2>1, <3>1
  <2> QED
    BY <2>1, <2>2 DEF QueueWhole
<1>6. QueueEnd(w, t) = QueueEnd(v, q)
  <2>1. Len(t) \in 0..Len(t) /\ Len(t) + 1 = Len(q)
    BY <1>1
  <2> QED
    BY <2>1, <1>4 DEF QueueEnd
<1> QED
  BY <1>3, <1>5, <1>6 DEF QueueWhole, w, t

LEMMA ConsumerKeeps == MirrorInv /\ ConsumerReads => MirrorInv'
<1> SUFFICES ASSUME MirrorInv, ConsumerReads  PROVE MirrorInv'
  OBVIOUS
<1> USE DEF MirrorInv
<1>1. /\ ipc.pc = "ready" /\ unseen
      /\ pending' = IF pending = <<>> THEN pending ELSE Tail(pending)
      /\ viewed' = IF pending = <<>> THEN viewed ELSE Shows(viewed, Head(pending))
      /\ unseen' = (pending' # <<>>)
      /\ UNCHANGED <<emitted, registered, wire, ipc, mirror, bootstrap, readers>>
  BY DEF ConsumerReads, Rearms
<1>2. pending' \in Seq(MirrorFrames) /\ Len(pending') <= FrameMax /\ viewed' \in MirrorScreens
  <2>1. CASE pending = <<>>
    BY <1>1, <2>1 DEF MirrorTypes
  <2>2. CASE pending # <<>>
    <3>1. /\ Tail(pending) \in Seq(MirrorFrames) /\ Len(Tail(pending)) = Len(pending) - 1
          /\ Head(pending) \in MirrorFrames /\ Len(pending) \in Nat
      BY <2>2, HeadTailProperties DEF MirrorTypes
    <3>2. Len(Tail(pending)) <= FrameMax
      BY <3>1, MirrorSets DEF MirrorTypes
    <3>3. Shows(viewed, Head(pending)) \in MirrorScreens
      BY <3>1, ApplyTypes DEF MirrorTypes
    <3> QED
      BY <1>1, <2>2, <3>1, <3>2, <3>3
  <2> QED
    BY <2>1, <2>2
<1>3. MirrorTypes'
  BY <1>1, <1>2 DEF MirrorTypes
<1>4. ConnectorInv'
  BY <1>1 DEF ConnectorInv
<1>5. QueueIsSignalled'
  BY <1>1 DEF QueueIsSignalled
<1>6. FirstInv'
  <2> SUFFICES ASSUME ipc.resumes = 0  PROVE FirstInv'
    BY <1>1 DEF FirstInv
  <2>1. Fed
    BY <1>1 DEF FirstInv
  <2>2. QueueWhole(viewed', pending') /\ QueueEnd(viewed', pending') = QueueEnd(viewed, pending)
    <3>1. CASE pending = <<>>
      BY <1>1, <2>1, <3>1 DEF Fed
    <3>2. CASE pending # <<>>
      BY <1>1, <2>1, <3>2, WholeTail DEF Fed, MirrorTypes
    <3> QED
      BY <3>1, <3>2
  <2>3. Fed'
    BY <1>1, <2>1, <2>2 DEF Fed
  <2> QED
    BY <1>1, <2>3 DEF FirstInv
<1> QED
  BY <1>3, <1>4, <1>5, <1>6

LEMMA MirrorStep == MirrorInv /\ [MirrorNext]_mirrorVars => MirrorInv'
<1> SUFFICES ASSUME MirrorInv, [MirrorNext]_mirrorVars  PROVE MirrorInv'
  OBVIOUS
<1>1. CASE UNCHANGED mirrorVars
  BY <1>1 DEF mirrorVars, MirrorInv, MirrorTypes, ConnectorInv, QueueIsSignalled, FirstInv,
              Connecting, Seeding, Fed
<1>2. ASSUME NEW c \in Conns,
             \/ ConnectionBreaks(c) \/ ReaderSetsAside(c) \/ ReaderApplies(c)
             \/ ReaderEnqueues(c) \/ ReaderSignals(c)
      PROVE  MirrorInv'
  BY <1>2, BreakKeeps, AsideKeeps, AppliesKeeps, EnqueuesKeeps, SignalsKeeps
<1> QED
  BY <1>1, <1>2, EmitKeeps, AttachSyncKeeps, SeedSyncKeeps, ResumeKeeps, ConsumerKeeps
     DEF MirrorNext

(* For any number of events, resumes and size of the queue: a frame in the *)
(* daemon's queue is never without a signal, and until the session first   *)
(* resumes the mirror, and what reading the queue shows, is the            *)
(* supervisor's screen (seed_attach_sync, supervisor_reader_loop).         *)
THEOREM MirrorStaysFed == MirrorSpec => [](MirrorTypeOK /\ MirrorIsFed)
BY MirrorInitInv, MirrorStep, MirrorSafe, PTL DEF MirrorSpec

-----------------------------------------------------------------------------
(* The activity of a session *)

(* What a run through a frame's events carries along. *)
DetectorOK(d) == d \in [ai : Activities, once : BOOLEAN]

(* The detector shows no agent but a. *)
ShowsOnly(d, a) == d.ai = None \/ d.ai.agent = a

LEMMA ActivityFacts ==
  /\ None \in Activities
  /\ \A a \in Agents : None.agent # a
  /\ \A s \in {"idle", "running", "attention", "completed"} : None.state # s
  /\ Active \subseteq {"idle", "running", "attention", "completed"}
  /\ \A a \in Agents, s \in {"idle", "running", "attention", "completed"} :
        Activity(a, s) \in Activities /\ Activity(a, s).agent = a
BY DEF None, Activities, Agents, Activity, Active

LEMMA TransitionKeeps ==
  ASSUME NEW d, DetectorOK(d), NEW a \in Agents,
         NEW s \in {"idle", "running", "attention", "completed"}
  PROVE  DetectorOK(Transition(d, a, s)) /\ Transition(d, a, s).ai.agent = a
<1> DEFINE new == Activity(a, s)
<1>1. new \in Activities /\ new.agent = a
  BY ActivityFacts
<1>2. Transition(d, a, s) = IF d.ai = new THEN d ELSE [ai |-> new, once |-> s = "completed"]
  BY DEF Transition
<1> HIDE DEF new
<1>3. (s = "completed") \in BOOLEAN
  OBVIOUS
<1>4. [ai |-> new, once |-> s = "completed"] \in [ai : Activities, once : BOOLEAN]
  BY <1>1, <1>3
<1> QED
  BY <1>1, <1>2, <1>4 DEF DetectorOK

LEMMA ForegroundKeeps ==
  ASSUME NEW d, DetectorOK(d), NEW fore \in Foregrounds
  PROVE  /\ DetectorOK(ObserveForeground(d, fore))
         /\ fore \in Agents => ShowsOnly(ObserveForeground(d, fore), fore)
         /\ fore = "other" => \/ ObserveForeground(d, fore).ai = None
                              \/ ObserveForeground(d, fore).ai.state = "completed"
<1> DEFINE r == ObserveForeground(d, fore)
<1>0. "other" \notin Agents /\ "unknown" \notin Agents /\ "codex" \in Agents
  BY DEF Agents
<1>1. CASE fore \in Agents
  <2>1. r = IF d.ai.agent = fore \/ (d.ai = None /\ fore = "codex") THEN d
            ELSE IF fore = "codex" THEN [d EXCEPT !.ai = None]
            ELSE Transition(d, fore, "idle")
    BY <1>0, <1>1 DEF ObserveForeground
  <2>2. DetectorOK(Transition(d, fore, "idle")) /\ Transition(d, fore, "idle").ai.agent = fore
    BY <1>1, TransitionKeeps
  <2> QED
    BY <1>0, <1>1, <2>1, <2>2, ActivityFacts DEF DetectorOK, ShowsOnly
<1>2. CASE fore = "other"
  <2>1. r = CASE d.ai.state \in Active -> Transition(d, d.ai.agent, "completed")
              [] d.ai.state = "idle" -> [d EXCEPT !.ai = None]
              [] OTHER -> d
    BY <1>0, <1>2 DEF ObserveForeground
  <2>2. CASE d.ai.state \in Active
    <3>1. d.ai \in Activities /\ d.ai # None
      BY <2>2 DEF DetectorOK, None, Active
    <3>2. d.ai.agent \in Agents
      BY <3>1 DEF Activities
    <3> DEFINE t == Transition(d, d.ai.agent, "completed")
    <3>3. DetectorOK(t)
      BY <3>2, TransitionKeeps
    <3>4. t.ai.state = "completed"
      BY DEF Transition, Activity
    <3>5. r = t
      BY <2>1, <2>2 DEF Active
    <3> QED
      BY <1>0, <1>2, <3>3, <3>4, <3>5
  <2>3. CASE d.ai.state = "idle"
    <3>1. r = [d EXCEPT !.ai = None]
      BY <2>1, <2>3 DEF Active
    <3> QED
      BY <1>0, <1>2, <3>1, ActivityFacts DEF DetectorOK
  <2>4. CASE d.ai.state \notin Active /\ d.ai.state # "idle"
    <3>1. r = d
      BY <2>1, <2>4
    <3>2. d.ai = None \/ d.ai.state = "completed"
      BY <2>4 DEF DetectorOK, Activities, Active
    <3> QED
      BY <1>0, <1>2, <3>1, <3>2
  <2> QED
    BY <2>2, <2>3, <2>4
<1>3. CASE fore = "unknown"
  BY <1>0, <1>3 DEF ObserveForeground
<1> QED
  BY <1>1, <1>2, <1>3 DEF Foregrounds

LEMMA EventFacts ==
  ASSUME NEW e \in OscEvents
  PROVE  /\ e.type \in {"title", "claude", "progress"}
         /\ e.type = "title" => e.means \in Active \cup {"plain"}
BY DEF OscEvents, ActivityTitles, ClaudeEvents, ProgressEvents, TitleEvent, Active

LEMMA StatusKeeps ==
  ASSUME NEW d, DetectorOK(d), NEW a \in Agents, ShowsOnly(d, a), NEW means
  PROVE  DetectorOK(ObserveStatus(d, a, means)) /\ ShowsOnly(ObserveStatus(d, a, means), a)
<1> DEFINE T(s) == Transition(d, a, s)
<1>1. \A s \in {"idle", "running", "attention", "completed"} :
         DetectorOK(T(s)) /\ ShowsOnly(T(s), a)
  BY TransitionKeeps DEF ShowsOnly
<1>2. DetectorOK(FinishOrIdle(d, a)) /\ ShowsOnly(FinishOrIdle(d, a), a)
  <2>1. FinishOrIdle(d, a) \in {T("completed"), d, T("idle")}
    BY DEF FinishOrIdle, Active
  <2> QED
    BY <1>1, <2>1
<1>3. CASE means \in Active
  <2>1. ObserveStatus(d, a, means) = T(means)
    BY <1>3 DEF ObserveStatus, Active
  <2> QED
    BY <1>1, <1>3, <2>1, ActivityFacts
<1>4. CASE means = "done"
  <2>1. ObserveStatus(d, a, means) = FinishOrIdle(d, a)
    BY <1>4 DEF ObserveStatus, Active
  <2> QED
    BY <1>2, <2>1
<1>5. CASE means \notin Active /\ means # "done"
  BY <1>5 DEF ObserveStatus
<1> QED
  BY <1>3, <1>4, <1>5

LEMMA EventKeeps ==
  ASSUME NEW d, DetectorOK(d), NEW a \in Agents, ShowsOnly(d, a), NEW e \in OscEvents
  PROVE  DetectorOK(ObserveEvent(d, a, e)) /\ ShowsOnly(ObserveEvent(d, a, e), a)
<1> DEFINE T(b, s) == Transition(d, b, s)
<1>1. \A s \in {"idle", "running", "attention", "completed"} :
         DetectorOK(T(a, s)) /\ ShowsOnly(T(a, s), a)
  BY TransitionKeeps DEF ShowsOnly
<1>2. CASE e.type = "title"
  <2>1. ObserveEvent(d, a, e) = ObserveTitle(d, a, e.means) /\ e.means \in Active \cup {"plain"}
    BY <1>2, EventFacts DEF ObserveEvent
  <2>2. CASE a = "codex"
    <3>1. ObserveTitle(d, a, e.means) = ObserveCodexTitle(d, e.means)
      BY <2>2 DEF ObserveTitle
    <3>2. CASE e.means \in Active
      <4>1. ObserveCodexTitle(d, e.means) = T(a, e.means)
        BY <2>2, <3>2 DEF ObserveCodexTitle, Active
      <4>2. e.means \in {"idle", "running", "attention", "completed"}
        BY <3>2 DEF Active
      <4>3. DetectorOK(T(a, e.means)) /\ ShowsOnly(T(a, e.means), a)
        BY <1>1, <4>2
      <4> QED
        BY <2>1, <3>1, <4>1, <4>3
    <3>3. CASE e.means = "plain"
      <4>1. ObserveCodexTitle(d, e.means) \in {T(a, "completed"), T(a, "idle"), d}
        <5>1. ObserveCodexTitle(d, e.means) =
                 CASE d.ai.state \in Active -> T(a, "completed")
                   [] d.ai = None -> T(a, "idle")
                   [] OTHER -> d
          BY <2>2, <3>3 DEF ObserveCodexTitle, Active
        <5>2. d.ai.state \in Active => d.ai # None
          BY DEF None, Active
        <5> QED
          BY <5>1, <5>2
      <4> QED
        BY <1>1, <2>1, <3>1, <4>1
    <3> QED
      BY <2>1, <3>2, <3>3
  <2>3. CASE a # "codex"
    <3>1. ObserveTitle(d, a, e.means) \in {d, T(a, "idle")}
      BY <2>3 DEF ObserveTitle
    <3> QED
      BY <1>1, <2>1, <3>1
  <2> QED
    BY <2>2, <2>3
<1>3. CASE e.type # "title"
  <2>1. ObserveEvent(d, a, e) \in {d, ObserveStatus(d, a, e.means)}
    BY <1>3, EventFacts DEF ObserveEvent
  <2> QED
    BY <2>1, StatusKeeps
<1> QED
  BY <1>2, <1>3

(* The events of a frame, one after the other. *)
EventSteps(u, d, a, es, k) ==
  u = [i \in 0..k |-> IF i = 0 THEN ObserveForeground(d, a)
                      ELSE ObserveEvent(u[i - 1], a, es[i])]

LEMMA EventsExist ==
  ASSUME NEW d, NEW a, NEW es, NEW n \in Nat
  PROVE  \E u : EventSteps(u, d, a, es, n)
<1> DEFINE T == {k \in Nat : ~ \E u : EventSteps(u, d, a, es, k)}
<1>1. ASSUME T # {}  PROVE FALSE
  <2>1. PICK k \in T : \A j \in T : k <= j
    BY <1>1, LeastNat
  <2>2. k \in Nat /\ ~ \E u : EventSteps(u, d, a, es, k)
    BY <2>1
  <2>3. CASE k = 0
    <3> DEFINE g == [i \in 0..k |-> ObserveForeground(d, a)]
    <3>1. g = [i \in 0..k |-> IF i = 0 THEN ObserveForeground(d, a)
                              ELSE ObserveEvent(g[i - 1], a, es[i])]
      BY <2>3
    <3> QED
      BY <3>1, <2>2 DEF EventSteps
  <2>4. CASE k # 0
    <3>1. k - 1 \in Nat /\ k - 1 \notin T
      BY <2>1, <2>2, <2>4
    <3>2. PICK u : EventSteps(u, d, a, es, k - 1)
      BY <3>1
    <3> DEFINE g == [i \in 0..k |-> IF i = k THEN ObserveEvent(u[k - 1], a, es[k]) ELSE u[i]]
    <3>3. \A i \in 0..(k - 1) :
             u[i] = IF i = 0 THEN ObserveForeground(d, a) ELSE ObserveEvent(u[i - 1], a, es[i])
      BY <3>2 DEF EventSteps
    <3>4. ASSUME NEW i \in 0..k
          PROVE  g[i] = IF i = 0 THEN ObserveForeground(d, a) ELSE ObserveEvent(g[i - 1], a, es[i])
      <4>1. CASE i = k
        <5>1. g[k - 1] = u[k - 1]
          BY <2>2, <3>1
        <5> QED
          BY <4>1, <5>1, <2>4
      <4>2. CASE i # k /\ i = 0
        BY <4>2, <3>3, <3>1, <2>2
      <4>3. CASE i # k /\ i # 0
        <5>1. i \in 0..(k - 1) /\ i - 1 \in 0..k /\ i - 1 # k
          BY <4>3, <2>2
        <5>2. g[i] = u[i] /\ g[i - 1] = u[i - 1]
          BY <5>1, <4>3
        <5> QED
          BY <5>1, <5>2, <3>3, <4>3
      <4> QED
        BY <4>1, <4>2, <4>3
    <3>5. g = [i \in 0..k |-> IF i = 0 THEN ObserveForeground(d, a)
                              ELSE ObserveEvent(g[i - 1], a, es[i])]
      BY <3>4
    <3>6. EventSteps(g, d, a, es, k)
      BY <3>5 DEF EventSteps
    <3> QED
      BY <3>6, <2>2
  <2> QED
    BY <2>3, <2>4
<1> QED
  BY <1>1

LEMMA EventsKeep ==
  ASSUME NEW d, DetectorOK(d), NEW fore \in Foregrounds, NEW es \in Seq(OscEvents)
  PROVE  /\ DetectorOK(ObserveEvents(d, fore, es))
         /\ fore \in Agents => ShowsOnly(ObserveEvents(d, fore, es), fore)
         /\ fore = "other" => \/ ObserveEvents(d, fore, es).ai = None
                              \/ ObserveEvents(d, fore, es).ai.state = "completed"
<1> DEFINE n == Len(es)
           u == CHOOSE u : EventSteps(u, d, fore, es, n)
<1>1. n \in Nat /\ \A i \in 1..n : es[i] \in OscEvents
  OBVIOUS
<1>2. EventSteps(u, d, fore, es, n)
  BY <1>1, EventsExist
<1>3. ObserveEvents(d, fore, es) = IF fore \in Agents THEN u[n] ELSE u[0]
  BY DEF ObserveEvents, EventSteps
<1> HIDE DEF u, n
<1>4. \A i \in 0..n :
         u[i] = IF i = 0 THEN ObserveForeground(d, fore) ELSE ObserveEvent(u[i - 1], fore, es[i])
  BY <1>2 DEF EventSteps
<1>5. u[0] = ObserveForeground(d, fore)
  BY <1>1, <1>4
<1>6. CASE fore \in Agents
  <2> DEFINE Good(i) == DetectorOK(u[i]) /\ ShowsOnly(u[i], fore)
             T == {i \in Nat : i <= n /\ ~Good(i)}
  <2>1. Good(0)
    BY <1>5, <1>6, ForegroundKeeps
  <2>2. ASSUME T # {}  PROVE FALSE
    <3>1. PICK k \in T : \A j \in T : k <= j
      BY <2>2, LeastNat
    <3>2. k \in Nat /\ k <= n /\ k # 0 /\ ~Good(k)
      BY <3>1, <2>1
    <3>3. k - 1 \in Nat /\ k - 1 <= n /\ k - 1 \notin T
      BY <3>1, <3>2, <1>1
    <3>4. Good(k - 1)
      BY <3>3
    <3>5. k \in 1..n /\ u[k] = ObserveEvent(u[k - 1], fore, es[k])
      BY <1>1, <1>4, <3>2
    <3> QED
      BY <1>1, <1>6, <3>2, <3>4, <3>5, EventKeeps
  <2>3. Good(n)
    BY <1>1, <2>2
  <2>4. fore # "other"
    BY <1>6 DEF Agents
  <2> QED
    BY <1>3, <1>6, <2>3, <2>4
<1>7. CASE fore \notin Agents
  BY <1>3, <1>5, <1>7, ForegroundKeeps
<1> QED
  BY <1>6, <1>7

(* How many probes are still possible before time, the foreground or the   *)
(* activity moves: a completed activity asks once more, an answer may have *)
(* to be asked for again, and a hint may contradict it.                    *)
ProbesLeft ==
  IF once THEN 3
  ELSE IF probe = "consumed" THEN 0
  ELSE IF probe = "ready" /\ cached = fg /\ fg \in Agents THEN 1
  ELSE 2

ActivityInv == ActivityTypeOK /\ probes + ProbesLeft <= 3 /\ (due => probes = 0)

LEMMA ActivityInitInv == ActivityInit => ActivityInv
<1> SUFFICES ASSUME ActivityInit  PROVE ActivityInv
  OBVIOUS
<1>1. ActivityTypeOK
  <2>1. ai \in Activities /\ cached \in Foregrounds /\ fg \in Agents \cup {"other"}
    BY ActivityFacts DEF ActivityInit, Foregrounds
  <2>2. {once, due} \subseteq BOOLEAN
    BY DEF ActivityInit
  <2>3. probe \in {"ready", "pending", "consumed"} /\ probes \in 0..4
    BY DEF ActivityInit
  <2> QED
    BY <2>1, <2>2, <2>3 DEF ActivityTypeOK
<1>2. probes + ProbesLeft <= 3 /\ (due => probes = 0)
  BY DEF ActivityInit, ProbesLeft
<1> QED
  BY <1>1, <1>2 DEF ActivityInv

(* What one frame of output does. *)
LEMMA OutputKeeps ==
  ASSUME ActivityInv, NEW es \in Seq(OscEvents), NEW seen \in Foregrounds,
         ObserveOutput(es, seen)
  PROVE  /\ ActivityInv'
         /\ due /\ ~due' /\ cached' # "unknown" =>
              /\ fg \in Agents => ai' = None \/ ai'.agent = fg
              /\ fg = "other" => ai' = None \/ ai'.state = "completed"
<1> DEFINE asks == ShouldProbe(es)
           d == [ai |-> ai, once |-> once /\ ~asks]
           r == ObserveEvents(d, cached', es)
<1>1. /\ seen \in {fg, "unknown"} /\ fg' = fg
      /\ asks => probe' = ProbeStateAfter(es, seen) /\ cached' = seen /\ due' = FALSE
      /\ ~asks => probe' = probe /\ cached' = cached /\ due' = due
      /\ ai' = r.ai /\ once' = r.once
      /\ probes' = IF r.ai # ai \/ r.once THEN 0
                   ELSE IF asks /\ ~due /\ probes < 4 THEN probes + 1 ELSE probes
  BY DEF ObserveOutput
<1>2. /\ ai \in Activities /\ cached \in Foregrounds /\ probe \in {"ready", "pending", "consumed"}
      /\ once \in BOOLEAN /\ due \in BOOLEAN /\ fg \in Agents \cup {"other"}
      /\ probes \in 0..4 /\ probes + ProbesLeft <= 3 /\ (due => probes = 0)
  BY DEF ActivityInv, ActivityTypeOK
<1>3. due => asks
  BY DEF ShouldProbe
<1>4. DetectorOK(d)
  <2>1. (once /\ ~asks) \in BOOLEAN
    OBVIOUS
  <2> QED
    BY <1>2, <2>1 DEF DetectorOK
<1>5. cached' \in Foregrounds /\ due' \in BOOLEAN
  BY <1>1, <1>2
<1>6. /\ DetectorOK(r)
      /\ cached' \in Agents => ShowsOnly(r, cached')
      /\ cached' = "other" => r.ai = None \/ r.ai.state = "completed"
  BY <1>4, <1>5, EventsKeep
<1>7. ProbeStateAfter(es, seen) \in {"ready", "pending", "consumed"}
  BY DEF ProbeStateAfter
<1> HIDE DEF d, asks, r
<1>8. ai' \in Activities /\ once' \in BOOLEAN
  BY <1>1, <1>6 DEF DetectorOK
<1>9. ActivityTypeOK'
  <2>1. probes' \in 0..4
    BY <1>1, <1>2
  <2>2. probe' \in {"ready", "pending", "consumed"}
    BY <1>1, <1>2, <1>7
  <2> QED
    BY <1>1, <1>2, <1>5, <1>8, <2>1, <2>2 DEF ActivityTypeOK
<1>10. ProbesLeft \in 0..3 /\ ProbesLeft' \in 0..3
  BY DEF ProbesLeft
<1>11. probes' + ProbesLeft' <= 3
  <2> DEFINE old == ProbesLeft
             new == ProbesLeft'
  <2>0. old \in 0..3 /\ new \in 0..3 /\ probes \in 0..4 /\ probes + old <= 3
    BY <1>2, <1>10
  <2>1. CASE r.ai # ai \/ r.once
    <3>1. probes' = 0
      BY <1>1, <2>1
    <3> HIDE DEF new
    <3>2. probes' + new <= 3
      BY <2>0, <3>1
    <3> QED
      BY <3>2 DEF new
  <2>2. CASE ~(r.ai # ai \/ r.once)
    <3>1. once' = FALSE
      BY <1>1, <1>8, <2>2
    <3>2. CASE ~asks
      <4>1. probes' = probes
        BY <1>1, <2>2, <3>2
      <4>2. new <= old
        BY <1>1, <3>1, <3>2, <1>2 DEF ProbesLeft
      <4> HIDE DEF old, new
      <4>3. probes' + new <= 3
        BY <2>0, <4>1, <4>2
      <4> QED
        BY <4>3 DEF new
    <3>3. CASE asks /\ due
      <4>1. probes' = 0
        BY <1>1, <1>2, <2>2, <3>3
      <4> HIDE DEF old, new
      <4>2. probes' + new <= 3
        BY <2>0, <4>1
      <4> QED
        BY <4>2 DEF new
    <3>4. CASE asks /\ ~due
      <4>1. probes' = probes \/ probes' = probes + 1
        BY <1>1, <2>2
      <4>2. new + 1 <= old
        <5>1. new \in {0, 1, 2}
          BY <3>1 DEF ProbesLeft
        <5>2. CASE once
          BY <5>1, <5>2 DEF ProbesLeft
        <5>3. CASE ~once
          <6>1. /\ probe # "consumed" /\ es # <<>>
                /\ probe = "ready" /\ cached \in Agents => Hints(es) \ {cached} # {}
            <7>1. Hints(<<>>) = {}
              BY DEF Hints
            <7>2. NoAgent \cap Agents = {}
              BY DEF NoAgent, Agents
            <7> QED
              BY <1>2, <3>4, <5>3, <7>1, <7>2 DEF ShouldProbe, asks
          <6>2. probe' = IF seen \in NoAgent \/ HintsMismatch(es, seen) THEN "consumed" ELSE "ready"
            BY <1>1, <3>4, <6>1 DEF ProbeStateAfter
          <6>3. cached' = seen /\ seen \in Foregrounds /\ (seen \notin NoAgent => seen \in Agents /\ seen = fg)
            BY <1>1, <3>4 DEF NoAgent, Foregrounds
          <6>4. CASE probe = "ready" /\ cached = fg /\ fg \in Agents
            <7>1. probe' = "consumed"
              BY <6>1, <6>2, <6>3, <6>4 DEF HintsMismatch
            <7>2. new = 0 /\ old = 1
              BY <3>1, <5>3, <6>4, <7>1 DEF ProbesLeft
            <7> QED
              BY <7>2
          <6>5. CASE ~(probe = "ready" /\ cached = fg /\ fg \in Agents)
            <7>1. old = 2
              BY <5>3, <6>1, <6>5 DEF ProbesLeft
            <7>2. new \in {0, 1}
              BY <1>1, <3>1, <6>2, <6>3 DEF ProbesLeft
            <7> HIDE DEF old, new
            <7> QED
              BY <7>1, <7>2
          <6> QED
            BY <6>4, <6>5
        <5> QED
          BY <5>2, <5>3
      <4> HIDE DEF old, new
      <4>3. probes' + new <= 3
        BY <2>0, <4>1, <4>2
      <4> QED
        BY <4>3 DEF new
    <3> QED
      BY <3>2, <3>3, <3>4
  <2> QED
    BY <2>1, <2>2
<1>13. due' => probes' = 0
  <2>1. CASE asks
    BY <1>1, <2>1
  <2>2. CASE ~asks
    <3>1. ~due /\ due' = due
      BY <1>1, <1>3, <2>2
    <3> QED
      BY <3>1
  <2> QED
    BY <2>1, <2>2
<1>12. ASSUME due, ~due', cached' # "unknown"
       PROVE  /\ fg \in Agents => ai' = None \/ ai'.agent = fg
              /\ fg = "other" => ai' = None \/ ai'.state = "completed"
  <2>1. cached' = fg
    BY <1>1, <1>3, <1>12
  <2> QED
    BY <1>1, <1>6, <2>1 DEF ShowsOnly
<1> QED
  BY <1>9, <1>11, <1>12, <1>13 DEF ActivityInv

LEMMA ActivityStep ==
  ASSUME ActivityInv, [ActivityNext]_activityVars
  PROVE  /\ ActivityInv'
         /\ due /\ ~due' /\ cached' # "unknown" =>
              /\ fg \in Agents => ai' = None \/ ai'.agent = fg
              /\ fg = "other" => ai' = None \/ ai'.state = "completed"
<1>1. ASSUME NEW es \in BoundedSeq(OscEvents, FrameEvents), NEW seen \in Foregrounds,
             ObserveOutput(es, seen)
      PROVE  /\ ActivityInv'
             /\ due /\ ~due' /\ cached' # "unknown" =>
                  /\ fg \in Agents => ai' = None \/ ai'.agent = fg
                  /\ fg = "other" => ai' = None \/ ai'.state = "completed"
  <2>1. PICK m \in 0..FrameEvents : es \in [1..m -> OscEvents]
    BY DEF BoundedSeq, SeqOf
  <2>2. es \in Seq(OscEvents)
    BY <2>1, FrameEventsBound
  <2> QED
    BY <1>1, <2>2, OutputKeeps
<1>2. ASSUME NEW p \in Agents \cup {"other"}, ForegroundChanges(p)
      PROVE  ActivityInv' /\ due' = due
  <2>1. /\ fg' = p /\ probes' = 0 /\ UNCHANGED <<ai, cached, probe, once, due>>
    BY <1>2 DEF ForegroundChanges
  <2>2. ActivityTypeOK'
    BY <2>1 DEF ActivityInv, ActivityTypeOK
  <2> DEFINE new == ProbesLeft'
  <2>3. new \in 0..3
    BY DEF ProbesLeft
  <2> HIDE DEF new
  <2>4. probes' + new <= 3
    BY <2>1, <2>3
  <2> QED
    BY <2>1, <2>2, <2>4 DEF ActivityInv, new
<1>3. ASSUME IntervalElapses
      PROVE  ActivityInv' /\ due'
  <2>1. /\ due' = TRUE /\ probes' = 0 /\ UNCHANGED <<ai, cached, probe, once, fg>>
    BY <1>3 DEF IntervalElapses
  <2>2. ActivityTypeOK'
    BY <2>1 DEF ActivityInv, ActivityTypeOK
  <2> DEFINE new == ProbesLeft'
  <2>3. new \in 0..3
    BY DEF ProbesLeft
  <2> HIDE DEF new
  <2>4. probes' + new <= 3
    BY <2>1, <2>3
  <2> QED
    BY <2>1, <2>2, <2>4 DEF ActivityInv, new
<1>4. ASSUME UNCHANGED activityVars
      PROVE  ActivityInv' /\ due' = due
  BY <1>4 DEF activityVars, ActivityInv, ActivityTypeOK, ProbesLeft
<1> QED
  BY <1>1, <1>2, <1>3, <1>4 DEF ActivityNext

(* The parser in front of the detector. *)
OscKinds == {"title", "progress", "claude"}

OscInv ==
  \/ osc \in {Ground, OscEscape, Discard, DiscardEscape}
  \/ \E c \in Seq(Digits) : osc = Command(c) /\ Len(c) <= CommandMax
  \/ \E k \in OscKinds, n \in 0..PayloadMax : osc = OscPayload(k, n) \/ osc = PayloadEscape(k, n)

LEMMA OscFields ==
  /\ Ground.st = "ground" /\ OscEscape.st = "escape"
  /\ Discard.st = "discard" /\ DiscardEscape.st = "discard_escape"
  /\ \A c : Command(c).st = "command" /\ Command(c).cmd = c
  /\ \A k, n : /\ OscPayload(k, n).st = "payload" /\ OscPayload(k, n).kind = k
               /\ OscPayload(k, n).len = n
               /\ PayloadEscape(k, n).st = "payload_escape" /\ PayloadEscape(k, n).kind = k
               /\ PayloadEscape(k, n).len = n
BY DEF Ground, OscEscape, Discard, DiscardEscape, Command, OscPayload, PayloadEscape

LEMMA KindNamed == ASSUME NEW c  PROVE  PayloadKind(c) \in OscKinds \cup {"none"}
BY DEF PayloadKind, OscKinds

LEMMA KnownKinds ==
  ASSUME NEW c \in KnownCommands
  PROVE  PayloadKind(c) \in OscKinds /\ c \in Seq(Digits) /\ Len(c) <= CommandMax
<1> DEFINE long == [i \in 1..CommandMax |-> "c"]
<1>1. CommandMax \in Nat /\ CommandMax >= 1
  BY OscBounds
<1>2. long[1] = "c" /\ long \in Seq(Digits) /\ Len(long) = CommandMax
  BY <1>1 DEF Digits
<1>3. <<"0">>[1] = "0" /\ <<"9">>[1] = "9" /\ <<"0">> \in Seq(Digits) /\ <<"9">> \in Seq(Digits)
      /\ Len(<<"0">>) = 1 /\ Len(<<"9">>) = 1
  BY DEF Digits
<1>4. <<"0">> # <<"9">> /\ <<"0">> # long /\ <<"9">> # long
  <2> HIDE DEF long
  <2> QED
    BY <1>2, <1>3
<1>5. PayloadKind(c) = CASE c = <<"0">> -> "title" [] c = <<"9">> -> "progress"
                         [] c = long -> "claude" [] OTHER -> "none"
  BY DEF PayloadKind
<1>6. c \in {<<"0">>, <<"9">>, long}
  BY DEF KnownCommands
<1> HIDE DEF long
<1>7. PayloadKind(c) \in OscKinds
  BY <1>4, <1>5, <1>6 DEF OscKinds
<1>8. c \in Seq(Digits) /\ Len(c) <= CommandMax
  <2>1. CASE c = long
    BY <2>1, <1>1, <1>2
  <2>2. CASE c = <<"0">>
    BY <2>2, <1>1, <1>3
  <2>3. CASE c = <<"9">>
    BY <2>3, <1>1, <1>3
  <2> QED
    BY <1>6, <2>1, <2>2, <2>3
<1> QED
  BY <1>7, <1>8

LEMMA OscStep == OscInv /\ [OscNext]_osc => OscInv'
<1> SUFFICES ASSUME OscInv, NEW b \in Bytes, osc' = ParserStep(osc, b)  PROVE OscInv'
  BY DEF OscNext, OutputByte, OscInv
<1> DEFINE Four == {Ground, OscEscape, Discard, DiscardEscape}
<1>1. CASE osc \in Four
  <2>1. \/ osc' \in Four \/ osc' = Command(<<>>)
    BY <1>1, OscFields DEF ParserStep, InGround, InEscape, InDiscard, InDiscardEscape
  <2>2. <<>> \in Seq(Digits) /\ Len(<<>>) <= CommandMax
    BY OscBounds
  <2> QED
    BY <2>1, <2>2 DEF OscInv
<1>2. ASSUME NEW c \in Seq(Digits), osc = Command(c), Len(c) <= CommandMax
      PROVE  OscInv'
  <2>1. osc' = InCommand(osc, b) /\ osc.cmd = c
    BY <1>2, OscFields DEF ParserStep
  <2>2. CASE b \in Digits /\ Len(c) < CommandMax
    <3>1. osc' = Command(Append(c, b))
      BY <2>1, <2>2 DEF InCommand, Digits
    <3>2. Append(c, b) \in Seq(Digits) /\ Len(Append(c, b)) = Len(c) + 1 /\ Len(c) \in Nat
      BY <2>2, AppendProperties
    <3>3. Len(Append(c, b)) <= CommandMax
      BY <2>2, <3>2, OscBounds
    <3> QED
      BY <3>1, <3>2, <3>3 DEF OscInv
  <2>3. CASE b = "semicolon"
    <3>1. osc' = IF PayloadKind(c) = "none" THEN Discard ELSE OscPayload(PayloadKind(c), 0)
      BY <2>1, <2>3 DEF InCommand, Digits
    <3>2. 0 \in 0..PayloadMax
      BY OscBounds
    <3> QED
      BY <3>1, <3>2, KindNamed DEF OscInv
  <2>4. CASE ~(b \in Digits /\ Len(c) < CommandMax) /\ b # "semicolon"
    <3>1. osc' \in Four
      BY <2>1, <2>4 DEF InCommand
    <3> QED
      BY <3>1 DEF OscInv
  <2> QED
    BY <2>2, <2>3, <2>4
<1>3. ASSUME NEW k \in OscKinds, NEW n \in 0..PayloadMax, osc = OscPayload(k, n)
      PROVE  OscInv'
  <2>1. osc' = InPayload(osc, b) /\ osc.kind = k /\ osc.len = n
    BY <1>3, OscFields DEF ParserStep
  <2>2. \/ osc' \in Four \/ osc' = PayloadEscape(k, n)
        \/ osc' = OscPayload(k, n + 1) /\ n < PayloadMax
    BY <2>1 DEF InPayload
  <2>3. n < PayloadMax => n + 1 \in 0..PayloadMax
    BY OscBounds
  <2> QED
    BY <2>2, <2>3 DEF OscInv
<1>4. ASSUME NEW k \in OscKinds, NEW n \in 0..PayloadMax, osc = PayloadEscape(k, n)
      PROVE  OscInv'
  <2>1. osc' = InPayloadEscape(b)
    BY <1>4, OscFields DEF ParserStep
  <2>2. osc' \in Four
    BY <2>1 DEF InPayloadEscape
  <2> QED
    BY <2>2 DEF OscInv
<1> QED
  BY <1>1, <1>2, <1>3, <1>4 DEF OscInv

LEMMA OscSafe == OscInv => OscTypeOK
<1>1. ASSUME NEW c \in Seq(Digits), osc = Command(c), Len(c) <= CommandMax  PROVE OscTypeOK
  BY <1>1, OscFields DEF OscTypeOK
<1>2. ASSUME NEW k \in OscKinds, NEW n \in 0..PayloadMax,
             osc = OscPayload(k, n) \/ osc = PayloadEscape(k, n)
      PROVE  OscTypeOK
  <2>1. n <= PayloadMax
    BY OscBounds
  <2> QED
    BY <1>2, <2>1, OscFields DEF OscTypeOK
<1> QED
  BY <1>1, <1>2 DEF OscInv, OscTypeOK

(* The bytes, one after the other. *)
PushStart(p) == [state |-> p, events |-> <<>>]
PushSteps(u, p, bytes, k) ==
  u = [i \in 0..k |-> IF i = 0 THEN PushStart(p) ELSE PushByte(u[i - 1], bytes[i])]

LEMMA PushExists ==
  ASSUME NEW p, NEW bytes, NEW n \in Nat
  PROVE  \E u : PushSteps(u, p, bytes, n)
<1> DEFINE T == {k \in Nat : ~ \E u : PushSteps(u, p, bytes, k)}
<1>1. ASSUME T # {}  PROVE FALSE
  <2>1. PICK k \in T : \A j \in T : k <= j
    BY <1>1, LeastNat
  <2>2. k \in Nat /\ ~ \E u : PushSteps(u, p, bytes, k)
    BY <2>1
  <2>3. CASE k = 0
    <3> DEFINE g == [i \in 0..k |-> PushStart(p)]
    <3>1. g = [i \in 0..k |-> IF i = 0 THEN PushStart(p) ELSE PushByte(g[i - 1], bytes[i])]
      BY <2>3
    <3> QED
      BY <3>1, <2>2 DEF PushSteps
  <2>4. CASE k # 0
    <3>1. k - 1 \in Nat /\ k - 1 \notin T
      BY <2>1, <2>2, <2>4
    <3>2. PICK u : PushSteps(u, p, bytes, k - 1)
      BY <3>1
    <3> DEFINE g == [i \in 0..k |-> IF i = k THEN PushByte(u[k - 1], bytes[k]) ELSE u[i]]
    <3>3. \A i \in 0..(k - 1) :
             u[i] = IF i = 0 THEN PushStart(p) ELSE PushByte(u[i - 1], bytes[i])
      BY <3>2 DEF PushSteps
    <3>4. ASSUME NEW i \in 0..k
          PROVE  g[i] = IF i = 0 THEN PushStart(p) ELSE PushByte(g[i - 1], bytes[i])
      <4>1. CASE i = k
        <5>1. g[k - 1] = u[k - 1]
          BY <2>2, <3>1
        <5> QED
          BY <4>1, <5>1, <2>4
      <4>2. CASE i # k /\ i = 0
        BY <4>2, <3>3, <3>1, <2>2
      <4>3. CASE i # k /\ i # 0
        <5>1. i \in 0..(k - 1) /\ i - 1 \in 0..k /\ i - 1 # k
          BY <4>3, <2>2
        <5>2. g[i] = u[i] /\ g[i - 1] = u[i - 1]
          BY <5>1, <4>3
        <5> QED
          BY <5>1, <5>2, <3>3, <4>3
      <4> QED
        BY <4>1, <4>2, <4>3
    <3>5. g = [i \in 0..k |-> IF i = 0 THEN PushStart(p) ELSE PushByte(g[i - 1], bytes[i])]
      BY <3>4
    <3>6. PushSteps(g, p, bytes, k)
      BY <3>5 DEF PushSteps
    <3> QED
      BY <3>6, <2>2
  <2> QED
    BY <2>3, <2>4
<1> QED
  BY <1>1

(* The parser has reached state st and reported ev. *)
Reached(r, st, ev) == r.state = st /\ r.events = ev

LEMMA PushUnfolds ==
  ASSUME NEW p, NEW S, NEW bytes \in Seq(S)
  PROVE  \E u : /\ Reached(u[0], p, <<>>)
                /\ \A i \in 1..Len(bytes) : u[i] = PushByte(u[i - 1], bytes[i])
                /\ Push(p, bytes) = u[Len(bytes)]
<1> DEFINE n == Len(bytes)
           u == CHOOSE u : PushSteps(u, p, bytes, n)
<1>1. n \in Nat
  OBVIOUS
<1>2. PushSteps(u, p, bytes, n)
  BY <1>1, PushExists
<1>3. Push(p, bytes) = u[n]
  BY DEF Push, PushSteps, PushStart
<1> HIDE DEF u, n
<1>4. \A i \in 0..n : u[i] = IF i = 0 THEN PushStart(p) ELSE PushByte(u[i - 1], bytes[i])
  BY <1>2 DEF PushSteps
<1>5. u[0] = PushStart(p)
  BY <1>1, <1>4
<1>6. Reached(u[0], p, <<>>)
  BY <1>5 DEF PushStart, Reached
<1>7. \A i \in 1..n : u[i] = PushByte(u[i - 1], bytes[i])
  BY <1>1, <1>4
<1> QED
  BY <1>3, <1>6, <1>7 DEF n

(* A byte that completes nothing, and one that completes an event. *)
LEMMA QuietByte ==
  ASSUME NEW r, NEW st, Reached(r, st, <<>>), NEW b,
         ~(st.st = "payload" /\ b = "bel"), ~(st.st = "payload_escape" /\ b = "backslash")
  PROVE  Reached(PushByte(r, b), ParserStep(st, b), <<>>)
<1>1. Reports(st, b) = <<>>
  BY DEF Reports
<1>2. <<>> \o <<>> = <<>>
  BY ConcatEmptySeq
<1> QED
  BY <1>1, <1>2 DEF Reached, PushByte

LEMMA LastByte ==
  ASSUME NEW r, NEW st, Reached(r, st, <<>>), NEW b,
         (st.st = "payload" /\ b = "bel") \/ (st.st = "payload_escape" /\ b = "backslash")
  PROVE  Reached(PushByte(r, b), ParserStep(st, b), <<[kind |-> st.kind, len |-> st.len]>>)
<1> DEFINE e == [kind |-> st.kind, len |-> st.len]
<1>1. Reports(st, b) = <<e>>
  BY DEF Reports
<1> HIDE DEF e
<1>2. <<>> \o <<e>> = <<e>>
  OBVIOUS
<1>3. Reached(PushByte(r, b), ParserStep(st, b), <<e>>)
  BY <1>1, <1>2 DEF Reached, PushByte
<1> QED
  BY <1>3 DEF e

(* One terminator brings the parser back from wherever it was. *)
LEMMA ResetGrounds ==
  ASSUME OscInv, NEW reset \in Terminators
  PROVE  Push(osc, reset).state = Ground
<1>1. <<"bel">> \in Seq(Bytes) /\ <<"esc", "backslash">> \in Seq(Bytes)
  BY DEF Bytes
<1>2. reset \in Seq(Bytes)
  BY <1>1 DEF Terminators
<1>3. PICK u : /\ Reached(u[0], osc, <<>>)
               /\ \A i \in 1..Len(reset) : u[i] = PushByte(u[i - 1], reset[i])
               /\ Push(osc, reset) = u[Len(reset)]
  BY <1>2, PushUnfolds
<1>4. \A r, b : PushByte(r, b).state = ParserStep(r.state, b)
  BY DEF PushByte
<1> DEFINE Four == {Ground, OscEscape, Discard, DiscardEscape}
           Kinds == {"ground", "escape", "command", "payload", "payload_escape", "discard",
                     "discard_escape"}
<1>5. osc.st \in Kinds
  BY OscFields DEF OscInv
<1>6. CASE reset = <<"bel">>
  <2>1. Len(reset) = 1 /\ reset[1] = "bel"
    BY <1>6
  <2>2. u[1] = PushByte(u[0], "bel")
    BY <1>3, <2>1
  <2>3. ParserStep(osc, "bel") = Ground
    BY <1>5 DEF ParserStep, InGround, InEscape, InCommand, InPayload, InPayloadEscape,
                InDiscard, InDiscardEscape, Digits
  <2> QED
    BY <1>3, <1>4, <2>1, <2>2, <2>3 DEF Reached
<1>7. CASE reset = <<"esc", "backslash">>
  <2>1. Len(reset) = 2 /\ reset[1] = "esc" /\ reset[2] = "backslash"
    BY <1>7
  <2>2. u[1] = PushByte(u[0], "esc") /\ u[2] = PushByte(u[1], "backslash")
    BY <1>3, <2>1
  <2> DEFINE s == ParserStep(osc, "esc")
  <2>3. s = OscEscape \/ s = DiscardEscape \/ s = PayloadEscape(osc.kind, osc.len)
    BY <1>5 DEF ParserStep, InGround, InEscape, InCommand, InPayload, InPayloadEscape,
                InDiscard, InDiscardEscape, Digits
  <2>4. s.st \in {"escape", "discard_escape", "payload_escape"}
    BY <2>3, OscFields
  <2>5. u[1].state = s /\ u[2].state = ParserStep(s, "backslash")
    BY <1>3, <1>4, <2>2 DEF Reached
  <2> HIDE DEF s
  <2>6. ParserStep(s, "backslash") = Ground
    BY <2>4 DEF ParserStep, InEscape, InPayloadEscape, InDiscardEscape
  <2> QED
    BY <1>3, <2>1, <2>5, <2>6
<1> QED
  BY <1>6, <1>7 DEF Terminators

(* The bytes of a whole sequence. *)
LEMMA WholeBytes ==
  ASSUME NEW c \in Seq(Digits), NEW n \in Nat, NEW end \in Seq(Bytes)
  PROVE  /\ Whole(c, n, end) \in Seq(Bytes)
         /\ Len(Whole(c, n, end)) = 3 + Len(c) + n + Len(end)
         /\ Whole(c, n, end)[1] = "esc" /\ Whole(c, n, end)[2] = "bracket"
         /\ \A i \in 1..Len(c) : Whole(c, n, end)[2 + i] = c[i]
         /\ Whole(c, n, end)[3 + Len(c)] = "semicolon"
         /\ \A i \in 1..n : Whole(c, n, end)[3 + Len(c) + i] = "x"
         /\ \A i \in 1..Len(end) : Whole(c, n, end)[3 + Len(c) + n + i] = end[i]
<1> DEFINE a == <<"esc", "bracket">>
           s == <<"semicolon">>
           x == [i \in 1..n |-> "x"]
           b1 == a \o c
           b2 == b1 \o s
           b3 == b2 \o x
           b4 == b3 \o end
           l == Len(c)
           e == Len(end)
<1>1. /\ a \in Seq(Bytes) /\ Len(a) = 2 /\ a[1] = "esc" /\ a[2] = "bracket"
      /\ s \in Seq(Bytes) /\ Len(s) = 1 /\ s[1] = "semicolon"
  BY DEF Bytes
<1>2. c \in Seq(Bytes) /\ l \in Nat /\ e \in Nat
  BY DEF Digits, Bytes
<1>3. x \in Seq(Bytes) /\ Len(x) = n /\ \A i \in 1..n : x[i] = "x"
  BY DEF Bytes
<1>4. Whole(c, n, end) = b4
  BY DEF Whole
<1> HIDE DEF a, s, x
<1>5. /\ b1 \in Seq(Bytes) /\ Len(b1) = 2 + l
      /\ \A i \in 1..(2 + l) : b1[i] = IF i <= 2 THEN a[i] ELSE c[i - 2]
  <2>1. a \in Seq(Bytes) /\ c \in Seq(Bytes)
    BY <1>1, <1>2
  <2>2. /\ b1 \in Seq(Bytes) /\ Len(b1) = Len(a) + Len(c)
        /\ \A i \in 1..(Len(a) + Len(c)) :
              b1[i] = IF i <= Len(a) THEN a[i] ELSE c[i - Len(a)]
    BY <2>1, ConcatProperties
  <2> QED
    BY <1>1, <1>2, <2>2 DEF l
<1> HIDE DEF b1
<1>6. /\ b2 \in Seq(Bytes) /\ Len(b2) = (2 + l) + 1
      /\ \A i \in 1..((2 + l) + 1) : b2[i] = IF i <= 2 + l THEN b1[i] ELSE s[i - (2 + l)]
  <2>1. b1 \in Seq(Bytes) /\ s \in Seq(Bytes)
    BY <1>1, <1>5
  <2>2. /\ b2 \in Seq(Bytes) /\ Len(b2) = Len(b1) + Len(s)
        /\ \A i \in 1..(Len(b1) + Len(s)) :
              b2[i] = IF i <= Len(b1) THEN b1[i] ELSE s[i - Len(b1)]
    BY <2>1, ConcatProperties
  <2> QED
    BY <1>1, <1>5, <2>2
<1> HIDE DEF b2
<1>7. /\ b3 \in Seq(Bytes) /\ Len(b3) = ((2 + l) + 1) + n
      /\ \A i \in 1..(((2 + l) + 1) + n) :
            b3[i] = IF i <= (2 + l) + 1 THEN b2[i] ELSE x[i - ((2 + l) + 1)]
  <2>1. b2 \in Seq(Bytes) /\ x \in Seq(Bytes)
    BY <1>3, <1>6
  <2>2. /\ b3 \in Seq(Bytes) /\ Len(b3) = Len(b2) + Len(x)
        /\ \A i \in 1..(Len(b2) + Len(x)) :
              b3[i] = IF i <= Len(b2) THEN b2[i] ELSE x[i - Len(b2)]
    BY <2>1, ConcatProperties
  <2> QED
    BY <1>3, <1>6, <2>2
<1> HIDE DEF b3
<1>8. /\ b4 \in Seq(Bytes) /\ Len(b4) = (((2 + l) + 1) + n) + e
      /\ \A i \in 1..((((2 + l) + 1) + n) + e) :
            b4[i] = IF i <= ((2 + l) + 1) + n THEN b3[i] ELSE end[i - (((2 + l) + 1) + n)]
  <2>1. b3 \in Seq(Bytes) /\ end \in Seq(Bytes)
    BY <1>7
  <2>2. /\ b4 \in Seq(Bytes) /\ Len(b4) = Len(b3) + Len(end)
        /\ \A i \in 1..(Len(b3) + Len(end)) :
              b4[i] = IF i <= Len(b3) THEN b3[i] ELSE end[i - Len(b3)]
    BY <2>1, ConcatProperties
  <2> QED
    BY <1>7, <2>2
<1> HIDE DEF b4, l, e
<1>9. Len(b4) = 3 + l + n + e
  BY <1>2, <1>8
<1>10. \A i \in 1..(3 + l) : b4[i] = b2[i]
  BY <1>2, <1>7, <1>8
<1>11. b4[1] = "esc" /\ b4[2] = "bracket"
  BY <1>1, <1>2, <1>5, <1>6, <1>10
<1>12. ASSUME NEW i \in 1..l  PROVE b4[2 + i] = c[i]
  <2>1. 2 + i \in 1..(2 + l) /\ 2 + i \in 1..(3 + l) /\ 2 + i \in 1..((2 + l) + 1) /\ (2 + i) - 2 = i
        /\ ~(2 + i <= 2) /\ 2 + i <= 2 + l
    BY <1>2
  <2> QED
    BY <2>1, <1>5, <1>6, <1>10
<1>13. b4[3 + l] = "semicolon"
  <2>1. 3 + l \in 1..(3 + l) /\ 3 + l \in 1..((2 + l) + 1) /\ ~(3 + l <= 2 + l) /\ (3 + l) - (2 + l) = 1
    BY <1>2
  <2> QED
    BY <2>1, <1>1, <1>6, <1>10
<1>14. ASSUME NEW i \in 1..n  PROVE b4[3 + l + i] = "x"
  <2> DEFINE j == 3 + l + i
  <2>1. /\ j \in 1..(((2 + l) + 1) + n) /\ j \in 1..((((2 + l) + 1) + n) + e)
        /\ j <= ((2 + l) + 1) + n /\ ~(j <= (2 + l) + 1) /\ j - ((2 + l) + 1) = i
    BY <1>2
  <2> HIDE DEF j
  <2>2. b4[j] = x[i]
    BY <2>1, <1>7, <1>8
  <2> QED
    BY <2>2, <1>3 DEF j
<1>15. ASSUME NEW i \in 1..e  PROVE b4[3 + l + n + i] = end[i]
  <2> DEFINE j == 3 + l + n + i
  <2>1. /\ j \in 1..((((2 + l) + 1) + n) + e)
        /\ ~(j <= ((2 + l) + 1) + n) /\ j - (((2 + l) + 1) + n) = i
    BY <1>2
  <2> HIDE DEF j
  <2>2. b4[j] = end[i]
    BY <2>1, <1>8
  <2> QED
    BY <2>2 DEF j
<1> QED
  BY <1>4, <1>8, <1>9, <1>11, <1>12, <1>13, <1>14, <1>15 DEF l, e

(* Where the parser stands when the payload is read: within the bound it   *)
(* has counted every byte, beyond it the sequence is given up.             *)
LEMMA PayloadRead ==
  ASSUME NEW c \in KnownCommands, NEW n \in 0..(PayloadMax + 1), NEW end \in Seq(Bytes), NEW u,
         Reached(u[0], Ground, <<>>),
         \A i \in 1..Len(Whole(c, n, end)) : u[i] = PushByte(u[i - 1], Whole(c, n, end)[i])
  PROVE  Reached(u[3 + Len(c) + n],
                 IF n <= PayloadMax THEN OscPayload(PayloadKind(c), n) ELSE Discard, <<>>)
<1> DEFINE w == Whole(c, n, end)
           l == Len(c)
           k == PayloadKind(c)
           last == 3 + l + n
<1>1. /\ k \in OscKinds /\ c \in Seq(Digits) /\ l <= CommandMax /\ l \in Nat /\ n \in Nat
      /\ CommandMax \in Nat /\ PayloadMax \in Nat /\ \A i \in 1..l : c[i] \in Digits
  BY KnownKinds, OscBounds
<1>2. /\ Len(w) = 3 + l + n + Len(end) /\ Len(end) \in Nat
      /\ w[1] = "esc" /\ w[2] = "bracket"
      /\ \A i \in 1..l : w[2 + i] = c[i]
      /\ w[3 + l] = "semicolon"
      /\ \A i \in 1..n : w[3 + l + i] = "x"
  <2>1. Len(end) \in Nat
    OBVIOUS
  <2>2. c \in Seq(Digits) /\ n \in Nat
    BY <1>1
  <2>3. Len(w) = 3 + l + n + Len(end) /\ w[1] = "esc" /\ w[2] = "bracket" /\ w[3 + l] = "semicolon"
    BY <2>2, WholeBytes
  <2>4. \A i \in 1..l : w[2 + i] = c[i]
    BY <2>2, WholeBytes
  <2>5. \A i \in 1..n : w[3 + l + i] = "x"
    BY <2>2, WholeBytes
  <2> HIDE DEF w, l
  <2> QED
    BY <2>1, <2>3, <2>4, <2>5
<1>3. \A i \in 1..Len(w) : u[i] = PushByte(u[i - 1], w[i])
  OBVIOUS
<1> HIDE DEF w, l, k
<1>4. Reached(u[1], OscEscape, <<>>)
  <2>1. u[1] = PushByte(u[0], "esc")
    BY <1>1, <1>2, <1>3
  <2>2. ParserStep(Ground, "esc") = OscEscape
    BY OscFields DEF ParserStep, InGround
  <2> QED
    BY <2>1, <2>2, QuietByte, OscFields
<1>5. Reached(u[2], Command(<<>>), <<>>)
  <2>1. u[2] = PushByte(u[1], "bracket")
    BY <1>1, <1>2, <1>3
  <2>2. ParserStep(OscEscape, "bracket") = Command(<<>>)
    BY OscFields DEF ParserStep, InEscape
  <2> QED
    BY <1>4, <2>1, <2>2, QuietByte, OscFields
<1> DEFINE Cmd(i) == \E x \in Seq(Digits) : /\ Reached(u[2 + i], Command(x), <<>>)
                                            /\ Len(x) = i /\ \A j \in 1..i : x[j] = c[j]
<1>6. \A i \in 0..l : Cmd(i)
  <2> DEFINE T == {i \in Nat : i <= l /\ ~Cmd(i)}
  <2>1. Cmd(0)
    <3>1. <<>> \in Seq(Digits) /\ Len(<<>>) = 0 /\ 2 + 0 = 2 /\ \A j \in 1..0 : <<>>[j] = c[j]
      OBVIOUS
    <3> QED
      BY <1>5, <3>1
  <2>2. ASSUME T # {}  PROVE FALSE
    <3>1. PICK i \in T : \A j \in T : i <= j
      BY <2>2, LeastNat
    <3>2. i \in Nat /\ i <= l /\ i # 0 /\ ~Cmd(i)
      BY <2>1, <3>1
    <3>3. i - 1 \in Nat /\ i - 1 <= l /\ i - 1 \notin T
      <4> HIDE DEF T, Cmd
      <4> QED
        BY <1>1, <3>1, <3>2
    <3>4. Cmd(i - 1)
      BY <3>3
    <3>5. PICK x \in Seq(Digits) : /\ Reached(u[2 + (i - 1)], Command(x), <<>>)
                                   /\ Len(x) = i - 1 /\ \A j \in 1..(i - 1) : x[j] = c[j]
      BY <3>4
    <3>6. i \in 1..l /\ 2 + i \in 1..Len(w) /\ (2 + i) - 1 = 2 + (i - 1)
      BY <1>1, <1>2, <3>2
    <3>7. u[2 + i] = PushByte(u[2 + (i - 1)], c[i]) /\ c[i] \in Digits
      BY <1>1, <1>2, <1>3, <3>6
    <3>8. ParserStep(Command(x), c[i]) = Command(Append(x, c[i]))
      <4>1. Len(x) < CommandMax
        BY <1>1, <3>2, <3>5
      <4>2. ParserStep(Command(x), c[i]) = InCommand(Command(x), c[i])
        BY OscFields DEF ParserStep
      <4> QED
        BY <3>7, <4>1, <4>2, OscFields DEF InCommand, Digits
    <3>9. Reached(u[2 + i], Command(Append(x, c[i])), <<>>)
      BY <3>5, <3>7, <3>8, QuietByte, OscFields
    <3>10. /\ Append(x, c[i]) \in Seq(Digits) /\ Len(Append(x, c[i])) = Len(x) + 1
           /\ \A j \in 1..Len(x) : Append(x, c[i])[j] = x[j]
           /\ Append(x, c[i])[Len(x) + 1] = c[i]
      BY <3>7, AppendProperties
    <3>11. Len(Append(x, c[i])) = i /\ \A j \in 1..i : Append(x, c[i])[j] = c[j]
      BY <3>2, <3>5, <3>10
    <3> QED
      BY <3>2, <3>9, <3>10, <3>11
  <2>3. ASSUME NEW i \in 0..l  PROVE Cmd(i)
    <3>1. i \in Nat /\ i <= l
      BY <1>1
    <3> QED
      BY <2>2, <3>1
  <2> QED
    BY <2>3
<1>7. Reached(u[2 + l], Command(c), <<>>)
  <2>1. PICK x \in Seq(Digits) : /\ Reached(u[2 + l], Command(x), <<>>)
                                 /\ Len(x) = l /\ \A j \in 1..l : x[j] = c[j]
    <3>1. l \in 0..l
      BY <1>1
    <3>2. Cmd(l)
      <4> HIDE DEF Cmd
      <4> QED
        BY <1>6, <3>1
    <3> QED
      BY <3>2
  <2>2. x = c
    BY <1>1, <2>1, SeqEqual DEF l
  <2> QED
    BY <2>1, <2>2
<1>8. Reached(u[3 + l], OscPayload(k, 0), <<>>)
  <2>1. 3 + l \in 1..Len(w) /\ (3 + l) - 1 = 2 + l
    BY <1>1, <1>2
  <2>2. u[3 + l] = PushByte(u[2 + l], "semicolon")
    BY <1>2, <1>3, <2>1
  <2>3. ParserStep(Command(c), "semicolon") = InCommand(Command(c), "semicolon") /\ Command(c).cmd = c
    BY OscFields DEF ParserStep
  <2>4. PayloadKind(c) # "none"
    BY <1>1 DEF OscKinds, k
  <2>5. InCommand(Command(c), "semicolon") = OscPayload(k, 0)
    BY <2>3, <2>4 DEF InCommand, Digits, k
  <2> QED
    BY <1>7, <2>2, <2>3, <2>5, QuietByte, OscFields
<1> DEFINE At(i) == Reached(u[3 + l + i],
                            IF i <= PayloadMax THEN OscPayload(k, i) ELSE Discard, <<>>)
<1>9. \A i \in 0..n : At(i)
  <2> DEFINE T == {i \in Nat : i <= n /\ ~At(i)}
  <2>1. At(0)
    BY <1>1, <1>8
  <2>2. ASSUME T # {}  PROVE FALSE
    <3>1. PICK i \in T : \A j \in T : i <= j
      BY <2>2, LeastNat
    <3>2. i \in Nat /\ i <= n /\ i # 0 /\ ~At(i)
      BY <2>1, <3>1
    <3>3. i - 1 \in Nat /\ i - 1 <= n /\ i - 1 \notin T
      BY <1>1, <3>1, <3>2
    <3>4. At(i - 1) /\ i - 1 <= PayloadMax
      BY <1>1, <3>2, <3>3
    <3>5. Reached(u[3 + l + (i - 1)], OscPayload(k, i - 1), <<>>)
      BY <3>4
    <3>6. i \in 1..n /\ 3 + l + i \in 1..Len(w) /\ (3 + l + i) - 1 = 3 + l + (i - 1)
      BY <1>1, <1>2, <3>2
    <3>7. u[3 + l + i] = PushByte(u[3 + l + (i - 1)], "x")
      BY <1>2, <1>3, <3>6
    <3>8. ParserStep(OscPayload(k, i - 1), "x") = IF i <= PayloadMax THEN OscPayload(k, i) ELSE Discard
      <4>1. ParserStep(OscPayload(k, i - 1), "x") = InPayload(OscPayload(k, i - 1), "x")
        BY OscFields DEF ParserStep
      <4>2. (i - 1 < PayloadMax <=> i <= PayloadMax) /\ (i - 1) + 1 = i
        BY <1>1, <3>2
      <4> QED
        BY <4>1, <4>2, OscFields DEF InPayload
    <3>9. At(i)
      BY <3>5, <3>7, <3>8, QuietByte, OscFields
    <3> QED
      BY <3>2, <3>9
  <2>3. ASSUME NEW i \in 0..n  PROVE At(i)
    <3>1. i \in Nat /\ i <= n
      BY <1>1
    <3> QED
      BY <2>2, <3>1
  <2> QED
    BY <2>3
<1>10. At(n)
  BY <1>1, <1>9
<1> QED
  BY <1>10 DEF l, k

(* A whole sequence is reported once within the bound, and not beyond it. *)
LEMMA WholeReported ==
  ASSUME NEW c \in KnownCommands, NEW n \in 0..(PayloadMax + 1), NEW end \in Terminators
  PROVE  Push(Ground, Whole(c, n, end)).events =
           IF n <= PayloadMax THEN <<[kind |-> PayloadKind(c), len |-> n]>> ELSE <<>>
<1> DEFINE w == Whole(c, n, end)
           k == PayloadKind(c)
           m == 3 + Len(c) + n
           st == IF n <= PayloadMax THEN OscPayload(k, n) ELSE Discard
           report == IF n <= PayloadMax THEN <<[kind |-> k, len |-> n]>> ELSE <<>>
<1>1. <<"bel">> \in Seq(Bytes) /\ <<"esc", "backslash">> \in Seq(Bytes)
  BY DEF Bytes
<1>2. end \in Seq(Bytes) /\ Len(end) \in Nat
  BY <1>1 DEF Terminators
<1>3. c \in Seq(Digits) /\ n \in Nat /\ Len(c) \in Nat /\ PayloadMax \in Nat /\ m \in Nat
  BY KnownKinds, OscBounds
<1>4. w \in Seq(Bytes) /\ Len(w) = m + Len(end)
  <2>1. w \in Seq(Bytes)
    BY <1>2, <1>3, WholeBytes
  <2>2. c \in Seq(Digits) /\ n \in Nat /\ end \in Seq(Bytes)
    BY <1>2, <1>3
  <2>3. Len(Whole(c, n, end)) = 3 + Len(c) + n + Len(end)
    BY ONLY <2>2, WholeBytes
  <2> QED
    BY <2>1, <2>3
<1>5. \A i \in 1..Len(end) : w[m + i] = end[i]
  BY <1>2, <1>3, WholeBytes
<1>6. PICK u : /\ Reached(u[0], Ground, <<>>)
               /\ \A i \in 1..Len(w) : u[i] = PushByte(u[i - 1], w[i])
               /\ Push(Ground, w) = u[Len(w)]
  BY <1>4, PushUnfolds
<1>7. Reached(u[m], st, <<>>)
  BY <1>2, <1>6, PayloadRead
<1> HIDE DEF w, m
<1>8. n <= PayloadMax => st = OscPayload(k, n) /\ st.st = "payload" /\ st.kind = k /\ st.len = n
  BY OscFields
<1>9. ~(n <= PayloadMax) => st = Discard /\ st.st = "discard"
  BY OscFields
<1> HIDE DEF st
<1>10. CASE end = <<"bel">>
  <2>1. Len(end) = 1 /\ end[1] = "bel"
    BY <1>10
  <2>2. m + 1 \in 1..Len(w) /\ (m + 1) - 1 = m /\ Len(w) = m + 1 /\ w[m + 1] = "bel"
    BY <1>3, <1>4, <1>5, <2>1
  <2>3. u[m + 1] = PushByte(u[m], "bel") /\ Push(Ground, w) = u[m + 1]
    BY <1>6, <2>2
  <2>4. u[m + 1].events = report
    <3>1. CASE n <= PayloadMax
      <4>1. Reached(PushByte(u[m], "bel"), ParserStep(st, "bel"),
                    <<[kind |-> st.kind, len |-> st.len]>>)
        BY <1>7, <1>8, <3>1, LastByte
      <4> QED
        BY <1>8, <2>3, <3>1, <4>1 DEF Reached
    <3>2. CASE ~(n <= PayloadMax)
      <4>1. Reached(PushByte(u[m], "bel"), ParserStep(st, "bel"), <<>>)
        BY <1>7, <1>9, <3>2, QuietByte
      <4> QED
        BY <2>3, <3>2, <4>1 DEF Reached
    <3> QED
      BY <3>1, <3>2
  <2> QED
    BY <2>3, <2>4 DEF w
<1>11. CASE end = <<"esc", "backslash">>
  <2>1. Len(end) = 2 /\ end[1] = "esc" /\ end[2] = "backslash"
    BY <1>11
  <2>2. /\ m + 1 \in 1..Len(w) /\ (m + 1) - 1 = m /\ w[m + 1] = "esc"
        /\ m + 2 \in 1..Len(w) /\ (m + 2) - 1 = m + 1 /\ Len(w) = m + 2 /\ w[m + 2] = "backslash"
    BY <1>3, <1>4, <1>5, <2>1
  <2>3. /\ u[m + 1] = PushByte(u[m], "esc") /\ u[m + 2] = PushByte(u[m + 1], "backslash")
        /\ Push(Ground, w) = u[m + 2]
    BY <1>6, <2>2
  <2> DEFINE mid == ParserStep(st, "esc")
  <2>4. Reached(u[m + 1], mid, <<>>)
    BY <1>7, <2>3, QuietByte
  <2>5. u[m + 2].events = report
    <3>1. CASE n <= PayloadMax
      <4>1. mid = PayloadEscape(k, n)
        BY <1>8, <3>1 DEF ParserStep, InPayload
      <4>2. mid.st = "payload_escape" /\ mid.kind = k /\ mid.len = n
        BY <4>1, OscFields
      <4> HIDE DEF mid
      <4>3. Reached(PushByte(u[m + 1], "backslash"), ParserStep(mid, "backslash"),
                    <<[kind |-> mid.kind, len |-> mid.len]>>)
        BY <2>4, <4>2, LastByte
      <4> QED
        BY <2>3, <3>1, <4>2, <4>3 DEF Reached
    <3>2. CASE ~(n <= PayloadMax)
      <4>1. mid = DiscardEscape
        BY <1>9, <3>2 DEF ParserStep, InDiscard
      <4>2. mid.st = "discard_escape"
        BY <4>1, OscFields
      <4> HIDE DEF mid
      <4>3. Reached(PushByte(u[m + 1], "backslash"), ParserStep(mid, "backslash"), <<>>)
        BY <2>4, <4>2, QuietByte
      <4> QED
        BY <2>3, <3>2, <4>3 DEF Reached
    <3> QED
      BY <3>1, <3>2
  <2> QED
    BY <2>3, <2>5 DEF w
<1> QED
  BY <1>10, <1>11 DEF Terminators

LEMMA OscRecovers == OscInv => ParserRecovers
<1> SUFFICES ASSUME OscInv, NEW reset \in Terminators, NEW c \in KnownCommands,
                    NEW end \in Terminators
             PROVE  LET p == Push(osc, reset).state
                    IN  /\ \A n \in 0..PayloadMax :
                             Push(p, Whole(c, n, end)).events =
                               <<[kind |-> PayloadKind(c), len |-> n]>>
                        /\ Push(p, Whole(c, PayloadMax + 1, end)).events = <<>>
  BY DEF ParserRecovers
<1>1. Push(osc, reset).state = Ground
  BY ResetGrounds
<1>2. ASSUME NEW n \in 0..PayloadMax
      PROVE  Push(Ground, Whole(c, n, end)).events = <<[kind |-> PayloadKind(c), len |-> n]>>
  <2>1. n \in 0..(PayloadMax + 1) /\ n <= PayloadMax
    BY OscBounds
  <2> QED
    BY <2>1, WholeReported
<1>3. Push(Ground, Whole(c, PayloadMax + 1, end)).events = <<>>
  <2> DEFINE n == PayloadMax + 1
  <2>1. n \in 0..(PayloadMax + 1) /\ ~(n <= PayloadMax)
    BY OscBounds
  <2> HIDE DEF n
  <2>2. Push(Ground, Whole(c, n, end)).events = <<>>
    BY <2>1, WholeReported
  <2> QED
    BY <2>2 DEF n
<1> QED
  BY <1>1, <1>2, <1>3

(* For every length of frames and every bound of the parser: /proc is read *)
(* at most three times before something moves, a frame that comes when the *)
(* interval has run out tells the truth, and the parser finds the next     *)
(* sequence whatever came before it (observe_output_inner,                 *)
(* BoundedOscParser).                                                      *)
THEOREM ActivityStaysTrue ==
  OscSpec /\ ActivitySpec => [](OscTypeOK /\ ActivityTypeOK) /\ ActivityIsTrue
<1>1. OscInit => OscInv
  BY DEF OscInit, OscInv
<1>2. OscSpec => []ParserRecovers
  BY <1>1, OscStep, OscRecovers, PTL DEF OscSpec
<1>3. OscSpec => []OscTypeOK
  BY <1>1, OscStep, OscSafe, PTL DEF OscSpec
<1>4. ActivitySpec => []ActivityTypeOK
  <2>1. ActivityInv => ActivityTypeOK
    BY DEF ActivityInv
  <2>2. ActivityInv /\ [ActivityNext]_activityVars => ActivityInv'
    BY ActivityStep
  <2> QED
    BY <2>1, <2>2, ActivityInitInv, PTL DEF ActivitySpec
<1>5. ActivityInv => ProbesAreThrottled
  <2> SUFFICES ASSUME ActivityInv  PROVE ProbesAreThrottled
    OBVIOUS
  <2> DEFINE left == ProbesLeft
  <2>1. left \in 0..3
    BY DEF ProbesLeft
  <2>2. probes \in 0..4 /\ probes + left <= 3
    BY DEF ActivityInv, ActivityTypeOK
  <2> HIDE DEF left
  <2> QED
    BY <2>1, <2>2 DEF ProbesAreThrottled
<1> DEFINE DueStep == due /\ ~due' /\ cached' # "unknown" =>
              /\ fg \in Agents => ai' = None \/ ai'.agent = fg
              /\ fg = "other" => ai' = None \/ ai'.state = "completed"
<1>6. ActivityInv /\ [ActivityNext]_activityVars => ActivityInv' /\ [DueStep]_activityVars
  BY ActivityStep
<1>7. ActivitySpec => []ProbesAreThrottled /\ [][DueStep]_activityVars
  <2> HIDE DEF DueStep
  <2> QED
    BY <1>5, <1>6, ActivityInitInv, PTL DEF ActivitySpec
<1> QED
  BY <1>2, <1>7, <1>3, <1>4, PTL DEF ActivityIsTrue, DueFrameIsTrue
-----------------------------------------------------------------------------
(* The screen *)

LEMMA MaxTwo ==
  ASSUME NEW a \in Int, NEW b \in Int
  PROVE  Max({a, b}) = IF a >= b THEN a ELSE b
<1> DEFINE m == Max({a, b})
<1>1. \E x \in {a, b} : \A y \in {a, b} : x >= y
  <2>1. CASE a >= b
    BY <2>1
  <2>2. CASE ~(a >= b)
    BY <2>2
  <2> QED
    BY <2>1, <2>2
<1>2. m \in {a, b} /\ \A y \in {a, b} : m >= y
  BY <1>1 DEF Max
<1> QED
  BY <1>2

LEMMA MinTwo ==
  ASSUME NEW a \in Int, NEW b \in Int
  PROVE  Min({a, b}) = IF a <= b THEN a ELSE b
<1> DEFINE m == Min({a, b})
<1>1. \E x \in {a, b} : \A y \in {a, b} : x <= y
  <2>1. CASE a <= b
    BY <2>1
  <2>2. CASE ~(a <= b)
    BY <2>2
  <2> QED
    BY <2>1, <2>2
<1>2. m \in {a, b} /\ \A y \in {a, b} : m <= y
  BY <1>1 DEF Min
<1> QED
  BY <1>2

(* The lines of a screen that has cols columns. *)
ScreenCells == [ch : {"blank", "continuation", "a", "w"}, style : ScreenStyles]
ScreenLines(cols) ==
  {line \in [cells : Seq(ScreenCells), touched : BOOLEAN] : Len(line.cells) = cols}

(* A buffer has its fields, its cursor and its region are inside the rows, *)
(* and its lines have their width.                                         *)
BufferFields(b, rows, cols) ==
  /\ b.lines \in Seq(ScreenLines(cols))
  /\ b.row \in Nat /\ b.row < rows
  /\ b.col \in Nat /\ b.col <= cols + 1
  /\ b.top \in Nat /\ b.bottom \in Nat /\ b.top < b.bottom /\ b.bottom <= rows
  /\ b.saved # <<>> => b.saved[1] \in Nat /\ b.saved[2] \in Nat
  /\ b.style \in ScreenStyles /\ b.modes \subseteq ScreenModes

BufferOK(b, rows, cols, max) ==
  /\ b = BufferOf(b)
  /\ BufferFields(b, rows, cols)
  /\ rows <= Len(b.lines) /\ Len(b.lines) <= max

(* A screen, the number of its lines aside, which a scroll changes twice;  *)
(* the normal screen behind an alternate one is whole.                     *)
ScreenFields(s) ==
  /\ s = WithBuffer(s, s)
  /\ s.rows \in Nat \ {0} /\ s.cols \in Nat \ {0} /\ s.max \in Nat /\ s.rows <= s.max
  /\ BufferFields(s, s.rows, s.cols)
  /\ s.normal # <<>> => s.normal = <<s.normal[1]>>
                        /\ BufferOK(s.normal[1], s.rows, s.cols, s.max)
  /\ s.half \in {"none", "control", "utf8"} /\ s.cut \in BOOLEAN

ScreenOK(s) == ScreenFields(s) /\ s.rows <= Len(s.lines) /\ Len(s.lines) <= s.max

SameSize(r, s) == r.rows = s.rows /\ r.cols = s.cols /\ r.max = s.max
Scrolled(r, s) == r.rows = s.rows /\ r.cols = s.cols /\ r.max = s.max /\ r.col = s.col

LEMMA SetLines ==
  ASSUME NEW s, ScreenFields(s), NEW x \in Seq(ScreenLines(s.cols))
  PROVE  /\ ScreenFields([s EXCEPT !.lines = x])
         /\ Scrolled([s EXCEPT !.lines = x], s)
         /\ [s EXCEPT !.lines = x].lines = x
<1> DEFINE r == [s EXCEPT !.lines = x]
<1>1. s = WithBuffer(s, s)
  BY DEF ScreenFields
<1>2. /\ r.lines = x /\ r.row = s.row /\ r.col = s.col /\ r.saved = s.saved /\ r.style = s.style
      /\ r.modes = s.modes /\ r.top = s.top /\ r.bottom = s.bottom /\ r.rows = s.rows
      /\ r.cols = s.cols /\ r.max = s.max /\ r.normal = s.normal /\ r.half = s.half
      /\ r.cut = s.cut
  BY <1>1 DEF WithBuffer
<1>3. r = WithBuffer(r, r)
  BY <1>1, <1>2 DEF WithBuffer
<1> HIDE DEF r
<1>4. BufferFields(r, r.rows, r.cols)
  BY <1>2 DEF ScreenFields, BufferFields
<1>5. ScreenFields(r)
  BY <1>2, <1>3, <1>4 DEF ScreenFields
<1> QED
  BY <1>2, <1>5 DEF r, Scrolled

LEMMA SetRow ==
  ASSUME NEW s, ScreenOK(s), NEW x \in Nat, x < s.rows
  PROVE  ScreenOK([s EXCEPT !.row = x]) /\ Scrolled([s EXCEPT !.row = x], s)
<1> DEFINE r == [s EXCEPT !.row = x]
<1>1. s = WithBuffer(s, s)
  BY DEF ScreenOK, ScreenFields
<1>2. /\ r.lines = s.lines /\ r.row = x /\ r.col = s.col /\ r.saved = s.saved /\ r.style = s.style
      /\ r.modes = s.modes /\ r.top = s.top /\ r.bottom = s.bottom /\ r.rows = s.rows /\ r.cols = s.cols
      /\ r.max = s.max /\ r.normal = s.normal /\ r.half = s.half /\ r.cut = s.cut
  BY <1>1 DEF WithBuffer
<1>3. r = WithBuffer(r, r)
  BY <1>1, <1>2 DEF WithBuffer
<1> HIDE DEF r
<1>4. BufferFields(r, r.rows, r.cols)
  BY <1>2 DEF ScreenOK, ScreenFields, BufferFields
<1>5. ScreenOK(r)
  BY <1>2, <1>3, <1>4 DEF ScreenOK, ScreenFields
<1> QED
  BY <1>2, <1>5 DEF r, Scrolled

LEMMA SetCol ==
  ASSUME NEW s, ScreenOK(s), NEW x \in Nat, x <= s.cols + 1
  PROVE  ScreenOK([s EXCEPT !.col = x]) /\ SameSize([s EXCEPT !.col = x], s)
<1> DEFINE r == [s EXCEPT !.col = x]
<1>1. s = WithBuffer(s, s)
  BY DEF ScreenOK, ScreenFields
<1>2. /\ r.lines = s.lines /\ r.row = s.row /\ r.col = x /\ r.saved = s.saved /\ r.style = s.style
      /\ r.modes = s.modes /\ r.top = s.top /\ r.bottom = s.bottom /\ r.rows = s.rows /\ r.cols = s.cols
      /\ r.max = s.max /\ r.normal = s.normal /\ r.half = s.half /\ r.cut = s.cut
  BY <1>1 DEF WithBuffer
<1>3. r = WithBuffer(r, r)
  BY <1>1, <1>2 DEF WithBuffer
<1> HIDE DEF r
<1>4. BufferFields(r, r.rows, r.cols)
  BY <1>2 DEF ScreenOK, ScreenFields, BufferFields
<1>5. ScreenOK(r)
  BY <1>2, <1>3, <1>4 DEF ScreenOK, ScreenFields
<1> QED
  BY <1>2, <1>5 DEF r, SameSize

LEMMA SetStyle ==
  ASSUME NEW s, ScreenOK(s), NEW x \in ScreenStyles
  PROVE  ScreenOK([s EXCEPT !.style = x]) /\ SameSize([s EXCEPT !.style = x], s)
<1> DEFINE r == [s EXCEPT !.style = x]
<1>1. s = WithBuffer(s, s)
  BY DEF ScreenOK, ScreenFields
<1>2. /\ r.lines = s.lines /\ r.row = s.row /\ r.col = s.col /\ r.saved = s.saved /\ r.style = x
      /\ r.modes = s.modes /\ r.top = s.top /\ r.bottom = s.bottom /\ r.rows = s.rows /\ r.cols = s.cols
      /\ r.max = s.max /\ r.normal = s.normal /\ r.half = s.half /\ r.cut = s.cut
  BY <1>1 DEF WithBuffer
<1>3. r = WithBuffer(r, r)
  BY <1>1, <1>2 DEF WithBuffer
<1> HIDE DEF r
<1>4. BufferFields(r, r.rows, r.cols)
  BY <1>2 DEF ScreenOK, ScreenFields, BufferFields
<1>5. ScreenOK(r)
  BY <1>2, <1>3, <1>4 DEF ScreenOK, ScreenFields
<1> QED
  BY <1>2, <1>5 DEF r, SameSize

LEMMA SetModes ==
  ASSUME NEW s, ScreenOK(s), NEW x \in SUBSET ScreenModes
  PROVE  ScreenOK([s EXCEPT !.modes = x]) /\ SameSize([s EXCEPT !.modes = x], s)
<1> DEFINE r == [s EXCEPT !.modes = x]
<1>1. s = WithBuffer(s, s)
  BY DEF ScreenOK, ScreenFields
<1>2. /\ r.lines = s.lines /\ r.row = s.row /\ r.col = s.col /\ r.saved = s.saved /\ r.style = s.style
      /\ r.modes = x /\ r.top = s.top /\ r.bottom = s.bottom /\ r.rows = s.rows /\ r.cols = s.cols
      /\ r.max = s.max /\ r.normal = s.normal /\ r.half = s.half /\ r.cut = s.cut
  BY <1>1 DEF WithBuffer
<1>3. r = WithBuffer(r, r)
  BY <1>1, <1>2 DEF WithBuffer
<1> HIDE DEF r
<1>4. BufferFields(r, r.rows, r.cols)
  BY <1>2 DEF ScreenOK, ScreenFields, BufferFields
<1>5. ScreenOK(r)
  BY <1>2, <1>3, <1>4 DEF ScreenOK, ScreenFields
<1> QED
  BY <1>2, <1>5 DEF r, SameSize

LEMMA SetSaved ==
  ASSUME NEW s, ScreenOK(s), NEW x, x # <<>> => x[1] \in Nat /\ x[2] \in Nat
  PROVE  ScreenOK([s EXCEPT !.saved = x]) /\ SameSize([s EXCEPT !.saved = x], s)
<1> DEFINE r == [s EXCEPT !.saved = x]
<1>1. s = WithBuffer(s, s)
  BY DEF ScreenOK, ScreenFields
<1>2. /\ r.lines = s.lines /\ r.row = s.row /\ r.col = s.col /\ r.saved = x /\ r.style = s.style
      /\ r.modes = s.modes /\ r.top = s.top /\ r.bottom = s.bottom /\ r.rows = s.rows /\ r.cols = s.cols
      /\ r.max = s.max /\ r.normal = s.normal /\ r.half = s.half /\ r.cut = s.cut
  BY <1>1 DEF WithBuffer
<1>3. r = WithBuffer(r, r)
  BY <1>1, <1>2 DEF WithBuffer
<1> HIDE DEF r
<1>4. BufferFields(r, r.rows, r.cols)
  BY <1>2 DEF ScreenOK, ScreenFields, BufferFields
<1>5. ScreenOK(r)
  BY <1>2, <1>3, <1>4 DEF ScreenOK, ScreenFields
<1> QED
  BY <1>2, <1>5 DEF r, SameSize

LEMMA SetHalf ==
  ASSUME NEW s, ScreenOK(s), NEW x \in {"none", "control", "utf8"}
  PROVE  ScreenOK([s EXCEPT !.half = x]) /\ SameSize([s EXCEPT !.half = x], s)
<1> DEFINE r == [s EXCEPT !.half = x]
<1>1. s = WithBuffer(s, s)
  BY DEF ScreenOK, ScreenFields
<1>2. /\ r.lines = s.lines /\ r.row = s.row /\ r.col = s.col /\ r.saved = s.saved /\ r.style = s.style
      /\ r.modes = s.modes /\ r.top = s.top /\ r.bottom = s.bottom /\ r.rows = s.rows /\ r.cols = s.cols
      /\ r.max = s.max /\ r.normal = s.normal /\ r.half = x /\ r.cut = s.cut
  BY <1>1 DEF WithBuffer
<1>3. r = WithBuffer(r, r)
  BY <1>1, <1>2 DEF WithBuffer
<1> HIDE DEF r
<1>4. BufferFields(r, r.rows, r.cols)
  BY <1>2 DEF ScreenOK, ScreenFields, BufferFields
<1>5. ScreenOK(r)
  BY <1>2, <1>3, <1>4 DEF ScreenOK, ScreenFields
<1> QED
  BY <1>2, <1>5 DEF r, SameSize

LEMMA SetCut ==
  ASSUME NEW s, ScreenOK(s), NEW x \in BOOLEAN
  PROVE  ScreenOK([s EXCEPT !.cut = x]) /\ SameSize([s EXCEPT !.cut = x], s)
<1> DEFINE r == [s EXCEPT !.cut = x]
<1>1. s = WithBuffer(s, s)
  BY DEF ScreenOK, ScreenFields
<1>2. /\ r.lines = s.lines /\ r.row = s.row /\ r.col = s.col /\ r.saved = s.saved /\ r.style = s.style
      /\ r.modes = s.modes /\ r.top = s.top /\ r.bottom = s.bottom /\ r.rows = s.rows /\ r.cols = s.cols
      /\ r.max = s.max /\ r.normal = s.normal /\ r.half = s.half /\ r.cut = x
  BY <1>1 DEF WithBuffer
<1>3. r = WithBuffer(r, r)
  BY <1>1, <1>2 DEF WithBuffer
<1> HIDE DEF r
<1>4. BufferFields(r, r.rows, r.cols)
  BY <1>2 DEF ScreenOK, ScreenFields, BufferFields
<1>5. ScreenOK(r)
  BY <1>2, <1>3, <1>4 DEF ScreenOK, ScreenFields
<1> QED
  BY <1>2, <1>5 DEF r, SameSize

LEMMA SetRegion ==
  ASSUME NEW s, ScreenOK(s), NEW x \in Nat, NEW y \in Nat, x < y, y <= s.rows
  PROVE  ScreenOK([s EXCEPT !.top = x, !.bottom = y]) /\ SameSize([s EXCEPT !.top = x, !.bottom = y], s)
<1> DEFINE r == [s EXCEPT !.top = x, !.bottom = y]
<1>1. s = WithBuffer(s, s)
  BY DEF ScreenOK, ScreenFields
<1>2. /\ r.lines = s.lines /\ r.row = s.row /\ r.col = s.col /\ r.saved = s.saved /\ r.style = s.style
      /\ r.modes = s.modes /\ r.top = x /\ r.bottom = y /\ r.rows = s.rows /\ r.cols = s.cols
      /\ r.max = s.max /\ r.normal = s.normal /\ r.half = s.half /\ r.cut = s.cut
  BY <1>1 DEF WithBuffer
<1>3. r = WithBuffer(r, r)
  <2> DEFINE q == [s EXCEPT !.top = x]
  <2>1. q = WithBuffer(q, q)
    BY <1>1 DEF WithBuffer
  <2>2. r = [q EXCEPT !.bottom = y]
    BY <1>1 DEF WithBuffer
  <2> HIDE DEF q
  <2>3. [q EXCEPT !.bottom = y] = WithBuffer([q EXCEPT !.bottom = y], [q EXCEPT !.bottom = y])
    BY <2>1 DEF WithBuffer
  <2> HIDE DEF r
  <2> QED
    BY <2>2, <2>3
<1> HIDE DEF r
<1>4. BufferFields(r, r.rows, r.cols)
  BY <1>2 DEF ScreenOK, ScreenFields, BufferFields
<1>5. ScreenOK(r)
  BY <1>2, <1>3, <1>4 DEF ScreenOK, ScreenFields
<1> QED
  BY <1>2, <1>5 DEF r, SameSize


LEMMA SizesOK ==
  ASSUME NEW s, ScreenFields(s)
  PROVE  /\ s.rows \in Nat /\ s.rows >= 1 /\ s.cols \in Nat /\ s.cols >= 1
         /\ s.max \in Nat /\ s.rows <= s.max
         /\ s.lines \in Seq(ScreenLines(s.cols)) /\ Len(s.lines) \in Nat
         /\ s.row \in Nat /\ s.row < s.rows /\ s.col \in Nat /\ s.col <= s.cols + 1
         /\ s.top \in Nat /\ s.bottom \in Nat /\ s.top < s.bottom /\ s.bottom <= s.rows
         /\ s.style \in ScreenStyles /\ s.modes \in SUBSET ScreenModes
BY DEF ScreenFields, BufferFields

LEMMA BlankLineOK ==
  ASSUME NEW cols \in Nat, NEW style \in ScreenStyles, NEW touched \in BOOLEAN
  PROVE  BlankLine(cols, style, touched) \in ScreenLines(cols)
<1> DEFINE cs == [i \in 1..cols |-> StyledBlank(style)]
<1>1. StyledBlank(style) \in ScreenCells
  BY DEF StyledBlank, Cell, ScreenCells
<1>2. cs \in Seq(ScreenCells) /\ Len(cs) = cols
  BY <1>1
<1>3. BlankLine(cols, style, touched) = [cells |-> cs, touched |-> touched]
  BY DEF BlankLine
<1> HIDE DEF cs
<1> QED
  BY <1>2, <1>3 DEF ScreenLines

LEMMA BlankLinesOK ==
  ASSUME NEW n \in Nat, NEW cols \in Nat, NEW style \in ScreenStyles, NEW touched \in BOOLEAN
  PROVE  /\ BlankLines(n, cols, style, touched) \in Seq(ScreenLines(cols))
         /\ Len(BlankLines(n, cols, style, touched)) = n
<1>1. BlankLine(cols, style, touched) \in ScreenLines(cols)
  BY BlankLineOK
<1> DEFINE l == BlankLine(cols, style, touched)
<1>2. BlankLines(n, cols, style, touched) = [i \in 1..n |-> l]
  BY DEF BlankLines
<1> HIDE DEF l
<1> QED
  BY <1>1, <1>2 DEF l

LEMMA InsertKeeps ==
  ASSUME NEW S, NEW q \in Seq(S), NEW i \in 1..(Len(q) + 1), NEW e \in S
  PROVE  InsertAt(q, i, e) \in Seq(S) /\ Len(InsertAt(q, i, e)) = Len(q) + 1
<1> DEFINE a == SubSeq(q, 1, i - 1)
           b == SubSeq(q, i, Len(q))
<1>1. Len(q) \in Nat /\ i \in Nat /\ i >= 1 /\ i <= Len(q) + 1
  OBVIOUS
<1>2. a \in Seq(S) /\ Len(a) = i - 1
  BY <1>1
<1>3. b \in Seq(S) /\ Len(b) = Len(q) - (i - 1)
  BY <1>1
<1>4. <<e>> \in Seq(S) /\ Len(<<e>>) = 1
  OBVIOUS
<1>5. InsertAt(q, i, e) = a \o <<e>> \o b
  BY DEF InsertAt
<1> HIDE DEF a, b
<1>6. a \o <<e>> \in Seq(S) /\ Len(a \o <<e>>) = i
  BY <1>1, <1>2, <1>4
<1> QED
  BY <1>1, <1>3, <1>5, <1>6

LEMMA RemoveKeeps ==
  ASSUME NEW S, NEW q \in Seq(S), NEW i \in 1..Len(q)
  PROVE  RemoveAt(q, i) \in Seq(S) /\ Len(RemoveAt(q, i)) = Len(q) - 1
<1> DEFINE a == SubSeq(q, 1, i - 1)
           b == SubSeq(q, i + 1, Len(q))
<1>1. Len(q) \in Nat /\ i \in Nat /\ i >= 1 /\ i <= Len(q)
  OBVIOUS
<1>2. a \in Seq(S) /\ Len(a) = i - 1
  BY <1>1
<1>3. b \in Seq(S) /\ Len(b) = Len(q) - i
  BY <1>1
<1>4. RemoveAt(q, i) = a \o b
  BY DEF RemoveAt
<1> HIDE DEF a, b
<1>5. a \o b \in Seq(S) /\ Len(a \o b) = Len(a) + Len(b)
  BY <1>2, <1>3
<1>6. Len(a) + Len(b) = Len(q) - 1
  BY <1>1, <1>2, <1>3
<1> QED
  BY <1>4, <1>5, <1>6

(* The last keep lines of q, or all of them. *)
LEMMA LastLines ==
  ASSUME NEW S, NEW q \in Seq(S), NEW keep \in Nat
  PROVE  /\ SubSeq(q, Max({Len(q) - keep, 0}) + 1, Len(q)) \in Seq(S)
         /\ Len(SubSeq(q, Max({Len(q) - keep, 0}) + 1, Len(q)))
              = IF Len(q) <= keep THEN Len(q) ELSE keep
<1> DEFINE over == Max({Len(q) - keep, 0})
<1>1. Len(q) \in Nat /\ Len(q) - keep \in Int /\ 0 \in Int
  OBVIOUS
<1>2. over = IF Len(q) - keep >= 0 THEN Len(q) - keep ELSE 0
  BY <1>1, MaxTwo
<1> HIDE DEF over
<1>3. over \in Nat /\ over <= Len(q)
  BY <1>1, <1>2
<1>4. SubSeq(q, over + 1, Len(q)) \in Seq(S) /\ Len(SubSeq(q, over + 1, Len(q))) = Len(q) - over
  BY <1>1, <1>3
<1>5. Len(q) - over = IF Len(q) <= keep THEN Len(q) ELSE keep
  <2>1. CASE Len(q) <= keep
    BY <1>1, <1>2, <2>1
  <2>2. CASE ~(Len(q) <= keep)
    BY <1>1, <1>2, <2>2
  <2> QED
    BY <2>1, <2>2
<1> QED
  BY <1>4, <1>5 DEF over

LEMMA TrimKeeps ==
  ASSUME NEW s, ScreenFields(s), s.rows <= Len(s.lines)
  PROVE  ScreenOK(TrimLines(s)) /\ Scrolled(TrimLines(s), s)
<1> DEFINE keep == IF Alternate(s) THEN s.rows ELSE s.max
           x == SubSeq(s.lines, Max({Len(s.lines) - keep, 0}) + 1, Len(s.lines))
<1>1. TrimLines(s) = [s EXCEPT !.lines = x]
  BY DEF TrimLines
<1>2. keep \in Nat /\ s.rows <= keep /\ keep <= s.max /\ s.rows \in Nat /\ Len(s.lines) \in Nat
      /\ s.lines \in Seq(ScreenLines(s.cols)) /\ s.max \in Nat
  BY SizesOK
<1> HIDE DEF keep
<1>3. x \in Seq(ScreenLines(s.cols)) /\ Len(x) = IF Len(s.lines) <= keep THEN Len(s.lines) ELSE keep
  BY <1>2, LastLines
<1> HIDE DEF x
<1>4. s.rows <= Len(x) /\ Len(x) <= s.max
  BY <1>2, <1>3
<1> DEFINE r == TrimLines(s)
<1>5. ScreenFields(r) /\ Scrolled(r, s) /\ r.lines = x
  BY <1>1, <1>3, SetLines
<1> HIDE DEF r
<1>6. ScreenOK(r) /\ Scrolled(r, s)
  BY <1>4, <1>5 DEF ScreenOK, Scrolled
<1> QED
  BY <1>6 DEF r

LEMMA InsertVisibleKeeps ==
  ASSUME NEW s, ScreenFields(s), s.rows <= Len(s.lines) + 1, NEW pos \in Nat
  PROVE  ScreenOK(InsertVisibleLine(s, pos)) /\ Scrolled(InsertVisibleLine(s, pos), s)
<1> DEFINE at == Min({pos, Len(s.lines)}) + 1
           x == InsertAt(s.lines, at, BlankLine(s.cols, s.style, TRUE))
           r == [s EXCEPT !.lines = x]
<1>1. s.rows \in Nat /\ Len(s.lines) \in Nat /\ s.lines \in Seq(ScreenLines(s.cols))
      /\ s.cols \in Nat /\ s.style \in ScreenStyles
  BY SizesOK
<1>2. Min({pos, Len(s.lines)}) = IF pos <= Len(s.lines) THEN pos ELSE Len(s.lines)
  BY <1>1, MinTwo
<1>3. at \in 1..(Len(s.lines) + 1)
  BY <1>1, <1>2
<1>4. BlankLine(s.cols, s.style, TRUE) \in ScreenLines(s.cols)
  BY <1>1, BlankLineOK
<1> HIDE DEF at
<1>5. x \in Seq(ScreenLines(s.cols)) /\ Len(x) = Len(s.lines) + 1
  BY <1>1, <1>3, <1>4, InsertKeeps
<1>6. InsertVisibleLine(s, pos) = TrimLines(r)
  BY DEF InsertVisibleLine, at
<1> HIDE DEF x
<1>7. ScreenFields(r) /\ Scrolled(r, s) /\ r.lines = x
  BY <1>5, SetLines
<1> HIDE DEF r
<1>8. r.rows <= Len(r.lines)
  BY <1>5, <1>7 DEF Scrolled
<1>9. ScreenOK(TrimLines(r)) /\ Scrolled(TrimLines(r), r)
  BY <1>7, <1>8, TrimKeeps
<1> QED
  BY <1>6, <1>7, <1>9 DEF Scrolled

LEMMA RegionOK ==
  ASSUME NEW s, ScreenFields(s)
  PROVE  /\ RegionTop(s) \in Nat /\ RegionTop(s) < s.rows
         /\ RegionBottom(s) \in Nat /\ RegionTop(s) < RegionBottom(s) /\ RegionBottom(s) <= s.rows
<1> DEFINE t == RegionTop(s)
           b == Min({s.bottom, s.rows})
<1>1. s.rows \in Nat /\ s.rows >= 1 /\ s.top \in Nat /\ s.bottom \in Nat
  BY SizesOK
<1>2. t = IF s.top <= s.rows - 1 THEN s.top ELSE s.rows - 1
  BY <1>1, MinTwo DEF RegionTop
<1>3. b = IF s.bottom <= s.rows THEN s.bottom ELSE s.rows
  BY <1>1, MinTwo
<1>4. RegionBottom(s) = Max({b, t + 1})
  BY DEF RegionBottom
<1> HIDE DEF t, b
<1>5. t \in Nat /\ t < s.rows /\ b \in Nat /\ b <= s.rows
  BY <1>1, <1>2, <1>3
<1>6. RegionBottom(s) = IF b >= t + 1 THEN b ELSE t + 1
  BY <1>4, <1>5, MaxTwo
<1>7. RegionBottom(s) \in Nat /\ t < RegionBottom(s) /\ RegionBottom(s) <= s.rows
  BY <1>1, <1>5, <1>6
<1> QED
  BY <1>5, <1>7 DEF t

LEMMA VisibleStartOK ==
  ASSUME NEW s, ScreenOK(s)
  PROVE  VisibleStart(s) \in Nat /\ VisibleStart(s) + s.rows = Len(s.lines)
<1>1. s.rows \in Nat /\ Len(s.lines) \in Nat /\ s.rows <= Len(s.lines)
  BY SizesOK DEF ScreenOK
<1>2. Len(s.lines) - s.rows \in Int /\ Len(s.lines) - s.rows >= 0 /\ 0 \in Int
  BY <1>1
<1>3. VisibleStart(s) = Len(s.lines) - s.rows
  BY <1>2, MaxTwo DEF VisibleStart
<1> QED
  BY <1>1, <1>2, <1>3

LEMMA ScrollOneKeeps ==
  ASSUME NEW s, ScreenOK(s), NEW up \in BOOLEAN
  PROVE  ScreenOK(ScrollOne(s, up)) /\ Scrolled(ScrollOne(s, up), s)
<1> DEFINE v == VisibleStart(s)
           t == RegionTop(s)
           b == RegionBottom(s)
           Removed(i) == [s EXCEPT !.lines = RemoveAt(s.lines, i)]
<1>1. ScreenFields(s) /\ s.rows <= Len(s.lines) /\ s.rows \in Nat /\ Len(s.lines) \in Nat
      /\ s.lines \in Seq(ScreenLines(s.cols))
  BY SizesOK DEF ScreenOK
<1>2. v \in Nat /\ v + s.rows = Len(s.lines)
  BY VisibleStartOK
<1>3. t \in Nat /\ t < s.rows /\ b \in Nat /\ t < b /\ b <= s.rows
  BY <1>1, RegionOK
<1> HIDE DEF v, t, b
<1>4. ASSUME NEW i \in 1..Len(s.lines), NEW pos \in Nat
      PROVE  /\ ScreenOK(InsertVisibleLine(Removed(i), pos))
             /\ Scrolled(InsertVisibleLine(Removed(i), pos), s)
  <2> DEFINE x == RemoveAt(s.lines, i)
  <2>1. x \in Seq(ScreenLines(s.cols)) /\ Len(x) = Len(s.lines) - 1
    BY <1>1, RemoveKeeps
  <2> DEFINE r == Removed(i)
  <2>2. r = [s EXCEPT !.lines = x]
    OBVIOUS
  <2> HIDE DEF x
  <2>3. ScreenFields(r) /\ Scrolled(r, s) /\ r.lines = x
    BY <1>1, <2>1, <2>2, SetLines
  <2> HIDE DEF r, Removed
  <2>4. r.rows <= Len(r.lines) + 1
    BY <1>1, <2>1, <2>3 DEF Scrolled
  <2>5. ScreenOK(InsertVisibleLine(r, pos)) /\ Scrolled(InsertVisibleLine(r, pos), r)
    BY <2>3, <2>4, InsertVisibleKeeps
  <2> QED
    BY <2>3, <2>5 DEF Scrolled, r
<1>5. CASE up /\ ~Alternate(s) /\ t = 0
  <2>1. ScrollOne(s, up) = InsertVisibleLine(s, v + b)
    BY <1>5 DEF ScrollOne, ScrollUpOne, v, t, b
  <2>2. v + b \in Nat /\ s.rows <= Len(s.lines) + 1
    BY <1>1, <1>2, <1>3
  <2> QED
    BY <1>1, <2>1, <2>2, InsertVisibleKeeps
<1>6. CASE up /\ ~(~Alternate(s) /\ t = 0)
  <2>1. ScrollOne(s, up) = InsertVisibleLine(Removed(v + t + 1), v + b - 1)
    BY <1>6 DEF ScrollOne, ScrollUpOne, v, t, b
  <2>2. v + t + 1 \in 1..Len(s.lines) /\ v + b - 1 \in Nat
    BY <1>1, <1>2, <1>3
  <2> HIDE DEF Removed
  <2> QED
    BY <1>4, <2>1, <2>2
<1>7. CASE ~up
  <2>1. ScrollOne(s, up) = InsertVisibleLine(Removed(v + b), v + t)
    BY <1>7 DEF ScrollOne, ScrollDownOne, v, t, b
  <2>2. v + b \in 1..Len(s.lines) /\ v + t \in Nat
    BY <1>1, <1>2, <1>3
  <2> HIDE DEF Removed
  <2> QED
    BY <1>4, <2>1, <2>2
<1> QED
  BY <1>5, <1>6, <1>7

(* The lines scrolled so far, one after the other. *)
ScrollSteps(u, s, up, k) ==
  u = [n \in 0..k |-> IF n = 0 THEN s ELSE ScrollOne(u[n - 1], up)]

LEMMA ScrollExists ==
  ASSUME NEW s, NEW up, NEW n \in Nat
  PROVE  \E u : ScrollSteps(u, s, up, n)
<1> DEFINE T == {k \in Nat : ~ \E u : ScrollSteps(u, s, up, k)}
<1>1. ASSUME T # {}  PROVE FALSE
  <2>1. PICK k \in T : \A j \in T : k <= j
    BY <1>1, LeastNat
  <2>2. k \in Nat /\ ~ \E u : ScrollSteps(u, s, up, k)
    BY <2>1
  <2>3. CASE k = 0
    <3> DEFINE g == [i \in 0..k |-> s]
    <3>1. g = [i \in 0..k |-> IF i = 0 THEN s ELSE ScrollOne(g[i - 1], up)]
      BY <2>3
    <3> QED
      BY <3>1, <2>2 DEF ScrollSteps
  <2>4. CASE k # 0
    <3>1. k - 1 \in Nat /\ k - 1 \notin T
      BY <2>1, <2>2, <2>4
    <3>2. PICK u : ScrollSteps(u, s, up, k - 1)
      BY <3>1
    <3> DEFINE g == [i \in 0..k |-> IF i = k THEN ScrollOne(u[k - 1], up) ELSE u[i]]
    <3>3. \A i \in 0..(k - 1) : u[i] = IF i = 0 THEN s ELSE ScrollOne(u[i - 1], up)
      BY <3>2 DEF ScrollSteps
    <3>4. ASSUME NEW i \in 0..k
          PROVE  g[i] = IF i = 0 THEN s ELSE ScrollOne(g[i - 1], up)
      <4>1. CASE i = k
        <5>1. g[k - 1] = u[k - 1]
          BY <2>2, <3>1
        <5> QED
          BY <4>1, <5>1, <2>4
      <4>2. CASE i # k /\ i = 0
        BY <4>2, <3>3, <3>1, <2>2
      <4>3. CASE i # k /\ i # 0
        <5>1. i \in 0..(k - 1) /\ i - 1 \in 0..k /\ i - 1 # k
          BY <4>3, <2>2
        <5>2. g[i] = u[i] /\ g[i - 1] = u[i - 1]
          BY <5>1, <4>3
        <5> QED
          BY <5>1, <5>2, <3>3, <4>3
      <4> QED
        BY <4>1, <4>2, <4>3
    <3>5. g = [i \in 0..k |-> IF i = 0 THEN s ELSE ScrollOne(g[i - 1], up)]
      BY <3>4
    <3>6. ScrollSteps(g, s, up, k)
      BY <3>5 DEF ScrollSteps
    <3> QED
      BY <3>6, <2>2
  <2> QED
    BY <2>3, <2>4
<1> QED
  BY <1>1

LEMMA ScrollKeeps ==
  ASSUME NEW s, ScreenOK(s), NEW up \in BOOLEAN, NEW count \in Nat
  PROVE  ScreenOK(Scroll(s, up, count)) /\ Scrolled(Scroll(s, up, count), s)
<1> DEFINE n == Min({count, RegionBottom(s) - RegionTop(s)})
           u == CHOOSE u : ScrollSteps(u, s, up, n)
<1>1. ScreenFields(s) /\ s.rows \in Nat /\ s.rows >= 1
  BY SizesOK DEF ScreenOK
<1>2. RegionTop(s) \in Nat /\ RegionBottom(s) \in Nat /\ RegionTop(s) < RegionBottom(s)
  BY <1>1, RegionOK
<1>3. n \in Nat
  <2>1. RegionBottom(s) - RegionTop(s) \in Nat
    BY <1>2
  <2> QED
    BY <2>1, MinTwo
<1>4. ScrollSteps(u, s, up, n)
  BY <1>3, ScrollExists
<1>5. Scroll(s, up, count) = [u[n] EXCEPT !.row = Min({@, s.rows - 1})]
  BY DEF Scroll, ScrollSteps
<1> HIDE DEF u, n
<1>6. \A i \in 0..n : u[i] = IF i = 0 THEN s ELSE ScrollOne(u[i - 1], up)
  BY <1>4 DEF ScrollSteps
<1> DEFINE Good(i) == ScreenOK(u[i]) /\ Scrolled(u[i], s)
           T == {i \in Nat : i <= n /\ ~Good(i)}
<1>7. ASSUME T # {}  PROVE FALSE
  <2>1. PICK k \in T : \A j \in T : k <= j
    BY <1>7, LeastNat
  <2>2. k \in Nat /\ k <= n /\ ~Good(k)
    BY <2>1
  <2>3. CASE k = 0
    <3>1. u[k] = s
      BY <1>3, <1>6, <2>3
    <3> QED
      BY <2>2, <3>1 DEF Scrolled
  <2>4. CASE k # 0
    <3>1. k - 1 \in Nat /\ k - 1 <= n /\ k - 1 \notin T
      BY <1>3, <2>1, <2>2, <2>4
    <3>2. Good(k - 1)
      BY <3>1
    <3>3. u[k] = ScrollOne(u[k - 1], up)
      BY <1>3, <1>6, <2>2, <2>4
    <3> DEFINE w == u[k - 1]
    <3>4. ScreenOK(w) /\ Scrolled(w, s)
      BY <3>2
    <3> HIDE DEF w, Good
    <3>5. ScreenOK(ScrollOne(w, up)) /\ Scrolled(ScrollOne(w, up), w)
      BY <3>4, ScrollOneKeeps
    <3>6. Good(k)
      BY <3>3, <3>4, <3>5 DEF Good, Scrolled, w
    <3> QED
      BY <2>2, <3>6
  <2> QED
    BY <2>3, <2>4
<1>8. Good(n)
  BY <1>3, <1>7
<1> DEFINE w == u[n]
<1>9. ScreenOK(w) /\ Scrolled(w, s)
  BY <1>8
<1>10. Scroll(s, up, count) = [w EXCEPT !.row = Min({w.row, s.rows - 1})]
  BY <1>5
<1> HIDE DEF w
<1>11. w.row \in Nat /\ w.row < s.rows
  BY <1>9, SizesOK DEF ScreenOK, Scrolled
<1>12. Min({w.row, s.rows - 1}) = w.row
  BY <1>1, <1>11, MinTwo
<1>13. ScreenOK([w EXCEPT !.row = w.row]) /\ Scrolled([w EXCEPT !.row = w.row], w)
  <2>1. w.row < w.rows
    BY <1>9, <1>11 DEF Scrolled
  <2> QED
    BY <1>9, <1>11, <2>1, SetRow
<1> QED
  BY <1>9, <1>10, <1>12, <1>13 DEF Scrolled

LEMMA LineIndexOK ==
  ASSUME NEW s, ScreenOK(s), NEW row \in Nat
  PROVE  LineIndex(s, row) \in 1..Len(s.lines)
<1> DEFINE m == Min({row, s.rows - 1})
           v == VisibleStart(s)
<1>1. s.rows \in Nat /\ s.rows >= 1 /\ Len(s.lines) \in Nat
  BY SizesOK DEF ScreenOK
<1>2. m = IF row <= s.rows - 1 THEN row ELSE s.rows - 1
  BY <1>1, MinTwo
<1>3. v \in Nat /\ v + s.rows = Len(s.lines)
  BY VisibleStartOK
<1>4. LineIndex(s, row) = v + m + 1
  BY DEF LineIndex
<1> HIDE DEF m, v
<1>5. m \in Nat /\ m <= s.rows - 1
  BY <1>1, <1>2
<1> QED
  BY <1>1, <1>3, <1>4, <1>5

(* One line of a screen is replaced. *)
LEMMA SetLine ==
  ASSUME NEW s, ScreenOK(s), NEW i \in 1..Len(s.lines), NEW l \in ScreenLines(s.cols)
  PROVE  ScreenOK([s EXCEPT !.lines[i] = l]) /\ Scrolled([s EXCEPT !.lines[i] = l], s)
<1> DEFINE x == [s.lines EXCEPT ![i] = l]
           r == [s EXCEPT !.lines = x]
<1>1. ScreenFields(s) /\ s.lines \in Seq(ScreenLines(s.cols))
  BY SizesOK DEF ScreenOK
<1>2. x \in Seq(ScreenLines(s.cols)) /\ Len(x) = Len(s.lines)
  BY <1>1
<1>3. [s EXCEPT !.lines[i] = l] = r
  OBVIOUS
<1> HIDE DEF x
<1>4. ScreenFields(r) /\ Scrolled(r, s) /\ r.lines = x
  BY <1>1, <1>2, SetLines
<1> HIDE DEF r
<1>5. ScreenOK(r)
  BY <1>2, <1>4 DEF ScreenOK, Scrolled
<1> QED
  BY <1>3, <1>4, <1>5

LEMMA LineOK ==
  ASSUME NEW s, ScreenOK(s), NEW i \in 1..Len(s.lines)
  PROVE  /\ s.lines[i] \in ScreenLines(s.cols)
         /\ s.lines[i].cells \in Seq(ScreenCells) /\ Len(s.lines[i].cells) = s.cols
         /\ [s.lines[i] EXCEPT !.touched = TRUE] \in ScreenLines(s.cols)
<1> DEFINE l == s.lines[i]
<1>1. l \in ScreenLines(s.cols)
  BY SizesOK DEF ScreenOK
<1> HIDE DEF l
<1>2. l.cells \in Seq(ScreenCells) /\ Len(l.cells) = s.cols /\ l \in [cells : Seq(ScreenCells), touched : BOOLEAN]
  BY <1>1 DEF ScreenLines
<1>3. [l EXCEPT !.touched = TRUE] \in [cells : Seq(ScreenCells), touched : BOOLEAN]
      /\ [l EXCEPT !.touched = TRUE].cells = l.cells
  BY <1>2
<1>4. [l EXCEPT !.touched = TRUE] \in ScreenLines(s.cols)
  BY <1>2, <1>3 DEF ScreenLines
<1> QED
  BY <1>1, <1>2, <1>4 DEF l

LEMMA LineFeedKeeps ==
  ASSUME NEW s, ScreenOK(s)
  PROVE  ScreenOK(LineFeed(s)) /\ Scrolled(LineFeed(s), s)
<1>1. s.rows \in Nat /\ s.row \in Nat /\ s.row < s.rows /\ s.bottom \in Nat
  BY SizesOK DEF ScreenOK
<1>2. CASE s.row + 1 = s.bottom \/ s.row + 1 >= s.rows
  <2>1. LineFeed(s) = Scroll(s, TRUE, 1)
    BY <1>2 DEF LineFeed, ScrollUp
  <2> QED
    BY <2>1, ScrollKeeps
<1>3. CASE ~(s.row + 1 = s.bottom \/ s.row + 1 >= s.rows)
  <2> DEFINE i == LineIndex(s, s.row + 1)
             l == [s.lines[i] EXCEPT !.touched = TRUE]
             r == [s EXCEPT !.lines[i] = l]
  <2>1. s.row + 1 \in Nat /\ s.row + 1 < s.rows
    BY <1>1, <1>3
  <2>2. i \in 1..Len(s.lines)
    BY <2>1, LineIndexOK
  <2>3. LineFeed(s) = [r EXCEPT !.row = s.row + 1]
    <3>1. s = WithBuffer(s, s)
      BY DEF ScreenOK, ScreenFields
    <3>2. LineFeed(s) = [s EXCEPT !.row = @ + 1, !.lines[i].touched = TRUE]
      BY <1>3 DEF LineFeed
    <3> HIDE DEF i
    <3> QED
      BY <3>1, <3>2 DEF WithBuffer
  <2> HIDE DEF i
  <2>4. l \in ScreenLines(s.cols)
    BY <2>2, LineOK
  <2> HIDE DEF l
  <2>5. ScreenOK(r) /\ Scrolled(r, s)
    BY <2>2, <2>4, SetLine
  <2> HIDE DEF r
  <2>6. s.row + 1 < r.rows
    BY <2>1, <2>5 DEF Scrolled
  <2>7. ScreenOK([r EXCEPT !.row = s.row + 1]) /\ Scrolled([r EXCEPT !.row = s.row + 1], r)
    BY <2>1, <2>5, <2>6, SetRow
  <2> QED
    BY <2>3, <2>5, <2>7 DEF Scrolled
<1> QED
  BY <1>2, <1>3

LEMMA ShiftedOK ==
  ASSUME NEW cs \in Seq(ScreenCells), NEW col \in Nat, col < Len(cs), NEW width \in Nat,
         NEW style \in ScreenStyles
  PROVE  Shifted(cs, col, width, style) \in Seq(ScreenCells)
         /\ Len(Shifted(cs, col, width, style)) = Len(cs)
<1> DEFINE shift == Min({width, Len(cs) - col})
           At(i) == CASE i > col + shift -> cs[i - shift]
                      [] i > col /\ i <= col + shift -> StyledBlank(style)
                      [] OTHER -> cs[i]
<1>1. Len(cs) \in Nat /\ Len(cs) - col \in Int /\ DOMAIN cs = 1..Len(cs)
  OBVIOUS
<1>2. shift = IF width <= Len(cs) - col THEN width ELSE Len(cs) - col
  BY <1>1, MinTwo
<1>3. Shifted(cs, col, width, style) = [i \in 1..Len(cs) |-> At(i)]
  BY <1>1 DEF Shifted
<1> HIDE DEF shift
<1>4. shift \in Nat
  <2>1. Len(cs) - col \in Nat
    BY <1>1
  <2> QED
    BY <1>2, <2>1
<1>5. StyledBlank(style) \in ScreenCells
  BY DEF StyledBlank, Cell, ScreenCells
<1>6. ASSUME NEW i \in 1..Len(cs)  PROVE At(i) \in ScreenCells
  <2>1. CASE i > col + shift
    <3>1. i - shift \in 1..Len(cs)
      BY <1>1, <1>4, <2>1
    <3>2. cs[i - shift] \in ScreenCells
      BY <3>1
    <3>3. At(i) = cs[i - shift]
      BY <1>1, <1>4, <2>1
    <3> QED
      BY <3>2, <3>3
  <2>2. CASE i > col /\ i <= col + shift
    <3>1. ~(i > col + shift)
      BY <1>1, <1>4, <2>2
    <3>2. At(i) = StyledBlank(style)
      BY <2>2, <3>1
    <3> QED
      BY <1>5, <3>2
  <2>3. CASE ~(i > col + shift) /\ ~(i > col /\ i <= col + shift)
    <3>1. At(i) = cs[i]
      BY <2>3
    <3> QED
      BY <3>1
  <2> QED
    BY <2>1, <2>2, <2>3
<1> HIDE DEF At
<1>7. [i \in 1..Len(cs) |-> At(i)] \in Seq(ScreenCells) /\ Len([i \in 1..Len(cs) |-> At(i)]) = Len(cs)
  BY <1>1, <1>6
<1> QED
  BY <1>3, <1>7

LEMMA WrittenOK ==
  ASSUME NEW cs \in Seq(ScreenCells), NEW col \in Nat, NEW ch \in {"a", "w"},
         NEW style \in ScreenStyles
  PROVE  Written(cs, col, ch, style) \in Seq(ScreenCells)
         /\ Len(Written(cs, col, ch, style)) = Len(cs)
<1> DEFINE At(i) == CASE i = col + 1 -> Cell(ch, style)
                      [] i > col + 1 /\ i <= col + Width(ch) -> Continuation(style)
                      [] OTHER -> cs[i]
<1>1. Len(cs) \in Nat /\ DOMAIN cs = 1..Len(cs)
  OBVIOUS
<1>2. Written(cs, col, ch, style) = [i \in 1..Len(cs) |-> At(i)]
  BY <1>1 DEF Written
<1>3. Cell(ch, style) \in ScreenCells /\ Continuation(style) \in ScreenCells
  BY DEF Continuation, Cell, ScreenCells
<1>4. ASSUME NEW i \in 1..Len(cs)  PROVE At(i) \in ScreenCells
  <2> DEFINE w == Width(ch)
  <2> HIDE DEF w
  <2>1. CASE i = col + 1
    BY <1>3, <2>1
  <2>2. CASE i > col + 1 /\ i <= col + w
    <3>1. i # col + 1
      BY <2>2
    <3>2. At(i) = Continuation(style)
      BY <2>2, <3>1 DEF w
    <3> QED
      BY <1>3, <3>2
  <2>3. CASE i # col + 1 /\ ~(i > col + 1 /\ i <= col + w)
    <3>1. At(i) = cs[i]
      BY <2>3 DEF w
    <3> QED
      BY <3>1
  <2> QED
    BY <2>1, <2>2, <2>3
<1> HIDE DEF At
<1>5. [i \in 1..Len(cs) |-> At(i)] \in Seq(ScreenCells) /\ Len([i \in 1..Len(cs) |-> At(i)]) = Len(cs)
  BY <1>1, <1>4
<1> QED
  BY <1>2, <1>5

(* A character is placed inside the columns; a wide one on a screen of one *)
(* column sticks out by one.                                               *)
LEMMA PlacedKeeps ==
  ASSUME NEW s, ScreenOK(s), NEW width \in {1, 2}
  PROVE  /\ ScreenOK(PlacedFor(s, width)) /\ SameSize(PlacedFor(s, width), s)
         /\ PlacedFor(s, width).col < s.cols /\ PlacedFor(s, width).col + width <= s.cols + 1
<1>1. s.cols \in Nat /\ s.cols >= 1 /\ s.col \in Nat /\ 0 <= s.cols + 1 /\ width \in Nat
  BY SizesOK DEF ScreenOK
<1>2. CASE s.col < s.cols /\ (width > 1 => s.col + width <= s.cols)
  <2>1. PlacedFor(s, width) = s
    BY <1>2 DEF PlacedFor
  <2>2. s.col < s.cols /\ s.col + width <= s.cols + 1
    BY <1>1, <1>2
  <2> QED
    BY <2>1, <2>2 DEF SameSize
<1>3. CASE ~(s.col < s.cols /\ (width > 1 => s.col + width <= s.cols)) /\ "wrap" \in s.modes
  <2> DEFINE r == [s EXCEPT !.col = 0]
             p == LineFeed(r)
  <2>1. PlacedFor(s, width) = p
    BY <1>3 DEF PlacedFor
  <2>2. ScreenOK(r) /\ SameSize(r, s)
    BY <1>1, SetCol
  <2>3. r.col = 0
    BY DEF ScreenOK, ScreenFields, WithBuffer
  <2> HIDE DEF r
  <2>4. ScreenOK(p) /\ Scrolled(p, r)
    BY <2>2, LineFeedKeeps
  <2> HIDE DEF p
  <2>5. p.col = 0 /\ SameSize(p, s)
    BY <2>2, <2>3, <2>4 DEF Scrolled, SameSize
  <2>6. p.col < s.cols /\ p.col + width <= s.cols + 1
    BY <1>1, <2>5
  <2> QED
    BY <2>1, <2>4, <2>5, <2>6
<1>4. CASE ~(s.col < s.cols /\ (width > 1 => s.col + width <= s.cols)) /\ "wrap" \notin s.modes
  <2> DEFINE c == s.cols - Min({width, s.cols})
             r == [s EXCEPT !.col = c]
  <2>1. PlacedFor(s, width) = r
    BY <1>4 DEF PlacedFor
  <2>2. Min({width, s.cols}) = IF width <= s.cols THEN width ELSE s.cols
    BY <1>1, MinTwo
  <2>3. c \in Nat /\ c < s.cols /\ c + width <= s.cols + 1 /\ c <= s.cols + 1
    BY <1>1, <2>2
  <2> HIDE DEF c
  <2>4. ScreenOK(r) /\ SameSize(r, s)
    BY <2>3, SetCol
  <2>5. r.col = c
    BY DEF ScreenOK, ScreenFields, WithBuffer
  <2> QED
    BY <2>1, <2>3, <2>4, <2>5
<1> QED
  BY <1>2, <1>3, <1>4

LEMMA PrintAtKeeps ==
  ASSUME NEW s, ScreenOK(s), NEW ch \in {"a", "w"}, s.col < s.cols,
         s.col + Width(ch) <= s.cols + 1
  PROVE  ScreenOK(PrintPlaced(s, ch)) /\ SameSize(PrintPlaced(s, ch), s)
<1> DEFINE i == LineIndex(s, s.row)
           width == Width(ch)
           old == s.lines[i].cells
           shifted == IF "insert" \in s.modes THEN Shifted(old, s.col, width, s.style) ELSE old
           cs == Written(shifted, s.col, ch, s.style)
           l == [cells |-> cs, touched |-> TRUE]
           c == IF "wrap" \in s.modes THEN s.col + width ELSE Min({s.col + width, s.cols - 1})
           r == [s EXCEPT !.lines[i] = l]
<1>1. s.cols \in Nat /\ s.cols >= 1 /\ s.col \in Nat /\ s.row \in Nat /\ s.style \in ScreenStyles
  BY SizesOK DEF ScreenOK
<1>2. width \in {1, 2}
  BY DEF Width
<1>3. i \in 1..Len(s.lines)
  BY <1>1, LineIndexOK
<1>4. s = WithBuffer(s, s)
  BY DEF ScreenOK, ScreenFields
<1>5. PrintPlaced(s, ch) = [r EXCEPT !.col = c]
  <2>1. PrintPlaced(s, ch) = [s EXCEPT !.lines[i] = l, !.col = c]
    BY DEF PrintPlaced, PrintAt
  <2> HIDE DEF i, l, c
  <2> QED
    BY <1>4, <2>1 DEF WithBuffer
<1> HIDE DEF i, width
<1>6. old \in Seq(ScreenCells) /\ Len(old) = s.cols
  BY <1>3, LineOK
<1> HIDE DEF old
<1>7. shifted \in Seq(ScreenCells) /\ Len(shifted) = s.cols
  <2>1. Shifted(old, s.col, width, s.style) \in Seq(ScreenCells)
        /\ Len(Shifted(old, s.col, width, s.style)) = Len(old)
    BY <1>1, <1>2, <1>6, ShiftedOK
  <2> QED
    BY <1>6, <2>1
<1> HIDE DEF shifted
<1>8. cs \in Seq(ScreenCells) /\ Len(cs) = s.cols
  BY <1>1, <1>7, WrittenOK
<1> HIDE DEF cs
<1>9. l \in ScreenLines(s.cols)
  BY <1>8 DEF ScreenLines
<1> HIDE DEF l
<1>10. ScreenOK(r) /\ Scrolled(r, s)
  BY <1>3, <1>9, SetLine
<1> HIDE DEF r
<1>11. c \in Nat /\ c <= s.cols + 1
  <2>1. s.col + width \in Nat /\ s.col + width <= s.cols + 1
    BY <1>1, <1>2 DEF width
  <2>2. Min({s.col + width, s.cols - 1})
          = IF s.col + width <= s.cols - 1 THEN s.col + width ELSE s.cols - 1
    BY <1>1, <2>1, MinTwo
  <2> QED
    BY <1>1, <2>1, <2>2
<1> HIDE DEF c
<1>12. c <= r.cols + 1
  BY <1>10, <1>11 DEF Scrolled
<1>13. ScreenOK([r EXCEPT !.col = c]) /\ SameSize([r EXCEPT !.col = c], r)
  BY <1>10, <1>11, <1>12, SetCol
<1> QED
  BY <1>5, <1>10, <1>13 DEF Scrolled, SameSize

LEMMA PrintCharKeeps ==
  ASSUME NEW s, ScreenOK(s), NEW ch \in {"a", "w"}
  PROVE  ScreenOK(PrintChar(s, ch)) /\ SameSize(PrintChar(s, ch), s)
<1> DEFINE p == PlacedFor(s, Width(ch))
<1>1. Width(ch) \in {1, 2}
  BY DEF Width
<1>2. ScreenOK(p) /\ SameSize(p, s) /\ p.col < s.cols /\ p.col + Width(ch) <= s.cols + 1
  BY <1>1, PlacedKeeps
<1>3. PrintChar(s, ch) = PrintPlaced(p, ch)
  BY DEF PrintChar
<1> HIDE DEF p
<1>4. p.col < p.cols /\ p.col + Width(ch) <= p.cols + 1
  BY <1>2 DEF SameSize
<1>5. ScreenOK(PrintPlaced(p, ch)) /\ SameSize(PrintPlaced(p, ch), p)
  BY <1>2, <1>4, PrintAtKeeps
<1> QED
  BY <1>2, <1>3, <1>5 DEF SameSize

(* A cursor is clipped to the rows and the columns. *)
LEMMA Clipped ==
  ASSUME NEW n \in Nat, NEW bound \in Nat, bound >= 1
  PROVE  Min({n, bound - 1}) \in Nat /\ Min({n, bound - 1}) < bound /\ Min({n, bound - 1}) <= bound + 1
<1>1. Min({n, bound - 1}) = IF n <= bound - 1 THEN n ELSE bound - 1
  BY MinTwo
<1> QED
  BY <1>1

LEMMA CursorKeeps ==
  ASSUME NEW s, ScreenOK(s), NEW x \in Nat, x < s.rows, NEW y \in Nat, y <= s.cols + 1
  PROVE  /\ ScreenOK([s EXCEPT !.row = x, !.col = y])
         /\ SameSize([s EXCEPT !.row = x, !.col = y], s)
<1> DEFINE r == [s EXCEPT !.row = x]
<1>1. s = WithBuffer(s, s)
  BY DEF ScreenOK, ScreenFields
<1>2. [s EXCEPT !.row = x, !.col = y] = [r EXCEPT !.col = y]
  BY <1>1 DEF WithBuffer
<1>3. ScreenOK(r) /\ Scrolled(r, s)
  BY SetRow
<1> HIDE DEF r
<1>4. y <= r.cols + 1
  BY <1>3 DEF Scrolled
<1>5. ScreenOK([r EXCEPT !.col = y]) /\ SameSize([r EXCEPT !.col = y], r)
  BY <1>3, <1>4, SetCol
<1> QED
  BY <1>2, <1>3, <1>5 DEF Scrolled, SameSize

LEMMA ClearedOK ==
  ASSUME NEW cols \in Nat, NEW l \in ScreenLines(cols), NEW from, NEW to,
         NEW style \in ScreenStyles
  PROVE  Cleared(l, from, to, style) \in ScreenLines(cols)
<1> DEFINE At(i) == IF i > from /\ i <= to + 1 THEN StyledBlank(style) ELSE l.cells[i]
           cs == [i \in 1..cols |-> At(i)]
<1>1. l.cells \in Seq(ScreenCells) /\ Len(l.cells) = cols
  BY DEF ScreenLines
<1>2. StyledBlank(style) \in ScreenCells
  BY DEF StyledBlank, Cell, ScreenCells
<1>3. Cleared(l, from, to, style) = [cells |-> cs, touched |-> TRUE]
  <2>1. DOMAIN l.cells = 1..cols
    BY <1>1
  <2> QED
    BY <2>1 DEF Cleared
<1>4. ASSUME NEW i \in 1..cols  PROVE At(i) \in ScreenCells
  BY <1>1, <1>2
<1> HIDE DEF At
<1>5. cs \in Seq(ScreenCells) /\ Len(cs) = cols
  BY <1>4
<1> HIDE DEF cs
<1> QED
  BY <1>3, <1>5 DEF ScreenLines

LEMMA ClearCellsKeeps ==
  ASSUME NEW s, ScreenOK(s), NEW row \in Nat, NEW from, NEW to
  PROVE  /\ ScreenOK(ClearCells(s, row, from, to)) /\ Scrolled(ClearCells(s, row, from, to), s)
<1> DEFINE i == LineIndex(s, row)
           l == Cleared(s.lines[i], from, to, s.style)
<1>1. s.cols \in Nat /\ s.style \in ScreenStyles
  BY SizesOK DEF ScreenOK
<1>2. i \in 1..Len(s.lines)
  BY LineIndexOK
<1>3. ClearCells(s, row, from, to) = [s EXCEPT !.lines[i] = l]
  BY DEF ClearCells
<1> HIDE DEF i
<1>4. s.lines[i] \in ScreenLines(s.cols)
  BY <1>2, LineOK
<1>5. l \in ScreenLines(s.cols)
  BY <1>1, <1>4, ClearedOK
<1> DEFINE r == [s EXCEPT !.lines[i] = l]
<1> HIDE DEF l
<1>6. ScreenOK(r) /\ Scrolled(r, s)
  BY <1>2, <1>5, SetLine
<1> QED
  BY <1>3, <1>6

LEMMA ClearRowsKeeps ==
  ASSUME NEW s, ScreenOK(s), NEW which
  PROVE  ScreenOK(ClearRows(s, which)) /\ Scrolled(ClearRows(s, which), s)
<1> DEFINE At(i) == IF \E row \in which : i = LineIndex(s, row)
                    THEN Cleared(s.lines[i], 0, s.cols - 1, s.style) ELSE s.lines[i]
           x == [i \in 1..Len(s.lines) |-> At(i)]
           r == [s EXCEPT !.lines = x]
<1>1. ScreenFields(s) /\ s.cols \in Nat /\ s.style \in ScreenStyles /\ Len(s.lines) \in Nat
      /\ s.lines \in Seq(ScreenLines(s.cols))
  BY SizesOK DEF ScreenOK
<1>2. ClearRows(s, which) = r
  BY <1>1 DEF ClearRows
<1>3. ASSUME NEW i \in 1..Len(s.lines)  PROVE At(i) \in ScreenLines(s.cols)
  <2>1. s.lines[i] \in ScreenLines(s.cols)
    BY LineOK
  <2>2. Cleared(s.lines[i], 0, s.cols - 1, s.style) \in ScreenLines(s.cols)
    BY <1>1, <2>1, ClearedOK
  <2> QED
    BY <2>1, <2>2
<1> HIDE DEF At
<1>4. x \in Seq(ScreenLines(s.cols)) /\ Len(x) = Len(s.lines)
  BY <1>1, <1>3
<1> HIDE DEF x
<1>5. ScreenFields(r) /\ Scrolled(r, s) /\ r.lines = x
  BY <1>1, <1>4, SetLines
<1> HIDE DEF r
<1>6. ScreenOK(r)
  BY <1>4, <1>5 DEF ScreenOK, Scrolled
<1> QED
  BY <1>2, <1>5, <1>6

LEMMA EraseLineKeeps ==
  ASSUME NEW s, ScreenOK(s), NEW mode \in 0..2
  PROVE  ScreenOK(EraseLine(s, mode)) /\ SameSize(EraseLine(s, mode), s)
<1> DEFINE c == Min({s.col, s.cols - 1})
<1>1. s.cols \in Nat /\ s.cols >= 1 /\ s.col \in Nat /\ s.row \in Nat
  BY SizesOK DEF ScreenOK
<1>2. c \in Nat /\ c <= s.cols + 1
  BY <1>1, Clipped
<1>3. \/ \E from, to : EraseLine(s, mode) = [ClearCells(s, s.row, from, to) EXCEPT !.col = c]
      \/ \E from, to : EraseLine(s, mode) = ClearCells(s, s.row, from, to)
  <2>1. CASE mode = 0
    <3>1. EraseLine(s, mode) = [ClearCells(s, s.row, s.col, s.cols - 1) EXCEPT !.col = c]
      BY <2>1 DEF EraseLine
    <3> QED
      BY <3>1
  <2>2. CASE mode = 1
    <3>1. EraseLine(s, mode) = [ClearCells(s, s.row, 0, c) EXCEPT !.col = c]
      BY <2>2 DEF EraseLine
    <3> QED
      BY <3>1
  <2>3. CASE mode = 2
    <3>1. EraseLine(s, mode) = ClearCells(s, s.row, 0, s.cols - 1)
      BY <2>3 DEF EraseLine
    <3> QED
      BY <3>1
  <2> QED
    BY <2>1, <2>2, <2>3
<1> HIDE DEF c
<1>4. ASSUME NEW from, NEW to
      PROVE  /\ ScreenOK(ClearCells(s, s.row, from, to))
             /\ SameSize(ClearCells(s, s.row, from, to), s)
             /\ ScreenOK([ClearCells(s, s.row, from, to) EXCEPT !.col = c])
             /\ SameSize([ClearCells(s, s.row, from, to) EXCEPT !.col = c], s)
  <2> DEFINE r == ClearCells(s, s.row, from, to)
  <2>1. ScreenOK(r) /\ Scrolled(r, s)
    BY <1>1, ClearCellsKeeps
  <2> HIDE DEF r
  <2>2. c <= r.cols + 1
    BY <1>2, <2>1 DEF Scrolled
  <2>3. ScreenOK([r EXCEPT !.col = c]) /\ SameSize([r EXCEPT !.col = c], r)
    BY <1>2, <2>1, <2>2, SetCol
  <2>4. ScreenOK(r) /\ SameSize(r, s) /\ ScreenOK([r EXCEPT !.col = c]) /\ SameSize([r EXCEPT !.col = c], s)
    BY <2>1, <2>3 DEF Scrolled, SameSize
  <2> QED
    BY <2>4 DEF r
<1>5. CASE \E from, to : EraseLine(s, mode) = [ClearCells(s, s.row, from, to) EXCEPT !.col = c]
  <2>1. PICK from, to : EraseLine(s, mode) = [ClearCells(s, s.row, from, to) EXCEPT !.col = c]
    BY <1>5
  <2> DEFINE r == [ClearCells(s, s.row, from, to) EXCEPT !.col = c]
  <2>2. ScreenOK(r) /\ SameSize(r, s)
    BY <1>4
  <2> HIDE DEF r
  <2> QED
    BY <2>1, <2>2 DEF r
<1>6. CASE \E from, to : EraseLine(s, mode) = ClearCells(s, s.row, from, to)
  BY <1>4, <1>6
<1> QED
  BY <1>3, <1>5, <1>6

(* The whole buffer is replaced by blank lines. *)
LEMMA BlankedKeeps ==
  ASSUME NEW s, ScreenOK(s), NEW b \in Seq(ScreenLines(s.cols)), Len(b) = s.rows,
         NEW x \in Nat, x < s.rows, NEW y \in Nat, y <= s.cols + 1,
         NEW q, q = [s EXCEPT !.lines = b, !.row = x, !.col = y]
  PROVE  ScreenOK(q) /\ SameSize(q, s)
<1> DEFINE r == [s EXCEPT !.lines = b]
<1>1. s = WithBuffer(s, s) /\ ScreenFields(s)
  BY DEF ScreenOK, ScreenFields
<1>2. s.rows \in Nat /\ s.cols \in Nat /\ s.max \in Nat /\ s.rows <= s.max
  BY <1>1, SizesOK
<1>3. q = [r EXCEPT !.row = x, !.col = y]
  BY <1>1 DEF WithBuffer
<1>4. ScreenFields(r) /\ Scrolled(r, s) /\ r.lines = b
  BY <1>1, SetLines
<1> HIDE DEF r
<1>5. ScreenOK(r) /\ x < r.rows /\ y <= r.cols + 1
  BY <1>2, <1>4 DEF ScreenOK, Scrolled
<1>6. ScreenOK([r EXCEPT !.row = x, !.col = y]) /\ SameSize([r EXCEPT !.row = x, !.col = y], r)
  BY <1>5, CursorKeeps
<1>7. SameSize([r EXCEPT !.row = x, !.col = y], s)
  BY <1>4, <1>6 DEF Scrolled, SameSize
<1> QED
  BY <1>3, <1>6, <1>7

LEMMA BlankScreenKeeps ==
  ASSUME NEW s, ScreenOK(s)
  PROVE  /\ ScreenOK(ClearScreenAndScrollback(s)) /\ SameSize(ClearScreenAndScrollback(s), s)
         /\ ScreenOK(ClearCachedLines(s)) /\ SameSize(ClearCachedLines(s), s)
<1> DEFINE x == Min({s.row, s.rows - 1})
           y == Min({s.col, s.cols - 1})
           b == BlankLines(s.rows, s.cols, s.style, TRUE)
           d == BlankLines(s.rows, s.cols, s.style, FALSE)
<1>1. /\ s.rows \in Nat /\ s.rows >= 1 /\ s.cols \in Nat /\ s.cols >= 1 /\ s.row \in Nat
      /\ s.col \in Nat /\ 0 < s.rows /\ 0 <= s.cols + 1 /\ s.style \in ScreenStyles
  BY SizesOK DEF ScreenOK
<1>2. x \in Nat /\ x < s.rows /\ y \in Nat /\ y <= s.cols + 1
  BY <1>1, Clipped
<1>3. /\ b \in Seq(ScreenLines(s.cols)) /\ Len(b) = s.rows
      /\ d \in Seq(ScreenLines(s.cols)) /\ Len(d) = s.rows
  BY <1>1, BlankLinesOK
<1>4. ClearScreenAndScrollback(s) = [s EXCEPT !.lines = b, !.row = x, !.col = y]
  BY DEF ClearScreenAndScrollback
<1>5. ClearCachedLines(s) = [s EXCEPT !.lines = d, !.row = 0, !.col = 0]
  BY DEF ClearCachedLines
<1> HIDE DEF x, y, b, d
<1>6. ScreenOK(ClearScreenAndScrollback(s)) /\ SameSize(ClearScreenAndScrollback(s), s)
  BY <1>2, <1>3, <1>4, BlankedKeeps
<1>7. ScreenOK(ClearCachedLines(s)) /\ SameSize(ClearCachedLines(s), s)
  BY <1>1, <1>3, <1>5, BlankedKeeps
<1> QED
  BY <1>6, <1>7

LEMMA EraseDisplayKeeps ==
  ASSUME NEW s, ScreenOK(s), NEW mode \in 0..3
  PROVE  ScreenOK(EraseDisplay(s, mode)) /\ SameSize(EraseDisplay(s, mode), s)
<1>1. CASE mode = 0
  <2> DEFINE r == EraseLine(s, 0)
             which == (s.row + 1)..(s.rows - 1)
  <2>1. EraseDisplay(s, mode) = ClearRows(r, which)
    BY <1>1 DEF EraseDisplay
  <2>2. ScreenOK(r) /\ SameSize(r, s)
    BY EraseLineKeeps
  <2> HIDE DEF r, which
  <2>3. ScreenOK(ClearRows(r, which)) /\ Scrolled(ClearRows(r, which), r)
    BY <2>2, ClearRowsKeeps
  <2> QED
    BY <2>1, <2>2, <2>3 DEF Scrolled, SameSize
<1>2. CASE mode = 1
  <2> DEFINE which == 0..(s.row - 1)
             r == ClearRows(s, which)
  <2>1. EraseDisplay(s, mode) = EraseLine(r, 1)
    BY <1>2 DEF EraseDisplay
  <2> HIDE DEF which
  <2>2. ScreenOK(r) /\ Scrolled(r, s)
    BY ClearRowsKeeps
  <2> HIDE DEF r
  <2>3. ScreenOK(EraseLine(r, 1)) /\ SameSize(EraseLine(r, 1), r)
    BY <2>2, EraseLineKeeps
  <2> QED
    BY <2>1, <2>2, <2>3 DEF Scrolled, SameSize
<1>3. CASE mode = 2
  <2> DEFINE which == 0..(s.rows - 1)
             r == ClearRows(s, which)
  <2>1. EraseDisplay(s, mode) = IF s.cut THEN ClearScreenAndScrollback(s) ELSE r
    BY <1>3 DEF EraseDisplay, ClearScreen
  <2> HIDE DEF which
  <2>2. ScreenOK(r) /\ Scrolled(r, s)
    BY ClearRowsKeeps
  <2> HIDE DEF r
  <2> QED
    BY <2>1, <2>2, BlankScreenKeeps DEF Scrolled, SameSize
<1>4. CASE mode = 3
  <2>1. EraseDisplay(s, mode) = ClearCachedLines(s)
    BY <1>4 DEF EraseDisplay
  <2> QED
    BY <2>1, BlankScreenKeeps
<1> QED
  BY <1>1, <1>2, <1>3, <1>4

(* A screen put together from its sizes, its parser and a buffer. *)
LEMMA Assembled ==
  ASSUME NEW s, NEW b,
         s.rows \in Nat \ {0}, s.cols \in Nat \ {0}, s.max \in Nat, s.rows <= s.max,
         s.normal # <<>> => s.normal = <<s.normal[1]>>
                            /\ BufferOK(s.normal[1], s.rows, s.cols, s.max),
         s.half \in {"none", "control", "utf8"}, s.cut \in BOOLEAN,
         BufferFields(b, s.rows, s.cols), s.rows <= Len(b.lines), Len(b.lines) <= s.max
  PROVE  ScreenOK(WithBuffer(s, b)) /\ SameSize(WithBuffer(s, b), s)
<1> DEFINE r == WithBuffer(s, b)
<1>1. /\ r.lines = b.lines /\ r.row = b.row /\ r.col = b.col /\ r.saved = b.saved
      /\ r.style = b.style /\ r.modes = b.modes /\ r.top = b.top /\ r.bottom = b.bottom
      /\ r.rows = s.rows /\ r.cols = s.cols /\ r.max = s.max /\ r.normal = s.normal
      /\ r.half = s.half /\ r.cut = s.cut
  BY DEF WithBuffer
<1>2. r = WithBuffer(r, r)
  BY DEF WithBuffer
<1> HIDE DEF r
<1>3. BufferFields(r, r.rows, r.cols)
  BY <1>1 DEF BufferFields
<1>4. ScreenFields(r)
  BY <1>1, <1>2, <1>3 DEF ScreenFields
<1>5. ScreenOK(r)
  BY <1>1, <1>4 DEF ScreenOK
<1> QED
  BY <1>1, <1>5 DEF r, SameSize

LEMMA NewBufferOK ==
  ASSUME NEW rows \in Nat \ {0}, NEW cols \in Nat
  PROVE  /\ BufferFields(Buffer(rows, cols), rows, cols)
         /\ Len(Buffer(rows, cols).lines) = rows
<1> DEFINE b == Buffer(rows, cols)
           l == BlankLines(rows, cols, Plain, FALSE)
<1>1. Plain \in ScreenStyles /\ DefaultModes \subseteq ScreenModes
  BY DEF Plain, ScreenStyles, DefaultModes, ScreenModes
<1>2. l \in Seq(ScreenLines(cols)) /\ Len(l) = rows
  BY <1>1, BlankLinesOK
<1>3. /\ b.lines = l /\ b.row = 0 /\ b.col = 0 /\ b.saved = <<>> /\ b.style = Plain
      /\ b.modes = DefaultModes /\ b.top = 0 /\ b.bottom = rows
  BY DEF Buffer
<1> HIDE DEF b, l
<1>4. 0 \in Nat /\ 0 < rows /\ 0 <= cols + 1 /\ rows \in Nat /\ rows <= rows
  OBVIOUS
<1> QED
  BY <1>1, <1>2, <1>3, <1>4 DEF BufferFields, b

LEMMA OwnBufferOK ==
  ASSUME NEW s, ScreenOK(s)
  PROVE  BufferOK(BufferOf(s), s.rows, s.cols, s.max)
<1> DEFINE b == BufferOf(s)
<1>1. /\ b.lines = s.lines /\ b.row = s.row /\ b.col = s.col /\ b.saved = s.saved
      /\ b.style = s.style /\ b.modes = s.modes /\ b.top = s.top /\ b.bottom = s.bottom
  BY DEF BufferOf
<1>2. b = BufferOf(b)
  BY DEF BufferOf
<1> HIDE DEF b
<1>3. BufferFields(b, s.rows, s.cols)
  BY <1>1 DEF ScreenOK, ScreenFields, BufferFields
<1>4. BufferOK(b, s.rows, s.cols, s.max)
  BY <1>1, <1>2, <1>3 DEF ScreenOK, BufferOK
<1> QED
  BY <1>4 DEF b

LEMMA NewScreenOK ==
  ASSUME NEW rows \in Nat \ {0}, NEW cols \in Nat \ {0}
  PROVE  ScreenOK(NewScreen(rows, cols))
<1> DEFINE m == Max({MaxCached, rows})
           s == [rows |-> rows, cols |-> cols, max |-> m, normal |-> <<>>, half |-> "none", cut |-> FALSE]
           b == Buffer(rows, cols)
<1>1. m = IF MaxCached >= rows THEN MaxCached ELSE rows
  BY ScreenAssumption, MaxTwo
<1>2. NewScreen(rows, cols) = WithBuffer(s, b)
  BY DEF NewScreen
<1> HIDE DEF m
<1>3. m \in Nat /\ rows <= m
  BY <1>1, ScreenAssumption
<1>4. BufferFields(b, rows, cols) /\ Len(b.lines) = rows
  BY NewBufferOK
<1>5. s.rows = rows /\ s.cols = cols /\ s.max = m /\ s.normal = <<>> /\ s.half = "none" /\ s.cut = FALSE
  OBVIOUS
<1> HIDE DEF s, b
<1>6. /\ s.rows \in Nat \ {0} /\ s.cols \in Nat \ {0} /\ s.max \in Nat /\ s.rows <= s.max
      /\ s.normal = <<>> /\ s.half \in {"none", "control", "utf8"}
  BY <1>3, <1>5
<1>7. s.cut \in BOOLEAN
  BY <1>5
<1>8. BufferFields(b, s.rows, s.cols) /\ s.rows <= Len(b.lines) /\ Len(b.lines) <= s.max
  BY <1>3, <1>4, <1>5
<1> QED
  BY <1>2, <1>6, <1>7, <1>8, Assembled

(* What a screen keeps when its buffer is replaced. *)
LEMMA FrameOK ==
  ASSUME NEW s, ScreenOK(s)
  PROVE  /\ s.rows \in Nat \ {0} /\ s.cols \in Nat \ {0} /\ s.max \in Nat /\ s.rows <= s.max
         /\ s.normal # <<>> => s.normal = <<s.normal[1]>>
                               /\ BufferOK(s.normal[1], s.rows, s.cols, s.max)
         /\ s.half \in {"none", "control", "utf8"} /\ s.cut \in BOOLEAN
         /\ s = WithBuffer(s, s)
BY DEF ScreenOK, ScreenFields

LEMMA ResetBufferKeeps ==
  ASSUME NEW s, ScreenOK(s)
  PROVE  ScreenOK(ResetScreenBuffer(s)) /\ SameSize(ResetScreenBuffer(s), s)
<1> DEFINE b == Buffer(s.rows, s.cols)
<1>1. s.rows \in Nat \ {0} /\ s.cols \in Nat /\ s.rows <= s.rows /\ s.rows <= s.max
  BY FrameOK
<1>2. BufferFields(b, s.rows, s.cols) /\ Len(b.lines) = s.rows
  BY <1>1, NewBufferOK
<1>3. ResetScreenBuffer(s) = WithBuffer(s, b)
  BY DEF ResetScreenBuffer
<1> HIDE DEF b
<1>4. s.rows <= Len(b.lines) /\ Len(b.lines) <= s.max
  BY <1>1, <1>2
<1> QED
  BY <1>2, <1>3, <1>4, FrameOK, Assembled

LEMMA EnterKeeps ==
  ASSUME NEW s, ScreenOK(s)
  PROVE  ScreenOK(EnterAlternateScreen(s)) /\ SameSize(EnterAlternateScreen(s), s)
<1> DEFINE q == ResetScreenBuffer(s)
           n == IF Alternate(s) THEN s.normal ELSE <<BufferOf(s)>>
           a == [q EXCEPT !.normal = n]
<1>1. EnterAlternateScreen(s) = [q EXCEPT !.normal = n, !.style = s.style, !.modes = s.modes]
  BY DEF EnterAlternateScreen
<1>2. ScreenOK(q) /\ SameSize(q, s)
  BY ResetBufferKeeps
<1>3. s.style \in ScreenStyles /\ s.modes \in SUBSET ScreenModes
  BY SizesOK DEF ScreenOK
<1>4. n # <<>> => n = <<n[1]>> /\ BufferOK(n[1], s.rows, s.cols, s.max)
  <2>1. CASE Alternate(s)
    BY <2>1, FrameOK
  <2>2. CASE ~Alternate(s)
    <3>1. n = <<BufferOf(s)>> /\ n[1] = BufferOf(s)
      BY <2>2
    <3> QED
      BY <3>1, OwnBufferOK
  <2> QED
    BY <2>1, <2>2
<1> HIDE DEF q, n
<1>5. q = WithBuffer(q, q)
  BY <1>2, FrameOK
<1>6. /\ a.lines = q.lines /\ a.row = q.row /\ a.col = q.col /\ a.saved = q.saved
      /\ a.style = q.style /\ a.modes = q.modes /\ a.top = q.top /\ a.bottom = q.bottom
      /\ a.rows = q.rows /\ a.cols = q.cols /\ a.max = q.max /\ a.normal = n
      /\ a.half = q.half /\ a.cut = q.cut
  BY <1>5 DEF WithBuffer
<1>7. a = WithBuffer(a, q)
  BY <1>5, <1>6 DEF WithBuffer
<1>8. EnterAlternateScreen(s) = [[a EXCEPT !.style = s.style] EXCEPT !.modes = s.modes]
  BY <1>1, <1>5 DEF WithBuffer
<1> HIDE DEF a
<1>9. /\ a.rows \in Nat \ {0} /\ a.cols \in Nat \ {0} /\ a.max \in Nat /\ a.rows <= a.max
      /\ a.half \in {"none", "control", "utf8"} /\ a.cut \in BOOLEAN
      /\ BufferFields(q, a.rows, a.cols) /\ a.rows <= Len(q.lines) /\ Len(q.lines) <= a.max
  BY <1>2, <1>6 DEF ScreenOK, ScreenFields
<1>10. a.normal # <<>> => a.normal = <<a.normal[1]>>
                          /\ BufferOK(a.normal[1], a.rows, a.cols, a.max)
  BY <1>2, <1>4, <1>6 DEF SameSize
<1>11. ScreenOK(a) /\ SameSize(a, s)
  <2>1. ScreenOK(WithBuffer(a, q))
    BY <1>9, <1>10, Assembled
  <2> QED
    BY <1>2, <1>6, <1>7, <2>1 DEF SameSize
<1> DEFINE c == [a EXCEPT !.style = s.style]
<1>12. ScreenOK(c) /\ SameSize(c, a)
  BY <1>3, <1>11, SetStyle
<1> HIDE DEF c
<1>13. ScreenOK([c EXCEPT !.modes = s.modes]) /\ SameSize([c EXCEPT !.modes = s.modes], c)
  BY <1>3, <1>12, SetModes
<1> QED
  BY <1>8, <1>11, <1>12, <1>13 DEF c, SameSize

LEMMA LeaveKeeps ==
  ASSUME NEW s, ScreenOK(s)
  PROVE  ScreenOK(LeaveAlternateScreen(s)) /\ SameSize(LeaveAlternateScreen(s), s)
<1>1. CASE ~Alternate(s)
  <2>1. LeaveAlternateScreen(s) = ResetScreenBuffer(s)
    BY <1>1 DEF LeaveAlternateScreen
  <2> QED
    BY <2>1, ResetBufferKeeps
<1>2. CASE Alternate(s)
  <2> DEFINE n == s.normal[1]
             x == Min({n.row, s.rows - 1})
             y == Min({n.col, s.cols - 1})
             t == Min({n.top, s.rows - 1})
             e == Max({Min({n.bottom, s.rows}), t + 1})
             f == [s EXCEPT !.normal = <<>>]
             b == [n EXCEPT !.row = x, !.col = y, !.top = t, !.bottom = e]
  <2>1. LeaveAlternateScreen(s) = WithBuffer(f, b)
    BY <1>2 DEF LeaveAlternateScreen
  <2>2. BufferOK(n, s.rows, s.cols, s.max)
    BY <1>2, FrameOK DEF Alternate
  <2> HIDE DEF n
  <2>3. /\ n = BufferOf(n) /\ n.row \in Nat /\ n.col \in Nat /\ n.top \in Nat /\ n.bottom \in Nat
        /\ n.lines \in Seq(ScreenLines(s.cols)) /\ s.rows <= Len(n.lines) /\ Len(n.lines) <= s.max
        /\ n.style \in ScreenStyles /\ n.modes \subseteq ScreenModes
        /\ n.saved # <<>> => n.saved[1] \in Nat /\ n.saved[2] \in Nat
    BY <2>2 DEF BufferOK, BufferFields
  <2>4. s.rows \in Nat /\ s.rows >= 1 /\ s.cols \in Nat /\ s.cols >= 1
    BY FrameOK
  <2>5. x \in Nat /\ x < s.rows /\ y \in Nat /\ y <= s.cols + 1 /\ t \in Nat /\ t < s.rows
    BY <2>3, <2>4, Clipped
  <2>6. e \in Nat /\ t < e /\ e <= s.rows
    <3> DEFINE m == Min({n.bottom, s.rows})
    <3>1. m = IF n.bottom <= s.rows THEN n.bottom ELSE s.rows
      BY <2>3, <2>4, MinTwo
    <3>2. e = Max({m, t + 1})
      OBVIOUS
    <3> HIDE DEF m, t, e
    <3>3. m \in Nat /\ m <= s.rows
      BY <2>3, <2>4, <3>1
    <3>4. e = IF m >= t + 1 THEN m ELSE t + 1
      BY <2>5, <3>2, <3>3, MaxTwo
    <3> QED
      BY <2>4, <2>5, <3>3, <3>4
  <2> HIDE DEF x, y, t, e
  <2>7. /\ b.lines = n.lines /\ b.row = x /\ b.col = y /\ b.saved = n.saved /\ b.style = n.style
        /\ b.modes = n.modes /\ b.top = t /\ b.bottom = e
    BY <2>3 DEF BufferOf
  <2>8. /\ f.rows = s.rows /\ f.cols = s.cols /\ f.max = s.max /\ f.normal = <<>>
        /\ f.half = s.half /\ f.cut = s.cut
    BY FrameOK DEF WithBuffer
  <2> HIDE DEF b, f
  <2>9. BufferFields(b, f.rows, f.cols) /\ f.rows <= Len(b.lines) /\ Len(b.lines) <= f.max
    BY <2>3, <2>5, <2>6, <2>7, <2>8 DEF BufferFields
  <2>10. /\ f.rows \in Nat \ {0} /\ f.cols \in Nat \ {0} /\ f.max \in Nat /\ f.rows <= f.max
         /\ f.normal = <<>> /\ f.half \in {"none", "control", "utf8"} /\ f.cut \in BOOLEAN
    BY <2>8, FrameOK
  <2>11. ScreenOK(WithBuffer(f, b)) /\ SameSize(WithBuffer(f, b), f)
    BY <2>9, <2>10, Assembled
  <2> QED
    BY <2>1, <2>8, <2>11 DEF SameSize
<1> QED
  BY <1>1, <1>2

LEMMA ResizedLinesOK ==
  ASSUME NEW old \in Nat, NEW ls \in Seq(ScreenLines(old)), NEW rows \in Nat, NEW cols \in Nat,
         NEW keep \in Nat, rows <= keep, NEW style \in ScreenStyles
  PROVE  /\ ResizeLines(ls, rows, cols, keep, style) \in Seq(ScreenLines(cols))
         /\ rows <= Len(ResizeLines(ls, rows, cols, keep, style))
         /\ Len(ResizeLines(ls, rows, cols, keep, style)) <= keep
<1> DEFINE wide == [i \in DOMAIN ls |-> ResizeCells(ls[i], cols)]
           more == Max({rows - Len(ls), 0})
           fill == BlankLines(more, cols, style, FALSE)
           grown == wide \o fill
           r == SubSeq(grown, Max({Len(grown) - keep, 0}) + 1, Len(grown))
<1>1. Len(ls) \in Nat /\ DOMAIN ls = 1..Len(ls) /\ rows - Len(ls) \in Int /\ 0 \in Int
  OBVIOUS
<1>2. ResizeLines(ls, rows, cols, keep, style) = r
  BY DEF ResizeLines
<1>3. ASSUME NEW l \in ScreenLines(old)  PROVE ResizeCells(l, cols) \in ScreenLines(cols)
  <2> DEFINE At(i) == IF i \in DOMAIN l.cells THEN l.cells[i] ELSE StyledBlank(Plain)
             cs == [i \in 1..cols |-> At(i)]
  <2>1. /\ l \in [cells : Seq(ScreenCells), touched : BOOLEAN] /\ l.cells \in Seq(ScreenCells)
    BY DEF ScreenLines
  <2>2. StyledBlank(Plain) \in ScreenCells
    BY DEF StyledBlank, Cell, ScreenCells, Plain, ScreenStyles
  <2>3. ResizeCells(l, cols) = [l EXCEPT !.cells = cs]
    BY DEF ResizeCells
  <2>4. ASSUME NEW i \in 1..cols  PROVE At(i) \in ScreenCells
    BY <2>1, <2>2
  <2> HIDE DEF At
  <2>5. cs \in Seq(ScreenCells) /\ Len(cs) = cols
    BY <2>4
  <2> HIDE DEF cs
  <2>6. /\ [l EXCEPT !.cells = cs] \in [cells : Seq(ScreenCells), touched : BOOLEAN]
        /\ [l EXCEPT !.cells = cs].cells = cs
    BY <2>1, <2>5
  <2> QED
    BY <2>3, <2>5, <2>6 DEF ScreenLines
<1>4. wide \in Seq(ScreenLines(cols)) /\ Len(wide) = Len(ls)
  <2>1. ASSUME NEW i \in 1..Len(ls)  PROVE ResizeCells(ls[i], cols) \in ScreenLines(cols)
    BY <1>1, <1>3
  <2> QED
    BY <1>1, <2>1
<1>5. more = IF rows - Len(ls) >= 0 THEN rows - Len(ls) ELSE 0
  BY <1>1, MaxTwo
<1> HIDE DEF wide, more
<1>6. more \in Nat /\ Len(ls) + more >= rows
  BY <1>1, <1>5
<1>7. fill \in Seq(ScreenLines(cols)) /\ Len(fill) = more
  BY <1>6, BlankLinesOK
<1> HIDE DEF fill
<1>8. grown \in Seq(ScreenLines(cols)) /\ Len(grown) = Len(ls) + more
  <2>1. grown \in Seq(ScreenLines(cols)) /\ Len(grown) = Len(wide) + Len(fill)
    BY <1>4, <1>7
  <2> QED
    BY <1>4, <1>7, <2>1
<1> HIDE DEF grown
<1>9. r \in Seq(ScreenLines(cols)) /\ Len(r) = IF Len(grown) <= keep THEN Len(grown) ELSE keep
  BY <1>8, LastLines
<1> HIDE DEF r
<1>10. rows <= Len(r) /\ Len(r) <= keep
  BY <1>1, <1>6, <1>8, <1>9
<1> QED
  BY <1>2, <1>9, <1>10

LEMMA ResizedBufferOK ==
  ASSUME NEW b, NEW old \in Nat, NEW oldCols \in Nat, b = BufferOf(b), BufferFields(b, old, oldCols),
         NEW rows \in Nat \ {0}, NEW cols \in Nat \ {0}, NEW keep \in Nat, rows <= keep,
         NEW style \in ScreenStyles
  PROVE  BufferOK(ResizeBuffer(b, old, rows, cols, keep, style), rows, cols, keep)
<1> DEFINE whole == b.top = 0 /\ b.bottom = old
           t == IF whole THEN 0 ELSE Min({b.top, rows - 1})
           e == IF whole THEN rows ELSE Max({Min({b.bottom, rows}), t + 1})
           ls == ResizeLines(b.lines, rows, cols, keep, style)
           x == Min({b.row, rows - 1})
           y == Min({b.col, cols - 1})
           r == [b EXCEPT !.lines = ls, !.row = x, !.col = y, !.top = t, !.bottom = e]
<1>1. ResizeBuffer(b, old, rows, cols, keep, style) = r
  BY DEF ResizeBuffer
<1>2. /\ b.row \in Nat /\ b.col \in Nat /\ b.top \in Nat /\ b.bottom \in Nat
      /\ b.lines \in Seq(ScreenLines(oldCols)) /\ b.style \in ScreenStyles
      /\ b.modes \subseteq ScreenModes
      /\ b.saved # <<>> => b.saved[1] \in Nat /\ b.saved[2] \in Nat
  BY DEF BufferFields
<1>3. rows \in Nat /\ rows >= 1 /\ cols \in Nat /\ cols >= 1
  OBVIOUS
<1>4. ls \in Seq(ScreenLines(cols)) /\ rows <= Len(ls) /\ Len(ls) <= keep
  BY <1>2, <1>3, ResizedLinesOK
<1>5. x \in Nat /\ x < rows /\ y \in Nat /\ y <= cols + 1
  BY <1>2, <1>3, Clipped
<1>6. t \in Nat /\ t < rows
  <2>1. Min({b.top, rows - 1}) \in Nat /\ Min({b.top, rows - 1}) < rows
    BY <1>2, <1>3, Clipped
  <2> QED
    BY <1>3, <2>1
<1>7. e \in Nat /\ t < e /\ e <= rows
  <2> DEFINE m == Min({b.bottom, rows})
             d == Max({m, t + 1})
  <2>1. m = IF b.bottom <= rows THEN b.bottom ELSE rows
    BY <1>2, <1>3, MinTwo
  <2>2. e = IF whole THEN rows ELSE d
    OBVIOUS
  <2> HIDE DEF m, t, whole, e
  <2>3. m \in Nat /\ m <= rows
    BY <1>2, <1>3, <2>1
  <2>4. d = IF m >= t + 1 THEN m ELSE t + 1
    BY <1>6, <2>3, MaxTwo
  <2> HIDE DEF d
  <2>5. d \in Nat /\ t < d /\ d <= rows
    BY <1>3, <1>6, <2>3, <2>4
  <2> QED
    BY <1>3, <1>6, <2>2, <2>5
<1> HIDE DEF whole, t, e, ls, x, y
<1>8. /\ r.lines = ls /\ r.row = x /\ r.col = y /\ r.saved = b.saved /\ r.style = b.style
      /\ r.modes = b.modes /\ r.top = t /\ r.bottom = e
  BY DEF BufferOf
<1>9. r = BufferOf(r)
  <2> DEFINE a == [b EXCEPT !.lines = ls]
             c == [a EXCEPT !.row = x, !.col = y]
  <2>1. a = BufferOf(a)
    BY DEF BufferOf
  <2>2. r = [[[[a EXCEPT !.row = x] EXCEPT !.col = y] EXCEPT !.top = t] EXCEPT !.bottom = e]
    BY DEF BufferOf
  <2> HIDE DEF a
  <2>3. ASSUME NEW u, u = BufferOf(u), NEW v
        PROVE  /\ [u EXCEPT !.row = v] = BufferOf([u EXCEPT !.row = v])
               /\ [u EXCEPT !.col = v] = BufferOf([u EXCEPT !.col = v])
               /\ [u EXCEPT !.top = v] = BufferOf([u EXCEPT !.top = v])
               /\ [u EXCEPT !.bottom = v] = BufferOf([u EXCEPT !.bottom = v])
    <3>1. [u EXCEPT !.row = v] = BufferOf([u EXCEPT !.row = v])
      BY <2>3 DEF BufferOf
    <3>2. [u EXCEPT !.col = v] = BufferOf([u EXCEPT !.col = v])
      BY <2>3 DEF BufferOf
    <3>3. [u EXCEPT !.top = v] = BufferOf([u EXCEPT !.top = v])
      BY <2>3 DEF BufferOf
    <3>4. [u EXCEPT !.bottom = v] = BufferOf([u EXCEPT !.bottom = v])
      BY <2>3 DEF BufferOf
    <3> QED
      BY <3>1, <3>2, <3>3, <3>4
  <2> DEFINE a1 == [a EXCEPT !.row = x]
             a2 == [a1 EXCEPT !.col = y]
             a3 == [a2 EXCEPT !.top = t]
             a4 == [a3 EXCEPT !.bottom = e]
  <2>4. a1 = BufferOf(a1)
    BY <2>1, <2>3
  <2>5. r = a4
    BY <2>2
  <2> HIDE DEF a1, r
  <2>6. a2 = BufferOf(a2)
    BY <2>3, <2>4
  <2> HIDE DEF a2
  <2>7. a3 = BufferOf(a3)
    BY <2>3, <2>6
  <2> HIDE DEF a3
  <2>8. a4 = BufferOf(a4)
    BY <2>3, <2>7
  <2> HIDE DEF a4
  <2> QED
    BY <2>5, <2>8
<1> HIDE DEF r
<1>10. BufferFields(r, rows, cols)
  BY <1>2, <1>4, <1>5, <1>6, <1>7, <1>8 DEF BufferFields
<1>11. BufferOK(r, rows, cols, keep)
  BY <1>4, <1>8, <1>9, <1>10 DEF BufferOK
<1> QED
  BY <1>1, <1>11

LEMMA ResizeKeeps ==
  ASSUME NEW s, ScreenOK(s), NEW rows \in Nat \ {0}, NEW cols \in Nat \ {0}
  PROVE  ScreenOK(ResizeScreen(s, rows, cols))
<1> DEFINE m == Max({s.max, rows})
           keep == IF Alternate(s) THEN rows ELSE m
           n == IF s.normal = <<>> THEN s.normal
                ELSE <<ResizeBuffer(s.normal[1], s.rows, rows, cols, m, Plain)>>
           f == [s EXCEPT !.rows = rows, !.cols = cols, !.max = m, !.normal = n]
           b == ResizeBuffer(BufferOf(s), s.rows, rows, cols, keep, s.style)
<1>1. ResizeScreen(s, rows, cols) = WithBuffer(f, b)
  BY DEF ResizeScreen
<1>2. /\ s.rows \in Nat /\ s.cols \in Nat /\ s.max \in Nat /\ s = WithBuffer(s, s)
      /\ s.normal # <<>> => BufferOK(s.normal[1], s.rows, s.cols, s.max)
  BY FrameOK
<1>3. m = IF s.max >= rows THEN s.max ELSE rows
  BY <1>2, MaxTwo
<1> HIDE DEF m
<1>4. m \in Nat /\ rows <= m
  BY <1>2, <1>3
<1>5. keep \in Nat /\ rows <= keep /\ keep <= m
  BY <1>4
<1> HIDE DEF keep
<1>6. Plain \in ScreenStyles /\ s.style \in ScreenStyles
  BY SizesOK DEF Plain, ScreenStyles, ScreenOK
<1>7. n # <<>> => n = <<n[1]>> /\ BufferOK(n[1], rows, cols, m)
  <2>1. CASE s.normal = <<>>
    BY <2>1
  <2>2. CASE s.normal # <<>>
    <3> DEFINE o == s.normal[1]
               p == ResizeBuffer(o, s.rows, rows, cols, m, Plain)
    <3>1. BufferOK(o, s.rows, s.cols, s.max)
      BY <1>2, <2>2
    <3>2. n = <<p>> /\ n[1] = p
      BY <2>2
    <3> HIDE DEF o
    <3>3. o = BufferOf(o) /\ BufferFields(o, s.rows, s.cols)
      BY <3>1 DEF BufferOK
    <3>4. BufferOK(p, rows, cols, m)
      BY <1>2, <1>4, <1>6, <3>3, ResizedBufferOK
    <3> HIDE DEF p, n
    <3> QED
      BY <3>2, <3>4
  <2> QED
    BY <2>1, <2>2
<1> HIDE DEF n
<1>8. BufferOK(b, rows, cols, keep)
  <2> DEFINE o == BufferOf(s)
  <2>1. BufferOK(o, s.rows, s.cols, s.max)
    BY OwnBufferOK
  <2> HIDE DEF o
  <2>2. o = BufferOf(o) /\ BufferFields(o, s.rows, s.cols)
    BY <2>1 DEF BufferOK
  <2>3. BufferOK(ResizeBuffer(o, s.rows, rows, cols, keep, s.style), rows, cols, keep)
    BY <1>2, <1>5, <1>6, <2>2, ResizedBufferOK
  <2> QED
    BY <2>3 DEF o
<1> HIDE DEF b
<1>9. /\ f.rows = rows /\ f.cols = cols /\ f.max = m /\ f.normal = n
      /\ f.half = s.half /\ f.cut = s.cut
  BY <1>2 DEF WithBuffer
<1> HIDE DEF f
<1>10. BufferFields(b, f.rows, f.cols) /\ f.rows <= Len(b.lines) /\ Len(b.lines) <= f.max
  <2>1. BufferFields(b, rows, cols) /\ rows <= Len(b.lines) /\ Len(b.lines) <= keep
        /\ Len(b.lines) \in Nat
    BY <1>8 DEF BufferOK, BufferFields
  <2>2. Len(b.lines) <= m
    BY <1>4, <1>5, <2>1
  <2> QED
    BY <1>9, <2>1, <2>2
<1>11. /\ f.rows \in Nat \ {0} /\ f.cols \in Nat \ {0} /\ f.max \in Nat /\ f.rows <= f.max
       /\ f.half \in {"none", "control", "utf8"} /\ f.cut \in BOOLEAN
  BY <1>4, <1>9, FrameOK
<1>12. f.normal # <<>> => f.normal = <<f.normal[1]>> /\ BufferOK(f.normal[1], f.rows, f.cols, f.max)
  BY <1>7, <1>9
<1> QED
  BY <1>1, <1>10, <1>11, <1>12, Assembled

LEMMA RegionSetKeeps ==
  ASSUME NEW s, ScreenOK(s), NEW top \in Nat, NEW bottom \in Nat
  PROVE  ScreenOK(SetScrollRegion(s, top, bottom))
<1> DEFINE t == Min({top, s.rows - 1})
           k == IF bottom = 0 THEN s.rows ELSE bottom
           m == Min({k, s.rows})
           e == Max({m, t + 1})
           r == [s EXCEPT !.top = t, !.bottom = e]
<1>1. SetScrollRegion(s, top, bottom) = [r EXCEPT !.row = HomeRow(r), !.col = 0]
  BY DEF SetScrollRegion
<1>2. s.rows \in Nat /\ s.rows >= 1
  BY FrameOK
<1>3. t \in Nat /\ t < s.rows
  BY <1>2, Clipped
<1>4. k \in Nat
  BY <1>2
<1> HIDE DEF t, k
<1>5. m = IF k <= s.rows THEN k ELSE s.rows
  BY <1>2, <1>4, MinTwo
<1> HIDE DEF m
<1>6. m \in Nat /\ m <= s.rows
  BY <1>2, <1>4, <1>5
<1>7. e = IF m >= t + 1 THEN m ELSE t + 1
  BY <1>3, <1>6, MaxTwo
<1> HIDE DEF e
<1>8. e \in Nat /\ t < e /\ e <= s.rows
  BY <1>2, <1>3, <1>6, <1>7
<1>9. ScreenOK(r)
  BY <1>3, <1>8, SetRegion
<1> HIDE DEF r
<1>10. HomeRow(r) \in Nat /\ HomeRow(r) < r.rows /\ 0 <= r.cols + 1
  <2>1. r.rows \in Nat /\ r.rows >= 1 /\ r.cols \in Nat /\ r.top \in Nat
    BY <1>9, SizesOK DEF ScreenOK
  <2>2. Min({r.top, r.rows - 1}) \in Nat /\ Min({r.top, r.rows - 1}) < r.rows
    BY <2>1, Clipped
  <2> QED
    BY <2>1, <2>2 DEF HomeRow
<1>11. ScreenOK([r EXCEPT !.row = HomeRow(r), !.col = 0])
  BY <1>9, <1>10, CursorKeeps
<1> QED
  BY <1>1, <1>11

LEMMA SetModeKeeps ==
  ASSUME NEW s, ScreenOK(s), NEW mode \in ScreenModes, NEW on \in BOOLEAN
  PROVE  ScreenOK(SetMode(s, mode, on))
<1> DEFINE new == IF on THEN s.modes \cup {mode} ELSE s.modes \ {mode}
           m == [s EXCEPT !.modes = new]
<1>1. SetMode(s, mode, on) = IF mode = "origin" THEN [m EXCEPT !.row = HomeRow(m), !.col = 0] ELSE m
  BY DEF SetMode
<1>2. new \in SUBSET ScreenModes
  BY SizesOK DEF ScreenOK
<1> HIDE DEF new
<1>3. ScreenOK(m)
  BY <1>2, SetModes
<1> HIDE DEF m
<1>4. HomeRow(m) \in Nat /\ HomeRow(m) < m.rows /\ 0 <= m.cols + 1
  <2>1. m.rows \in Nat /\ m.rows >= 1 /\ m.cols \in Nat /\ m.top \in Nat
    BY <1>3, SizesOK DEF ScreenOK
  <2>2. Min({m.top, m.rows - 1}) \in Nat /\ Min({m.top, m.rows - 1}) < m.rows
    BY <2>1, Clipped
  <2> QED
    BY <2>1, <2>2 DEF HomeRow
<1>5. ScreenOK([m EXCEPT !.row = HomeRow(m), !.col = 0])
  BY <1>3, <1>4, CursorKeeps
<1> QED
  BY <1>1, <1>3, <1>5

LEMMA ResetTerminalKeeps ==
  ASSUME NEW s, ScreenOK(s)
  PROVE  ScreenOK(ResetTerminal(s))
<1> DEFINE q == ClearScreenAndScrollback(s)
           c == [q EXCEPT !.row = 0, !.col = 0]
           d == [c EXCEPT !.saved = <<>>]
           e == [d EXCEPT !.style = Plain]
           f == [e EXCEPT !.modes = DefaultModes]
<1>1. ScreenOK(q)
  BY BlankScreenKeeps
<1>2. ResetTerminal(s) = [q EXCEPT !.row = 0, !.col = 0, !.saved = <<>>, !.style = Plain,
                                   !.modes = DefaultModes]
  BY DEF ResetTerminal
<1> HIDE DEF q
<1>3. ResetTerminal(s) = f
  <2>1. q = WithBuffer(q, q)
    BY <1>1, FrameOK
  <2> QED
    BY <1>2, <2>1 DEF WithBuffer
<1>4. ScreenOK(c)
  <2>1. 0 < q.rows /\ 0 <= q.cols + 1
    BY <1>1, FrameOK
  <2> QED
    BY <1>1, <2>1, CursorKeeps
<1> HIDE DEF c
<1>5. ScreenOK(d)
  BY <1>4, SetSaved
<1> HIDE DEF d
<1>6. Plain \in ScreenStyles /\ DefaultModes \in SUBSET ScreenModes
  BY DEF Plain, ScreenStyles, DefaultModes, ScreenModes
<1>7. ScreenOK(e)
  BY <1>5, <1>6, SetStyle
<1> HIDE DEF e
<1>8. ScreenOK(f)
  BY <1>6, <1>7, SetModes
<1> QED
  BY <1>3, <1>8

LEMMA RestoreKeeps ==
  ASSUME NEW s, ScreenOK(s)
  PROVE  ScreenOK(RestoreCursor(s))
<1>1. CASE s.saved = <<>>
  BY <1>1 DEF RestoreCursor
<1>2. CASE s.saved # <<>>
  <2> DEFINE x == Min({s.saved[1], s.rows - 1})
             y == Min({s.saved[2], s.cols - 1})
  <2>1. s.saved[1] \in Nat /\ s.saved[2] \in Nat
    BY <1>2 DEF ScreenOK, ScreenFields, BufferFields
  <2>2. s.rows \in Nat /\ s.rows >= 1 /\ s.cols \in Nat /\ s.cols >= 1
    BY FrameOK
  <2>3. x \in Nat /\ x < s.rows /\ y \in Nat /\ y <= s.cols + 1
    BY <2>1, <2>2, Clipped
  <2>4. RestoreCursor(s) = [s EXCEPT !.row = x, !.col = y]
    BY <1>2 DEF RestoreCursor
  <2> HIDE DEF x, y
  <2>5. ScreenOK([s EXCEPT !.row = x, !.col = y])
    BY <2>3, CursorKeeps
  <2> QED
    BY <2>4, <2>5
<1> QED
  BY <1>1, <1>2

LEMMA ControlKeeps ==
  ASSUME NEW s, ScreenOK(s), NEW name \in {"cr", "lf", "bs", "tab", "bel"}
  PROVE  ScreenOK(Control(s, name))
<1>1. s.cols \in Nat /\ s.cols >= 1 /\ s.col \in Nat /\ s.col <= s.cols + 1 /\ 0 <= s.cols + 1
  BY SizesOK DEF ScreenOK
<1>2. CASE name = "cr"
  <2>1. Control(s, name) = [s EXCEPT !.col = 0]
    BY <1>2 DEF Control
  <2>2. ScreenOK([s EXCEPT !.col = 0])
    BY <1>1, SetCol
  <2> QED
    BY <2>1, <2>2
<1>3. CASE name = "lf"
  <2> DEFINE r == LineFeed(s)
  <2>1. Control(s, name) = [r EXCEPT !.col = 0]
    BY <1>3 DEF Control
  <2>2. ScreenOK(r)
    BY LineFeedKeeps
  <2> HIDE DEF r
  <2>3. 0 <= r.cols + 1
    BY <2>2, FrameOK
  <2>4. ScreenOK([r EXCEPT !.col = 0])
    BY <2>2, <2>3, SetCol
  <2> QED
    BY <2>1, <2>4
<1>4. CASE name = "bs"
  <2> DEFINE c == Max({s.col - 1, 0})
  <2>1. Control(s, name) = [s EXCEPT !.col = c]
    BY <1>4 DEF Control
  <2>2. c = IF s.col - 1 >= 0 THEN s.col - 1 ELSE 0
    BY <1>1, MaxTwo
  <2> HIDE DEF c
  <2>3. c \in Nat /\ c <= s.cols + 1
    BY <1>1, <2>2
  <2>4. ScreenOK([s EXCEPT !.col = c])
    BY <2>3, SetCol
  <2> QED
    BY <2>1, <2>4
<1>5. CASE name = "tab"
  <2> DEFINE tab == ((s.col \div TabWidth) + 1) * TabWidth
             c == Min({tab, s.cols - 1})
  <2>1. Control(s, name) = [s EXCEPT !.col = c]
    BY <1>5 DEF Control
  <2>2. tab \in Nat
    <3> DEFINE d == s.col \div 8
    <3>1. d \in Nat
      BY <1>1
    <3>2. tab = (d + 1) * 8
      BY DEF TabWidth
    <3> HIDE DEF d
    <3> QED
      BY <3>1, <3>2
  <2> HIDE DEF tab
  <2>3. c \in Nat /\ c <= s.cols + 1
    BY <1>1, <2>2, Clipped
  <2> HIDE DEF c
  <2>4. ScreenOK([s EXCEPT !.col = c])
    BY <2>3, SetCol
  <2> QED
    BY <2>1, <2>4
<1>6. CASE name = "bel"
  BY <1>6 DEF Control
<1> QED
  BY <1>2, <1>3, <1>4, <1>5, <1>6

LEMMA EscapeKeeps ==
  ASSUME NEW s, ScreenOK(s), NEW name \in {"save", "restore", "reset"}
  PROVE  ScreenOK(Escape(s, name))
<1>1. CASE name = "save"
  <2> DEFINE x == <<s.row, s.col>>
  <2>1. x[1] \in Nat /\ x[2] \in Nat
    BY SizesOK DEF ScreenOK
  <2>2. Escape(s, name) = [s EXCEPT !.saved = x]
    BY <1>1 DEF Escape
  <2> HIDE DEF x
  <2>3. ScreenOK([s EXCEPT !.saved = x])
    BY <2>1, SetSaved
  <2> QED
    BY <2>2, <2>3
<1>2. CASE name = "restore"
  BY <1>2, RestoreKeeps DEF Escape
<1>3. CASE name = "reset"
  BY <1>3, ResetTerminalKeeps DEF Escape
<1> QED
  BY <1>1, <1>2, <1>3

LEMMA SgrKeeps ==
  ASSUME NEW style \in ScreenStyles, NEW code \in {"reset", "bold", "unbold", "red"}
  PROVE  ApplySgr(style, <<code>>) \in ScreenStyles
<1> DEFINE Steps(u) == u = [i \in 0..1 |-> IF i = 0 THEN style ELSE SgrCode(u[i - 1], <<code>>[i])]
           g == [i \in 0..1 |-> IF i = 0 THEN style ELSE SgrCode(style, code)]
           u == CHOOSE u : Steps(u)
<1>1. Steps(g)
  <2>1. ASSUME NEW i \in 0..1
        PROVE  g[i] = IF i = 0 THEN style ELSE SgrCode(g[i - 1], <<code>>[i])
    <3>1. CASE i = 0
      BY <3>1
    <3>2. CASE i = 1
      <4>1. g[i - 1] = style /\ <<code>>[i] = code
        BY <3>2
      <4>2. g[i] = SgrCode(style, code)
        BY <3>2
      <4> HIDE DEF g
      <4> QED
        BY <3>2, <4>1, <4>2
    <3> QED
      BY <3>1, <3>2
  <2> QED
    BY <2>1
<1>2. Steps(u)
  BY <1>1
<1>3. ApplySgr(style, <<code>>) = u[1]
  <2>1. Len(<<code>>) = 1
    OBVIOUS
  <2> QED
    BY <2>1 DEF ApplySgr
<1> HIDE DEF u
<1>4. u[1] = SgrCode(style, code)
  <2>1. \A i \in 0..1 : u[i] = IF i = 0 THEN style ELSE SgrCode(u[i - 1], <<code>>[i])
    BY <1>2
  <2>2. u[0] = style
    BY <2>1
  <2>3. 1 - 1 = 0 /\ <<code>>[1] = code /\ 1 \in 0..1
    OBVIOUS
  <2> QED
    BY <2>1, <2>2, <2>3
<1>5. SgrCode(style, code) \in ScreenStyles
  BY DEF SgrCode, ScreenStyles, Plain
<1> QED
  BY <1>3, <1>4, <1>5

(* The token t is one of the control sequences that the screen acts on. *)
CsiOK(t) ==
  /\ t.csi \in {"up", "down", "right", "left", "column", "line", "move", "display", "erase",
                "sgr", "region", "scroll", "unscroll", "set", "clear", "alternate", "normal"}
  /\ t.csi \in {"up", "down", "right", "left", "column", "line", "move", "region", "scroll",
                "unscroll"} => t.n \in Nat
  /\ t.csi \in {"move", "region"} => t.m \in Nat
  /\ t.csi = "display" => t.n \in 0..3
  /\ t.csi = "erase" => t.n \in 0..2
  /\ t.csi = "sgr" => \E code \in {"reset", "bold", "unbold", "red"} : t.codes = <<code>>
  /\ t.csi \in {"set", "clear"} => t.mode \in ScreenModes

LEMMA ParamRowOK ==
  ASSUME NEW s, ScreenOK(s), NEW n \in Nat
  PROVE  CursorRowFromParam(s, n) \in Nat /\ CursorRowFromParam(s, n) < s.rows
<1>1. s.rows \in Nat /\ s.rows >= 1 /\ s.top \in Nat /\ s.bottom \in Nat /\ s.top < s.bottom
      /\ s.bottom <= s.rows
  BY SizesOK DEF ScreenOK
<1>2. Min({n, s.rows - 1}) \in Nat /\ Min({n, s.rows - 1}) < s.rows
  BY <1>1, Clipped
<1>3. Min({s.top + n, s.bottom - 1}) \in Nat /\ Min({s.top + n, s.bottom - 1}) < s.bottom
  <2>1. s.top + n \in Nat /\ s.bottom >= 1
    BY <1>1
  <2> QED
    BY <1>1, <2>1, Clipped
<1> QED
  BY <1>1, <1>2, <1>3 DEF CursorRowFromParam

LEMMA CsiKeeps ==
  ASSUME NEW s, ScreenOK(s), NEW t, CsiOK(t)
  PROVE  ScreenOK(DispatchCsi(s, t))
<1> DEFINE n == t.n
           r == DispatchCsi(s, t)
<1>1. /\ s.rows \in Nat /\ s.rows >= 1 /\ s.cols \in Nat /\ s.cols >= 1
      /\ s.row \in Nat /\ s.row < s.rows /\ s.col \in Nat /\ s.col <= s.cols + 1
      /\ s.style \in ScreenStyles
  BY SizesOK DEF ScreenOK
<1>2. CASE t.csi = "up"
  <2> DEFINE x == Max({s.row - n, 0})
  <2>1. r = [s EXCEPT !.row = x] /\ n \in Nat
    BY <1>2 DEF DispatchCsi, CsiOK
  <2> HIDE DEF n, r
  <2>2. s.row - n \in Int /\ 0 \in Int
    BY <1>1, <2>1
  <2>3. x = IF s.row - n >= 0 THEN s.row - n ELSE 0
    BY <2>2, MaxTwo
  <2>4. x \in Nat /\ x < s.rows
    <3> HIDE DEF x
    <3> QED
      BY <1>1, <2>1, <2>3
  <2> HIDE DEF x
  <2>5. ScreenOK([s EXCEPT !.row = x])
    BY <2>4, SetRow
  <2> QED
    BY <2>1, <2>5 DEF r
<1>3. CASE t.csi = "down"
  <2> DEFINE x == Min({s.row + n, s.rows - 1})
  <2>1. r = [s EXCEPT !.row = x] /\ n \in Nat
    BY <1>3 DEF DispatchCsi, CsiOK
  <2> HIDE DEF n, r
  <2>2. s.row + n \in Nat
    BY <1>1, <2>1
  <2>4. x \in Nat /\ x < s.rows
    BY <1>1, <2>2, Clipped
  <2> HIDE DEF x
  <2>5. ScreenOK([s EXCEPT !.row = x])
    BY <2>4, SetRow
  <2> QED
    BY <2>1, <2>5 DEF r
<1>4. CASE t.csi = "right"
  <2> DEFINE x == Min({s.col + n, s.cols - 1})
  <2>1. r = [s EXCEPT !.col = x] /\ n \in Nat
    BY <1>4 DEF DispatchCsi, CsiOK
  <2> HIDE DEF n, r
  <2>2. s.col + n \in Nat
    BY <1>1, <2>1
  <2>4. x \in Nat /\ x <= s.cols + 1
    BY <1>1, <2>2, Clipped
  <2> HIDE DEF x
  <2>5. ScreenOK([s EXCEPT !.col = x])
    BY <2>4, SetCol
  <2> QED
    BY <2>1, <2>5 DEF r
<1>5. CASE t.csi = "left"
  <2> DEFINE x == Max({s.col - n, 0})
  <2>1. r = [s EXCEPT !.col = x] /\ n \in Nat
    BY <1>5 DEF DispatchCsi, CsiOK
  <2> HIDE DEF n, r
  <2>2. s.col - n \in Int /\ 0 \in Int
    BY <1>1, <2>1
  <2>3. x = IF s.col - n >= 0 THEN s.col - n ELSE 0
    BY <2>2, MaxTwo
  <2>4. x \in Nat /\ x <= s.cols + 1
    <3> HIDE DEF x
    <3> QED
      BY <1>1, <2>1, <2>3
  <2> HIDE DEF x
  <2>5. ScreenOK([s EXCEPT !.col = x])
    BY <2>4, SetCol
  <2> QED
    BY <2>1, <2>5 DEF r
<1>6. CASE t.csi = "column"
  <2> DEFINE x == Min({n, s.cols - 1})
  <2>1. r = [s EXCEPT !.col = x] /\ n \in Nat
    BY <1>6 DEF DispatchCsi, CsiOK
  <2> HIDE DEF n, r
  <2>2. n \in Nat
    BY <1>1, <2>1
  <2>4. x \in Nat /\ x <= s.cols + 1
    BY <1>1, <2>2, Clipped
  <2> HIDE DEF x
  <2>5. ScreenOK([s EXCEPT !.col = x])
    BY <2>4, SetCol
  <2> QED
    BY <2>1, <2>5 DEF r
<1>7. CASE t.csi = "line"
  <2> DEFINE x == CursorRowFromParam(s, n)
  <2>1. r = [s EXCEPT !.row = x] /\ n \in Nat
    BY <1>7 DEF DispatchCsi, CsiOK
  <2> HIDE DEF n, r
  <2>4. x \in Nat /\ x < s.rows
    BY <2>1, ParamRowOK
  <2> HIDE DEF x
  <2>5. ScreenOK([s EXCEPT !.row = x])
    BY <2>4, SetRow
  <2> QED
    BY <2>1, <2>5 DEF r
<1>8. CASE t.csi = "move"
  <2> DEFINE x == CursorRowFromParam(s, n)
             y == Min({t.m, s.cols - 1})
  <2>1. r = [s EXCEPT !.row = x, !.col = y] /\ n \in Nat /\ t.m \in Nat
    BY <1>8 DEF DispatchCsi, CsiOK
  <2> HIDE DEF n, r
  <2>2. x \in Nat /\ x < s.rows
    BY <2>1, ParamRowOK
  <2>3. y \in Nat /\ y <= s.cols + 1
    BY <1>1, <2>1, Clipped
  <2> HIDE DEF x, y
  <2>4. ScreenOK([s EXCEPT !.row = x, !.col = y])
    BY <2>2, <2>3, CursorKeeps
  <2> QED
    BY <2>1, <2>4 DEF r
<1>9. CASE t.csi = "display"
  <2>1. r = EraseDisplay(s, t.n) /\ t.n \in 0..3
    BY <1>9 DEF DispatchCsi, CsiOK, ScrollUp, ScrollDown
  <2> HIDE DEF r
  <2> QED
    BY <2>1, EraseDisplayKeeps DEF r
<1>10. CASE t.csi = "erase"
  <2>1. r = EraseLine(s, t.n) /\ t.n \in 0..2
    BY <1>10 DEF DispatchCsi, CsiOK, ScrollUp, ScrollDown
  <2> HIDE DEF r
  <2> QED
    BY <2>1, EraseLineKeeps DEF r
<1>11. CASE t.csi = "sgr"
  <2>1. PICK code \in {"reset", "bold", "unbold", "red"} : t.codes = <<code>>
    BY <1>11 DEF CsiOK
  <2> DEFINE x == ApplySgr(s.style, <<code>>)
  <2>2. r = [s EXCEPT !.style = x]
    BY <1>11, <2>1 DEF DispatchCsi
  <2>3. x \in ScreenStyles
    BY <1>1, SgrKeeps
  <2> HIDE DEF x
  <2>4. ScreenOK([s EXCEPT !.style = x])
    BY <2>3, SetStyle
  <2> QED
    BY <2>2, <2>4
<1>12. CASE t.csi = "region"
  <2>1. r = SetScrollRegion(s, t.n, t.m) /\ t.n \in Nat /\ t.m \in Nat
    BY <1>12 DEF DispatchCsi, CsiOK, ScrollUp, ScrollDown
  <2> HIDE DEF r
  <2> QED
    BY <2>1, RegionSetKeeps DEF r
<1>13. CASE t.csi = "scroll"
  <2> DEFINE up == TRUE
  <2>1. r = Scroll(s, up, n) /\ n \in Nat /\ up \in BOOLEAN
    BY <1>13 DEF DispatchCsi, CsiOK, ScrollUp, ScrollDown
  <2> HIDE DEF up, n, r
  <2> QED
    BY <2>1, ScrollKeeps DEF r
<1>14. CASE t.csi = "unscroll"
  <2> DEFINE up == FALSE
  <2>1. r = Scroll(s, up, n) /\ n \in Nat /\ up \in BOOLEAN
    BY <1>14 DEF DispatchCsi, CsiOK, ScrollUp, ScrollDown
  <2> HIDE DEF up, n, r
  <2> QED
    BY <2>1, ScrollKeeps DEF r
<1>15. CASE t.csi = "set"
  <2> DEFINE on == TRUE
  <2>1. r = SetMode(s, t.mode, on) /\ t.mode \in ScreenModes /\ on \in BOOLEAN
    BY <1>15 DEF DispatchCsi, CsiOK
  <2> HIDE DEF on, r
  <2> QED
    BY <2>1, SetModeKeeps DEF r
<1>16. CASE t.csi = "clear"
  <2> DEFINE on == FALSE
  <2>1. r = SetMode(s, t.mode, on) /\ t.mode \in ScreenModes /\ on \in BOOLEAN
    BY <1>16 DEF DispatchCsi, CsiOK
  <2> HIDE DEF on, r
  <2> QED
    BY <2>1, SetModeKeeps DEF r
<1>17. CASE t.csi = "alternate"
  <2>1. r = EnterAlternateScreen(s)
    BY <1>17 DEF DispatchCsi, CsiOK, ScrollUp, ScrollDown
  <2> HIDE DEF r
  <2> QED
    BY <2>1, EnterKeeps DEF r
<1>18. CASE t.csi = "normal"
  <2>1. r = LeaveAlternateScreen(s)
    BY <1>18 DEF DispatchCsi, CsiOK, ScrollUp, ScrollDown
  <2> HIDE DEF r
  <2> QED
    BY <2>1, LeaveKeeps DEF r
<1> QED
  BY <1>2, <1>3, <1>4, <1>5, <1>6, <1>7, <1>8, <1>9, <1>10, <1>11, <1>12, <1>13, <1>14, <1>15, <1>16, <1>17, <1>18 DEF CsiOK

LEMMA FlushKeeps ==
  ASSUME NEW s, ScreenOK(s)
  PROVE  ScreenOK(FlushInvalidUtf8(s))
<1> DEFINE r == [s EXCEPT !.half = "none"]
<1>1. ScreenOK(r)
  BY SetHalf
<1>2. FlushInvalidUtf8(s) = IF s.half = "utf8" THEN PrintChar(r, "a") ELSE s
  BY DEF FlushInvalidUtf8
<1> HIDE DEF r
<1> QED
  BY <1>1, <1>2, PrintCharKeeps

LEMMA HalfKeeps ==
  ASSUME NEW s, ScreenOK(s), NEW kind \in {"control", "utf8"}
  PROVE  ScreenOK(BeginHalf(s, kind))
<1> DEFINE f == FlushInvalidUtf8(s)
           c == kind = "control" /\ s.cut
           g == [f EXCEPT !.half = kind]
<1>1. ScreenOK(f)
  BY FlushKeeps
<1>2. BeginHalf(s, kind) = IF s.half = "utf8" /\ kind = "utf8" THEN f
                           ELSE [f EXCEPT !.half = kind, !.cut = c]
  BY DEF BeginHalf
<1> HIDE DEF f
<1>3. c \in BOOLEAN
  OBVIOUS
<1> HIDE DEF c
<1>4. [f EXCEPT !.half = kind, !.cut = c] = [g EXCEPT !.cut = c]
  <2>1. f = WithBuffer(f, f)
    BY <1>1, FrameOK
  <2> QED
    BY <2>1 DEF WithBuffer
<1>5. ScreenOK(g)
  BY <1>1, SetHalf
<1> HIDE DEF g
<1>6. ScreenOK([g EXCEPT !.cut = c])
  BY <1>3, <1>5, SetCut
<1> QED
  BY <1>1, <1>2, <1>4, <1>6

TokenOK(t) ==
  \/ t.kind = "print" /\ t.ch \in {"a", "w"}
  \/ t.kind = "control" /\ t.name \in {"cr", "lf", "bs", "tab", "bel"}
  \/ t.kind = "escape" /\ t.name \in {"save", "restore", "reset"}
  \/ t.kind = "csi" /\ CsiOK(t)

LEMMA ApplyKeeps ==
  ASSUME NEW s, ScreenOK(s), NEW t, TokenOK(t)
  PROVE  ScreenOK(Apply(s, t))
<1> DEFINE a == [s EXCEPT !.half = "none"]
           f == FlushInvalidUtf8(s)
           b == [f EXCEPT !.half = "none"]
           clean == IF t.kind = "print" /\ t.ch = "w" THEN a ELSE b
           after == CASE t.kind = "print"   -> PrintChar(clean, t.ch)
                      [] t.kind = "control" -> Control(clean, t.name)
                      [] t.kind = "escape"  -> Escape(clean, t.name)
                      [] t.kind = "csi"     -> DispatchCsi(clean, t)
                      [] t.kind = "half"    -> BeginHalf(s, t.name)
           cut == CutAfter(clean, t, after)
<1>1. t.kind \in {"print", "control", "escape", "csi"}
  BY DEF TokenOK
<1>2. Apply(s, t) = [after EXCEPT !.cut = cut]
  BY <1>1 DEF Apply
<1>3. ScreenOK(a)
  BY SetHalf
<1>4. ScreenOK(b)
  <2>1. ScreenOK(f)
    BY FlushKeeps
  <2> HIDE DEF f
  <2> QED
    BY <2>1, SetHalf
<1> HIDE DEF a, b
<1>5. ScreenOK(clean)
  BY <1>3, <1>4
<1> HIDE DEF clean
<1>6. ScreenOK(after)
  <2>1. CASE t.kind = "print"
    <3>1. after = PrintChar(clean, t.ch) /\ t.ch \in {"a", "w"}
      BY <2>1 DEF TokenOK
    <3> QED
      BY <1>5, <3>1, PrintCharKeeps
  <2>2. CASE t.kind = "control"
    <3>1. after = Control(clean, t.name) /\ t.name \in {"cr", "lf", "bs", "tab", "bel"}
      BY <2>2 DEF TokenOK
    <3> QED
      BY <1>5, <3>1, ControlKeeps
  <2>3. CASE t.kind = "escape"
    <3>1. after = Escape(clean, t.name) /\ t.name \in {"save", "restore", "reset"}
      BY <2>3 DEF TokenOK
    <3> QED
      BY <1>5, <3>1, EscapeKeeps
  <2>4. CASE t.kind = "csi"
    <3>1. after = DispatchCsi(clean, t) /\ CsiOK(t)
      BY <2>4 DEF TokenOK
    <3> QED
      BY <1>5, <3>1, CsiKeeps
  <2> QED
    BY <1>1, <2>1, <2>2, <2>3, <2>4
<1> HIDE DEF after
<1>7. cut \in BOOLEAN
  <2>1. clean.cut \in BOOLEAN
    BY <1>5, FrameOK
  <2> QED
    BY <2>1 DEF CutAfter
<1> HIDE DEF cut
<1>8. ScreenOK([after EXCEPT !.cut = cut])
  BY <1>6, <1>7, SetCut
<1> QED
  BY <1>2, <1>8

LEMMA TokensOK ==
  ASSUME NEW t \in ScreenTokens
  PROVE  TokenOK(t)
<1>1. CASE \E g \in Glyphs : t = Glyph(g)
  BY <1>1, ScreenAssumption DEF Glyph, TokenOK
<1>2. CASE \E c \in {"cr", "lf", "bs", "tab", "bel"} : t = ControlToken(c)
  BY <1>2 DEF ControlToken, TokenOK
<1>3. CASE \E e \in {"save", "restore", "reset"} : t = EscapeToken(e)
  BY <1>3 DEF EscapeToken, TokenOK
<1>4. CASE t \in Csis({"up", "down", "right", "left", "column", "line", "scroll", "unscroll"}, {1}, {0})
  BY <1>4 DEF Csis, TokenOK, CsiOK
<1>5. CASE t \in Csis({"move"}, 0..1, 0..1)
  BY <1>5 DEF Csis, TokenOK, CsiOK
<1>6. CASE t \in Csis({"display"}, 0..3, {0})
  BY <1>6 DEF Csis, TokenOK, CsiOK
<1>7. CASE t \in Csis({"erase"}, 0..2, {0})
  BY <1>7 DEF Csis, TokenOK, CsiOK
<1>8. CASE \E c \in {"reset", "bold", "unbold", "red"} : t = Sgr(<<c>>)
  BY <1>8 DEF Sgr, TokenOK, CsiOK
<1>9. CASE t \in {Csi("region", 0, 0), Csi("region", 0, 1), Csi("region", 1, 2)}
  BY <1>9 DEF Csi, TokenOK, CsiOK
<1>10. CASE t \in ModeTokens
  BY <1>10 DEF ModeTokens, TokenOK, CsiOK
<1>11. CASE t \in Csis({"alternate", "normal"}, {0}, {0})
  BY <1>11 DEF Csis, TokenOK, CsiOK
<1> QED
  BY <1>1, <1>2, <1>3, <1>4, <1>5, <1>6, <1>7, <1>8, <1>9, <1>10, <1>11 DEF ScreenTokens

(* The inductive invariant of the screen. *)
ScreenInv == ScreenOK(scr) /\ tokens \in 0..MaxToken

LEMMA ScreenInitInv == ScreenInit => ScreenInv
<1> SUFFICES ASSUME ScreenInit PROVE ScreenInv
  OBVIOUS
<1>1. PICK size \in Sizes : scr = NewScreen(size[1], size[2])
  BY DEF ScreenInit
<1>2. size[1] \in Nat \ {0} /\ size[2] \in Nat \ {0}
  BY ScreenAssumption
<1>3. ScreenOK(scr)
  BY <1>1, <1>2, NewScreenOK
<1>4. tokens \in 0..MaxToken
  BY ScreenAssumption DEF ScreenInit
<1> QED
  BY <1>3, <1>4 DEF ScreenInv

LEMMA ScreenStep == ScreenInv /\ [ScreenNext]_screenVars => ScreenInv'
<1> SUFFICES ASSUME ScreenInv, [ScreenNext]_screenVars PROVE ScreenInv'
  OBVIOUS
<1>1. ScreenOK(scr) /\ tokens \in 0..MaxToken
  BY DEF ScreenInv
<1>2. tokens < MaxToken => tokens + 1 \in 0..MaxToken
  BY <1>1, ScreenAssumption
<1>3. ASSUME NEW t \in ScreenTokens, ProgramWrites(t)  PROVE ScreenInv'
  <2>1. TokenOK(t)
    BY TokensOK
  <2>2. scr' = Apply(scr, t) /\ tokens < MaxToken /\ tokens' = tokens + 1
    BY <1>3 DEF ProgramWrites
  <2>3. ScreenOK(Apply(scr, t))
    BY <1>1, <2>1, ApplyKeeps
  <2> QED
    BY <1>2, <2>2, <2>3 DEF ScreenInv
<1>4. ASSUME NEW kind \in {"control", "utf8"}, ProgramWritesHalf(kind)  PROVE ScreenInv'
  <2>1. scr' = BeginHalf(scr, kind) /\ tokens < MaxToken /\ tokens' = tokens + 1
    BY <1>4 DEF ProgramWritesHalf
  <2>2. ScreenOK(BeginHalf(scr, kind))
    BY <1>1, HalfKeeps
  <2> QED
    BY <1>2, <2>1, <2>2 DEF ScreenInv
<1>5. ASSUME NEW size \in Sizes, TerminalResizes(size)  PROVE ScreenInv'
  <2>1. size[1] \in Nat \ {0} /\ size[2] \in Nat \ {0}
    BY ScreenAssumption
  <2>2. scr' = ResizeScreen(scr, size[1], size[2]) /\ tokens < MaxToken /\ tokens' = tokens + 1
    BY <1>5 DEF TerminalResizes
  <2>3. ScreenOK(ResizeScreen(scr, size[1], size[2]))
    BY <1>1, <2>1, ResizeKeeps
  <2> QED
    BY <1>2, <2>2, <2>3 DEF ScreenInv
<1>6. CASE UNCHANGED screenVars
  BY <1>1, <1>6 DEF ScreenInv, screenVars
<1> QED
  BY <1>3, <1>4, <1>5, <1>6 DEF ScreenNext

LEMMA ScreenSafe == ScreenInv => ScreenTypeOK
<1> SUFFICES ASSUME ScreenInv PROVE ScreenTypeOK
  OBVIOUS
<1>1. ScreenOK(scr) /\ tokens \in 0..MaxToken
  BY DEF ScreenInv
<1>2. /\ scr.rows \in Nat /\ scr.rows >= 1 /\ scr.cols \in Nat /\ scr.max \in Nat
      /\ scr.lines \in Seq(ScreenLines(scr.cols)) /\ Len(scr.lines) \in Nat
      /\ scr.row \in Nat /\ scr.row < scr.rows /\ scr.col \in Nat /\ scr.col <= scr.cols + 1
      /\ scr.top < scr.bottom /\ scr.bottom <= scr.rows
      /\ scr.style \in ScreenStyles /\ scr.modes \subseteq ScreenModes
  BY <1>1, SizesOK DEF ScreenOK
<1>3. scr.row \in 0..(scr.rows - 1) /\ scr.col \in 0..(scr.cols + 1)
  BY <1>2
<1>4. Len(scr.lines) \in scr.rows..scr.max
  BY <1>1, <1>2 DEF ScreenOK
<1>5. \A i \in DOMAIN scr.lines : Len(scr.lines[i].cells) = scr.cols
  <2>1. DOMAIN scr.lines = 1..Len(scr.lines)
    BY <1>2
  <2> QED
    BY <1>1, <2>1, LineOK
<1>6. scr.half \in {"none", "control", "utf8"}
  BY <1>1, FrameOK
<1> QED
  BY <1>1, <1>2, <1>3, <1>4, <1>5, <1>6 DEF ScreenTypeOK

(* For a screen of any size and scrollback and any length of output: the   *)
(* cursor stays inside the rows and at most one column past the last, the  *)
(* scroll region is never empty, the lines fill the rows and never exceed  *)
(* the cache, and each of them is as wide as the screen, whatever the      *)
(* program writes and however often the terminal is resized, so the        *)
(* indexing of screen.rs is always in range.                               *)
THEOREM ScreenStaysWhole == ScreenSpec => []ScreenTypeOK
BY ScreenInitInv, ScreenStep, ScreenSafe, PTL DEF ScreenSpec
-----------------------------------------------------------------------------
(* The host, all parts *)

(* A behaviour of the sum is a behaviour of each of its parts, which stays *)
(* where it is while another one was chosen.                               *)
LEMMA PartsStart ==
  HostInit => /\ Init /\ OscInit /\ ActivityInit /\ RuntimeInit /\ SocketInit /\ CloseInit
              /\ ScreenInit /\ MirrorInit /\ BridgeInit
  BY DEF HostInit

LEMMA PartsStep ==
  [HostNext]_hostVars =>
    /\ [Next]_vars /\ [OscNext]_osc /\ [ActivityNext]_activityVars /\ [SocketNext]_socketVars
    /\ [CloseNext]_closeVars /\ [RuntimeNext]_runtimeVars /\ [ScreenNext]_screenVars
    /\ [MirrorNext]_mirrorVars /\ [BridgeNext]_bridgeVars
<1>1. UNCHANGED hostVars =>
        /\ UNCHANGED vars /\ UNCHANGED osc /\ UNCHANGED activityVars /\ UNCHANGED socketVars
        /\ UNCHANGED closeVars /\ UNCHANGED runtimeVars /\ UNCHANGED screenVars
        /\ UNCHANGED mirrorVars /\ UNCHANGED bridgeVars
  BY DEF hostVars
<1> QED
  BY <1>1 DEF HostNext, OthersStay

(* The life of a session on its host, whichever part a behaviour runs:     *)
(* every invariant of the parts but the replay of a snapshot, the          *)
(* refinement of the ledger and the truth of the activity hold of the sum  *)
(* that the model checker explores, for every value of the constants.      *)
THEOREM HostIsSound ==
  HostSpec => /\ [](/\ HostTypeOK /\ NoOrphan /\ CloseCanResume /\ ClosedIsOver
                    /\ ActiveIsProjected /\ SocketIsRepaired /\ CloseIsConfirmed
                    /\ BooksAreTrue /\ MirrorIsFed /\ OutputIsDelivered)
              /\ KeepsLedger /\ ActivityIsTrue
<1>1. HostSpec => /\ Spec /\ OscSpec /\ ActivitySpec /\ SocketSpec /\ CloseSpec
                  /\ RuntimeSpec /\ ScreenSpec /\ MirrorSpec /\ BridgeSpec
  BY PartsStart, PartsStep, PTL DEF HostSpec, Spec, OscSpec, ActivitySpec, SocketSpec,
     CloseSpec, RuntimeSpec, ScreenSpec, MirrorSpec, BridgeSpec
<1>2. /\ TypeOK /\ OscTypeOK /\ ActivityTypeOK /\ SocketTypeOK /\ CloseTypeOK /\ RuntimeTypeOK
      /\ ScreenTypeOK /\ MirrorTypeOK /\ BridgeTypeOK
      => HostTypeOK
  BY DEF HostTypeOK
<1> QED
  BY <1>1, <1>2, OwnershipTypes, NoOrphanCorrect, CloseResumable, ClosedIsOverCorrect,
     ActiveProjected, LedgerRefined, ActivityStaysTrue, RepairTellsTruth, CloseIsReal,
     BooksStayTrue, ScreenStaysWhole, MirrorStaysFed, OutputReachesJournal, PTL
=============================================================================
