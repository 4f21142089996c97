------------------------------- MODULE MCHost -------------------------------
(***************************************************************************)
(* Model checking of what happens on the host of a session: who owns its   *)
(* supervisor, how that supervisor is reached, closed and mirrored, and    *)
(* what becomes of the bytes of its terminal.  At the grain of their       *)
(* models these parts share no state, so one run explores their sum: part, *)
(* chosen at the start, says which of them this behaviour runs; the others *)
(* stay in one of their initial states.                                    *)
(***************************************************************************)
EXTENDS SessionOwnership, OscParser, SessionActivity, SupervisorSocket,
        SupervisorClose, SessionRuntime, TerminalScreen, DaemonMirror,
        OutputBridge

CONSTANT Parts      \* the parts a run chooses from

VARIABLE part

ScreenSizes == {<<2, 2>>, <<3, 2>>}

-----------------------------------------------------------------------------
\* A part that is not chosen starts in one of its initial states.
HostInit ==
  /\ part \in Parts
  /\ Init
  /\ part # "ownership" => used = {}
  /\ OscInit /\ ActivityInit /\ RuntimeInit
  /\ SocketInit
  /\ part # "socket" => /\ place = "missing"
                        /\ \A d \in RuntimeDirs : private[d] /\ nameAt[d] = NoSocket
  /\ CloseInit
  /\ part # "close" => way = "ledger" /\ super.cap = OurCap
  /\ ScreenInit
  /\ part # "screen" => scr.cols = 2 /\ scr.rows = 2
  /\ MirrorInit
  /\ part # "mirror" => emitted = 0
  /\ BridgeInit
  /\ part # "bridge" => pump.size = 1

\* Only the chosen part p takes steps.
OthersStay(p) ==
  /\ UNCHANGED part
  /\ IF p = "ownership" THEN TRUE ELSE UNCHANGED vars
  /\ IF p = "osc" THEN TRUE ELSE UNCHANGED osc
  /\ IF p = "activity" THEN TRUE ELSE UNCHANGED activityVars
  /\ IF p = "socket" THEN TRUE ELSE UNCHANGED socketVars
  /\ IF p = "close" THEN TRUE ELSE UNCHANGED closeVars
  /\ IF p = "runtime" THEN TRUE ELSE UNCHANGED runtimeVars
  /\ IF p = "screen" THEN TRUE ELSE UNCHANGED screenVars
  /\ IF p = "mirror" THEN TRUE ELSE UNCHANGED mirrorVars
  /\ IF p = "bridge" THEN TRUE ELSE UNCHANGED bridgeVars

HostNext ==
  \/ part = "ownership" /\ Next /\ OthersStay("ownership")
  \/ part = "osc" /\ OscNext /\ OthersStay("osc")
  \/ part = "activity" /\ ActivityNext /\ OthersStay("activity")
  \/ part = "socket" /\ SocketNext /\ OthersStay("socket")
  \/ part = "close" /\ CloseNext /\ OthersStay("close")
  \/ part = "runtime" /\ RuntimeNext /\ OthersStay("runtime")
  \/ part = "screen" /\ ScreenNext /\ OthersStay("screen")
  \/ part = "mirror" /\ MirrorNext /\ OthersStay("mirror")
  \/ part = "bridge" /\ BridgeNext /\ OthersStay("bridge")

hostVars ==
  <<part, vars, osc, activityVars, socketVars, closeVars, runtimeVars,
    screenVars, mirrorVars, bridgeVars>>

\* Only the ledger has a property that needs fairness.
HostSpec ==
  /\ HostInit
  /\ [][HostNext]_hostVars
  /\ part = "ownership" => Fairness

\* Every variable of every part has its type.
HostTypeOK ==
  /\ TypeOK
  /\ OscTypeOK
  /\ ActivityTypeOK
  /\ SocketTypeOK
  /\ CloseTypeOK
  /\ RuntimeTypeOK
  /\ ScreenTypeOK
  /\ MirrorTypeOK
  /\ BridgeTypeOK
=============================================================================
