---------------------------- MODULE SupervisorClose ----------------------------
(***************************************************************************)
(* Closing one session from the daemon while requests, answers and whole   *)
(* connections are lost (termd/src/pty/supervisor.rs, runtime/mod.rs).     *)
(*                                                                         *)
(* A close is an operation with an identity.  The daemon asks the          *)
(* supervisor to kill the shell, asks over fresh restricted connections    *)
(* whether that operation is confirmed, and then lets the supervisor       *)
(* itself end; it may instead learn from the operating system that the     *)
(* supervisor is gone.  A restricted connection proves knowledge of the    *)
(* cleanup capability in both directions before it may ask for anything.   *)
(* A request the daemon gave up on is still in the socket, so the          *)
(* supervisor may carry it out much later.                                 *)
(*                                                                         *)
(* Three ways lead here: the runtime's handle of a session with a          *)
(* capability ("runtime"), the same without one ("legacy"), and the        *)
(* ownership reconciler ("ledger").  A capability is a value of Caps; a    *)
(* proof is its capability, since both nonces are fresh for each           *)
(* connection.                                                             *)
(***************************************************************************)
EXTENDS Integers, FiniteSets

CONSTANTS
    Caps,        \* cleanup capabilities; the daemon holds one of them
    OurCap,
    MaxLink,     \* bound on connections the daemon opens
    MaxAttempt   \* bound on calls of terminate / reconcile

ASSUME CloseAssumption ==
    /\ OurCap \in Caps /\ "none" \notin Caps
    /\ MaxLink \in Nat \ {0} /\ MaxAttempt \in Nat

VARIABLES
    way,         \* which of the three closes is at work
    super,       \* the supervisor and its shell
    links,       \* links[c]: connection c; 1 is the controller's
    closer       \* the closing daemon

closeVars == <<way, super, links, closer>>

-----------------------------------------------------------------------------
CloserLinks == 1..MaxLink
Controller == 1
NoCap == "none"

Asks == {"none", "close", "idempotent", "challenge", "authenticate", "status",
         "cleanup", "finalize"}
Answers == {"none", "ok", "yes", "no", "err", "proof", "wrongproof"}

CloserPcs == {"idle", "asked", "confirm", "probe", "exitwait", "reap",
              "failed", "closed", "ended"}

CloseTypeOK ==
    /\ way \in {"runtime", "legacy", "ledger"}
    /\ super \in [shell : BOOLEAN, up : BOOLEAN, shutdown : BOOLEAN,
                  cap : Caps \cup {NoCap}, confirmed : BOOLEAN]
    /\ links \in [CloserLinks -> [used : BOOLEAN, open : BOOLEAN, ask : Asks,
                            answer : Answers, nonce : BOOLEAN, authed : BOOLEAN]]
    /\ closer \in [pc : CloserPcs, link : CloserLinks, step : Asks, dead : BOOLEAN,
                   child : BOOLEAN, exited : BOOLEAN, closing : BOOLEAN,
                   confirmed : BOOLEAN, attempts : 0..MaxAttempt]

FreshLink == [used |-> FALSE, open |-> FALSE, ask |-> "none",
              answer |-> "none", nonce |-> FALSE, authed |-> FALSE]

\* A running session: with its capability, with another one after a
\* migration that did not reach this daemon, or with none.  The daemon is the
\* supervisor's parent or has reconnected to it.
CloseInit ==
    /\ way \in {"runtime", "legacy", "ledger"}
    /\ \E cap \in Caps \cup {NoCap} :
          super = [shell |-> TRUE, up |-> TRUE, shutdown |-> FALSE,
                   cap |-> cap, confirmed |-> FALSE]
    /\ links = [c \in CloserLinks |->
                  IF c = Controller THEN [FreshLink EXCEPT !.used = TRUE, !.open = TRUE]
                                    ELSE FreshLink]
    /\ \E child \in BOOLEAN :
          closer = [pc |-> "idle", link |-> Controller, step |-> "none", dead |-> FALSE,
                    child |-> child /\ way # "ledger", exited |-> FALSE,
                    closing |-> FALSE, confirmed |-> FALSE, attempts |-> 0]

-----------------------------------------------------------------------------
(* The supervisor answers one request of a connection.                     *)

CloseAnswered(c, answer) ==
    [links EXCEPT ![c].ask = "none",
                  ![c].answer = IF links[c].open THEN answer ELSE "none"]

Serving(c, ask) == super.up /\ links[c].ask = ask

\* terminate() and wait() of the shell.
KillShell == [super EXCEPT !.shell = FALSE]

\* The old Close: kill and shut down.
HandleClose(c) ==
    /\ Serving(c, "close")
    /\ super' = [KillShell EXCEPT !.shutdown = TRUE]
    /\ links' = CloseAnswered(c, "ok")
    /\ UNCHANGED <<way, closer>>

\* CloseIdempotent: a repeated operation finds itself confirmed.  The kill
\* may fail, which is an answer.
HandleCloseIdempotent(c) ==
    /\ Serving(c, "idempotent")
    /\ \/ /\ super' = [KillShell EXCEPT !.confirmed = TRUE]
          /\ links' = CloseAnswered(c, "yes")
       \/ /\ ~super.confirmed
          /\ UNCHANGED super
          /\ links' = CloseAnswered(c, "err")
    /\ UNCHANGED <<way, closer>>

\* The supervisor proves first that it holds the capability.
HandleChallenge(c) ==
    /\ Serving(c, "challenge")
    /\ links' = IF super.cap = NoCap
                THEN CloseAnswered(c, "err")
                ELSE [CloseAnswered(c, IF super.cap = OurCap THEN "proof" ELSE "wrongproof")
                        EXCEPT ![c].nonce = TRUE]
    /\ UNCHANGED <<way, super, closer>>

\* The capability itself, together with both nonces of this connection.
HandleAuthenticate(c) ==
    /\ Serving(c, "authenticate")
    /\ LET authenticated == links[c].nonce /\ super.cap = OurCap
       IN links' = [CloseAnswered(c, IF authenticated THEN "ok" ELSE "err")
                      EXCEPT ![c].nonce = FALSE, ![c].authed = @ \/ authenticated]
    /\ UNCHANGED <<way, super, closer>>

\* CleanupClose kills once; an operation already confirmed is only reported.
HandleCleanupClose(c) ==
    /\ Serving(c, "cleanup")
    /\ \/ /\ links[c].authed
          /\ super' = [KillShell EXCEPT !.confirmed = TRUE]
          /\ links' = CloseAnswered(c, "yes")
       \/ /\ ~links[c].authed \/ ~super.confirmed
          /\ UNCHANGED super
          /\ links' = CloseAnswered(c, "err")
    /\ UNCHANGED <<way, closer>>

\* Status and finalisation need a controller's or a proven connection.
HasAuthority(c) == c = Controller \/ links[c].authed

HandleCloseStatus(c) ==
    /\ Serving(c, "status")
    /\ links' = CloseAnswered(c, CASE ~HasAuthority(c) -> "err"
                              [] HasAuthority(c) /\ super.confirmed -> "yes"
                              [] OTHER -> "no")
    /\ UNCHANGED <<way, super, closer>>

HandleFinalize(c) ==
    /\ Serving(c, "finalize")
    /\ LET allowed == HasAuthority(c) /\ super.confirmed
       IN /\ super' = [super EXCEPT !.shutdown = @ \/ allowed]
          /\ links' = CloseAnswered(c, IF allowed THEN "ok" ELSE "err")
    /\ UNCHANGED <<way, closer>>

\* The accept loop sees the shutdown and the process ends; every connection
\* ends with it.
SupervisorEnds ==
    /\ super.up /\ super.shutdown
    /\ super' = [super EXCEPT !.up = FALSE]
    /\ links' = [c \in CloserLinks |-> [links[c] EXCEPT !.open = FALSE]]
    /\ UNCHANGED <<way, closer>>

\* The shell ends by itself; the daemon's reader may see the exit frame.
SupervisedExits ==
    /\ super.shell
    /\ super' = KillShell
    /\ UNCHANGED <<way, links, closer>>

ExitFrameArrives ==
    /\ ~super.shell /\ links[Controller].open /\ ~closer.exited
    /\ closer' = [closer EXCEPT !.exited = TRUE]
    /\ UNCHANGED <<way, super, links>>

\* A controller installs a capability (the migration of an old session).
InstallCleanupCapability ==
    /\ super.up /\ super.cap = NoCap
    /\ \E cap \in Caps : super' = [super EXCEPT !.cap = cap]
    /\ UNCHANGED <<way, links, closer>>

\* A connection breaks; what was sent is still read.
LinkBreaks(c) ==
    /\ links[c].open
    /\ links' = [links EXCEPT ![c].open = FALSE, ![c].answer = "none"]
    /\ UNCHANGED <<way, super, closer>>

-----------------------------------------------------------------------------
(* The closing daemon.                                                     *)

Sent(c, ask) == [links EXCEPT ![c].ask = ask, ![c].answer = "none"]

\* probe_reconnected_supervisor_exit: the process of that pid is no longer
\* the supervisor of this session.
ProbeExit == ~super.up

\* SupervisorPtySession::terminate.
Terminate ==
    /\ way # "ledger" /\ closer.pc \in {"idle", "failed"}
    /\ ~closer.confirmed /\ closer.attempts < MaxAttempt
    /\ IF links[Controller].open /\ links[Controller].ask = "none"
       THEN /\ links' = Sent(Controller, IF way = "legacy" THEN "close" ELSE "idempotent")
            /\ closer' = [closer EXCEPT !.pc = "asked", !.link = Controller,
                             !.closing = TRUE, !.dead = FALSE, !.attempts = @ + 1]
       ELSE /\ UNCHANGED links
            /\ closer' = [closer EXCEPT !.closing = TRUE, !.dead = FALSE,
                             !.attempts = @ + 1,
                             !.pc = IF way = "legacy" THEN "exitwait" ELSE "confirm"]
    /\ UNCHANGED <<way, super>>

\* The answer of the first request, or its timeout or a broken connection.
TerminateAnswered ==
    /\ closer.pc = "asked" /\ closer.link = Controller /\ way # "ledger"
    /\ \/ /\ links[Controller].answer # "none"
          /\ closer' = [closer EXCEPT !.pc =
                CASE way = "runtime" -> "confirm"
                  [] way = "legacy" /\ links[Controller].answer = "ok" -> "closed"
                  [] OTHER -> "probe"]
       \/ /\ links[Controller].answer = "none"
          /\ closer' = [closer EXCEPT !.pc = IF way = "legacy" THEN "exitwait"
                                                               ELSE "confirm"]
    /\ links' = [links EXCEPT ![Controller].answer = "none"]
    /\ UNCHANGED <<way, super>>

\* wait_for_supervisor_exit_confirmation, until the deadline.
WaitForExit ==
    /\ closer.pc = "exitwait"
    /\ \/ ProbeExit /\ closer' = [closer EXCEPT !.pc = "closed", !.child = FALSE]
       \/ closer' = [closer EXCEPT !.pc = "probe"]
    /\ UNCHANGED <<way, super, links>>

CloserConnects(c) ==
    /\ super.up /\ ~super.shutdown
    /\ ~links[c].used
    /\ \A d \in CloserLinks : d < c => links[d].used

\* One round of the confirmation loop: learn from the child handle or from
\* the process table, connect and start the exchange, or run out of time.
ConfirmRound ==
    /\ closer.pc = "confirm" /\ way = "runtime"
    /\ \/ /\ closer.child /\ ~super.up
          /\ closer' = [closer EXCEPT !.pc = "reap"]
          /\ UNCHANGED links
       \/ /\ closer.dead /\ ProbeExit
          /\ closer' = [closer EXCEPT !.pc = "reap"]
          /\ UNCHANGED links
       \/ \E c \in CloserLinks :
             /\ CloserConnects(c)
             /\ links' = [links EXCEPT ![c] = [FreshLink EXCEPT !.used = TRUE,
                                                  !.open = TRUE, !.ask = "challenge"]]
             /\ closer' = [closer EXCEPT !.pc = "asked", !.link = c, !.step = "challenge"]
       \/ /\ closer' = [closer EXCEPT !.pc = "probe"]
          /\ UNCHANGED links
    /\ UNCHANGED <<way, super>>

\* The request that follows an answer on a restricted connection, "none" when
\* the exchange is over.
NextAsk(step, answer) ==
    CASE step = "challenge" /\ answer = "proof" -> "authenticate"
      [] step = "authenticate" /\ answer = "ok" -> "status"
      [] step = "status" /\ answer = "no" /\ way = "ledger" -> "cleanup"
      [] step \in {"status", "cleanup"} /\ answer = "yes" -> "finalize"
      [] OTHER -> "none"

\* Where a finished exchange leads: an acknowledged finalisation to the end
\* of the supervisor, anything else to another round.
ExchangeOver ==
    [closer EXCEPT !.pc = IF way = "ledger" THEN "failed" ELSE "confirm"]

FinalizeAcknowledged ==
    [closer EXCEPT !.pc = IF way = "ledger" THEN "exitwait" ELSE "reap"]

ExchangeAnswered ==
    /\ closer.pc = "asked" /\ closer.link # Controller
    /\ LET c == closer.link
           answer == links[c].answer
           ask == NextAsk(closer.step, answer)
       IN /\ answer # "none"
          /\ IF ask # "none"
             THEN /\ links' = Sent(c, ask)
                  /\ closer' = [closer EXCEPT !.step = ask, !.dead = @ \/ answer = "yes"]
             ELSE /\ links' = [links EXCEPT ![c].open = FALSE, ![c].answer = "none"]
                  /\ closer' = IF closer.step = "finalize" /\ answer = "ok"
                               THEN FinalizeAcknowledged ELSE ExchangeOver
    /\ UNCHANGED <<way, super>>

\* A read timeout or a broken connection ends the exchange without an answer.
ExchangeLost ==
    /\ closer.pc = "asked" /\ closer.link # Controller
    /\ links[closer.link].answer = "none"
    /\ links' = [links EXCEPT ![closer.link].open = FALSE]
    /\ closer' = ExchangeOver
    /\ UNCHANGED <<way, super>>

\* A parent also reaps its child before it calls the session closed.
ReapChild ==
    /\ closer.pc = "reap"
    /\ closer' = [closer EXCEPT
                    !.pc = IF closer.child /\ super.up THEN "probe" ELSE "closed",
                    !.child = @ /\ super.up]
    /\ UNCHANGED <<way, super, links>>

-----------------------------------------------------------------------------
(* SessionRuntime::confirm_close around terminate.                         *)

\* After an error the runtime looks whether the session is over after all:
\* the exit frame, the child, or a snapshot over the control connection and
\* the process table.
TryWaitFinds ==
    \/ closer.exited
    \/ IF closer.child THEN ~super.up
       ELSE links[Controller].open /\ (~super.shell \/ ProbeExit)

\* cleanup_supervisor_finalize_is_pending: a handle that is still Closing may
\* have left a supervisor that was never told to end.
FinalizeIsPending == closer.closing

\* Mutant: the shell's exit alone is taken for the end of the session.
ConfirmCloseForgets ==
    /\ closer.pc = "probe" /\ way # "ledger"
    /\ closer' = IF TryWaitFinds THEN [closer EXCEPT !.pc = "ended", !.confirmed = TRUE]
                                 ELSE [closer EXCEPT !.pc = "failed"]
    /\ UNCHANGED <<way, super, links>>

ConfirmCloseFails ==
    /\ closer.pc = "probe" /\ way # "ledger"
    /\ closer' = IF TryWaitFinds /\ ~FinalizeIsPending
                 THEN [closer EXCEPT !.pc = "ended", !.confirmed = TRUE]
                 ELSE [closer EXCEPT !.pc = "failed"]
    /\ UNCHANGED <<way, super, links>>

ConfirmCloseSucceeds ==
    /\ closer.pc = "closed" /\ way # "ledger"
    /\ closer' = [closer EXCEPT !.pc = "ended", !.closing = FALSE, !.confirmed = TRUE]
    /\ UNCHANGED <<way, super, links>>

-----------------------------------------------------------------------------
(* The reconciler's finalize_supervisor_close_with_capability.             *)

\* The peer of the socket must be the recorded process, in the recorded
\* place, with the session closing.
ValidateCloseTarget == super.up

ReconcileClose ==
    /\ way = "ledger" /\ closer.pc \in {"idle", "failed"}
    /\ closer.attempts < MaxAttempt
    /\ \E c \in CloserLinks \ {Controller} :
          /\ CloserConnects(c) /\ ValidateCloseTarget
          /\ links' = [links EXCEPT ![c] = [FreshLink EXCEPT !.used = TRUE,
                                               !.open = TRUE, !.ask = "challenge"]]
          /\ closer' = [closer EXCEPT !.pc = "asked", !.link = c, !.closing = TRUE,
                                      !.step = "challenge", !.dead = FALSE, !.attempts = @ + 1]
    /\ UNCHANGED <<way, super>>

\* The finalized supervisor must be seen to end before the row is closed.
ReconcileSucceeds ==
    /\ way = "ledger" /\ closer.pc \in {"closed", "probe"}
    /\ closer' = [closer EXCEPT !.pc = IF @ = "closed" THEN "ended" ELSE "failed",
                                !.confirmed = closer.pc = "closed"]
    /\ UNCHANGED <<way, super, links>>

-----------------------------------------------------------------------------
CloseNext ==
    \/ \E c \in CloserLinks :
          \/ HandleClose(c) \/ HandleCloseIdempotent(c) \/ HandleChallenge(c)
          \/ HandleAuthenticate(c) \/ HandleCleanupClose(c)
          \/ HandleCloseStatus(c) \/ HandleFinalize(c)
          \/ LinkBreaks(c)
    \/ SupervisorEnds \/ SupervisedExits \/ ExitFrameArrives \/ InstallCleanupCapability
    \/ Terminate \/ TerminateAnswered \/ WaitForExit \/ ConfirmRound
    \/ ExchangeAnswered \/ ExchangeLost \/ ReapChild
    \/ ConfirmCloseFails \/ ConfirmCloseSucceeds
    \/ ReconcileClose \/ ReconcileSucceeds

CloseSpec == CloseInit /\ [][CloseNext]_closeVars

-----------------------------------------------------------------------------
(* A session the daemon calls closed is over: its shell is dead and its    *)
(* supervisor has ended or has been told to, whatever was lost, repeated   *)
(* or carried out late (confirm_close, finalize_supervisor_close).  And a  *)
(* supervisor that ends leaves no shell behind.                            *)
CloseIsConfirmed ==
    /\ closer.confirmed => ~super.shell /\ (super.shutdown \/ ~super.up)
    /\ super.shutdown => ~super.shell

=============================================================================
