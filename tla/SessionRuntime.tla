---------------------------- MODULE SessionRuntime ----------------------------
(***************************************************************************)
(* The daemon's runtime of one session (termd/src/runtime/mod.rs and       *)
(* session/mod.rs).  The runtime keeps a handle on the PTY and, beside it, *)
(* its own books: the session manager's state, size and attached devices,  *)
(* a mirror of the devices and the watched attachments.  The supervisor    *)
(* behind the handle keeps the devices and the size that count.  A call    *)
(* over the handle may fail before or after it took effect, the shell may  *)
(* end at any time, and a restarted daemon's controller clears the         *)
(* supervisor's devices.                                                   *)
(*                                                                         *)
(* Operations run one at a time under the daemon's lock; a size is a       *)
(* member of WindowSizes, with 0 for one that has no rows or columns.      *)
(***************************************************************************)
EXTENDS Integers, FiniteSets

CONSTANTS
    Operators,      \* devices
    Attachments,    \* watched attachments
    WindowSizes,    \* valid sizes, positive
    MaxRestart,     \* bound on daemon restarts
    MaxLoss         \* bound on calls whose outcome is lost

ASSUME RuntimeAssumption ==
    /\ WindowSizes # {} /\ WindowSizes \subseteq Nat \ {0}
    /\ {MaxRestart, MaxLoss} \subseteq Nat

VARIABLES
    rt,         \* the handle and what the runtime keeps with it
    mgr,        \* the session manager's record
    host,       \* the supervisor: devices, size, shell
    told,       \* what callers were told: devices detached, size set
    restarts, losses

runtimeVars == <<rt, mgr, host, told, restarts, losses>>

-----------------------------------------------------------------------------
DefaultSize == CHOOSE s \in WindowSizes : TRUE
AnySize == WindowSizes \cup {0}

NoHandle == [held |-> FALSE, devices |-> {}, watched |-> {}, dead |-> FALSE]
NoRecord == [state |-> "none", devices |-> {}, size |-> DefaultSize]

RuntimeTypeOK ==
    /\ rt \in [held : BOOLEAN, devices : SUBSET Operators,
               watched : SUBSET Attachments, dead : BOOLEAN]
    /\ mgr \in [state : {"none", "created", "running", "closed"},
                devices : SUBSET Operators, size : WindowSizes]
    /\ host \in [shell : {"none", "alive", "ended"}, devices : SUBSET Operators,
                 watched : SUBSET Attachments, size : WindowSizes]
    /\ told \in [detached : SUBSET Operators, sized : BOOLEAN]
    /\ restarts \in 0..MaxRestart
    /\ losses \in 0..MaxLoss

RuntimeInit ==
    /\ rt = NoHandle
    /\ mgr = NoRecord
    /\ host = [shell |-> "none", devices |-> {}, watched |-> {}, size |-> DefaultSize]
    /\ told = [detached |-> {}, sized |-> FALSE]
    /\ restarts = 0
    /\ losses = 0

-----------------------------------------------------------------------------
(* The session manager.                                                    *)

EnsureOpen == mgr.state \in {"created", "running"} /\ rt.held

ManagerAttach(record, d) ==
    [record EXCEPT !.state = "running", !.devices = @ \cup {d}]

ManagerDetach(record, d) == [record EXCEPT !.devices = @ \ {d}]

ManagerClose(record) == [record EXCEPT !.state = "closed", !.devices = {}]

\* A size without rows or columns is refused before anything happens.
ValidSize(size) == size \in WindowSizes

-----------------------------------------------------------------------------
(* A call over the handle: it took effect and was answered, it failed, or  *)
(* it took effect and the answer was lost.                                 *)

Outcomes == {"done", "refused", "lost"}

Costs(outcome) ==
    /\ outcome # "done" => losses < MaxLoss
    /\ losses' = losses + (IF outcome = "done" THEN 0 ELSE 1)

Takes(outcome) == outcome \in {"done", "lost"}

-----------------------------------------------------------------------------
(* Life of the handle.                                                     *)

\* The PTY is started first; the books are opened only when it runs.
CreateSession(size) ==
    /\ ~rt.held /\ mgr.state = "none" /\ host.shell = "none" /\ ValidSize(size)
    /\ host' = [host EXCEPT !.shell = "alive", !.size = size]
    /\ mgr' = [NoRecord EXCEPT !.state = "created", !.size = size]
    /\ rt' = [NoHandle EXCEPT !.held = TRUE]
    /\ told' = [told EXCEPT !.sized = TRUE]
    /\ UNCHANGED <<restarts, losses>>

\* A new daemon reconnects with the size of its record; the supervisor's
\* device list is cleared for the new controller.
ReconnectSession(size) ==
    /\ ~rt.held /\ mgr.state = "none" /\ host.shell = "alive"
    /\ ValidSize(size)
    /\ rt' = [NoHandle EXCEPT !.held = TRUE]
    /\ mgr' = [NoRecord EXCEPT !.state = "running", !.size = size]
    /\ host' = [host EXCEPT !.devices = {}]
    /\ told' = [detached |-> Operators, sized |-> size = host.size]
    /\ UNCHANGED <<restarts, losses>>

DaemonRestarts ==
    /\ restarts < MaxRestart
    /\ restarts' = restarts + 1
    /\ rt' = NoHandle
    /\ mgr' = NoRecord
    /\ host' = [host EXCEPT !.watched = {}]
    /\ told' = [told EXCEPT !.sized = FALSE]
    /\ UNCHANGED losses

ShellEnds ==
    /\ host.shell = "alive"
    /\ host' = [host EXCEPT !.shell = "ended"]
    /\ UNCHANGED <<rt, mgr, told, restarts, losses>>

-----------------------------------------------------------------------------
(* Devices.                                                                *)

\* A failed call may mean that the shell is gone; then the session closes.
Watchless(handle) == [handle EXCEPT !.watched = {}]

ClosesNaturally ==
    /\ rt' = [Watchless(rt) EXCEPT !.dead = TRUE]
    /\ mgr' = ManagerClose(mgr)

\* The supervisor's list first; the books follow only its answer.
Attach(d) ==
    /\ EnsureOpen
    /\ told' = [told EXCEPT !.detached = @ \ {d}]
    /\ \/ \E outcome \in Outcomes :
             /\ host.shell = "alive" /\ Costs(outcome)
             /\ host' = [host EXCEPT !.devices = IF Takes(outcome) THEN @ \cup {d} ELSE @]
             /\ IF outcome = "done"
                THEN /\ mgr' = ManagerAttach(mgr, d)
                     /\ rt' = [rt EXCEPT !.devices = @ \cup {d}]
                ELSE UNCHANGED <<rt, mgr>>
       \/ /\ host.shell = "ended"
          /\ ClosesNaturally
          /\ host' = [host EXCEPT !.watched = {}]
          /\ UNCHANGED losses
    /\ UNCHANGED restarts

\* Mutant: a device the supervisor does not know is not looked for locally.
DetachKnownOnly(d) ==
    /\ EnsureOpen
    /\ \E outcome \in Outcomes :
          /\ Costs(outcome)
          /\ host' = [host EXCEPT !.devices = IF Takes(outcome) THEN @ \ {d} ELSE @]
          /\ IF outcome = "done"
             THEN /\ mgr' = IF d \in host.devices THEN ManagerDetach(mgr, d) ELSE mgr
                  /\ rt' = IF d \in host.devices
                           THEN [rt EXCEPT !.devices = @ \ {d}] ELSE rt
                  /\ told' = [told EXCEPT !.detached = @ \cup {d}]
             ELSE UNCHANGED <<rt, mgr, told>>
    /\ UNCHANGED restarts

\* The supervisor is asked whether it knows the device and told to forget it;
\* the books forget it too, also when the supervisor already had.  A device
\* nobody knows is an error.
Detach(d) ==
    /\ EnsureOpen
    /\ \E outcome \in Outcomes :
          /\ Costs(outcome)
          /\ host' = [host EXCEPT !.devices = IF Takes(outcome) THEN @ \ {d} ELSE @]
          /\ IF outcome = "done"
             THEN /\ mgr' = ManagerDetach(mgr, d)
                  /\ rt' = [rt EXCEPT !.devices = @ \ {d}]
                  /\ told' = [told EXCEPT !.detached = @ \cup {d}]
             ELSE UNCHANGED <<rt, mgr, told>>
    /\ UNCHANGED restarts

\* Input needs the supervisor's word that the device is attached.  A write
\* that fails because the shell is gone closes the session.
WriteInput(d) ==
    /\ EnsureOpen /\ d \in host.devices
    /\ host.shell = "ended"
    /\ ClosesNaturally
    /\ host' = [host EXCEPT !.watched = {}]
    /\ UNCHANGED <<told, restarts, losses>>

\* Another controller's reset empties the supervisor's list.
HostForgets ==
    /\ host.devices # {} /\ losses < MaxLoss
    /\ host' = [host EXCEPT !.devices = {}]
    /\ losses' = losses + 1
    /\ UNCHANGED <<rt, mgr, told, restarts>>

-----------------------------------------------------------------------------
(* Size and attachments.                                                   *)

\* The PTY first, then the record.
Resize(size) ==
    /\ EnsureOpen /\ host.shell = "alive" /\ ValidSize(size)
    /\ \E outcome \in Outcomes :
          /\ Costs(outcome)
          /\ host' = [host EXCEPT !.size = IF Takes(outcome) THEN size ELSE @]
          /\ mgr' = [mgr EXCEPT !.size = IF outcome = "done" THEN size ELSE @]
          /\ told' = [told EXCEPT !.sized =
                             CASE outcome = "done" -> TRUE
                               [] outcome = "lost" -> FALSE
                               [] OTHER -> @]
    /\ UNCHANGED <<rt, restarts>>

StartWatchedAttachment(a) ==
    /\ EnsureOpen /\ a \notin rt.watched /\ host.shell = "alive"
    /\ rt' = [rt EXCEPT !.watched = @ \cup {a}]
    /\ host' = [host EXCEPT !.watched = @ \cup {a}]
    /\ UNCHANGED <<mgr, told, restarts, losses>>

DropWatchedAttachment(a) ==
    /\ EnsureOpen /\ a \in rt.watched
    /\ rt' = [rt EXCEPT !.watched = @ \ {a}]
    /\ host' = [host EXCEPT !.watched = @ \ {a}]
    /\ UNCHANGED <<mgr, told, restarts, losses>>

\* The attachment has resized the PTY itself; the record follows.
RecordWatchedResize(size) ==
    /\ EnsureOpen /\ rt.watched # {} /\ ValidSize(size)
    /\ host' = [host EXCEPT !.size = size]
    /\ mgr' = [mgr EXCEPT !.size = size]
    /\ told' = [told EXCEPT !.sized = TRUE]
    /\ UNCHANGED <<rt, restarts, losses>>

-----------------------------------------------------------------------------
(* The end of the session.                                                 *)

\* confirm_close: terminate is confirmed or the handle is kept for a retry.
ConfirmClose ==
    /\ EnsureOpen /\ ~rt.dead
    /\ \E outcome \in Outcomes :
          /\ Costs(outcome)
          /\ host' = [host EXCEPT !.shell = IF Takes(outcome) THEN "ended" ELSE @]
          /\ rt' = [rt EXCEPT !.dead = outcome = "done"]
    /\ UNCHANGED <<mgr, told, restarts>>

FinalizeRuntimeClose ==
    /\ rt.held /\ rt.dead
    /\ host' = [host EXCEPT !.watched = @ \ rt.watched]
    /\ rt' = NoHandle
    /\ mgr' = ManagerClose(mgr)
    /\ UNCHANGED <<told, restarts, losses>>

RuntimeObservesExit ==
    /\ EnsureOpen /\ host.shell = "ended"
    /\ ClosesNaturally
    /\ host' = [host EXCEPT !.watched = @ \ rt.watched]
    /\ UNCHANGED <<told, restarts, losses>>

\* discard and take_for_cleanup give the handle away and close the books;
\* they differ in what their caller does with the PTY.
TakeForCleanup ==
    /\ rt.held
    /\ host' = [host EXCEPT !.watched = @ \ rt.watched]
    /\ rt' = NoHandle
    /\ mgr' = ManagerClose(mgr)
    /\ UNCHANGED <<told, restarts, losses>>

-----------------------------------------------------------------------------
RuntimeNext ==
    \/ \E size \in AnySize : CreateSession(size) \/ ReconnectSession(size)
                             \/ Resize(size) \/ RecordWatchedResize(size)
    \/ \E d \in Operators : Attach(d) \/ Detach(d) \/ WriteInput(d)
    \/ \E a \in Attachments : StartWatchedAttachment(a) \/ DropWatchedAttachment(a)
    \/ ConfirmClose \/ FinalizeRuntimeClose \/ RuntimeObservesExit \/ TakeForCleanup
    \/ HostForgets \/ ShellEnds \/ DaemonRestarts

RuntimeSpec == RuntimeInit /\ [][RuntimeNext]_runtimeVars

-----------------------------------------------------------------------------
(* The runtime's books keep the promises it made: a device whose detach    *)
(* succeeded is attached nowhere, neither in the books nor at the          *)
(* supervisor, until somebody attaches it again, although either side may  *)
(* have lost it before or may hold it after a lost answer; after a         *)
(* successful resize the recorded size is the terminal's; and once the     *)
(* session is closed no device and no attachment is held by anyone.        *)
BooksAreTrue ==
    /\ \A d \in told.detached :
          d \notin mgr.devices \cup rt.devices \cup host.devices
    /\ rt.held /\ told.sized => mgr.size = host.size
    /\ mgr.state = "closed" => mgr.devices = {} /\ rt.watched = {} /\ host.watched = {}

=============================================================================
