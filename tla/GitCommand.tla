----------------------------- MODULE GitCommand -----------------------------
(***************************************************************************)
(* One git command of the Git panel: run_git_command_with_limits           *)
(* (src/termd/src/net/protocol.rs).  It runs while the daemon's lock is    *)
(* held, so it has to end whatever git does: the child may start a helper  *)
(* in its process group, the helper may leave the group and keep the       *)
(* pipes, and each may write more than is kept.                            *)
(***************************************************************************)
EXTENDS Naturals

CONSTANTS GitTimeout,   \* limits.timeout, in polls
          OutputMax     \* limits.stdout_max_bytes, in reads

ASSUME GitBounds == GitTimeout \in Nat \ {0} /\ OutputMax \in Nat

VARIABLES
  gpc,        \* "poll" until the call returns, then "ok", "timed_out" or "failed"
  child,      \* the direct child: running, exited, reaped
  helper,     \* its helper: none, group (same process group), alone, dead
  holds,      \* whether the helper keeps the pipes
  closed,     \* stdout_closed and stderr_closed
  kept,       \* reads kept, and whether some were not
  truncated,
  polls       \* polls since the start

gitVars == <<gpc, child, helper, holds, closed, kept, truncated, polls>>

GroupAlive == child = "running" \/ helper = "group"

HelperLives == helper \in {"group", "alone"}

\* The pipes are at their end once no process holds them.
AtEnd == child # "running" /\ ~(HelperLives /\ holds)

\* BoundedGitOutput::extend_from_slice.
Extend ==
  IF kept < OutputMax THEN kept' = kept + 1 /\ UNCHANGED truncated
  ELSE truncated' = TRUE /\ UNCHANGED kept

\* One round of the loop that finds something to read.
PollReads ==
  /\ gpc = "poll" /\ ~closed /\ ~AtEnd /\ polls < GitTimeout
  /\ Extend
  /\ polls' = polls + 1
  /\ UNCHANGED <<gpc, child, helper, holds, closed>>

\* One round that finds the end of both pipes, or nothing.
PollSees ==
  /\ gpc = "poll" /\ polls < GitTimeout
  /\ closed' = (closed \/ AtEnd)
  /\ IF closed' /\ child = "exited"
     THEN gpc' = "ok" /\ child' = "reaped" /\ UNCHANGED polls
     ELSE polls' = polls + 1 /\ UNCHANGED <<gpc, child>>
  /\ UNCHANGED <<helper, holds, kept, truncated>>

\* Only the direct child is killed.
TerminateGitChildAlone ==
  /\ child' = "reaped"
  /\ UNCHANGED helper

\* terminate_git_child: SIGKILL to the process group, then wait.
TerminateGitChild ==
  /\ child' = "reaped"
  /\ helper' = IF helper = "group" THEN "dead" ELSE helper

\* The deadline covers the child and the drain of its pipes.
TimesOut ==
  /\ gpc = "poll" /\ polls >= GitTimeout
  /\ TerminateGitChild
  /\ gpc' = "timed_out"
  /\ UNCHANGED <<holds, closed, kept, truncated, polls>>

\* A read or try_wait fails.
PollFails ==
  /\ gpc = "poll" /\ polls < GitTimeout
  /\ TerminateGitChild
  /\ gpc' = "failed"
  /\ UNCHANGED <<holds, closed, kept, truncated, polls>>

(***************************************************************************)
(* The processes.                                                          *)
(***************************************************************************)

ChildExits ==
  /\ child = "running" /\ child' = "exited"
  /\ UNCHANGED <<gpc, helper, holds, closed, kept, truncated, polls>>

HelperStarts(h) ==
  /\ child = "running" /\ helper = "none"
  /\ helper' = "group" /\ holds' = h
  /\ UNCHANGED <<gpc, child, closed, kept, truncated, polls>>

HelperLeaves ==
  /\ helper = "group" /\ helper' = "alone"
  /\ UNCHANGED <<gpc, child, holds, closed, kept, truncated, polls>>

HelperExits ==
  /\ HelperLives /\ helper' = "dead"
  /\ UNCHANGED <<gpc, child, holds, closed, kept, truncated, polls>>

GitInit ==
  /\ gpc = "poll" /\ child = "running" /\ helper = "none" /\ holds = FALSE
  /\ closed = FALSE /\ kept = 0 /\ truncated = FALSE /\ polls = 0

GitNext ==
  \/ PollReads
  \/ PollSees
  \/ TimesOut
  \/ PollFails
  \/ ChildExits
  \/ \E h \in BOOLEAN : HelperStarts(h)
  \/ HelperLeaves
  \/ HelperExits

GitSpec == GitInit /\ [][GitNext]_gitVars

(***************************************************************************)
(* Properties.                                                             *)
(***************************************************************************)

GitTypeOK ==
  /\ gpc \in {"poll", "ok", "timed_out", "failed"}
  /\ child \in {"running", "exited", "reaped"}
  /\ helper \in {"none", "group", "alone", "dead"}
  /\ {holds, closed, truncated} \subseteq BOOLEAN
  /\ kept \in 0 .. OutputMax /\ polls \in 0 .. GitTimeout

\* When the call returns its child is reaped, a call that succeeded has drained
\* its pipes and kept everything it read or says that it did not, and a call
\* that was given up leaves no process of the child's group behind.
GitLeavesNothing ==
  /\ gpc # "poll" => child = "reaped"
  /\ gpc = "ok" => closed /\ ~(HelperLives /\ holds) /\ (truncated => kept = OutputMax)
  /\ gpc \in {"timed_out", "failed"} => ~GroupAlive
=============================================================================
