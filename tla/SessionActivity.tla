-------------------------- MODULE SessionActivity --------------------------
(***************************************************************************)
(* How a session's AI activity is read off its output (src/termd/src/pty/  *)
(* activity.rs): the detector turns the events of a frame (titles, Claude  *)
(* status lines, iTerm progress: OscParser) into an activity, and asks     *)
(* /proc for the foreground process as rarely as it can.                   *)
(*                                                                         *)
(* A title is what its words mean to the detector, and time is one bit:    *)
(* whether the probe interval has run out.                                 *)
(***************************************************************************)
EXTENDS OscParser, FiniteSets

CONSTANT FrameEvents   \* how many events one frame of output may hold

ASSUME FrameEventsBound == FrameEvents \in Nat

VARIABLES
  ai,       \* the activity, None until an agent is seen
  cached,   \* last_foreground
  probe,    \* event_identity_probe_state
  once,     \* completed_identity_probe_pending
  due,      \* no probe yet, or FOREGROUND_PROBE_MIN_INTERVAL_MS ago
  fg,       \* the process group really in the foreground (environment)
  probes    \* probes made since time, the foreground or the activity moved

activityVars == <<ai, cached, probe, once, due, fg, probes>>

(***************************************************************************)
(* The detector.                                                           *)
(***************************************************************************)

Agents == {"codex", "claude", "opencode"}

\* foreground_process_for_shell: the shell or another program is "other", a
\* /proc that cannot be read "unknown".
Foregrounds == Agents \cup {"other", "unknown"}

NoAgent == {"other", "unknown"}

None == [agent |-> "none", state |-> "none"]

Activity(a, s) == [agent |-> a, state |-> s]

Activities ==
  {None} \cup [agent : Agents, state : {"idle", "running", "attention", "completed"}]

\* What a title means: to Codex, and whose it says it is.
TitleEvent(means, hint) == [type |-> "title", means |-> means, hint |-> hint]

\* title_identity_hint on the titles below.
ActivityTitles == {TitleEvent("attention", "codex"), TitleEvent("running", "codex"),
           TitleEvent("running", "none"), TitleEvent("plain", "none"),
           TitleEvent("plain", "claude"), TitleEvent("plain", "opencode")}

\* parse_claude_status: working, waiting, idle, or a word it does not know.
ClaudeEvents == {[type |-> "claude", means |-> m, hint |-> "claude"] :
                 m \in {"running", "attention", "done", "none"}}

\* parse_iterm_progress_state: 1 or 3, 2 or 4, 0, anything else.
ProgressEvents == {[type |-> "progress", means |-> m, hint |-> "none"] :
                   m \in {"running", "attention", "done", "none"}}

OscEvents == ActivityTitles \cup ClaudeEvents \cup ProgressEvents

\* osc_event_identity_hint over a frame's events.
Hints(events) == {events[i].hint : i \in DOMAIN events} \ {"none"}

\* event_identity_hints_mismatch.
HintsMismatch(events, foreground) ==
  foreground \in Agents /\ Hints(events) \ {foreground} # {}

\* transition(): d is the activity and the flag it sets.
Transition(d, agent, state) ==
  IF d.ai = Activity(agent, state) THEN d
  ELSE [ai |-> Activity(agent, state), once |-> state = "completed"]

Active == {"running", "attention"}

FinishOrIdle(d, agent) ==
  CASE d.ai.agent = agent /\ d.ai.state \in Active -> Transition(d, agent, "completed")
    [] d.ai.agent = agent /\ d.ai.state = "completed" -> d
    [] OTHER -> Transition(d, agent, "idle")

\* An agent that was idle stays shown when the shell is back.
ObserveForegroundKeepsIdle(d, foreground) ==
  CASE foreground \in Agents ->
         IF d.ai.agent = foreground \/ (d.ai = None /\ foreground = "codex") THEN d
         ELSE IF foreground = "codex" THEN [d EXCEPT !.ai = None]
         ELSE Transition(d, foreground, "idle")
    [] foreground = "unknown" -> d
    [] foreground = "other" ->
         IF d.ai.state \in Active THEN Transition(d, d.ai.agent, "completed") ELSE d

ObserveForeground(d, foreground) ==
  CASE foreground \in Agents ->
         IF d.ai.agent = foreground \/ (d.ai = None /\ foreground = "codex") THEN d
         ELSE IF foreground = "codex" THEN [d EXCEPT !.ai = None]
         ELSE Transition(d, foreground, "idle")
    [] foreground = "unknown" -> d
    [] foreground = "other" ->
         CASE d.ai.state \in Active -> Transition(d, d.ai.agent, "completed")
           [] d.ai.state = "idle" -> [d EXCEPT !.ai = None]
           [] OTHER -> d

ObserveCodexTitle(d, means) ==
  CASE means \in Active -> Transition(d, "codex", means)
    [] means = "plain" ->
         CASE d.ai.state \in Active -> Transition(d, "codex", "completed")
           [] d.ai = None -> Transition(d, "codex", "idle")
           [] OTHER -> d

ObserveTitle(d, agent, means) ==
  IF agent = "codex" THEN ObserveCodexTitle(d, means)
  ELSE IF d.ai.agent = agent THEN d ELSE Transition(d, agent, "idle")

\* observe_claude_status and observe_iterm_progress read the same three
\* meanings out of different words.
ObserveStatus(d, agent, means) ==
  CASE means \in Active -> Transition(d, agent, means)
    [] means = "done" -> FinishOrIdle(d, agent)
    [] OTHER -> d

ObserveEvent(d, agent, event) ==
  CASE event.type = "title" -> ObserveTitle(d, agent, event.means)
    [] event.type = "claude" -> IF agent = "claude" THEN ObserveStatus(d, agent, event.means) ELSE d
    [] event.type = "progress" -> IF agent # "codex" THEN ObserveStatus(d, agent, event.means) ELSE d

ObserveEvents(d, foreground, events) ==
  LET after[i \in 0 .. Len(events)] ==
        IF i = 0 THEN ObserveForeground(d, foreground)
        ELSE ObserveEvent(after[i - 1], foreground, events[i])
  IN  IF foreground \in Agents THEN after[Len(events)] ELSE after[0]

\* The early return: nothing to read and nothing to follow.
Ignored(events) ==
  /\ events = <<>>
  /\ ai.state = "completed"
  /\ ~once
  /\ ~due

\* should_probe.
ShouldProbe(events) ==
  \/ once
  \/ /\ ai = None /\ events # <<>> /\ probe = "ready" /\ cached \in NoAgent
  \/ events # <<>> /\ probe = "pending"
  \/ probe = "ready" /\ cached \in Agents /\ Hints(events) \ {cached} # {}
  \/ due

\* The probe state a probe leaves: an answer that did not settle the events
\* is not asked for again until the interval runs out.
ProbeStateAfter(events, seen) ==
  CASE events = <<>> -> IF seen \in NoAgent THEN "pending" ELSE "ready"
    [] events # <<>> /\ (seen \in NoAgent \/ HintsMismatch(events, seen)) -> "consumed"
    [] OTHER -> "ready"

\* observe_output_inner on one nonempty frame with these events; the probe,
\* if there is one, sees the foreground or fails.
ObserveOutput(events, seen) ==
  /\ seen \in {fg, "unknown"}
  /\ ~Ignored(events)
  /\ IF ShouldProbe(events)
     THEN /\ probe' = ProbeStateAfter(events, seen)
          /\ cached' = seen
          /\ due' = FALSE
     ELSE UNCHANGED <<probe, cached, due>>
  /\ LET start == [ai |-> ai, once |-> once /\ ~ShouldProbe(events)]
         d == ObserveEvents(start, cached', events)
     IN  /\ ai' = d.ai
         /\ once' = d.once
         /\ probes' = IF d.ai # ai \/ d.once THEN 0
                      ELSE IF ShouldProbe(events) /\ ~due /\ probes < 4 THEN probes + 1
                      ELSE probes
  /\ UNCHANGED fg

\* The environment: a command is started or ends, the interval runs out.
ForegroundChanges(p) ==
  /\ p # fg
  /\ fg' = p /\ probes' = 0
  /\ UNCHANGED <<ai, cached, probe, once, due>>

IntervalElapses ==
  /\ ~due
  /\ due' = TRUE /\ probes' = 0
  /\ UNCHANGED <<ai, cached, probe, once, fg>>

ActivityInit ==
  /\ ai = None /\ cached = "unknown" /\ probe = "ready" /\ once = FALSE
  /\ due = TRUE
  /\ fg = "other" /\ probes = 0

ActivityNext ==
  \/ \E e \in BoundedSeq(OscEvents, FrameEvents), s \in Foregrounds : ObserveOutput(e, s)
  \/ \E p \in Agents \cup {"other"} : ForegroundChanges(p)
  \/ IntervalElapses

ActivitySpec == ActivityInit /\ [][ActivityNext]_activityVars

(***************************************************************************)
(* Properties.                                                             *)
(***************************************************************************)

ActivityTypeOK ==
  /\ ai \in Activities
  /\ cached \in Foregrounds
  /\ probe \in {"ready", "pending", "consumed"}
  /\ {once, due} \subseteq BOOLEAN
  /\ fg \in Agents \cup {"other"}
  /\ probes \in 0 .. 4

\* However the output is spelt, /proc is read at most three times between two
\* moments at which time, the foreground or the activity moves.
ProbesAreThrottled == probes <= 3

\* A frame that comes once the interval has run out tells the truth: after it
\* no agent is shown idle, running or waiting unless it is in the foreground,
\* or the foreground could not be read.
DueFrameIsTrue ==
  [][due /\ ~due' /\ cached' # "unknown" =>
       /\ fg \in Agents => ai' = None \/ ai'.agent = fg
       /\ fg = "other" => ai' = None \/ ai'.state = "completed"]_activityVars

\* What is shown of the agent is true: probes of the foreground process are
\* throttled, the frame that reports a due activity reports what was
\* observed, and the OSC parser in front recovers from any cut sequence.
ActivityIsTrue == []ProbesAreThrottled /\ DueFrameIsTrue /\ []ParserRecovers
=============================================================================
