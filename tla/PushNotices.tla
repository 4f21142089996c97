---------------------------- MODULE PushNotices ----------------------------
(***************************************************************************)
(* From a session's activity to the push services of its owner's browsers: *)
(* the activity signal and its queue (src/termd/src/pty/mod.rs), the       *)
(* start-up drain and the observer (net/server.rs), the tracker and the    *)
(* delivery worker (notifications/mod.rs), and the subscriptions and VAPID *)
(* key in SQLite (state/web_push.rs).                                      *)
(*                                                                         *)
(* One session; an activity is its state.  A subscription is its endpoint, *)
(* its mode and the key it was made for.                                   *)
(***************************************************************************)
EXTENDS Integers, Sequences, FiniteSets, SequencesExt

CONSTANTS Browsers,     \* device ids
          Endpoints,
          Unbuildable,  \* endpoints the route accepts and no request can be built for
          SignalMax,    \* SESSION_ACTIVITY_EVENT_QUEUE_CAPACITY
          EventMax,     \* PUSH_EVENT_QUEUE_CAPACITY
          MaxChange,    \* bound: activity changes
          MaxRequest,   \* bound: subscription requests
          MaxStart      \* bound: daemon starts

ASSUME PushBounds ==
  /\ Unbuildable \subseteq Endpoints /\ 0 \notin Endpoints
  /\ {SignalMax, EventMax, MaxChange, MaxRequest, MaxStart} \subseteq Nat \ {0}

VARIABLES
  shown,      \* the activity the detector holds
  listed,     \* whether the session is in session_index
  signals,    \* activity events on their way to the observer
  starting,   \* how far start_push_notification_tasks has come
  previous,   \* ActivityTracker.previous for the session
  events,     \* events on their way to the delivery worker
  worker,     \* the event being delivered and the subscriptions still to do
  subs, key,  \* web_push_subscriptions and web_push_identity
  dropped,    \* endpoints their push service has given up (environment)
  wanted,     \* what each browser last asked for and was granted
  owed, full, \* notices due and not yet queued, whether a queue was full
  changes, requests, starts

pushVars == <<shown, listed, signals, starting, previous, events, worker, subs, key,
              dropped, wanted, owed, full, changes, requests, starts>>

States == {"none", "idle", "running", "attention", "completed"}

NoSub == [ep |-> 0, mode |-> "all", key |-> 0]

Idle == [event |-> "none", todo |-> <<>>, answer |-> "none"]

\* The change of state a notice is due for.
ShouldNotify(before, now) ==
  CASE now = "attention" -> before # "attention"
    [] now \in {"idle", "completed"} -> before = "running"
    [] OTHER -> FALSE

(***************************************************************************)
(* The activity signal.                                                    *)
(***************************************************************************)

\* SessionActivitySignal::publish: try_send, and a full queue drops the event.
Publish(now) ==
  /\ changes < MaxChange /\ changes' = changes + 1
  /\ listed /\ now # shown
  /\ shown' = now
  /\ IF Len(signals) < SignalMax
     THEN signals' = Append(signals, now) /\ UNCHANGED full
     ELSE full' = TRUE /\ UNCHANGED signals
  /\ owed' = IF starting = "on" /\ ShouldNotify(shown, now) THEN owed + 1 ELSE owed
  /\ UNCHANGED <<listed, starting, previous, events, worker, subs, key, dropped, wanted,
                 requests, starts>>

\* The session is closed: events already queued for it find no row.
SessionCloses ==
  /\ listed /\ starting = "on" /\ listed' = FALSE
  /\ UNCHANGED <<shown, signals, starting, previous, events, worker, subs, key, dropped,
                 wanted, owed, full, changes, requests, starts>>

(***************************************************************************)
(* start_push_notification_tasks and run_push_notification_observer.       *)
(***************************************************************************)

StartDrains ==
  /\ starting = "off" /\ starting' = "drained"
  /\ signals' = <<>>
  /\ UNCHANGED <<shown, listed, previous, events, worker, subs, key, dropped, wanted,
                 owed, full, changes, requests, starts>>

\* The lock is taken again between the drain and the snapshot.
StartBaseline ==
  /\ starting = "drained" /\ starting' = "on"
  /\ previous' = IF listed THEN shown ELSE "none"
  /\ UNCHANGED <<shown, listed, signals, events, worker, subs, key, dropped, wanted,
                 owed, full, changes, requests, starts>>

\* previous remembers only what was told.
TrackerObservesTold(now) ==
  previous' = IF ShouldNotify(previous, now) THEN now ELSE previous

TrackerObserves(now) == previous' = now

\* observe_activity_change: try_send, and a full queue drops the event for
\* good: the tracker has moved on.
QueueEvent(now) ==
  IF Len(events) < EventMax
  THEN /\ events' = Append(events, now)
       /\ owed' = owed - 1
       /\ UNCHANGED full
  ELSE full' = TRUE /\ UNCHANGED <<events, owed>>

\* push_activity_event_snapshot finds the session, observe_change tells.
Observe ==
  /\ starting = "on" /\ signals # <<>>
  /\ signals' = Tail(signals)
  /\ LET now == Head(signals) IN
     IF ~listed THEN UNCHANGED <<previous, events, owed, full>>
     ELSE /\ TrackerObserves(now)
          /\ IF ShouldNotify(previous, now) THEN QueueEvent(now)
             ELSE UNCHANGED <<events, owed, full>>
  /\ UNCHANGED <<shown, listed, starting, worker, subs, key, dropped, wanted, changes,
                 requests, starts>>

(***************************************************************************)
(* The delivery worker.                                                    *)
(***************************************************************************)

SubscriptionAccepts(mode, state) == mode = "all" \/ state = "attention"

\* delivery_material, read once per event; the rows its mode filters out are
\* skipped.
WorkerTakes ==
  /\ starting = "on" /\ worker = Idle /\ events # <<>>
  /\ events' = Tail(events)
  /\ worker' = [Idle EXCEPT
       !.event = Head(events),
       !.todo = SelectSeq(SetToSeq({<<d, subs[d]>> : d \in {x \in Browsers : subs[x] # NoSub}}),
                          LAMBDA row : SubscriptionAccepts(row[2].mode, Head(events)))]
  /\ UNCHANGED <<shown, listed, signals, starting, previous, subs, key, dropped, wanted,
                 owed, full, changes, requests, starts>>

\* build_push_request fails on the row, or the push service answers: gone
\* (404, 410) for an endpoint it gave up; that it accepts, refuses or does not
\* answer makes no difference.
BuiltAndSent(sub) ==
  IF sub.ep \in Unbuildable THEN "unbuilt"
  ELSE IF sub.ep \in dropped THEN "gone" ELSE "other"

Answered ==
  /\ worker.todo # <<>> /\ worker.answer = "none"
  /\ worker' = [worker EXCEPT !.answer = BuiltAndSent(Head(worker.todo)[2])]
  /\ UNCHANGED <<shown, listed, signals, starting, previous, events, subs, key, dropped,
                 wanted, owed, full, changes, requests, starts>>

\* remove_subscription_if_endpoint.
RemoveIfEndpoint(d, e) == IF subs[d].ep = e THEN [subs EXCEPT ![d] = NoSub] ELSE subs

WorkerHandles ==
  /\ worker.answer # "none"
  /\ LET row == Head(worker.todo)
     IN  subs' = IF worker.answer \in {"gone", "unbuilt"}
                 THEN RemoveIfEndpoint(row[1], row[2].ep) ELSE subs
  /\ worker' = [worker EXCEPT !.todo = Tail(@), !.answer = "none"]
  /\ UNCHANGED <<shown, listed, signals, starting, previous, events, key, dropped, wanted,
                 owed, full, changes, requests, starts>>

WorkerDone ==
  /\ worker # Idle /\ worker.todo = <<>>
  /\ worker' = Idle
  /\ UNCHANGED <<shown, listed, signals, starting, previous, events, subs, key, dropped,
                 wanted, owed, full, changes, requests, starts>>

(***************************************************************************)
(* The HTTP routes: PUT and DELETE /api/push/subscription.  The listener    *)
(* serves once the tasks are started.                                      *)
(***************************************************************************)

\* The rows of the endpoint go, whichever device has them; then one row per
\* device.
UpsertRows(d, e, mode) ==
  [x \in Browsers |->
     IF x = d THEN [ep |-> e, mode |-> mode, key |-> key]
     ELSE IF subs[x].ep = e THEN NoSub ELSE subs[x]]

Upsert(d, e, mode) ==
  /\ requests < MaxRequest /\ requests' = requests + 1
  /\ starting = "on"
  /\ subs' = UpsertRows(d, e, mode)
  /\ wanted' = [x \in Browsers |->
                  IF x = d THEN e ELSE IF wanted[x] = e THEN 0 ELSE wanted[x]]
  /\ UNCHANGED <<shown, listed, signals, starting, previous, events, worker, key, dropped,
                 owed, full, changes, starts>>

\* A DELETE names the endpoint it means, and may come late.
Delete(d, e) ==
  /\ requests < MaxRequest /\ requests' = requests + 1
  /\ starting = "on"
  /\ subs' = RemoveIfEndpoint(d, e)
  /\ wanted' = [wanted EXCEPT ![d] = IF @ = e THEN 0 ELSE @]
  /\ UNCHANGED <<shown, listed, signals, starting, previous, events, worker, key, dropped,
                 owed, full, changes, starts>>

EndpointDropped(e) ==
  /\ e \notin dropped \cup Unbuildable
  /\ \E d \in Browsers : subs[d].ep = e
  /\ dropped' = dropped \cup {e}
  /\ UNCHANGED <<shown, listed, signals, starting, previous, events, worker, subs, key,
                 wanted, owed, full, changes, requests, starts>>

\* load_or_create_identity: the pair in the table, made on the first start.
LoadOrCreateIdentity == IF key = 0 THEN 1 ELSE key

\* The daemon ends and starts: the queues, the tracker and the detector start
\* anew, the tables stay.
PushRestart ==
  /\ starts < MaxStart /\ starts' = starts + 1
  /\ key' = LoadOrCreateIdentity
  /\ shown' = "none" /\ signals' = <<>> /\ starting' = "off"
  /\ previous' = "none" /\ events' = <<>> /\ worker' = Idle
  /\ owed' = 0 /\ full' = FALSE
  /\ UNCHANGED <<listed, subs, dropped, wanted, changes, requests>>

PushInit ==
  /\ shown = "none" /\ listed = TRUE /\ signals = <<>> /\ starting = "off"
  /\ previous = "none" /\ events = <<>> /\ worker = Idle
  /\ subs = [d \in Browsers |-> NoSub] /\ key = 1
  /\ dropped = {} /\ wanted = [d \in Browsers |-> 0]
  /\ owed = 0 /\ full = FALSE
  /\ changes = 0 /\ requests = 0 /\ starts = 1

PushNext ==
  \/ \E s \in States : Publish(s)
  \/ SessionCloses
  \/ StartDrains
  \/ StartBaseline
  \/ Observe
  \/ WorkerTakes
  \/ Answered
  \/ WorkerHandles
  \/ WorkerDone
  \/ \E d \in Browsers, e \in Endpoints, m \in {"all", "attention"} : Upsert(d, e, m)
  \/ \E d \in Browsers, e \in Endpoints : Delete(d, e)
  \/ \E e \in Endpoints : EndpointDropped(e)
  \/ PushRestart

PushSpec == PushInit /\ [][PushNext]_pushVars

(***************************************************************************)
(* Properties.                                                             *)
(***************************************************************************)

PushTypeOK ==
  /\ {shown, previous} \subseteq States
  /\ Len(signals) <= SignalMax /\ Len(events) <= EventMax
  /\ starting \in {"off", "drained", "on"}
  /\ \A d \in Browsers : subs[d].ep \in Endpoints \cup {0}
  /\ \A d, e \in Browsers : d # e /\ subs[d].ep = subs[e].ep => subs[d] = NoSub

\* The notices that observing the queued signals will give.
Pending ==
  LET run == <<previous>> \o signals
  IN  Cardinality({i \in 1 .. Len(signals) : ShouldNotify(run[i], run[i + 1])})

\* Once the tasks are started, every time the session comes to need attention
\* or ends its work a notice is queued or about to be, unless one of the two
\* queues was full: neither the changes made while the tasks started nor the
\* ones that give no notice make the tracker miss one.
NoNoticeIsMissed == listed /\ ~full => Pending >= owed

\* What a browser last subscribed to stays subscribed until its push service
\* gives the endpoint up, no request can be built for it, or another browser
\* takes it: a late 404 or a late
\* DELETE for an endpoint it no longer uses does not take the new one away,
\* and a restart does not change the key it was made for.
SubscriptionSurvives ==
  \A d \in Browsers :
    wanted[d] # 0 /\ wanted[d] \notin dropped \cup Unbuildable => subs[d].ep = wanted[d] /\ subs[d].key = key

\* Notices arrive: unless a queue was full every completion is owed to no one
\* for long, and a late answer or deletion of an old endpoint never removes
\* the subscription that replaced it (ActivityTracker, remove_if_endpoint).
NoticesArrive == NoNoticeIsMissed /\ SubscriptionSurvives
=============================================================================
