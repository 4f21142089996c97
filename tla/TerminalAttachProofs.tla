----------------------- MODULE TerminalAttachProofs -----------------------
(***************************************************************************)
(* TerminalAttach: its type invariant, and that every synchronised client  *)
(* shows an exact prefix of the session's terminal history.                *)
(***************************************************************************)
EXTENDS TerminalAttach, TLAPS

(* push_journal keeps the journal an ordered, gap-free suffix of the       *)
(* history: recording an event advances next by one and never leaves a     *)
(* hole behind journal_base_seq.                                           *)
LEMMA RecordEventLemma ==
  ASSUME NEW ca \in Caches, SuffixJournal(ca),
         NEW kind \in Kinds, NEW size \in Sizes \cup {NoSize},
         kind = "resize" => size \in Sizes
  PROVE  /\ RecordEvent(ca, kind, size) \in Caches
         /\ SuffixJournal(RecordEvent(ca, kind, size))
         /\ CurrentSeq(RecordEvent(ca, kind, size)) = CurrentSeq(ca) + 1
         /\ CurrentSeq(ca) \in Nat
         /\ Event(ca.next, kind, size) \in Events
<1> DEFINE ev == Event(ca.next, kind, size)
           ap == Append(ca.journal, ev)
           tr == Trimmed(ap)
<1>1. ev \in Events /\ ev.seq = ca.next
  BY DEF Caches, Events, Event
<1>2. ap \in Seq(Events) /\ Len(ap) = Len(ca.journal) + 1 /\ ap # <<>>
  BY <1>1 DEF Caches
<1>3. \A i \in 1..Len(ap) : ap[i].seq = ca.base + i - 1
  BY <1>1, <1>2 DEF Caches, SuffixJournal
<1>4. /\ tr \in Seq(Events) /\ tr # <<>> /\ Len(tr) <= JournalMax
      /\ tr[1].seq \in Nat \ {0}
      /\ tr[1].seq + Len(tr) = ca.next + 1
      /\ \A i \in 1..Len(tr) : tr[i].seq = tr[1].seq + i - 1
      /\ tr[1].seq = 1 \/ Len(tr) = JournalMax
  <2>1. CASE Len(ap) > JournalMax
    <3>1. tr = Tail(ap) BY <2>1 DEF Trimmed
    <3>2. tr \in Seq(Events) /\ Len(tr) = Len(ap) - 1 BY <1>2, <3>1
    <3>3. Len(tr) = JournalMax BY <1>2, <3>2, <2>1, JournalMaxAssumption DEF Caches, SuffixJournal
    <3>4. \A i \in 1..Len(tr) : tr[i] = ap[i + 1] BY <1>2, <3>1, <3>2
    <3>5. \A i \in 1..Len(tr) : tr[i].seq = ca.base + i
      <4> SUFFICES ASSUME NEW i \in 1..Len(tr) PROVE tr[i].seq = ca.base + i
        OBVIOUS
      <4>1. i + 1 \in 1..Len(ap) /\ ca.base \in Nat /\ i \in Nat
        BY <1>2, <3>2 DEF Caches
      <4>2. ap[i + 1].seq = ca.base + (i + 1) - 1 BY <1>3, <4>1
      <4>3. tr[i] = ap[i + 1] BY <3>4
      <4> HIDE DEF tr, ap
      <4> QED BY <4>1, <4>2, <4>3
    <3>6. /\ ca.base \in Nat \ {0} /\ ca.next \in Nat /\ Len(ap) \in Nat
          /\ ca.base + Len(ap) = ca.next + 1
      BY <1>2 DEF Caches, SuffixJournal
    <3> HIDE DEF tr, ap
    <3>7. tr[1].seq = ca.base + 1 /\ tr # <<>>
      BY <3>3, <3>5, JournalMaxAssumption
    <3>8. \A i \in 1..Len(tr) : tr[i].seq = tr[1].seq + i - 1
      BY <3>3, <3>5, <3>6, <3>7, JournalMaxAssumption
    <3>9. tr[1].seq \in Nat \ {0} /\ tr[1].seq + Len(tr) = ca.next + 1
      BY <3>2, <3>6, <3>7
    <3>10. Len(tr) <= JournalMax BY <3>3, JournalMaxAssumption
    <3> QED BY <3>2, <3>3, <3>7, <3>8, <3>9, <3>10
  <2>2. CASE ~(Len(ap) > JournalMax)
    <3>1. tr = ap BY <2>2 DEF Trimmed
    <3>2. /\ Len(ap) \in Nat \ {0} /\ ca.base \in Nat \ {0} /\ JournalMax \in Nat
          /\ ca.base + Len(ap) = ca.next + 1
      BY <1>2, JournalMaxAssumption DEF Caches, SuffixJournal
    <3>3. ap[1].seq = ca.base BY <1>3, <3>2
    <3>4. ca.base = 1 BY <1>2, <2>2, JournalMaxAssumption DEF Caches, SuffixJournal
    <3> HIDE DEF tr, ap
    <3> QED BY <1>2, <1>3, <2>2, <3>1, <3>2, <3>3, <3>4
  <2> QED BY <2>1, <2>2
<1>5. ca.next \in Nat \ {0} /\ ca.size \in Sizes BY DEF Caches
<1>6. RecordEvent(ca, kind, size) =
         [next |-> ca.next + 1, base |-> tr[1].seq, journal |-> tr,
          size |-> IF kind = "resize" THEN size ELSE ca.size]
  BY <1>4 DEF RecordEvent, PushJournal, Caches
<1> HIDE DEF tr, ap, ev
<1> QED BY <1>1, <1>4, <1>5, <1>6 DEF Caches, SuffixJournal, CurrentSeq, ev

(* An answer brings a caller that knows the events up to lst up to cur. *)
Covers(a, lst, cur) ==
    \/ a.snap
    \/ /\ lst # NoSeq
       /\ lst + Len(a.tail) = cur
       /\ \A i \in 1..Len(a.tail) : a.tail[i].seq = lst + i

(* What remains of a sequence from position m on, as a tail is cut. *)
LEMMA SuffixOfSeq ==
  ASSUME NEW S, NEW s \in Seq(S), NEW m \in 1..Len(s)
  PROVE  /\ SubSeq(s, m, Len(s)) \in Seq(S)
         /\ Len(SubSeq(s, m, Len(s))) = Len(s) - m + 1
         /\ \A i \in 1..(Len(s) - m + 1) : SubSeq(s, m, Len(s))[i] = s[m + i - 1]
OBVIOUS

(* terminal_snapshot_or_tail covers exactly what the caller is missing:    *)
(* either a snapshot at the current sequence number, or the complete tail  *)
(* after the caller's last one.                                            *)
LEMMA SnapshotOrTailLemma ==
  ASSUME NEW ca \in Caches, SuffixJournal(ca),
         NEW lst \in Nat \cup {NoSeq}, NEW fits \in BOOLEAN,
         NEW a, a = SnapshotOrTail(ca, lst, fits)
  PROVE  /\ a.base = CurrentSeq(ca) /\ a.base \in Nat
         /\ a.snap \in BOOLEAN
         /\ a.tail \in Seq(Events)
         /\ Covers(a, lst, a.base)
<1> USE DEF Covers
<1> DEFINE cur == CurrentSeq(ca)
           tail == TailAfter(ca, lst)
<1>1. cur \in Nat /\ cur = ca.next - 1 BY DEF CurrentSeq, Caches
<1>2. CASE lst = cur
  <2>1. a = [base |-> cur, snap |-> FALSE, tail |-> <<>>] BY <1>2 DEF SnapshotOrTail
  <2>2. <<>> \in Seq(Events) /\ Len(<<>>) = 0 OBVIOUS
  <2>3. a.tail = <<>> /\ a.base = cur /\ a.snap = FALSE BY <2>1
  <2>4. lst # NoSeq /\ lst + 0 = cur BY <1>1, <1>2 DEF NoSeq
  <2> HIDE DEF cur
  <2>5. \A i \in 1..0 : a.tail[i].seq = lst + i OBVIOUS
  <2> QED BY <1>1, <1>2, <2>2, <2>3, <2>4, <2>5 DEF cur
<1>3. CASE lst # cur /\ lst # NoSeq /\ lst < cur /\ lst + 1 >= ca.base /\ ReplaysTail(tail, fits)
  <2>1. a = [base |-> cur, snap |-> FALSE, tail |-> tail] BY <1>3 DEF SnapshotOrTail
  <2>2. lst \in Nat BY <1>3
  <2>3. /\ ca.journal \in Seq(Events) /\ ca.base \in Nat \ {0}
        /\ Len(ca.journal) = ca.next - ca.base
        /\ Len(ca.journal) \in Nat
    BY DEF Caches, SuffixJournal
  <2> DEFINE from == lst + 2 - ca.base
  <2>4. from \in 1..Len(ca.journal)
    <3>1. ca.next \in Nat BY DEF Caches
    <3>2. lst + 1 < ca.next /\ lst + 1 >= ca.base BY <1>1, <1>3, <2>2, <3>1
    <3> QED BY <2>2, <2>3, <3>1, <3>2
  <2>5. tail = SubSeq(ca.journal, from, Len(ca.journal)) BY DEF TailAfter
  <2>6. /\ tail \in Seq(Events) /\ Len(tail) = Len(ca.journal) - from + 1
        /\ \A i \in 1..Len(tail) : tail[i] = ca.journal[from + i - 1]
    <3> HIDE DEF tail, from
    <3> QED BY <2>3, <2>4, <2>5, SuffixOfSeq
  <2>7. \A i \in 1..Len(tail) : tail[i].seq = lst + i
    <3> SUFFICES ASSUME NEW i \in 1..Len(tail) PROVE tail[i].seq = lst + i
      OBVIOUS
    <3>1. from + i - 1 \in 1..Len(ca.journal) /\ i \in Nat /\ from \in Nat
      <4>1. Len(tail) = Len(ca.journal) - from + 1 BY <2>6
      <4>2. from \in Nat /\ from >= 1 BY <2>3, <2>4
      <4> HIDE DEF tail, from
      <4> QED BY <2>3, <4>1, <4>2
    <3>2. ca.journal[from + i - 1].seq = ca.base + (from + i - 1) - 1
      BY <3>1 DEF SuffixJournal
    <3>3. tail[i] = ca.journal[from + i - 1] BY <2>6
    <3>4. ca.base \in Int /\ lst \in Int /\ i \in Int BY <2>2, <2>3, <3>1
    <3> HIDE DEF tail
    <3>5. ca.base + (from + i - 1) - 1 = lst + i BY <3>4
    <3> HIDE DEF from
    <3> QED BY <3>2, <3>3, <3>5
  <2>8. lst + Len(tail) = cur
    <3>1. Len(tail) = Len(ca.journal) - from + 1 BY <2>6
    <3>2. ca.next \in Nat BY DEF Caches
    <3> HIDE DEF tail
    <3> QED BY SMTT(30), <1>1, <2>2, <2>3, <3>1, <3>2
  <2>9. a.tail = tail /\ a.base = cur /\ a.snap = FALSE BY <2>1
  <2> HIDE DEF tail, cur
  <2> QED BY <1>1, <1>3, <2>2, <2>6, <2>7, <2>8, <2>9 DEF cur
<1>4. CASE lst # cur /\ ~(lst # NoSeq /\ lst < cur /\ lst + 1 >= ca.base /\ ReplaysTail(tail, fits))
  <2>1. a = [base |-> cur, snap |-> TRUE, tail |-> <<>>] BY <1>4 DEF SnapshotOrTail
  <2> QED BY <1>1, <2>1
<1> QED BY <1>2, <1>3, <1>4

----------------------------------------------------------------------------
(* Types and the journal *)

(* The messages a handler writes are well formed. *)
LEMMA MessageTypes ==
  /\ \A e \in Events : FrameMsg(e) \in Messages
  /\ \A q \in Seq(Messages), m \in Messages : Append(q, m) \in Seq(Messages)
  /\ \A q \in Seq(Messages) : q # <<>> => Tail(q) \in Seq(Messages) /\ Head(q) \in Messages
  /\ <<>> \in Seq(Messages)
<1>1. \A e \in Events : FrameMsg(e) \in Messages
  BY DEF FrameMsg, Messages, Events
<1>2. \A q \in Seq(Messages) : q # <<>> => Tail(q) \in Seq(Messages) /\ Head(q) \in Messages
  OBVIOUS
<1> QED BY <1>1, <1>2

(* One terminal event keeps the queues and the journal well formed. *)
LEMMA PublishTypes ==
  ASSUME TypeOK, JournalIsSuffix, NEW kind \in Kinds, NEW size \in Sizes \cup {NoSize},
         kind = "resize" => size \in Sizes, Publish(kind, size)
  PROVE  /\ cache' \in Caches /\ SuffixJournal(cache')
         /\ outq' \in [Clients -> Seq(Messages)]
         /\ covered' \in [Clients -> Int]
         /\ overflow' \in [Clients -> BOOLEAN]
<1> DEFINE ev == Event(cache.next, kind, size)
<1>1. /\ cache \in Caches /\ outq \in [Clients -> Seq(Messages)]
      /\ covered \in [Clients -> Int] /\ overflow \in [Clients -> BOOLEAN]
  BY DEF TypeOK
<1>2. cache' = RecordEvent(cache, kind, size) BY DEF Publish
<1>3. PICK heavy \in SUBSET Clients : BroadcastTerminalFrame(ev, heavy)
  BY DEF Publish
<1>4. cache' \in Caches /\ SuffixJournal(cache') /\ ev \in Events
  BY <1>1, <1>2, RecordEventLemma DEF JournalIsSuffix
<1>5. ev.seq \in Nat BY <1>4 DEF Events
<1> HIDE DEF ev
<1>6. outq' \in [Clients -> Seq(Messages)]
  BY <1>1, <1>3, <1>4, MessageTypes DEF BroadcastTerminalFrame
<1>7. covered' \in [Clients -> Int]
  BY <1>1, <1>3, <1>5 DEF BroadcastTerminalFrame
<1>8. overflow' \in [Clients -> BOOLEAN]
  BY <1>1, <1>3, Zenon DEF BroadcastTerminalFrame
<1> QED BY <1>4, <1>6, <1>7, <1>8

(* The type invariant and the shape of the journal are inductive: the only *)
(* step that touches the journal is Publish.                               *)
LEMMA TypeStep ==
  ASSUME TypeOK, JournalIsSuffix, [Next]_vars
  PROVE  TypeOK' /\ JournalIsSuffix'
<1> USE DEF svars, hvars, pvars, cvars
<1>1. CASE UNCHANGED vars
  BY <1>1 DEF TypeOK, JournalIsSuffix, vars
<1>2. CASE PublishOutput
  <2>1. Publish("output", NoSize) BY <1>2 DEF PublishOutput
  <2> QED BY <1>2, <2>1, PublishTypes DEF PublishOutput, TypeOK, JournalIsSuffix, Kinds
<1>3. CASE PublishExit
  <2>1. Publish("exit", NoSize) BY <1>3 DEF PublishExit
  <2> QED BY <1>3, <2>1, PublishTypes DEF PublishExit, TypeOK, JournalIsSuffix, Kinds
<1>4. ASSUME NEW size \in Sizes, ControllerResize(size)
      PROVE  TypeOK' /\ JournalIsSuffix'
  <2>1. Publish("resize", size) BY <1>4 DEF ControllerResize
  <2> QED BY <1>4, <2>1, PublishTypes DEF ControllerResize, TypeOK, JournalIsSuffix, Kinds
<1>5. ASSUME NEW c \in Clients, HandleResize(c)
      PROVE  TypeOK' /\ JournalIsSuffix'
  <2>1. resizing[c] \in Sizes BY <1>5 DEF HandleResize, TypeOK
  <2>2. Publish("resize", resizing[c]) BY <1>5 DEF HandleResize
  <2> QED BY <1>5, <2>1, <2>2, PublishTypes DEF HandleResize, TypeOK, JournalIsSuffix, Kinds
<1>6. ASSUME NEW c \in Clients, ClientStep(c), ~HandleResize(c)
      PROVE  TypeOK' /\ JournalIsSuffix'
  <2>1. cache' = cache
    BY <1>6 DEF ClientStep, RegisterAndSync, DrainFrame, DrainDone, SlowConsumer, ForwardFrame,
       PtyWriteFails, HeartbeatPing, HeartbeatPong, HeartbeatTimeout, HandlerEnds, ProxyRead, ProxyEof,
       OpenAttach, AttachConfirmed, ReceiveFrame, ReceiveExit, AwaitResizeEcho, Disconnect, ProxyError,
       ReceiveClose, SessionRemoved, Teardown, SendResize
  <2>2. JournalIsSuffix' BY <2>1 DEF JournalIsSuffix
  <2>3. CASE RegisterAndSync(c)
    <3>1. PICK fits \in BOOLEAN :
            LET answer == SnapshotOrTail(cache, boot[c], fits)
            IN  /\ sock' = [sock EXCEPT ![c] = <<SyncMsg(answer)>>]
                /\ base' = [base EXCEPT ![c] = answer.base]
                /\ covered' = [covered EXCEPT ![c] = answer.base]
      BY <2>3 DEF RegisterAndSync
    <3> DEFINE a == SnapshotOrTail(cache, boot[c], fits)
    <3>2. boot[c] \in Nat \cup {NoSeq} /\ cache \in Caches BY DEF TypeOK
    <3>3. a.base \in Nat /\ a.snap \in BOOLEAN /\ a.tail \in Seq(Events)
      BY <3>2, SnapshotOrTailLemma DEF JournalIsSuffix
    <3> HIDE DEF a
    <3>4. SyncMsg(a) \in Messages BY <3>3 DEF SyncMsg, Messages
    <3>5. <<SyncMsg(a)>> \in Seq(Messages) BY <3>4
    <3>6. /\ sock' = [sock EXCEPT ![c] = <<SyncMsg(a)>>]
          /\ base' = [base EXCEPT ![c] = a.base]
          /\ covered' = [covered EXCEPT ![c] = a.base]
      BY <3>1 DEF a
    <3> QED BY <2>2, <2>3, <3>3, <3>5, <3>6 DEF RegisterAndSync, TypeOK, Handlers
  <2>4. CASE DrainFrame(c)
    BY <2>2, <2>4, MessageTypes DEF DrainFrame, TypeOK
  <2>5. CASE DrainDone(c) \/ HeartbeatPing(c) \/ HeartbeatPong(c)
    BY <2>2, <2>5 DEF DrainDone, HeartbeatPing, HeartbeatPong, TypeOK, Handlers
  <2>6. CASE SlowConsumer(c) \/ PtyWriteFails(c) \/ HeartbeatTimeout(c)
    <3>1. PICK close \in BOOLEAN : HandlerEnds(c, close)
      BY <2>6 DEF SlowConsumer, PtyWriteFails, HeartbeatTimeout
    <3>2. covered[c] \in Int /\ Len(outq[c]) \in Nat BY DEF TypeOK
    <3> QED BY <2>2, <3>1, <3>2, MessageTypes DEF HandlerEnds, TypeOK, Handlers
  <2>7. CASE ForwardFrame(c)
    BY <2>2, <2>7, MessageTypes DEF ForwardFrame, TypeOK
  <2>8. CASE ProxyRead(c)
    <3>1. PICK heavy \in BOOLEAN :
            IF Len(pend[c]) >= ProxyMax \/ heavy
            THEN /\ pend' = [pend EXCEPT ![c] = <<>>]
                 /\ proxy' = [proxy EXCEPT ![c] = "failed"]
                 /\ UNCHANGED sock
            ELSE /\ pend' = [pend EXCEPT ![c] = Append(@, Head(sock[c]))]
                 /\ sock' = [sock EXCEPT ![c] = Tail(@)]
                 /\ UNCHANGED proxy
      BY <2>8 DEF ProxyRead
    <3>2. sock[c] # <<>> /\ UNCHANGED <<svars, hvars, cvars>> BY <2>8 DEF ProxyRead
    <3>3. CASE Len(pend[c]) >= ProxyMax \/ heavy
      BY <2>2, <3>1, <3>2, <3>3, MessageTypes DEF TypeOK, Proxies
    <3>4. CASE ~(Len(pend[c]) >= ProxyMax \/ heavy)
      <4>1. /\ pend' = [pend EXCEPT ![c] = Append(@, Head(sock[c]))]
            /\ sock' = [sock EXCEPT ![c] = Tail(@)]
            /\ UNCHANGED proxy
        BY <3>1, <3>4
      <4>2. pend' \in [Clients -> Seq(Messages)] BY <3>2, <4>1, MessageTypes DEF TypeOK
      <4>3. sock' \in [Clients -> Seq(Messages)] BY <3>2, <4>1, MessageTypes DEF TypeOK
      <4> QED BY <2>2, <3>2, <4>1, <4>2, <4>3 DEF TypeOK
    <3> QED BY <3>3, <3>4
  <2>9. CASE ProxyEof(c)
    BY <2>2, <2>9, MessageTypes DEF ProxyEof, TypeOK, Proxies
  <2>10. CASE OpenAttach(c)
    BY <2>2, <2>10 DEF OpenAttach, TypeOK, Handlers, States, Proxies
  <2>11. CASE AttachConfirmed(c)
    BY <2>2, <2>11 DEF AttachConfirmed, TypeOK, States
  <2>12. CASE ReceiveFrame(c)
    <3> DEFINE msg == Head(pend[c])
    <3>1. msg \in Messages BY <2>12, MessageTypes DEF ReceiveFrame, Receivable, TypeOK
    <3>2. msg.seq \in Nat /\ msg.tail \in Seq(Events) /\ msg.snap \in BOOLEAN BY <3>1 DEF Messages
    <3>3. {msg.tail[i].seq : i \in 1..Len(msg.tail)} \subseteq Nat
      <4> HIDE DEF msg
      <4>1. \A i \in 1..Len(msg.tail) : msg.tail[i] \in Events BY <3>2
      <4>2. \A e \in Events : e.seq \in Nat BY DEF Events
      <4> QED BY <4>1, <4>2
    <3>4. pend' \in [Clients -> Seq(Messages)]
      BY <2>12, MessageTypes DEF ReceiveFrame, Receivable, TypeOK
    <3>5. last' \in [Clients -> Nat \cup {NoSeq}]
      BY <2>12, <3>2 DEF ReceiveFrame, RecordTerminalSeq, TypeOK
    <3>6. 1..msg.seq \subseteq Nat BY <3>2
    <3>7. view' \in [Clients -> SUBSET Nat]
      BY <2>12, <3>2, <3>3, <3>6 DEF ReceiveFrame, Render, TypeOK
    <3>8. twice' \in [Clients -> BOOLEAN]
      BY <2>12, <3>2, Zenon DEF ReceiveFrame, Render, TypeOK
    <3> QED BY <2>2, <2>12, <3>4, <3>5, <3>7, <3>8 DEF ReceiveFrame, TypeOK
  <2>13. CASE AwaitResizeEcho(c)
    BY <2>2, <2>13, MessageTypes DEF AwaitResizeEcho, TypeOK
  <2>14. CASE \E next \in {"down", "ended"} : Teardown(c, next)
    BY <2>2, <2>14, MessageTypes DEF Teardown, TypeOK, Handlers, States, Proxies
  <2>15. CASE \E size \in Sizes : SendResize(c, size)
    BY <2>2, <2>15 DEF SendResize, TypeOK
  <2>16. ReceiveExit(c) \/ Disconnect(c) \/ ProxyError(c) \/ ReceiveClose(c) \/ SessionRemoved(c)
         => \E next \in {"down", "ended"} : Teardown(c, next)
    BY DEF ReceiveExit, Disconnect, ProxyError, ReceiveClose, SessionRemoved
  <2> QED BY <1>6, <2>3, <2>4, <2>5, <2>6, <2>7, <2>8, <2>9, <2>10, <2>11, <2>12, <2>13, <2>14, <2>15,
             <2>16 DEF ClientStep
<1> QED BY <1>1, <1>2, <1>3, <1>4, <1>5, <1>6 DEF Next

(* The supervisor starts with an empty journal and no attach. *)
LEMMA TypeInit == Init => TypeOK /\ JournalIsSuffix
<1> SUFFICES ASSUME Init PROVE TypeOK /\ JournalIsSuffix OBVIOUS
<1>1. cache = [next |-> 1, base |-> 1, journal |-> <<>>, size |-> InitSize]
  BY DEF Init, NewCache
<1>2. cache \in Caches BY <1>1, TerminalAttachAssumption DEF Caches
<1>3. JournalIsSuffix BY <1>1, JournalMaxAssumption DEF JournalIsSuffix, SuffixJournal
<1>4. /\ exited \in BOOLEAN
      /\ overflow \in [Clients -> BOOLEAN] /\ heartbeat \in [Clients -> BOOLEAN]
      /\ closing \in [Clients -> BOOLEAN] /\ twice \in [Clients -> BOOLEAN]
  BY DEF Init
<1>5. /\ outq \in [Clients -> Seq(Messages)] /\ sock \in [Clients -> Seq(Messages)]
      /\ pend \in [Clients -> Seq(Messages)]
  BY MessageTypes DEF Init
<1>6. TypeOK BY <1>2, <1>4, <1>5 DEF Init, TypeOK, Handlers, Proxies, States
<1> QED BY <1>3, <1>6

(* Spec satisfies the type invariant for every choice of the clients, the  *)
(* queue bounds and the journal's length.                                  *)
THEOREM TypeCorrect == Spec => []TypeOK
  BY TypeInit, TypeStep, PTL DEF Spec

(* The journal stays a gap-free suffix of the session's history.           *)
THEOREM JournalCorrect == Spec => []JournalIsSuffix
  BY TypeInit, TypeStep, PTL DEF Spec

----------------------------------------------------------------------------
(* Moving a message along the stream keeps the numbering unbroken *)

(* A queue that takes the next event (try_send, the proxy's push) stays    *)
(* consecutively numbered.                                                 *)
LEMMA AppendConsecutive ==
  ASSUME NEW q \in Seq(Messages), NEW m \in Messages, NEW b \in Int,
         Consecutive(q, b), m.seq = b + Len(q) + 1
  PROVE  Consecutive(Append(q, m), b)
<1> SUFFICES ASSUME NEW i \in 1..Len(Append(q, m))
             PROVE  Append(q, m)[i].seq = b + i
  BY DEF Consecutive
<1>1. Len(Append(q, m)) = Len(q) + 1 /\ Len(q) \in Nat OBVIOUS
<1>2. CASE i \in 1..Len(q)
  <2>1. Append(q, m)[i] = q[i] BY <1>2
  <2> QED BY <1>2, <2>1 DEF Consecutive
<1>3. CASE i = Len(q) + 1
  <2>1. Append(q, m)[i] = m BY <1>3
  <2>2. b + i = b + Len(q) + 1 BY <1>1, <1>3
  <2> QED BY <2>1, <2>2
<1> QED BY <1>1, <1>2, <1>3

(* A queue whose head was taken is numbered from one event later.          *)
LEMMA TailConsecutive ==
  ASSUME NEW q \in Seq(Messages), NEW b \in Int, q # <<>>, Consecutive(q, b)
  PROVE  /\ Head(q) \in Messages /\ Head(q).seq = b + 1
         /\ Tail(q) \in Seq(Messages) /\ Len(Tail(q)) = Len(q) - 1
         /\ Consecutive(Tail(q), b + 1)
<1>1. Head(q) \in Messages /\ Head(q) = q[1] /\ Tail(q) \in Seq(Messages)
      /\ Len(Tail(q)) = Len(q) - 1 /\ Len(q) \in Nat \ {0}
  OBVIOUS
<1>2. Head(q).seq = b + 1 BY <1>1 DEF Consecutive
<1>3. ASSUME NEW i \in 1..Len(Tail(q)) PROVE Tail(q)[i].seq = (b + 1) + i
  <2>1. Tail(q)[i] = q[i + 1] BY <1>1
  <2>2. i + 1 \in 1..Len(q) BY <1>1
  <2>3. q[i + 1].seq = b + (i + 1) BY <2>2 DEF Consecutive
  <2>4. i \in Int BY <1>1
  <2> QED BY <2>1, <2>3, <2>4
<1> QED BY <1>1, <1>2, <1>3 DEF Consecutive

(* Appending a frame to, or taking one from, a queue of frames leaves a    *)
(* queue of frames.                                                        *)
LEMMA FrameSeqs ==
  /\ \A q \in Seq(Messages), m \in Messages : AllFrames(q) /\ IsFrame(m) => AllFrames(Append(q, m))
  /\ \A q \in Seq(Messages) : q # <<>> /\ AllFrames(q) => AllFrames(Tail(q)) /\ IsFrame(Head(q))
  /\ AllFrames(<<>>)
  /\ \A b : Consecutive(<<>>, b)
  /\ \A e : IsFrame(FrameMsg(e)) /\ FrameMsg(e).seq = e.seq
<1>1. ASSUME NEW q \in Seq(Messages), NEW m \in Messages, AllFrames(q), IsFrame(m)
      PROVE  AllFrames(Append(q, m))
  <2>1. /\ Len(Append(q, m)) = Len(q) + 1 /\ Len(q) \in Nat
        /\ \A i \in 1..Len(q) : Append(q, m)[i] = q[i]
        /\ Append(q, m)[Len(q) + 1] = m
    OBVIOUS
  <2>2. \A i \in 1..(Len(q) + 1) : i \in 1..Len(q) \/ i = Len(q) + 1 BY <2>1
  <2> QED BY <1>1, <2>1, <2>2 DEF AllFrames
<1>2. ASSUME NEW q \in Seq(Messages), q # <<>>, AllFrames(q)
      PROVE  AllFrames(Tail(q)) /\ IsFrame(Head(q))
  <2>1. /\ Len(Tail(q)) = Len(q) - 1 /\ Len(q) \in Nat \ {0} /\ Head(q) = q[1]
        /\ \A i \in 1..Len(Tail(q)) : Tail(q)[i] = q[i + 1]
    BY <1>2
  <2>2. \A i \in 1..Len(Tail(q)) : i + 1 \in 1..Len(q) BY <2>1
  <2>3. 1 \in 1..Len(q) BY <2>1
  <2> QED BY <1>2, <2>1, <2>2, <2>3 DEF AllFrames
<1>3. AllFrames(<<>>) /\ \A b : Consecutive(<<>>, b)
  BY DEF AllFrames, Consecutive
<1>4. \A e : IsFrame(FrameMsg(e)) /\ FrameMsg(e).seq = e.seq
  BY DEF IsFrame, FrameMsg
<1> QED BY <1>1, <1>2, <1>3, <1>4

(* A stream whose messages move from one sequence to the next, appended    *)
(* as first or later message, still begins with its AttachSync.            *)
LEMMA SyncFirstSeqs ==
  ASSUME NEW c
  PROVE  /\ \A q \in Seq(Messages), m \in Messages :
              SyncFirst(c, q) /\ IsFrame(m) => SyncFirst(c, Append(q, m))
         /\ \A m \in Messages : IsSync(c, m) => SyncFirst(c, <<m>>)
<1>1. ASSUME NEW q \in Seq(Messages), NEW m \in Messages, SyncFirst(c, q), IsFrame(m)
      PROVE  SyncFirst(c, Append(q, m))
  <2>1. q # <<>> /\ AllFrames(Tail(q)) BY <1>1 DEF SyncFirst
  <2>2. /\ Append(q, m) # <<>> /\ Head(Append(q, m)) = Head(q)
        /\ Tail(q) \in Seq(Messages)
    BY <2>1
  <2>3. Tail(Append(q, m)) = Append(Tail(q), m) BY <2>1
  <2>4. AllFrames(Append(Tail(q), m)) BY <1>1, <2>1, <2>2, FrameSeqs
  <2> QED BY <1>1, <2>2, <2>3, <2>4 DEF SyncFirst
<1>2. ASSUME NEW m \in Messages, IsSync(c, m) PROVE SyncFirst(c, <<m>>)
  <2>1. <<m>> # <<>> /\ Head(<<m>>) = m /\ Tail(<<m>>) = <<>> OBVIOUS
  <2> QED BY <1>2, <2>1, FrameSeqs DEF SyncFirst
<1> QED BY <1>1, <1>2

(* What the type invariant says of one client. *)
LEMMA ClientTypes ==
  ASSUME TypeOK, NEW c \in Clients
  PROVE  /\ covered[c] \in Int /\ base[c] \in Nat /\ last[c] \in Nat \cup {NoSeq}
         /\ boot[c] \in Nat \cup {NoSeq}
         /\ outq[c] \in Seq(Messages) /\ sock[c] \in Seq(Messages) /\ pend[c] \in Seq(Messages)
         /\ Len(outq[c]) \in Nat /\ Len(sock[c]) \in Nat /\ Len(pend[c]) \in Nat
         /\ Sent(c) \in Int /\ Read(c) \in Int /\ Cursor(c) \in Int
         /\ CurrentSeq(cache) \in Nat
<1>1. /\ covered[c] \in Int /\ base[c] \in Nat /\ last[c] \in Nat \cup {NoSeq}
      /\ boot[c] \in Nat \cup {NoSeq}
      /\ outq[c] \in Seq(Messages) /\ sock[c] \in Seq(Messages) /\ pend[c] \in Seq(Messages)
      /\ cache \in Caches
  BY DEF TypeOK
<1>2. Len(outq[c]) \in Nat /\ Len(sock[c]) \in Nat /\ Len(pend[c]) \in Nat
  BY <1>1
<1>3. CurrentSeq(cache) \in Nat BY <1>1 DEF CurrentSeq, Caches
<1> QED BY SMTT(30), <1>1, <1>2, <1>3 DEF Sent, Read, Cursor

----------------------------------------------------------------------------
(* One step of the specification and one client *)

(* A terminal event extends every registered queue by the next number; an  *)
(* attach that cannot take it is no longer registered.                     *)
LEMMA PublishStep ==
  ASSUME AttachInv, NEW kind \in Kinds, NEW size \in Sizes \cup {NoSize},
         kind = "resize" => size \in Sizes, Publish(kind, size),
         UNCHANGED <<handler, boot, base, sock, pend, proxy, client, last, waiting, view, twice>>,
         NEW d \in Clients
  PROVE  StreamInv(d)' /\ (d \in PlainClients => ViewInv(d)')
<1> DEFINE ev == Event(cache.next, kind, size)
           cs == CurrentSeq(cache)
<1>1. TypeOK /\ JournalIsSuffix /\ StreamInv(d) /\ (d \in PlainClients => ViewInv(d))
  BY DEF AttachInv
<1>2. cache \in Caches /\ outq \in [Clients -> Seq(Messages)]
      /\ covered \in [Clients -> Int] /\ overflow \in [Clients -> BOOLEAN]
  BY <1>1 DEF TypeOK
<1>3. PICK heavy \in SUBSET Clients : BroadcastTerminalFrame(ev, heavy)
  BY DEF Publish
<1>4. CurrentSeq(cache') = cs + 1 /\ cs \in Nat /\ ev \in Events
  BY <1>1, <1>2, RecordEventLemma DEF JournalIsSuffix, Publish
<1>5. ev.seq = cs + 1 BY <1>2 DEF Event, CurrentSeq, Caches
<1> HIDE DEF ev, cs
<1>6. /\ FrameMsg(ev) \in Messages /\ IsFrame(FrameMsg(ev)) /\ FrameMsg(ev).seq = cs + 1
  BY <1>4, <1>5, MessageTypes, FrameSeqs
<1>7. /\ covered[d] \in Int /\ outq[d] \in Seq(Messages) /\ Len(outq[d]) \in Nat
      /\ base[d] \in Nat /\ last[d] \in Nat \cup {NoSeq}
      /\ Sent(d) \in Int /\ Read(d) \in Int /\ Cursor(d) \in Int
      /\ Len(sock[d]) \in Nat /\ Len(pend[d]) \in Nat
  BY <1>1, ClientTypes
<1>8. /\ Registered(d) => covered[d] = cs
      /\ covered[d] <= cs /\ AllFrames(outq[d]) /\ Consecutive(outq[d], Sent(d))
      /\ Len(outq[d]) <= QueueMax
      /\ d \in PlainClients => last[d] <= cs
  BY <1>1 DEF StreamInv, ViewInv, cs
<1>9. /\ Sent(d)' = Sent(d)
      /\ AllFrames(outq'[d]) /\ Consecutive(outq'[d], Sent(d))
      /\ covered'[d] <= CurrentSeq(cache') /\ Len(outq'[d]) <= QueueMax
      /\ Registered(d)' => covered'[d] = CurrentSeq(cache')
      /\ handler[d] \in {"none", "boot", "ended"} =>
            outq'[d] = outq[d] /\ overflow'[d] = overflow[d]
  <2>1. CASE Registered(d) /\ Accepts(d, heavy)
    <3>1. outq'[d] = Append(outq[d], FrameMsg(ev)) /\ covered'[d] = cs + 1
      BY <1>2, <1>3, <1>5, <2>1 DEF BroadcastTerminalFrame
    <3>2. Len(outq'[d]) = Len(outq[d]) + 1 BY <1>6, <1>7, <3>1
    <3>3. Sent(d)' = Sent(d) BY SMTT(30), <1>4, <1>7, <1>8, <2>1, <3>1, <3>2 DEF Sent
    <3>4. FrameMsg(ev).seq = Sent(d) + Len(outq[d]) + 1
      BY <1>4, <1>6, <1>7, <1>8, <2>1 DEF Sent
    <3>5. Consecutive(outq'[d], Sent(d))
      BY <1>6, <1>7, <1>8, <3>1, <3>4, AppendConsecutive
    <3>6. AllFrames(outq'[d]) BY <1>6, <1>7, <1>8, <3>1, FrameSeqs
    <3>7. Len(outq'[d]) <= QueueMax
      BY <1>7, <2>1, <3>2, TerminalAttachAssumption DEF Accepts
    <3>8. handler[d] \in {"drain", "loop"} BY <2>1 DEF Registered
    <3> QED BY <1>4, <3>1, <3>3, <3>5, <3>6, <3>7, <3>8
  <2>2. CASE ~(Registered(d) /\ Accepts(d, heavy))
    <3>1. outq'[d] = outq[d] /\ covered'[d] = covered[d]
      BY <1>2, <1>3, <2>2 DEF BroadcastTerminalFrame
    <3>2. overflow'[d] <=> (overflow[d] \/ (Registered(d) /\ ~Accepts(d, heavy)))
      BY <1>2, <1>3 DEF BroadcastTerminalFrame
    <3>3. ~Registered(d)' BY <2>2, <3>2 DEF Registered
    <3>4. Sent(d)' = Sent(d) BY <3>1 DEF Sent
    <3>5. covered'[d] <= CurrentSeq(cache') BY <1>4, <1>7, <1>8, <3>1
    <3>6. handler[d] \in {"none", "boot", "ended"} => overflow'[d] = overflow[d]
      <4>1. handler[d] \in {"none", "boot", "ended"} => ~Registered(d) BY DEF Registered
      <4>2. overflow'[d] \in BOOLEAN /\ overflow[d] \in BOOLEAN
        BY <1>2, <1>3, Zenon DEF BroadcastTerminalFrame
      <4> QED BY <3>2, <4>1, <4>2
    <3> QED BY <1>8, <3>1, <3>3, <3>4, <3>5, <3>6
  <2> QED BY <2>1, <2>2
<1>10. Read(d)' = Read(d) /\ Cursor(d)' = Cursor(d)
  BY <1>9 DEF Read, Cursor
<1>11. StreamInv(d)'
  BY <1>1, <1>9, <1>10 DEF StreamInv, Fresh
<1>12. ASSUME d \in PlainClients PROVE ViewInv(d)'
  <2>1. last[d] <= CurrentSeq(cache') BY <1>4, <1>7, <1>8, <1>12 DEF NoSeq
  <2> QED BY <1>1, <1>10, <1>12, <2>1 DEF ViewInv, Fresh, Synced, SyncFirst, IsSync
<1> QED BY <1>11, <1>12

(* What StreamInv and ViewInv say of a client depends on its own entries   *)
(* and on the cache only.                                                  *)
Same(d) ==
    /\ handler'[d] = handler[d] /\ boot'[d] = boot[d] /\ base'[d] = base[d]
    /\ outq'[d] = outq[d] /\ overflow'[d] = overflow[d] /\ covered'[d] = covered[d]
    /\ sock'[d] = sock[d] /\ pend'[d] = pend[d] /\ proxy'[d] = proxy[d]
    /\ client'[d] = client[d] /\ last'[d] = last[d] /\ waiting'[d] = waiting[d]
    /\ view'[d] = view[d] /\ twice'[d] = twice[d]

(* A step that leaves a client's whole stream alone keeps its invariants.  *)
LEMMA SameKeeps ==
  ASSUME NEW d \in Clients, cache' = cache, Same(d)
  PROVE  (StreamInv(d) => StreamInv(d)') /\ (ViewInv(d) => ViewInv(d)')
<1>1. Sent(d)' = Sent(d) /\ Read(d)' = Read(d) /\ Cursor(d)' = Cursor(d)
  BY DEF Same, Sent, Read, Cursor
<1>2. StreamInv(d) => StreamInv(d)'
  BY <1>1 DEF Same, StreamInv, Fresh, Registered
<1>3. ViewInv(d) => ViewInv(d)'
  BY <1>1 DEF Same, ViewInv, Fresh, Synced, SyncFirst, IsSync
<1> QED BY <1>2, <1>3

(* A client's own step leaves the other clients' entries alone. *)
LEMMA OthersSame ==
  ASSUME TypeOK, NEW c \in Clients, ClientStep(c), ~HandleResize(c), NEW d \in Clients, d # c
  PROVE  cache' = cache /\ Same(d)
<1> USE DEF Same, TypeOK, svars, hvars, pvars, cvars
<1>1. CASE RegisterAndSync(c) \/ DrainFrame(c) \/ DrainDone(c) \/ ForwardFrame(c)
  BY <1>1 DEF RegisterAndSync, DrainFrame, DrainDone, ForwardFrame
<1>2. CASE SlowConsumer(c) \/ PtyWriteFails(c) \/ HeartbeatTimeout(c)
  BY <1>2 DEF SlowConsumer, PtyWriteFails, HeartbeatTimeout, HandlerEnds
<1>3. CASE HeartbeatPing(c) \/ HeartbeatPong(c)
  BY <1>3 DEF HeartbeatPing, HeartbeatPong
<1>4. CASE ProxyRead(c) \/ ProxyEof(c)
  BY <1>4 DEF ProxyRead, ProxyEof
<1>5. CASE OpenAttach(c) \/ AttachConfirmed(c) \/ AwaitResizeEcho(c)
  BY <1>5 DEF OpenAttach, AttachConfirmed, AwaitResizeEcho
<1>6. CASE ReceiveFrame(c)
  BY <1>6 DEF ReceiveFrame, RecordTerminalSeq, Render
<1>7. CASE ReceiveExit(c) \/ Disconnect(c) \/ ProxyError(c) \/ ReceiveClose(c) \/ SessionRemoved(c)
  BY <1>7 DEF ReceiveExit, Disconnect, ProxyError, ReceiveClose, SessionRemoved, Teardown
<1>8. CASE \E size \in Sizes : SendResize(c, size)
  BY <1>8 DEF SendResize
<1> QED BY <1>1, <1>2, <1>3, <1>4, <1>5, <1>6, <1>7, <1>8 DEF ClientStep

(* A step of one client's own stream keeps that client's invariants. *)
LEMMA OwnStep ==
  ASSUME AttachInv, NEW c \in Clients, ClientStep(c), ~HandleResize(c)
  PROVE  StreamInv(c)' /\ (c \in PlainClients => ViewInv(c)')
<1> DEFINE Goal == StreamInv(c)' /\ (c \in PlainClients => ViewInv(c)')
<1>0. TypeOK /\ JournalIsSuffix /\ StreamInv(c) /\ (c \in PlainClients => ViewInv(c))
  BY DEF AttachInv
<1>1. /\ covered[c] \in Int /\ base[c] \in Nat /\ last[c] \in Nat \cup {NoSeq}
      /\ boot[c] \in Nat \cup {NoSeq}
      /\ outq[c] \in Seq(Messages) /\ sock[c] \in Seq(Messages) /\ pend[c] \in Seq(Messages)
      /\ Len(outq[c]) \in Nat /\ Len(sock[c]) \in Nat /\ Len(pend[c]) \in Nat
      /\ Sent(c) \in Int /\ Read(c) \in Int /\ Cursor(c) \in Int
      /\ CurrentSeq(cache) \in Nat
  BY <1>0, ClientTypes
<1>2. CASE RegisterAndSync(c)
  <2>1. PICK fits \in BOOLEAN :
          LET answer == SnapshotOrTail(cache, boot[c], fits)
          IN  /\ sock' = [sock EXCEPT ![c] = <<SyncMsg(answer)>>]
              /\ base' = [base EXCEPT ![c] = answer.base]
              /\ covered' = [covered EXCEPT ![c] = answer.base]
    BY <1>2 DEF RegisterAndSync
  <2>2. PICK a : a = SnapshotOrTail(cache, boot[c], fits) OBVIOUS
  <2>3. PICK m : m = SyncMsg(a) OBVIOUS
  <2>4. /\ sock' = [sock EXCEPT ![c] = <<m>>] /\ base' = [base EXCEPT ![c] = a.base]
        /\ covered' = [covered EXCEPT ![c] = a.base]
    BY <2>1, <2>2, <2>3
  <2>5. /\ a.base = CurrentSeq(cache) /\ a.base \in Nat
        /\ a.snap \in BOOLEAN /\ a.tail \in Seq(Events)
        /\ Covers(a, boot[c], a.base)
    <3>1. cache \in Caches /\ SuffixJournal(cache) BY <1>0 DEF TypeOK, JournalIsSuffix
    <3>2. boot[c] \in Nat \cup {NoSeq} BY <1>1
    <3> QED BY <2>2, <3>1, <3>2, SnapshotOrTailLemma
  <2>6. m \in Messages /\ m.seq = a.base /\ m.snap = a.snap /\ m.tail = a.tail /\ m.type = "sync"
    BY <2>3, <2>5 DEF SyncMsg, Messages
  <2>7. sock'[c] = <<m>> /\ covered'[c] = a.base /\ base'[c] = a.base
    BY <1>0, <2>4 DEF TypeOK
  <2>8. /\ cache' = cache /\ outq'[c] = <<>> /\ pend'[c] = <<>> /\ overflow'[c] = FALSE
        /\ handler'[c] = "drain" /\ client' = client /\ proxy' = proxy /\ last' = last
        /\ boot' = boot /\ waiting' = waiting /\ view' = view /\ twice' = twice
        /\ Fresh(c) /\ proxy[c] = "reading"
    BY <1>0, <1>2 DEF RegisterAndSync, TypeOK, StreamInv, svars, cvars
  <2>9. /\ Len(<<>>) = 0 /\ Len(<<m>>) = 1 /\ <<m>>[1] = m OBVIOUS
  <2>10. Sent(c)' = a.base /\ Read(c)' = a.base - 1 /\ Cursor(c)' = a.base - 1
    BY <2>5, <2>7, <2>8, <2>9 DEF Sent, Read, Cursor
  <2>11. Consecutive(sock'[c], a.base - 1)
    BY <2>5, <2>6, <2>7, <2>9 DEF Consecutive
  <2>12. StreamInv(c)'
    <3>1. client[c] \in {"opening", "attached"} BY <2>8 DEF Fresh
    <3>2. QueueMax \in Nat /\ ProxyMax \in Nat BY TerminalAttachAssumption
    <3> QED BY <2>5, <2>7, <2>8, <2>9, <2>10, <2>11, <3>1, <3>2, FrameSeqs DEF StreamInv
  <2>13. ASSUME c \in PlainClients PROVE ViewInv(c)'
    <3>1. IsSync(c, m)' BY <2>5, <2>6, <2>8 DEF IsSync, Consecutive, Covers
    <3>2. SyncFirst(c, <<m>>)'
      <4>1. <<m>> # <<>> /\ Head(<<m>>) = m /\ Tail(<<m>>) = <<>> OBVIOUS
      <4> QED BY <3>1, <4>1, FrameSeqs DEF SyncFirst
    <3>3. ViewInv(c) /\ ~Synced(c) BY <1>0, <2>8, <2>13 DEF Fresh, Synced
    <3> QED BY <2>7, <2>8, <3>2, <3>3 DEF ViewInv, Fresh, Synced
  <2> QED BY <2>12, <2>13
<1>3. CASE DrainFrame(c) \/ ForwardFrame(c)
  <2>1. /\ outq[c] # <<>> /\ handler[c] \in {"drain", "loop"}
        /\ outq'[c] = Tail(outq[c])
        /\ UNCHANGED <<cache, handler, boot, base, overflow, covered, pend, proxy, client, last,
                       waiting, view, twice>>
    BY <1>0, <1>3 DEF DrainFrame, ForwardFrame, Serving, TypeOK, svars, cvars
  <2>2. /\ Head(outq[c]) \in Messages /\ Head(outq[c]).seq = Sent(c) + 1
        /\ Tail(outq[c]) \in Seq(Messages) /\ Len(Tail(outq[c])) = Len(outq[c]) - 1
        /\ Consecutive(Tail(outq[c]), Sent(c) + 1)
    BY <1>0, <1>1, <2>1, TailConsecutive DEF StreamInv
  <2>3. base[c] <= Sent(c) BY <1>0, <2>1 DEF StreamInv
  <2>4. sock'[c] = Append(sock[c], Head(outq[c]))
    <3>1. ~(Head(outq[c]).seq <= base[c]) BY <1>1, <2>2, <2>3
    <3> QED BY <1>0, <1>3, <3>1 DEF DrainFrame, ForwardFrame, TypeOK
  <2>5. Len(sock'[c]) = Len(sock[c]) + 1 BY <1>1, <2>2, <2>4
  <2>6. Sent(c)' = Sent(c) + 1 /\ Read(c)' = Read(c) /\ Cursor(c)' = Cursor(c)
    <3>1. Sent(c)' = Sent(c) + 1 BY SMTT(30), <1>1, <2>1, <2>2 DEF Sent
    <3>2. Read(c)' = Read(c) BY <1>1, <2>5, <3>1 DEF Read
    <3>3. Cursor(c)' = Cursor(c) BY <2>1, <3>2 DEF Cursor
    <3> QED BY <3>1, <3>2, <3>3
  <2>7. Consecutive(sock'[c], Read(c))
    <3>1. Head(outq[c]).seq = Read(c) + Len(sock[c]) + 1 BY <1>1, <2>2 DEF Read
    <3> QED BY <1>0, <1>1, <2>2, <2>4, <3>1, AppendConsecutive DEF StreamInv
  <2>8. AllFrames(Tail(outq[c])) /\ IsFrame(Head(outq[c]))
    BY <1>0, <1>1, <2>1, FrameSeqs DEF StreamInv
  <2>9. StreamInv(c)'
    <3>1. QueueMax \in Nat /\ Len(outq[c]) <= QueueMax
      BY <1>0, TerminalAttachAssumption DEF StreamInv
    <3>2. Len(outq'[c]) <= QueueMax BY <1>1, <2>1, <2>2, <3>1
    <3>3. base[c] <= Sent(c) + 1 BY <1>1, <2>3
    <3> QED BY <1>0, <2>1, <2>2, <2>6, <2>7, <2>8, <3>2, <3>3 DEF StreamInv, Fresh, Registered
  <2>10. ASSUME c \in PlainClients PROVE ViewInv(c)'
    <3>1. AllFrames(sock[c]) => AllFrames(sock'[c]) BY <1>1, <2>2, <2>4, <2>8, FrameSeqs
    <3>2. SyncFirst(c, sock[c]) => SyncFirst(c, sock'[c])
      BY <1>1, <2>2, <2>4, <2>8, SyncFirstSeqs
    <3>3. \A q : SyncFirst(c, q) => SyncFirst(c, q)' BY <2>1 DEF SyncFirst, IsSync
    <3> QED BY <1>0, <2>1, <2>6, <2>10, <3>1, <3>2, <3>3 DEF ViewInv, Fresh, Synced, SyncFirst, IsSync
  <2> QED BY <2>9, <2>10
<1>4. CASE DrainDone(c) \/ HeartbeatPing(c) \/ HeartbeatPong(c)
  <2>1. /\ UNCHANGED <<cache, outq, sock, pend, boot, base, overflow, covered, proxy, client, last,
                       waiting, view, twice>>
        /\ \/ handler'[c] = handler[c]
           \/ handler[c] = "drain" /\ handler'[c] = "loop"
    BY <1>0, <1>4 DEF DrainDone, HeartbeatPing, HeartbeatPong, TypeOK, svars, pvars, cvars
  <2>2. Sent(c)' = Sent(c) /\ Read(c)' = Read(c) /\ Cursor(c)' = Cursor(c)
    BY <2>1 DEF Sent, Read, Cursor
  <2>3. StreamInv(c)'
    BY <1>0, <2>1, <2>2 DEF StreamInv, Fresh, Registered
  <2>4. ASSUME c \in PlainClients PROVE ViewInv(c)'
    BY <1>0, <2>1, <2>2, <2>4 DEF ViewInv, Fresh, Synced, SyncFirst, IsSync
  <2> QED BY <2>3, <2>4
<1>5. CASE SlowConsumer(c) \/ PtyWriteFails(c) \/ HeartbeatTimeout(c)
  <2>1. /\ UNCHANGED <<cache, sock, pend, boot, base, overflow, proxy, client, last,
                       waiting, view, twice>>
        /\ handler[c] = "loop" /\ handler'[c] = "ended"
        /\ outq'[c] = <<>> /\ covered'[c] = Sent(c)
    BY <1>0, <1>5 DEF SlowConsumer, PtyWriteFails, HeartbeatTimeout, Serving, HandlerEnds,
       TypeOK, Sent, svars, pvars, cvars
  <2>2. Len(<<>>) = 0 OBVIOUS
  <2>3. Sent(c)' = Sent(c) /\ Read(c)' = Read(c) /\ Cursor(c)' = Cursor(c)
    BY SMTT(30), <1>1, <2>1, <2>2 DEF Sent, Read, Cursor
  <2>4. covered'[c] <= CurrentSeq(cache')
    BY <1>0, <1>1, <2>1 DEF Sent, StreamInv
  <2>5. QueueMax \in Nat /\ 0 <= QueueMax BY TerminalAttachAssumption
  <2>6. StreamInv(c)'
    BY <1>0, <2>1, <2>2, <2>3, <2>4, <2>5, FrameSeqs DEF StreamInv, Fresh, Registered
  <2>7. ASSUME c \in PlainClients PROVE ViewInv(c)'
    BY <1>0, <2>1, <2>3, <2>7 DEF ViewInv, Fresh, Synced, SyncFirst, IsSync
  <2> QED BY <2>6, <2>7
<1>6. CASE (ProxyRead(c) \/ ProxyEof(c)) /\ proxy'[c] = "failed" /\ pend'[c] = <<>>
  <2>1. UNCHANGED <<cache, handler, sock, boot, base, outq, overflow, covered, client, last,
                    waiting, view, twice>> /\ handler[c] # "boot" /\ handler[c] # "none"
    <3>1. UNCHANGED <<svars, hvars, cvars>> BY <1>6 DEF ProxyRead, ProxyEof
    <3>2. proxy[c] = "reading" BY <1>6 DEF ProxyRead, ProxyEof
    <3>3. sock' = sock BY <1>0, <1>6, <3>2 DEF ProxyRead, ProxyEof
    <3>4. sock[c] # <<>> \/ handler[c] = "ended" BY <1>6 DEF ProxyRead, ProxyEof
    <3>5. handler[c] # "boot" /\ handler[c] # "none" BY <1>0, <3>4 DEF StreamInv
    <3> QED BY <3>1, <3>3, <3>5 DEF svars, hvars, cvars
  <2>2. Len(<<>>) = 0 /\ ProxyMax \in Nat BY TerminalAttachAssumption
  <2>3. Sent(c)' = Sent(c) /\ Read(c)' = Read(c) BY <2>1 DEF Sent, Read
  <2>4. StreamInv(c)'
    BY <1>0, <1>6, <2>1, <2>2, <2>3, FrameSeqs DEF StreamInv, Fresh, Registered
  <2>5. ASSUME c \in PlainClients PROVE ViewInv(c)'
    BY <1>0, <1>6, <2>1, <2>5 DEF ViewInv, Fresh, Synced
  <2> QED BY <2>4, <2>5
<1>7. CASE ProxyRead(c) /\ ~(proxy'[c] = "failed" /\ pend'[c] = <<>>)
  <2>1. /\ sock[c] # <<>> /\ sock'[c] = Tail(sock[c])
        /\ pend'[c] = Append(pend[c], Head(sock[c]))
        /\ Len(pend[c]) < ProxyMax
        /\ UNCHANGED <<cache, handler, boot, base, outq, overflow, covered, proxy, client, last,
                       waiting, view, twice>>
    <3>1. ProxyMax \in Nat BY TerminalAttachAssumption
    <3> QED BY SMTT(30), <1>0, <1>1, <1>7, <3>1 DEF ProxyRead, TypeOK, svars, hvars, cvars
  <2>2. /\ Head(sock[c]) \in Messages /\ Head(sock[c]).seq = Read(c) + 1
        /\ Tail(sock[c]) \in Seq(Messages) /\ Len(Tail(sock[c])) = Len(sock[c]) - 1
        /\ Consecutive(Tail(sock[c]), Read(c) + 1)
    BY <1>0, <1>1, <2>1, TailConsecutive DEF StreamInv
  <2>3. Len(pend'[c]) = Len(pend[c]) + 1 BY <1>1, <2>1, <2>2
  <2>4. Sent(c)' = Sent(c) /\ Read(c)' = Read(c) + 1 /\ Cursor(c)' = Cursor(c)
    <3>1. Sent(c)' = Sent(c) BY <2>1 DEF Sent
    <3>2. Read(c)' = Read(c) + 1 BY <1>1, <2>1, <2>2, <3>1 DEF Read
    <3>3. Cursor(c)' = Cursor(c) BY <1>1, <2>3, <3>2 DEF Cursor
    <3> QED BY <3>1, <3>2, <3>3
  <2>5. Consecutive(pend'[c], Cursor(c))
    <3>1. Head(sock[c]).seq = Cursor(c) + Len(pend[c]) + 1 BY <1>1, <2>2 DEF Cursor
    <3> QED BY <1>0, <1>1, <2>1, <2>2, <3>1, AppendConsecutive DEF StreamInv
  <2>6. Len(pend'[c]) <= ProxyMax BY <1>1, <2>1, <2>3, TerminalAttachAssumption
  <2>7. handler[c] \notin {"none", "boot"} BY <1>0, <2>1 DEF StreamInv
  <2>8. StreamInv(c)'
    BY <1>0, <2>1, <2>2, <2>4, <2>5, <2>6, <2>7 DEF StreamInv, Fresh, Registered
  <2>9. ASSUME c \in PlainClients PROVE ViewInv(c)'
    <3>1. ViewInv(c) BY <1>0, <2>9
    <3>2. pend'[c] # <<>>
      <4>1. Len(pend'[c]) # 0 BY <1>1, <2>3
      <4>2. Len(<<>>) = 0 OBVIOUS
      <4> QED BY <4>1, <4>2
    <3>3. ASSUME AllFrames(sock[c]) PROVE AllFrames(sock'[c]) /\ IsFrame(Head(sock[c]))
      BY <1>1, <2>1, <3>3, FrameSeqs
    <3>4. AllFrames(pend[c]) /\ AllFrames(sock[c]) => AllFrames(pend'[c])
      BY <1>1, <2>1, <2>2, <3>3, FrameSeqs
    <3>5. SyncFirst(c, pend[c]) /\ AllFrames(sock[c]) => SyncFirst(c, pend'[c])
      BY <1>1, <2>1, <2>2, <3>3, SyncFirstSeqs
    <3>6. ASSUME pend[c] = <<>>, SyncFirst(c, sock[c])
          PROVE  SyncFirst(c, pend'[c]) /\ AllFrames(sock'[c])
      <4>1. pend'[c] = <<Head(sock[c])>> BY <2>1, <2>2, <3>6
      <4>2. IsSync(c, Head(sock[c])) /\ AllFrames(Tail(sock[c])) BY <3>6 DEF SyncFirst
      <4> QED BY <2>1, <2>2, <4>1, <4>2, SyncFirstSeqs
    <3>7. \A q : SyncFirst(c, q) => SyncFirst(c, q)' BY <2>1 DEF SyncFirst, IsSync
    <3> QED BY <2>1, <2>4, <3>1, <3>2, <3>3, <3>4, <3>5, <3>6, <3>7
            DEF ViewInv, Fresh, Synced, SyncFirst, IsSync
  <2> QED BY <2>8, <2>9
<1>8. CASE ProxyEof(c) /\ ~(proxy'[c] = "failed" /\ pend'[c] = <<>>)
  <2>1. /\ proxy[c] = "reading" /\ proxy'[c] = "eof" /\ handler[c] = "ended"
        /\ UNCHANGED <<cache, handler, sock, pend, boot, base, outq, overflow, covered, client, last,
                       waiting, view, twice>>
    BY <1>0, <1>8 DEF ProxyEof, TypeOK, svars, hvars, cvars
  <2>2. Sent(c)' = Sent(c) /\ Read(c)' = Read(c) /\ Cursor(c)' = Cursor(c)
    BY <2>1 DEF Sent, Read, Cursor
  <2>3. StreamInv(c)' BY <1>0, <2>1, <2>2 DEF StreamInv, Fresh, Registered
  <2>4. ASSUME c \in PlainClients PROVE ViewInv(c)'
    BY <1>0, <2>1, <2>2, <2>4 DEF ViewInv, Fresh, Synced, SyncFirst, IsSync
  <2> QED BY <2>3, <2>4
<1>9. CASE OpenAttach(c)
  <2>1. /\ client[c] = "down" /\ client'[c] = "opening" /\ handler'[c] = "boot"
        /\ proxy'[c] = "reading" /\ boot'[c] \in {NoSeq, last[c]}
        /\ UNCHANGED <<cache, base, outq, overflow, covered, sock, pend, last, waiting, view, twice>>
    BY <1>0, <1>9 DEF OpenAttach, TypeOK, svars
  <2>2. /\ outq[c] = <<>> /\ sock[c] = <<>> /\ pend[c] = <<>> /\ ~overflow[c]
    BY <1>0, <2>1 DEF StreamInv
  <2>3. StreamInv(c)'
    BY <1>0, <2>1, <2>2, FrameSeqs DEF StreamInv, Fresh, Registered
  <2>4. ASSUME c \in PlainClients PROVE ViewInv(c)'
    BY <1>0, <2>1, <2>4 DEF ViewInv, Fresh, Synced
  <2> QED BY <2>3, <2>4
<1>10. CASE AttachConfirmed(c)
  <2>1. /\ client[c] = "opening" /\ client'[c] = "attached" /\ last'[c] = NoSeq
        /\ c \in PlainClients => waiting'[c] = waiting[c]
        /\ UNCHANGED <<cache, handler, boot, base, outq, overflow, covered, sock, pend, proxy,
                       view, twice>>
    BY <1>0, <1>10 DEF AttachConfirmed, TypeOK, PlainClients, svars, hvars, pvars
  <2>2. Sent(c)' = Sent(c) /\ Read(c)' = Read(c) /\ Cursor(c)' = Cursor(c)
    BY <2>1 DEF Sent, Read, Cursor
  <2>3. StreamInv(c)' BY <1>0, <2>1, <2>2 DEF StreamInv, Fresh, Registered
  <2>4. NoSeq <= CurrentSeq(cache) BY <1>1 DEF NoSeq
  <2>5. ASSUME c \in PlainClients PROVE ViewInv(c)'
    BY <1>0, <2>1, <2>4, <2>5 DEF ViewInv, Fresh, Synced, SyncFirst, IsSync
  <2> QED BY <2>3, <2>5
<1>11. CASE AwaitResizeEcho(c)
  <2>1. /\ pend[c] # <<>> /\ pend'[c] = Tail(pend[c]) /\ client[c] = "attached" /\ waiting[c] # NoSize
        /\ UNCHANGED <<cache, handler, boot, base, outq, overflow, covered, sock, proxy, client, last,
                       view, twice>>
    BY <1>0, <1>11 DEF AwaitResizeEcho, TypeOK, svars, hvars
  <2>2. /\ Len(Tail(pend[c])) = Len(pend[c]) - 1 /\ Consecutive(Tail(pend[c]), Cursor(c) + 1)
    BY <1>0, <1>1, <2>1, TailConsecutive DEF StreamInv
  <2>3. Sent(c)' = Sent(c) /\ Read(c)' = Read(c) /\ Cursor(c)' = Cursor(c) + 1
    BY <1>1, <2>1, <2>2 DEF Sent, Read, Cursor
  <2>4. Len(pend'[c]) <= ProxyMax
    BY <1>0, <1>1, <2>1, <2>2, TerminalAttachAssumption DEF StreamInv
  <2>5. handler[c] \notin {"none", "boot"} BY <1>0, <2>1 DEF StreamInv
  <2>6. StreamInv(c)'
    BY <1>0, <2>1, <2>2, <2>3, <2>4, <2>5 DEF StreamInv, Fresh, Registered
  <2>7. c \notin PlainClients BY <1>0, <2>1 DEF ViewInv
  <2> QED BY <2>6, <2>7
<1>12. CASE ReceiveFrame(c)
  <2> DEFINE msg == Head(pend[c])
             tailSet == {msg.tail[i].seq : i \in 1..Len(msg.tail)}
             added == IF msg.type = "sync" THEN tailSet ELSE {msg.seq}
  <2>1. /\ pend[c] # <<>> /\ pend'[c] = Tail(pend[c]) /\ client[c] = "attached"
        /\ proxy[c] # "failed"
        /\ UNCHANGED <<cache, handler, boot, base, outq, overflow, covered, sock, proxy, client, waiting>>
    BY <1>0, <1>12 DEF ReceiveFrame, Receivable, TypeOK, svars, hvars
  <2>2. /\ msg \in Messages /\ msg.seq = Cursor(c) + 1
        /\ Len(Tail(pend[c])) = Len(pend[c]) - 1 /\ Consecutive(Tail(pend[c]), Cursor(c) + 1)
    BY <1>0, <1>1, <2>1, TailConsecutive DEF StreamInv
  <2>3. Sent(c)' = Sent(c) /\ Read(c)' = Read(c) /\ Cursor(c)' = Cursor(c) + 1
    BY <1>1, <2>1, <2>2 DEF Sent, Read, Cursor
  <2>4. Len(pend'[c]) <= ProxyMax
    BY <1>0, <1>1, <2>1, <2>2, TerminalAttachAssumption DEF StreamInv
  <2>5. handler[c] \notin {"none", "boot"} BY <1>0, <2>1 DEF StreamInv
  <2>6. StreamInv(c)'
    BY <1>0, <2>1, <2>2, <2>3, <2>4, <2>5 DEF StreamInv, Fresh, Registered
  <2>7. ASSUME c \in PlainClients PROVE ViewInv(c)'
    <3>1. ViewInv(c) BY <1>0, <2>7
    <3>2. msg.seq \in Nat /\ msg.tail \in Seq(Events) /\ msg.snap \in BOOLEAN
      BY <2>2 DEF Messages
    <3>3. msg.seq <= CurrentSeq(cache)
      <4>1. covered[c] <= CurrentSeq(cache) BY <1>0 DEF StreamInv
      <4>2. Len(pend[c]) >= 1 BY <1>1, <2>1
      <4>3. Sent(c) <= covered[c] BY <1>1 DEF Sent
      <4>4. Read(c) <= Sent(c) BY <1>1 DEF Read
      <4>5. Cursor(c) + 1 <= Read(c) BY <1>1, <4>2 DEF Cursor
      <4> HIDE DEF msg
      <4> QED BY <1>1, <2>2, <4>1, <4>3, <4>4, <4>5
    <3>4. /\ last'[c] = IF msg.seq > last[c] THEN msg.seq ELSE last[c]
          /\ view'[c] = IF msg.snap THEN 1..msg.seq ELSE view[c] \cup added
      BY <1>0, <1>12 DEF ReceiveFrame, RecordTerminalSeq, Render, TypeOK
    <3>5. twice'[c] <=> (twice[c] \/ (~msg.snap /\ added \cap view[c] # {}))
      BY <1>0, <1>12 DEF ReceiveFrame, Render, TypeOK
    <3>6. \/ msg.snap
          \/ ~msg.snap /\ \E b \in Nat : /\ b <= msg.seq /\ view[c] = 1..b
                                         /\ added = (b + 1)..msg.seq
      <4>1. CASE Fresh(c)
        <5>1. IsSync(c, msg) BY <2>1, <2>5, <3>1, <4>1 DEF ViewInv, SyncFirst
        <5>2. CASE ~msg.snap
          <6>1. /\ boot[c] \in Nat /\ boot[c] + Len(msg.tail) = msg.seq
                /\ Consecutive(msg.tail, boot[c]) /\ msg.type = "sync"
            BY <1>1, <5>1, <5>2 DEF IsSync
          <6>2. view[c] = 1..boot[c] BY <3>1, <4>1, <6>1 DEF ViewInv, NoSeq
          <6>3. Len(msg.tail) \in Nat BY <3>2
          <6> HIDE DEF msg
          <6>4. \A i \in 1..Len(msg.tail) : msg.tail[i].seq = boot[c] + i BY <6>1 DEF Consecutive
          <6>5. \A n \in (boot[c] + 1)..msg.seq : n - boot[c] \in 1..Len(msg.tail)
                                                  /\ n = boot[c] + (n - boot[c])
            BY <3>2, <6>1, <6>3
          <6>6. \A i \in 1..Len(msg.tail) : boot[c] + i \in (boot[c] + 1)..msg.seq
            BY <3>2, <6>1, <6>3
          <6>7. tailSet = (boot[c] + 1)..msg.seq BY SMTT(30), <6>4, <6>5, <6>6
          <6>8. boot[c] <= msg.seq BY <3>2, <6>1, <6>3
          <6> QED BY <5>2, <6>1, <6>2, <6>7, <6>8
        <5> QED BY <3>2, <5>2
      <4>2. CASE ~Fresh(c)
        <5>1. Synced(c) BY <2>1, <4>2 DEF Fresh, Synced
        <5>2. /\ view[c] = 1..last[c] /\ last[c] = Cursor(c) /\ AllFrames(pend[c])
          BY <2>1, <3>1, <5>1 DEF ViewInv
        <5>3. IsFrame(msg) BY <1>1, <2>1, <5>2, FrameSeqs
        <5>4. last[c] \in Nat BY <1>1, <5>1 DEF Synced
        <5> HIDE DEF msg
        <5>5. msg.type # "sync" /\ ~msg.snap BY <5>3 DEF IsFrame
        <5>6. msg.seq = last[c] + 1 BY <2>2, <5>2
        <5>7. {msg.seq} = (last[c] + 1)..msg.seq BY <5>4, <5>6
        <5>8. last[c] <= msg.seq BY <5>4, <5>6
        <5> QED BY <5>2, <5>4, <5>5, <5>7, <5>8
      <4> QED BY <4>1, <4>2
    <3>7. view'[c] = 1..msg.seq /\ ~twice'[c]
      <4> HIDE DEF msg, added
      <4>1. ~twice[c] BY <3>1 DEF ViewInv
      <4>2. CASE msg.snap BY <3>4, <3>5, <4>1, <4>2
      <4>3. CASE ~msg.snap
        <5>1. PICK b \in Nat : b <= msg.seq /\ view[c] = 1..b /\ added = (b + 1)..msg.seq
          BY <3>6, <4>3
        <5>2. (1..b) \cup ((b + 1)..msg.seq) = 1..msg.seq BY <3>2, <5>1
        <5>3. ((b + 1)..msg.seq) \cap (1..b) = {} BY <3>2, <5>1
        <5> QED BY <3>4, <3>5, <4>1, <4>3, <5>1, <5>2, <5>3
      <4> QED BY <4>2, <4>3
    <3>8. last'[c] = msg.seq
      <4>1. last[c] < msg.seq
        <5>1. CASE Fresh(c)
          <6>1. last[c] = NoSeq BY <2>1, <5>1 DEF Fresh
          <6> HIDE DEF msg
          <6> QED BY <3>2, <6>1 DEF NoSeq
        <5>2. CASE ~Fresh(c)
          <6>1. last[c] = Cursor(c) BY <2>1, <3>1, <5>2 DEF Fresh, Synced, ViewInv
          <6> QED BY <1>1, <2>2, <6>1
        <5> QED BY <5>1, <5>2
      <4>2. last[c] \in Int BY <1>1 DEF NoSeq
      <4> HIDE DEF msg
      <4> QED BY <3>2, <3>4, <4>1, <4>2
    <3>9. AllFrames(pend'[c]) /\ AllFrames(sock[c])
      <4>1. CASE Fresh(c) BY <2>1, <2>5, <3>1, <4>1 DEF ViewInv, SyncFirst
      <4>2. CASE ~Fresh(c)
        <5>1. AllFrames(pend[c]) /\ AllFrames(sock[c])
          BY <2>1, <3>1, <4>2 DEF ViewInv, Fresh, Synced
        <5> QED BY <1>1, <2>1, <5>1, FrameSeqs
      <4> QED BY <4>1, <4>2
    <3>10. last'[c] # NoSeq BY <3>2, <3>8 DEF NoSeq
    <3>11. last'[c] = Cursor(c)' BY <2>2, <2>3, <3>8
    <3> HIDE DEF msg
    <3> QED BY <2>1, <3>1, <3>3, <3>7, <3>8, <3>9, <3>10, <3>11 DEF ViewInv, Fresh, Synced
  <2> QED BY <2>6, <2>7
<1>13. CASE ReceiveExit(c) \/ Disconnect(c) \/ ProxyError(c) \/ ReceiveClose(c) \/ SessionRemoved(c)
  <2>1. \E next \in {"down", "ended"} : Teardown(c, next)
    BY <1>13 DEF ReceiveExit, Disconnect, ProxyError, ReceiveClose, SessionRemoved
  <2>2. client[c] \in {"opening", "attached"}
    BY <1>13 DEF ReceiveExit, Receivable, Disconnect, ProxyError, ReceiveClose, SessionRemoved
  <2>3. /\ client'[c] \in {"down", "ended"} /\ handler'[c] = "none" /\ proxy'[c] = "none"
        /\ outq'[c] = <<>> /\ sock'[c] = <<>> /\ pend'[c] = <<>> /\ overflow'[c] = FALSE
        /\ waiting'[c] = NoSize
        /\ UNCHANGED <<cache, boot, base, covered, last, view, twice>>
    BY <1>0, <2>1 DEF Teardown, TypeOK, svars
  <2>4. Len(<<>>) = 0 /\ QueueMax \in Nat /\ ProxyMax \in Nat BY TerminalAttachAssumption
  <2>5. StreamInv(c)'
    BY <1>0, <2>3, <2>4, FrameSeqs DEF StreamInv, Fresh, Registered
  <2>6. ASSUME c \in PlainClients PROVE ViewInv(c)'
    BY <1>0, <2>2, <2>3, <2>6 DEF ViewInv, Fresh, Synced
  <2> QED BY <2>5, <2>6
<1>14. CASE \E size \in Sizes : SendResize(c, size)
  <2>1. /\ c \in PlainClients => waiting'[c] = waiting[c]
        /\ UNCHANGED <<cache, handler, boot, base, outq, overflow, covered, sock, pend, proxy,
                       client, last, view, twice>>
    BY <1>0, <1>14 DEF SendResize, TypeOK, PlainClients, svars, hvars, pvars
  <2>2. Sent(c)' = Sent(c) /\ Read(c)' = Read(c) /\ Cursor(c)' = Cursor(c)
    BY <2>1 DEF Sent, Read, Cursor
  <2>3. StreamInv(c)' BY <1>0, <2>1, <2>2 DEF StreamInv, Fresh, Registered
  <2>4. ASSUME c \in PlainClients PROVE ViewInv(c)'
    BY <1>0, <2>1, <2>2, <2>4 DEF ViewInv, Fresh, Synced, SyncFirst, IsSync
  <2> QED BY <2>3, <2>4
<1> QED
  BY <1>2, <1>3, <1>4, <1>5, <1>6, <1>7, <1>8, <1>9, <1>10, <1>11, <1>12, <1>13, <1>14 DEF ClientStep

----------------------------------------------------------------------------
(* The results *)

(* AttachInv is inductive. *)
LEMMA AttachStep ==
  ASSUME AttachInv, [Next]_vars PROVE AttachInv'
<1>1. TypeOK' /\ JournalIsSuffix' BY TypeStep DEF AttachInv
<1>2. ASSUME NEW d \in Clients PROVE StreamInv(d)' /\ (d \in PlainClients => ViewInv(d)')
  <2> USE DEF svars, hvars, pvars, cvars
  <2>0. StreamInv(d) /\ (d \in PlainClients => ViewInv(d)) /\ TypeOK BY DEF AttachInv
  <2>1. CASE UNCHANGED vars
    BY <2>0, <2>1, SameKeeps DEF vars, Same
  <2>2. CASE PublishOutput
    BY <2>2, PublishStep DEF PublishOutput, Kinds
  <2>3. CASE PublishExit
    BY <2>3, PublishStep DEF PublishExit, Kinds
  <2>4. CASE \E size \in Sizes : ControllerResize(size)
    BY <2>4, PublishStep DEF ControllerResize, Kinds
  <2>5. ASSUME NEW c \in Clients, HandleResize(c)
        PROVE  StreamInv(d)' /\ (d \in PlainClients => ViewInv(d)')
    <3>1. resizing[c] \in Sizes BY <2>0, <2>5 DEF HandleResize, TypeOK
    <3> QED BY <2>5, <3>1, PublishStep DEF HandleResize, Kinds
  <2>6. ASSUME NEW c \in Clients, ClientStep(c), ~HandleResize(c)
        PROVE  StreamInv(d)' /\ (d \in PlainClients => ViewInv(d)')
    <3>1. CASE d = c BY <2>6, <3>1, OwnStep
    <3>2. CASE d # c BY <2>0, <2>6, <3>2, OthersSame, SameKeeps
    <3> QED BY <3>1, <3>2
  <2> QED BY <2>1, <2>2, <2>3, <2>4, <2>5, <2>6 DEF Next
<1>3. \A c \in PlainClients : c \in Clients BY DEF PlainClients
<1> QED BY <1>1, <1>2, <1>3 DEF AttachInv

(* With no attach open the inductive invariant holds trivially.            *)
LEMMA AttachInit == Init => AttachInv
<1> SUFFICES ASSUME Init PROVE AttachInv OBVIOUS
<1>1. TypeOK /\ JournalIsSuffix BY TypeInit
<1>2. CurrentSeq(cache) = 0 BY DEF Init, NewCache, CurrentSeq
<1>3. Len(<<>>) = 0 /\ QueueMax \in Nat /\ ProxyMax \in Nat BY TerminalAttachAssumption
<1>4. ASSUME NEW c \in Clients PROVE StreamInv(c)
  BY <1>2, <1>3, FrameSeqs DEF Init, StreamInv, Fresh, Registered
<1>5. ASSUME NEW c \in Clients PROVE ViewInv(c)
  BY <1>2 DEF Init, ViewInv, Fresh, Synced, NoSeq
<1> QED BY <1>1, <1>4, <1>5 DEF AttachInv, PlainClients

(* For any number of clients, any queue bounds and any journal length: a   *)
(* synchronised client shows exactly the history up to the last sequence   *)
(* number it recorded, and nothing was rendered twice.                     *)
THEOREM ReplayIsExact == Spec => []ViewIsPrefix
<1>1. AttachInv => ViewIsPrefix BY DEF AttachInv, ViewInv, ViewIsPrefix
<1> QED BY <1>1, AttachInit, AttachStep, PTL DEF Spec

(* The queues never exceed their bounds, and an attach that is still       *)
(* registered has been given every event of the session.                   *)
THEOREM BackpressureIsSafe == Spec => []BoundedAndComplete
<1>1. AttachInv => BoundedAndComplete BY DEF AttachInv, StreamInv, BoundedAndComplete
<1> QED BY <1>1, AttachInit, AttachStep, PTL DEF Spec
=============================================================================
