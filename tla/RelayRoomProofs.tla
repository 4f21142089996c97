-------------------------- MODULE RelayRoomProofs --------------------------
(***************************************************************************)
(* What holds of a relay room and of the daemon that serves it             *)
(* (RelayRoom), for every number of clients, control lines and frames and  *)
(* every size of the queues and buffers.                                   *)
(*                                                                         *)
(* The inductive invariant RelayInv has one part per idea.  RoomOK: the    *)
(* registry's own bookkeeping, the byte count included.  OpensInv: what is *)
(* queued on the control lines.  LifeInv: how far each client and each     *)
(* data pipe has come.  OfficeInv: which control line the room belongs to. *)
(* UpInv and DownInv: where every frame is on its way up and down.  Each   *)
(* has a step lemma with one case per action.                              *)
(***************************************************************************)
EXTENDS RelayRoom, TLAPS, FiniteSetTheorems

----------------------------------------------------------------------------
(* The relay's room *)

RoomEnds == ({"c", "d"} \X Clients) \cup ({"k"} \X Ctls)
RoomMsgs == [kind : {"open", "gone"}, c : Clients]
RoomRec ==
  [live : BOOLEAN, control : Ctls \cup {0}, clients : SUBSET Clients, paired : SUBSET Clients,
   flush : SUBSET Clients, data : SUBSET Clients, buf : [Clients -> Seq(Nat)], bytes : Int,
   closed : SUBSET RoomEnds, mute : SUBSET Ctls, q : [Ctls -> Seq(RoomMsgs)],
   dq : [Clients -> Seq(Nat)], cq : [Clients -> Seq(Nat)]]

(* A pipe is registered for as long as its client is paired, only a client *)
(* has buffered frames, and clients need a control line.                   *)
Neat(r) ==
  /\ r.data = r.paired /\ r.paired \subseteq r.clients /\ r.flush \subseteq r.paired
  /\ \A c \in Clients : r.buf[c] # <<>> => c \in r.clients
  /\ r.control = 0 => r.clients = {}
  /\ ~r.live => r.control = 0

(* The buffered frames, and the byte count that goes with them. *)
Held(r) == {p \in r.clients \X Nat : p[2] \in 1 .. Len(r.buf[p[1]])}
Counted(r) == IsFiniteSet(Held(r)) /\ r.bytes = Cardinality(Held(r))

(* The control queues, with one "gone" more or none. *)
Told(p, q) ==
  q = p \/ \E k \in Ctls, c \in Clients : q = [p EXCEPT ![k] = Append(@, [kind |-> "gone", c |-> c])]

(* Room s is room r after the clients in G were dropped: told to the       *)
(* daemon, or with the control line given up and nobody left.              *)
Lost(r, s, G) ==
  /\ s \in RoomRec /\ Neat(s) /\ (Counted(r) => Counted(s)) /\ (s.live => r.live)
  /\ s.clients = r.clients \ G /\ s.paired = r.paired \ G /\ s.flush = r.flush \ G /\ s.data = r.data \ G
  /\ s.buf = [c \in Clients |-> IF c \in G THEN <<>> ELSE r.buf[c]]
  /\ s.dq = r.dq /\ s.cq = r.cq /\ r.closed \subseteq s.closed
  /\ s.control = r.control \/ (s.control = 0 /\ s.clients = {})
  /\ Told(r.q, s.q)

LEMMA HeldFinite ==
  ASSUME NEW r, NEW s, s.clients \subseteq r.clients, \A c \in s.clients : s.buf[c] = r.buf[c] \/ s.buf[c] = <<>>,
         IsFiniteSet(Held(r))
  PROVE  IsFiniteSet(Held(s)) /\ Held(s) \subseteq Held(r)
<1>1. Held(s) \subseteq Held(r)
  BY DEF Held
<1> QED
  BY <1>1, FS_Subset

(* One client's frames are as many as its buffer is long. *)
LEMMA HeldBy ==
  ASSUME NEW r, NEW c, NEW n \in Nat, Len(r.buf[c]) = n, c \in r.clients
  PROVE  LET H == {p \in Held(r) : p[1] = c}
         IN  IsFiniteSet(H) /\ Cardinality(H) = n
<1> DEFINE H == {p \in Held(r) : p[1] = c}
           f == [i \in 1 .. n |-> <<c, i>>]
<1>1. IsFiniteSet(1 .. n) /\ Cardinality(1 .. n) = n
  <2>1. 1 \in Int /\ n \in Int
    OBVIOUS
  <2> QED
    BY <2>1, FS_Interval
<1>2. f \in Bijection(1 .. n, H)
  <2>1. \A i \in 1 .. n : f[i] \in H
    BY DEF Held
  <2>2. \A i, j \in 1 .. n : f[i] = f[j] => i = j
    OBVIOUS
  <2>3. \A p \in H : \E i \in 1 .. n : f[i] = p
    <3> SUFFICES ASSUME NEW p \in H
                 PROVE  \E i \in 1 .. n : f[i] = p
      OBVIOUS
    <3>1. p[1] = c /\ p[2] \in 1 .. n /\ p = <<p[1], p[2]>>
      BY DEF Held
    <3>2. f[p[2]] = p
      BY <3>1
    <3> QED
      BY <3>1, <3>2
  <2> HIDE DEF H
  <2>4. f \in [1 .. n -> H]
    BY <2>1
  <2> HIDE DEF f
  <2> QED
    BY <2>2, <2>3, <2>4 DEF Bijection, Injection, Surjection, IsInjective
<1>3. ExistsBijection(1 .. n, H)
  BY <1>2 DEF ExistsBijection
<1> QED
  BY <1>1, <1>3, FS_Bijection

(* Dropping one client's buffer takes its length off the count. *)
LEMMA CountedDrop ==
  ASSUME NEW r \in RoomRec, NEW s \in RoomRec, NEW c \in Clients, Counted(r),
         s.clients \in {r.clients, r.clients \ {c}}, \A d \in s.clients : d # c => s.buf[d] = r.buf[d],
         c \in s.clients => s.buf[c] = <<>>,
         c \notin r.clients => r.buf[c] = <<>>,
         s.bytes = r.bytes - Len(r.buf[c])
  PROVE  Counted(s)
<1> DEFINE H == {p \in Held(r) : p[1] = c}
<1>0. r.buf[c] \in Seq(Nat) /\ Len(r.buf[c]) \in Nat /\ r.bytes \in Int
  BY DEF RoomRec
<1>1. Held(s) = Held(r) \ H
  <2>1. ASSUME NEW p \in Held(s)
        PROVE  p \in Held(r) \ H
    <3>1. p[1] \in s.clients /\ p[2] \in 1 .. Len(s.buf[p[1]]) /\ p \in s.clients \X Nat
      BY DEF Held
    <3>2. p[1] # c
      BY <3>1
    <3> QED
      BY <3>1, <3>2 DEF Held
  <2>2. ASSUME NEW p \in Held(r) \ H
        PROVE  p \in Held(s)
    <3>1. p[1] \in r.clients /\ p[2] \in 1 .. Len(r.buf[p[1]]) /\ p[1] # c /\ p \in r.clients \X Nat
      BY DEF Held
    <3>2. p[1] \in s.clients /\ s.buf[p[1]] = r.buf[p[1]]
      BY <3>1
    <3> QED
      BY <3>1, <3>2 DEF Held
  <2> QED
    BY <2>1, <2>2
<1>2. IsFiniteSet(H) /\ Cardinality(H) = Len(r.buf[c]) /\ H \subseteq Held(r)
  <2>1. CASE c \in r.clients
    BY <2>1, <1>0, HeldBy
  <2>2. CASE c \notin r.clients
    <3>1. H = {}
      BY <2>2 DEF Held
    <3> QED
      BY <3>1, <2>2, FS_EmptySet
  <2> QED
    BY <2>1, <2>2
<1> HIDE DEF H
<1>3. IsFiniteSet(Held(r)) /\ r.bytes = Cardinality(Held(r))
  BY DEF Counted
<1>4. IsFiniteSet(Held(r) \ H) /\ Cardinality(Held(r) \ H) = Cardinality(Held(r)) - Cardinality(Held(r) \cap H)
  BY <1>3, FS_Difference
<1>5. Held(r) \cap H = H
  BY <1>2
<1> QED
  BY <1>1, <1>2, <1>3, <1>4, <1>5 DEF Counted

LEMMA CountedEmpty ==
  ASSUME NEW s, s.clients = {}, s.bytes = 0
  PROVE  Counted(s)
<1>1. Held(s) = {}
  BY DEF Held
<1> QED
  BY <1>1, FS_EmptySet DEF Counted

(* One more frame, and one more client. *)
LEMMA CountedAppend ==
  ASSUME NEW r \in RoomRec, NEW s \in RoomRec, NEW c \in r.clients, NEW f \in Nat, Counted(r),
         s.clients = r.clients, s.buf = [r.buf EXCEPT ![c] = Append(@, f)], s.bytes = r.bytes + 1
  PROVE  Counted(s)
<1>0. r.buf \in [Clients -> Seq(Nat)] /\ c \in Clients /\ r.clients \subseteq Clients
  BY DEF RoomRec
<1> DEFINE n == Len(r.buf[c])
<1>1. r.buf[c] \in Seq(Nat) /\ n \in Nat /\ s.buf[c] = Append(r.buf[c], f)
  BY <1>0
<1>2. Len(s.buf[c]) = n + 1
  BY <1>1
<1>3. \A d \in r.clients : d # c => s.buf[d] = r.buf[d]
  BY <1>0
<1> HIDE DEF n
<1>4. <<c, n + 1>> \notin Held(r)
  <2>1. ~(n + 1 \in 1 .. n)
    BY <1>1
  <2> QED
    BY <2>1 DEF Held, n
<1>5. Held(s) = Held(r) \cup {<<c, n + 1>>}
  <2>1. ASSUME NEW p \in Held(s)
        PROVE  p \in Held(r) \cup {<<c, n + 1>>}
    <3>1. p \in r.clients \X Nat /\ p[1] \in r.clients /\ p[2] \in 1 .. Len(s.buf[p[1]]) /\ p = <<p[1], p[2]>>
      BY DEF Held
    <3>2. CASE p[1] # c
      BY <3>1, <3>2, <1>3 DEF Held
    <3>3. CASE p[1] = c
      <4>1. p[2] \in 1 .. n \/ p[2] = n + 1
        BY <3>1, <3>3, <1>1, <1>2
      <4> QED
        BY <4>1, <3>1, <3>3 DEF Held, n
    <3> QED
      BY <3>2, <3>3
  <2>2. ASSUME NEW p \in Held(r)
        PROVE  p \in Held(s)
    <3>1. p \in r.clients \X Nat /\ p[1] \in r.clients /\ p[2] \in 1 .. Len(r.buf[p[1]])
      BY DEF Held
    <3>2. CASE p[1] # c
      BY <3>1, <3>2, <1>3 DEF Held
    <3>3. CASE p[1] = c
      <4>1. p[2] \in 1 .. n
        BY <3>1, <3>3 DEF n
      <4>2. p[2] \in 1 .. (n + 1)
        BY <4>1, <1>1
      <4> QED
        BY <4>2, <3>1, <3>3, <1>2 DEF Held
    <3> QED
      BY <3>2, <3>3
  <2>3. <<c, n + 1>> \in Held(s)
    <3>1. n + 1 \in 1 .. (n + 1) /\ n + 1 \in Nat
      BY <1>1
    <3> QED
      BY <3>1, <1>2 DEF Held
  <2> QED
    BY <2>1, <2>2, <2>3
<1>6. IsFiniteSet(Held(r)) /\ r.bytes = Cardinality(Held(r))
  BY DEF Counted
<1>7. IsFiniteSet(Held(s)) /\ Cardinality(Held(s)) = Cardinality(Held(r)) + 1
  <2> DEFINE e == <<c, n + 1>>
             S == Held(r)
  <2>1. e \notin S /\ Held(s) = S \cup {e} /\ IsFiniteSet(S)
    BY <1>4, <1>5, <1>6
  <2> HIDE DEF e, S
  <2>2. IsFiniteSet(S \cup {e}) /\ Cardinality(S \cup {e}) = Cardinality(S) + 1
    BY <2>1, FS_AddElement
  <2> QED
    BY <2>1, <2>2 DEF S
<1> QED
  BY <1>6, <1>7 DEF Counted

LEMMA CountedJoin ==
  ASSUME NEW r, NEW s, NEW c, Counted(r), s.clients \in {r.clients, r.clients \cup {c}}, r.buf[c] = <<>>,
         s.buf = r.buf, s.bytes = r.bytes
  PROVE  Counted(s)
<1>1. Held(s) = Held(r)
  BY DEF Held
<1> QED
  BY <1>1 DEF Counted

(* The registry's operations. *)
LEMMA LostNone ==
  ASSUME NEW r \in RoomRec, Neat(r)
  PROVE  Lost(r, r, {})
<1>1. r.buf = [c \in Clients |-> IF c \in {} THEN <<>> ELSE r.buf[c]]
  BY DEF RoomRec
<1> QED
  BY <1>1 DEF Lost, Told

LEMMA CloseClientLoses ==
  ASSUME NEW r \in RoomRec, Neat(r), NEW c \in Clients
  PROVE  /\ Lost(r, CloseClient(r, c), {c}) /\ CloseClient(r, c).control = r.control
         /\ CloseClient(r, c).live = r.live /\ CloseClient(r, c).q = r.q /\ CloseClient(r, c).mute = r.mute
         /\ c \in r.data => <<"d", c>> \in CloseClient(r, c).closed
<1> DEFINE s == CloseClient(r, c)
<1>0. /\ r.buf \in [Clients -> Seq(Nat)] /\ r.closed \subseteq RoomEnds /\ r.bytes \in Int
      /\ r.live \in BOOLEAN /\ r.control \in Ctls \cup {0} /\ r.clients \subseteq Clients
      /\ r.paired \subseteq Clients /\ r.flush \subseteq Clients /\ r.data \subseteq Clients
      /\ r.q \in [Ctls -> Seq(RoomMsgs)] /\ r.mute \subseteq Ctls /\ r.dq \in [Clients -> Seq(Nat)]
      /\ r.cq \in [Clients -> Seq(Nat)]
  BY DEF RoomRec
<1>1. CASE c \notin r.clients
  <2>1. s = r
    BY <1>1 DEF CloseClient
  <2>2. r.buf[c] = <<>> /\ c \notin r.paired /\ c \notin r.flush /\ c \notin r.data
    BY <1>1 DEF Neat
  <2>3. r.buf = [d \in Clients |-> IF d \in {c} THEN <<>> ELSE r.buf[d]]
    BY <2>2, <1>0
  <2>4. Lost(r, r, {c})
    BY <2>2, <2>3, <1>1 DEF Lost, Told
  <2> QED
    BY <2>1, <2>2, <2>4
<1>2. CASE c \in r.clients
  <2> DEFINE cl == IF c \in r.paired \cap r.data THEN {<<"d", c>>} ELSE {}
             da == IF c \in r.paired THEN r.data \ {c} ELSE r.data
             b == [r.buf EXCEPT ![c] = <<>>]
  <2>1. s = [r EXCEPT !.clients = r.clients \ {c}, !.paired = r.paired \ {c}, !.flush = r.flush \ {c}, !.data = da,
                      !.buf = b, !.bytes = r.bytes - Len(r.buf[c]), !.closed = (r.closed \cup {<<"c", c>>}) \cup cl]
    BY <1>2, <1>0 DEF CloseClient, RoomRec
  <2>2. da = r.data \ {c} /\ cl \subseteq RoomEnds /\ (c \in r.data => <<"d", c>> \in cl)
    BY DEF Neat, RoomEnds
  <2>3. b = [d \in Clients |-> IF d \in {c} THEN <<>> ELSE r.buf[d]] /\ b \in [Clients -> Seq(Nat)]
        /\ b[c] = <<>> /\ \A d \in Clients : d # c => b[d] = r.buf[d]
    <3>1. <<>> \in Seq(Nat)
      OBVIOUS
    <3>2. b \in [Clients -> Seq(Nat)] /\ b[c] = <<>> /\ \A d \in Clients : d # c => b[d] = r.buf[d]
      BY <3>1, <1>0
    <3> HIDE DEF b
    <3> QED
      BY <3>2
  <2>4. Len(r.buf[c]) \in Nat /\ r.bytes - Len(r.buf[c]) \in Int /\ <<"c", c>> \in RoomEnds
    BY <1>0 DEF RoomEnds
  <2> HIDE DEF cl, da, b, s
  <2>5. /\ s.live = r.live /\ s.control = r.control /\ s.clients = r.clients \ {c} /\ s.paired = r.paired \ {c}
        /\ s.flush = r.flush \ {c} /\ s.data = da /\ s.buf = b /\ s.bytes = r.bytes - Len(r.buf[c])
        /\ s.closed = (r.closed \cup {<<"c", c>>}) \cup cl /\ s.mute = r.mute /\ s.q = r.q /\ s.dq = r.dq /\ s.cq = r.cq
    BY <2>1 DEF RoomRec
  <2>6. s \in RoomRec
    <3>1. r.closed \cup {<<"c", c>>} \cup cl \subseteq RoomEnds
      BY <2>2, <2>4, <1>0
    <3> QED
      BY <2>1, <2>2, <2>3, <2>4, <3>1, <1>0 DEF RoomRec
  <2>7. Neat(s)
    BY <2>2, <2>3, <2>5 DEF Neat
  <2>8. ASSUME Counted(r)
        PROVE  Counted(s)
    <3>1. s.clients \in {r.clients, r.clients \ {c}} /\ c \notin s.clients
      BY <2>5
    <3>2. \A d \in s.clients : d # c => s.buf[d] = r.buf[d]
      BY <2>3, <2>5, <1>0
    <3> QED
      BY <3>1, <3>2, <2>5, <2>6, <2>8, <1>2, CountedDrop
  <2>9. Lost(r, s, {c})
    BY <2>2, <2>3, <2>5, <2>6, <2>7, <2>8 DEF Lost, Told
  <2> QED
    BY <2>2, <2>5, <2>9 DEF s
<1> QED
  BY <1>1, <1>2

(* A control line is given up or replaced. *)
CutRoom(r, ctl, cls) == CloseClients([r EXCEPT !.control = ctl, !.closed = cls])

LEMMA CloseClientsLoses ==
  ASSUME NEW r \in RoomRec, Neat(r), NEW ctl \in {r.control, 0}, NEW cls \in SUBSET RoomEnds, r.closed \subseteq cls,
         NEW s, s = CutRoom(r, ctl, cls)
  PROVE  /\ Lost(r, s, r.clients) /\ s.control = ctl /\ s.live = r.live /\ s.q = r.q /\ s.mute = r.mute
         /\ s.clients = {}
<1> DEFINE b == [c \in Clients |-> IF c \in r.clients THEN <<>> ELSE r.buf[c]]
           cl == (cls \cup ({"c"} \X r.clients)) \cup ({"d"} \X r.data)
<1>0. /\ r.buf \in [Clients -> Seq(Nat)] /\ r.closed \subseteq RoomEnds /\ r.bytes \in Int
      /\ r.live \in BOOLEAN /\ r.control \in Ctls \cup {0} /\ r.clients \subseteq Clients
      /\ r.paired \subseteq Clients /\ r.flush \subseteq Clients /\ r.data \subseteq Clients
      /\ r.q \in [Ctls -> Seq(RoomMsgs)] /\ r.mute \subseteq Ctls /\ r.dq \in [Clients -> Seq(Nat)]
      /\ r.cq \in [Clients -> Seq(Nat)]
  BY DEF RoomRec
<1>1. s = [r EXCEPT !.control = ctl, !.clients = {}, !.paired = {}, !.flush = {}, !.data = {}, !.buf = b,
                    !.bytes = 0, !.closed = cl]
  BY DEF CutRoom, CloseClients, RoomRec
<1>2. b \in [Clients -> Seq(Nat)]
  <2>1. <<>> \in Seq(Nat)
    OBVIOUS
  <2> QED
    BY <2>1, <1>0
<1>3. cl \subseteq RoomEnds /\ r.closed \subseteq cl
  BY <1>0 DEF RoomEnds
<1>b. \A c \in Clients : b[c] = <<>>
  BY DEF Neat
<1> HIDE DEF cl
<1>4. /\ s.live = r.live /\ s.control = ctl /\ s.clients = {} /\ s.paired = {} /\ s.flush = {} /\ s.data = {}
      /\ s.buf = b /\ s.bytes = 0 /\ s.closed = cl /\ s.mute = r.mute /\ s.q = r.q /\ s.dq = r.dq /\ s.cq = r.cq
  BY <1>1 DEF RoomRec
<1> HIDE DEF b
<1>5. s \in RoomRec
  <2>1. ctl \in Ctls \cup {0} /\ {} \in SUBSET Clients /\ 0 \in Int /\ cl \in SUBSET RoomEnds
    BY <1>0, <1>3
  <2> QED
    BY ZenonT(30), <1>1, <1>2, <2>1 DEF RoomRec
<1>6. Neat(s)
  BY <1>4, <1>b DEF Neat
<1>7. Counted(s)
  BY <1>4, CountedEmpty
<1>8. /\ r.paired \ r.clients = {} /\ r.flush \ r.clients = {} /\ r.data \ r.clients = {} /\ r.clients \ r.clients = {}
  BY DEF Neat
<1>9. Lost(r, s, r.clients)
  BY <1>3, <1>4, <1>5, <1>6, <1>7, <1>8 DEF Lost, b, Told
<1> QED
  BY <1>4, <1>9

LEMMA ClearControlLoses ==
  ASSUME NEW r \in RoomRec, Neat(r)
  PROVE  /\ Lost(r, ClearControl(r), r.clients) /\ ClearControl(r).control = 0 /\ ClearControl(r).live = r.live
         /\ ClearControl(r).q = r.q /\ ClearControl(r).mute = r.mute /\ ClearControl(r).clients = {}
<1> DEFINE cls == IF r.control = 0 THEN r.closed ELSE r.closed \cup {<<"k", r.control>>}
           s == ClearControl(r)
<1>1. s = CutRoom(r, 0, cls)
  BY DEF ClearControl, RoomRec, CutRoom
<1>2. cls \in SUBSET RoomEnds /\ r.closed \subseteq cls /\ 0 \in {r.control, 0}
  BY DEF RoomRec, RoomEnds
<1> HIDE DEF cls, s
<1>3. /\ Lost(r, s, r.clients) /\ s.control = 0 /\ s.live = r.live /\ s.q = r.q /\ s.mute = r.mute
      /\ s.clients = {}
  BY <1>1, <1>2, CloseClientsLoses
<1> QED
  BY <1>3 DEF s

LEMMA LostTwice ==
  ASSUME NEW r, NEW s, NEW t, NEW G, NEW H, Lost(r, s, G), Lost(s, t, H), s.q = r.q
  PROVE  Lost(r, t, G \cup H)
<1>1. t.buf = [c \in Clients |-> IF c \in G \cup H THEN <<>> ELSE r.buf[c]]
  <2> DEFINE x == [c \in Clients |-> IF c \in G THEN <<>> ELSE r.buf[c]]
             y == [c \in Clients |-> IF c \in H THEN <<>> ELSE x[c]]
             z == [c \in Clients |-> IF c \in G \cup H THEN <<>> ELSE r.buf[c]]
  <2>1. s.buf = x /\ t.buf = [c \in Clients |-> IF c \in H THEN <<>> ELSE s.buf[c]]
    BY DEF Lost
  <2>2. t.buf = y
    BY <2>1
  <2>3. y = z
    OBVIOUS
  <2> QED
    BY <2>2, <2>3
<1>2. /\ t.clients = r.clients \ (G \cup H) /\ t.paired = r.paired \ (G \cup H) /\ t.flush = r.flush \ (G \cup H)
      /\ t.data = r.data \ (G \cup H)
  BY DEF Lost
<1>3. /\ t \in RoomRec /\ Neat(t) /\ (Counted(r) => Counted(t)) /\ (t.live => r.live) /\ t.dq = r.dq /\ t.cq = r.cq /\ r.closed \subseteq t.closed
  BY DEF Lost
<1>4. t.control = r.control \/ (t.control = 0 /\ t.clients = {})
  BY DEF Lost
<1>5. Told(r.q, t.q)
  BY DEF Lost
<1> QED
  BY <1>1, <1>2, <1>3, <1>4, <1>5 DEF Lost

LEMMA NotifyLoses ==
  ASSUME NEW r \in RoomRec, Neat(r), NEW c \in Clients
  PROVE  \E G \in SUBSET Clients : Lost(r, NotifyGone(r, c), G) /\ NotifyGone(r, c).live = r.live
<1>1. CASE r.control = 0
  BY <1>1, LostNone DEF NotifyGone
<1>2. CASE r.control # 0 /\ (ControlClosed(r) \/ ControlFull(r))
  <2>1. NotifyGone(r, c) = ClearControl(r) /\ r.clients \in SUBSET Clients
    BY <1>2 DEF NotifyGone, RoomRec
  <2> QED
    BY <2>1, ClearControlLoses
<1>3. CASE r.control # 0 /\ ~(ControlClosed(r) \/ ControlFull(r))
  <2> DEFINE k == r.control
             m == [kind |-> "gone", c |-> c]
             qq == [r.q EXCEPT ![k] = Append(@, m)]
             s == [r EXCEPT !.q = qq]
  <2>0. /\ r.buf \in [Clients -> Seq(Nat)] /\ r.q \in [Ctls -> Seq(RoomMsgs)] /\ k \in Ctls /\ m \in RoomMsgs
    BY <1>3 DEF RoomRec, RoomMsgs
  <2>1. NotifyGone(r, c) = s
    BY <1>3, <2>0 DEF NotifyGone, SendControl, RoomRec
  <2> HIDE DEF m
  <2>2. qq \in [Ctls -> Seq(RoomMsgs)]
    BY <2>0
  <2> HIDE DEF qq
  <2>3. /\ s.live = r.live /\ s.control = r.control /\ s.clients = r.clients /\ s.paired = r.paired
        /\ s.flush = r.flush /\ s.data = r.data /\ s.buf = r.buf /\ s.bytes = r.bytes /\ s.closed = r.closed
        /\ s.mute = r.mute /\ s.q = qq /\ s.dq = r.dq /\ s.cq = r.cq
    BY DEF RoomRec
  <2>4. s \in RoomRec
    BY <2>2 DEF RoomRec
  <2> HIDE DEF s
  <2>5. Neat(s) /\ (Counted(r) => Counted(s))
    BY <2>3 DEF Neat, Counted, Held
  <2>6. r.buf = [d \in Clients |-> IF d \in {} THEN <<>> ELSE r.buf[d]]
    BY <2>0
  <2>7. Told(r.q, s.q)
    BY <2>0, <2>3 DEF qq, m, Told
  <2>8. Lost(r, s, {})
    BY <2>3, <2>4, <2>5, <2>6, <2>7 DEF Lost
  <2> QED
    BY <2>1, <2>3, <2>8
<1> QED
  BY <1>1, <1>2, <1>3

LEMMA DropLoses ==
  ASSUME NEW r \in RoomRec, Neat(r), NEW c \in Clients
  PROVE  \E G \in SUBSET Clients : c \in G /\ Lost(r, DropClient(r, c), G) /\ DropClient(r, c).live = r.live
<1> DEFINE s == CloseClient(r, c)
<1>1. Lost(r, s, {c}) /\ s.live = r.live /\ s.q = r.q
  BY CloseClientLoses
<1>2. s \in RoomRec /\ Neat(s)
  BY <1>1 DEF Lost
<1> HIDE DEF s
<1>3. PICK G \in SUBSET Clients : Lost(s, NotifyGone(s, c), G) /\ NotifyGone(s, c).live = s.live
  BY <1>2, NotifyLoses
<1>4. Lost(r, NotifyGone(s, c), {c} \cup G)
  BY <1>1, <1>3, LostTwice
<1>5. DropClient(r, c) = NotifyGone(s, c) \/ DropClient(r, c) = s
  BY DEF DropClient, s
<1>6. CASE DropClient(r, c) = NotifyGone(s, c)
  <2>1. {c} \cup G \in SUBSET Clients /\ c \in {c} \cup G
    OBVIOUS
  <2> QED
    BY <2>1, <1>6, <1>1, <1>3, <1>4
<1>7. CASE DropClient(r, c) = s
  <2>1. {c} \in SUBSET Clients /\ c \in {c}
    OBVIOUS
  <2> QED
    BY <2>1, <1>7, <1>1
<1> QED
  BY <1>5, <1>6, <1>7

EmptyRoom(r) == r.control = 0 /\ r.data = {} /\ r.clients = {}

LEMMA SweptLoses ==
  ASSUME NEW r, NEW s, NEW G, Lost(r, s, G)
  PROVE  /\ Lost(r, Swept(s), G) /\ (Swept(s).live => s.live /\ ~EmptyRoom(Swept(s)))
         /\ Swept(s).control = s.control /\ Swept(s).mute = s.mute /\ Swept(s).q = s.q
<1> DEFINE l == s.live /\ ~(s.control = 0 /\ s.data = {} /\ s.clients = {})
           t == [s EXCEPT !.live = l]
<1>0. s \in RoomRec /\ Neat(s)
  BY DEF Lost
<1>1. Swept(s) = t
  BY <1>0 DEF Swept, RoomRec
<1>2. l \in BOOLEAN
  BY <1>0 DEF RoomRec
<1>3. (l => s.live /\ ~EmptyRoom(s)) /\ (~l => ~s.live \/ s.control = 0)
  BY DEF EmptyRoom
<1> HIDE DEF l
<1>4. /\ t.live = l /\ t.control = s.control /\ t.clients = s.clients /\ t.paired = s.paired
      /\ t.flush = s.flush /\ t.data = s.data /\ t.buf = s.buf /\ t.bytes = s.bytes /\ t.closed = s.closed
      /\ t.mute = s.mute /\ t.q = s.q /\ t.dq = s.dq /\ t.cq = s.cq
  BY <1>0 DEF RoomRec
<1>5. t \in RoomRec
  BY <1>0, <1>2 DEF RoomRec
<1> HIDE DEF t
<1>6. Neat(t) /\ (Counted(s) => Counted(t))
  BY <1>0, <1>3, <1>4 DEF Neat, Counted, Held
<1>8. t.control = r.control \/ (t.control = 0 /\ t.clients = {})
  BY <1>4 DEF Lost
<1>9. Told(r.q, t.q)
  BY <1>4 DEF Lost
<1>10. /\ t.clients = r.clients \ G /\ t.paired = r.paired \ G /\ t.flush = r.flush \ G /\ t.data = r.data \ G
       /\ t.buf = [c \in Clients |-> IF c \in G THEN <<>> ELSE r.buf[c]]
       /\ t.dq = r.dq /\ t.cq = r.cq /\ r.closed \subseteq t.closed /\ (Counted(r) => Counted(t)) /\ (t.live => r.live)
  BY <1>3, <1>4, <1>6 DEF Lost
<1>7. Lost(r, t, G)
  BY <1>5, <1>6, <1>8, <1>9, <1>10 DEF Lost
<1> QED
  BY <1>1, <1>3, <1>4, <1>7 DEF EmptyRoom

(* The types of the state beside the room. *)
SideType ==
  /\ rload \in Loads
  /\ browser \in [Clients -> {"new", "on", "off", "refused"}]
  /\ csock \in [Clients -> {"none", "run", "done"}]
  /\ hold \in [Clients -> [stage : {"none", "buffer", "send"}, frame : Nat]]
  /\ ksock \in [Ctls -> {"none", "run", "done"}]
  /\ knet \in [Ctls -> {"none", "hello", "up", "cut"}]
  /\ dctl \in Ctls \cup {0}
  /\ task \in [Clients -> {"none", "dial", "hello", "open", "end"}]
  /\ tgen \in [Clients -> Ctls \cup {0}]
  /\ dnet \in [Clients -> {"none", "hello", "read"}]
  /\ dsock \in [Clients -> {"none", "bind", "flush", "run", "drain", "done"}]
  /\ sent \in [Clients -> Nat] /\ fwd \in [Clients -> Nat] /\ out \in [Clients -> Nat]
  /\ seen \in [Clients -> Seq(Nat)] /\ flushing \in [Clients -> Seq(Nat)]
  /\ ingress \in [Clients -> Seq(Nat)] /\ got \in [Clients -> Seq(Nat)]
  /\ late \subseteq Clients

(* OpenData for a client is queued once, on one control line, and before   *)
(* the daemon has a task for it.                                           *)
OpensInv ==
  \A k \in Ctls : \A i \in 1 .. Len(room.q[k]) : room.q[k][i].kind = "open" =>
    /\ browser[room.q[k][i].c] # "new" /\ task[room.q[k][i].c] = "none"
    /\ \A j \in Ctls : \A n \in 1 .. Len(room.q[j]) :
         room.q[j][n].kind = "open" /\ room.q[j][n].c = room.q[k][i].c => j = k /\ n = i

(* The life of a client and of its data pipe, step by step. *)
LifeInv ==
  \A c \in Clients :
    /\ browser[c] = "new" => c \notin room.clients /\ task[c] = "none" /\ sent[c] = 0 /\ hold[c] = NoHold
    /\ task[c] \in {"none", "dial"} => dnet[c] = "none"
    /\ dsock[c] = "none" <=> dnet[c] # "read"
    /\ c \in room.data => dsock[c] \notin {"none", "done"}
    /\ c \in room.flush => dsock[c] \in {"bind", "flush", "drain"}
    /\ hold[c].stage = "none" => hold[c] = NoHold
    /\ flushing[c] # <<>> => dsock[c] = "flush"
    /\ hold[c].stage = "send" => c \in room.data \/ c \notin room.clients

OfficeInv ==
  /\ room.control # 0 => ksock[room.control] = "run"
  /\ PipesOfThisGeneration
  /\ EmptyRoomIsRemoved

(* The frames of a sequence are the ones that follow frame n. *)
Numbered(s, n) == \A i \in 1 .. Len(s) : s[i] = n + i
One(b) == IF b THEN 1 ELSE 0

(* Upstream, a client's frames are in four places, one behind the other:   *)
(* g received, d in the pipe's queue, f being flushed, b buffered, and h   *)
(* in the hands of the client's task, of s sent.  in: the client is        *)
(* registered; direct: it is paired and its flush is over.                 *)
UpOK(g, d, f, b, h, s, in, direct) ==
  /\ Numbered(g, 0) /\ Numbered(d, Len(g)) /\ Numbered(f, Len(g) + Len(d))
  /\ Numbered(b, Len(g) + Len(d) + Len(f))
  /\ Len(g) + Len(d) + Len(f) + Len(b) <= s
  /\ h # NoHold => h.frame = s
  /\ h.stage = "send" => b = <<>> /\ f = <<>> /\ Len(g) + Len(d) + 1 = s
  /\ in => Len(g) + Len(d) + Len(f) + Len(b) + One(h # NoHold) = s
  /\ direct => b = <<>> /\ f = <<>>
UpAt(c) ==
  UpOK(got[c], room.dq[c], flushing[c], room.buf[c], hold[c], sent[c], c \in room.clients,
       c \in room.paired \ room.flush)
UpInv == \A c \in Clients \ late : UpAt(c)

(* Downstream likewise: e seen, w in the client's queue, x in the hands of *)
(* the forwarder, y read from the daemon, of o sent.  in: the pipe is      *)
(* registered (what it holds after that is never forwarded).               *)
DownOK(e, w, x, y, o, in, ds) ==
  /\ Numbered(e, 0) /\ Numbered(w, Len(e))
  /\ x # 0 => x = Len(e) + Len(w) + 1
  /\ Len(e) + Len(w) + One(x # 0) <= o
  /\ in => /\ Numbered(y, Len(e) + Len(w) + One(x # 0))
           /\ Len(e) + Len(w) + One(x # 0) + Len(y) <= o
           /\ ds # "drain" => Len(e) + Len(w) + One(x # 0) + Len(y) = o
  /\ ds = "none" => o = 0 /\ y = <<>>
DownAt(c) == DownOK(seen[c], room.cq[c], fwd[c], ingress[c], out[c], c \in room.data, dsock[c])
DownInv == \A c \in Clients : DownAt(c)

(* Numbered sequences grow at the end and shrink at the front. *)
LEMMA NumberedFacts ==
  ASSUME NEW s \in Seq(Nat), NEW n \in Nat, Numbered(s, n)
  PROVE  /\ Numbered(Append(s, n + Len(s) + 1), n)
         /\ s # <<>> => Head(s) = n + 1 /\ Numbered(Tail(s), n + 1) /\ Len(Tail(s)) + 1 = Len(s)
<1>1. Len(s) \in Nat
  OBVIOUS
<1>2. Numbered(Append(s, n + Len(s) + 1), n)
  <2> DEFINE x == n + Len(s) + 1
  <2>1. x \in Nat
    BY <1>1
  <2> HIDE DEF x
  <2>2. /\ Len(Append(s, x)) = Len(s) + 1
        /\ \A i \in 1 .. Len(s) : Append(s, x)[i] = s[i]
        /\ Append(s, x)[Len(s) + 1] = x
    BY <2>1
  <2>3. \A i \in 1 .. (Len(s) + 1) : i \in 1 .. Len(s) \/ i = Len(s) + 1
    BY <1>1
  <2>4. \A i \in 1 .. (Len(s) + 1) : Append(s, x)[i] = n + i
    BY SMTT(30), <2>2, <2>3, <1>1 DEF Numbered, x
  <2> QED
    BY <2>2, <2>4 DEF Numbered, x
<1>3. ASSUME s # <<>>
      PROVE  Head(s) = n + 1 /\ Numbered(Tail(s), n + 1) /\ Len(Tail(s)) + 1 = Len(s)
  <2>1. Head(s) = s[1] /\ 1 \in 1 .. Len(s)
    BY <1>3
  <2>2. Tail(s) \in Seq(Nat) /\ Len(Tail(s)) = Len(s) - 1 /\ \A i \in 1 .. Len(Tail(s)) : Tail(s)[i] = s[i + 1]
    BY <1>3
  <2>3. \A i \in 1 .. (Len(s) - 1) : i + 1 \in 1 .. Len(s)
    BY <1>1
  <2>4. \A i \in 1 .. (Len(s) - 1) : Tail(s)[i] = n + 1 + i
    BY <2>2, <2>3, <1>1 DEF Numbered
  <2> QED
    BY <2>1, <2>2, <2>4, <1>1 DEF Numbered
<1> QED
  BY <1>2, <1>3

LEMMA NumberedEmpty == \A n : Numbered(<<>>, n)
BY DEF Numbered

(* What each step does to a client's upstream frames. *)
UpMoved(g, d, f, b, h, s, in, direct) ==
  /\ UpOK(g, d, f, <<>>, h, s, FALSE, FALSE) /\ UpOK(g, d, <<>>, <<>>, h, s, FALSE, FALSE)
  /\ UpOK(g, d, f, <<>>, NoHold, s, FALSE, FALSE)
  /\ h.stage = "buffer" /\ in => UpOK(g, d, f, Append(b, h.frame), NoHold, s, TRUE, FALSE)
  /\ h.stage = "send" => UpOK(g, Append(d, h.frame), f, b, NoHold, s, in, direct)
  /\ h = NoHold /\ in /\ ~direct => UpOK(g, d, f, b, [stage |-> "buffer", frame |-> s + 1], s + 1, in, direct)
  /\ h = NoHold /\ in /\ direct => UpOK(g, d, f, b, [stage |-> "send", frame |-> s + 1], s + 1, in, direct)
  /\ h = NoHold /\ ~in /\ ~direct => UpOK(g, d, f, b, NoHold, s + 1, in, direct)
  /\ f = <<>> /\ b # <<>> => UpOK(g, d, b, <<>>, h, s, in, direct)
  /\ f = <<>> /\ b = <<>> => UpOK(g, d, f, b, h, s, in, TRUE)
  /\ f # <<>> => UpOK(g, Append(d, Head(f)), Tail(f), b, h, s, in, direct)
  /\ d # <<>> => UpOK(Append(g, Head(d)), Tail(d), f, b, h, s, in, direct)
  /\ UpOK(g, d, f, b, h, s, in, FALSE)
  /\ s = 0 /\ h = NoHold => UpOK(g, d, f, b, h, s, TRUE, FALSE)

LEMMA UpMoves ==
  ASSUME NEW g \in Seq(Nat), NEW d \in Seq(Nat), NEW f \in Seq(Nat), NEW b \in Seq(Nat),
         NEW h \in [stage : {"none", "buffer", "send"}, frame : Nat], NEW s \in Nat, NEW in \in BOOLEAN,
         NEW direct \in BOOLEAN, h.stage = "none" => h = NoHold, UpOK(g, d, f, b, h, s, in, direct)
  PROVE  UpMoved(g, d, f, b, h, s, in, direct)
<1>0. /\ Len(g) \in Nat /\ Len(d) \in Nat /\ Len(f) \in Nat /\ Len(b) \in Nat /\ Len(<<>>) = 0
      /\ NoHold.stage = "none" /\ h.frame \in Nat
  BY DEF NoHold
<1>a. \A w, y, z \in Nat : y + 1 = z => (w + 1) + y = w + z
  OBVIOUS
<1>o. One(TRUE) = 1 /\ One(FALSE) = 0
  BY DEF One
<1>1. /\ Numbered(g, 0) /\ Numbered(d, Len(g)) /\ Numbered(f, Len(g) + Len(d))
      /\ Numbered(b, Len(g) + Len(d) + Len(f))
      /\ Len(g) + Len(d) + Len(f) + Len(b) <= s
      /\ h # NoHold => h.frame = s
      /\ h.stage = "send" => b = <<>> /\ f = <<>> /\ Len(g) + Len(d) + 1 = s
      /\ in => Len(g) + Len(d) + Len(f) + Len(b) + One(h # NoHold) = s
      /\ direct => b = <<>> /\ f = <<>>
  BY DEF UpOK
<1>2. /\ UpOK(g, d, f, <<>>, h, s, FALSE, FALSE) /\ UpOK(g, d, <<>>, <<>>, h, s, FALSE, FALSE)
      /\ UpOK(g, d, f, <<>>, NoHold, s, FALSE, FALSE)
  BY <1>0, <1>1, NumberedEmpty DEF UpOK
<1>3. ASSUME h.stage = "buffer", in
      PROVE  UpOK(g, d, f, Append(b, h.frame), NoHold, s, TRUE, FALSE)
  <2>0. h # NoHold
    BY <1>0, <1>3
  <2>1. h.frame = Len(g) + Len(d) + Len(f) + Len(b) + 1 /\ h.frame = s
    <3>1. (h # NoHold) = TRUE
      BY <2>0
    <3>2. Len(g) + Len(d) + Len(f) + Len(b) + One(TRUE) = s
      BY <3>1, <1>1, <1>3
    <3> QED
      BY <3>2, <2>0, <1>1, <1>o
  <2>2. Numbered(Append(b, h.frame), Len(g) + Len(d) + Len(f))
    BY <2>1, <1>0, <1>1, NumberedFacts
  <2>3. Len(Append(b, h.frame)) = Len(b) + 1
    BY <1>0
  <2> QED
    BY <2>1, <2>2, <2>3, <1>0, <1>1 DEF UpOK, One
<1>4. ASSUME h.stage = "send"
      PROVE  UpOK(g, Append(d, h.frame), f, b, NoHold, s, in, direct)
  <2>1. h.frame = Len(g) + Len(d) + 1 /\ h.frame = s /\ h # NoHold /\ f = <<>> /\ b = <<>>
    BY <1>0, <1>1, <1>4
  <2>2. Numbered(Append(d, h.frame), Len(g))
    BY <2>1, <1>0, <1>1, NumberedFacts
  <2>3. Len(Append(d, h.frame)) = Len(d) + 1
    BY <1>0
  <2> QED
    BY <2>1, <2>2, <2>3, <1>0, <1>1, NumberedEmpty DEF UpOK, One
<1> DEFINE hb == [stage |-> "buffer", frame |-> s + 1]
           hs == [stage |-> "send", frame |-> s + 1]
<1>n. hb # NoHold /\ hb.frame = s + 1 /\ hb.stage = "buffer" /\ hs # NoHold /\ hs.frame = s + 1 /\ hs.stage = "send"
  BY DEF NoHold
<1> HIDE DEF hb, hs
<1>m. ASSUME h = NoHold, in
      PROVE  /\ Len(g) + Len(d) + Len(f) + Len(b) + 1 = s + 1 /\ Len(g) + Len(d) + Len(f) + Len(b) <= s + 1
             /\ One(hb # NoHold) = 1 /\ One(hs # NoHold) = 1
             /\ (f = <<>> /\ b = <<>> => Len(g) + Len(d) + 1 = s + 1)
  <2>1. (h # NoHold) = FALSE /\ (hb # NoHold) = TRUE /\ (hs # NoHold) = TRUE
    BY <1>m, <1>n
  <2>2. Len(g) + Len(d) + Len(f) + Len(b) + One(FALSE) = s
    BY <2>1, <1>1, <1>m
  <2>3. Len(g) + Len(d) + Len(f) + Len(b) + 1 = s + 1 /\ Len(g) + Len(d) + Len(f) + Len(b) <= s + 1
    <3> DEFINE w == Len(g) x == Len(d) y == Len(f) z == Len(b)
    <3>1. w \in Nat /\ x \in Nat /\ y \in Nat /\ z \in Nat /\ w + x + y + z + 0 = s
      BY <2>2, <1>0, <1>o
    <3> HIDE DEF w, x, y, z
    <3>2. w + x + y + z + 1 = s + 1 /\ w + x + y + z <= s + 1
      BY ONLY <3>1, s \in Nat
    <3> QED
      BY ONLY <3>2 DEF w, x, y, z
  <2>4. f = <<>> /\ b = <<>> => Len(g) + Len(d) + 1 = s + 1
    BY <2>3, <1>0
  <2>5. One(hb # NoHold) = 1 /\ One(hs # NoHold) = 1
    BY <2>1, <1>o
  <2> QED
    BY <2>3, <2>4, <2>5
<1>5. ASSUME h = NoHold, in, ~direct
      PROVE  UpOK(g, d, f, b, hb, s + 1, in, direct)
  <2>1. hb.stage # "send"
    BY <1>n
  <2> QED
    BY <2>1, <1>n, <1>0, <1>1, <1>m, <1>5 DEF UpOK
<1>6. ASSUME h = NoHold, in, direct
      PROVE  UpOK(g, d, f, b, hs, s + 1, in, direct)
  BY <1>n, <1>0, <1>1, <1>m, <1>6 DEF UpOK
<1>7. h = NoHold /\ ~in /\ ~direct => UpOK(g, d, f, b, NoHold, s + 1, in, direct)
  BY <1>0, <1>1 DEF UpOK, One
<1>8. ASSUME f = <<>>, b # <<>>
      PROVE  UpOK(g, d, b, <<>>, h, s, in, direct)
  BY <1>8, <1>0, <1>1, NumberedEmpty DEF UpOK, One
<1>9. f = <<>> /\ b = <<>> => UpOK(g, d, f, b, h, s, in, TRUE)
  BY <1>0, <1>1 DEF UpOK
<1>10. ASSUME f # <<>>
       PROVE  UpOK(g, Append(d, Head(f)), Tail(f), b, h, s, in, direct)
  <2>1. Head(f) = Len(g) + Len(d) + 1 /\ Numbered(Tail(f), Len(g) + Len(d) + 1) /\ Len(Tail(f)) + 1 = Len(f)
        /\ Len(Tail(f)) \in Nat
    BY <1>10, <1>0, <1>1, NumberedFacts
  <2>2. Numbered(Append(d, Head(f)), Len(g))
    BY <2>1, <1>0, <1>1, NumberedFacts
  <2>3. Len(Append(d, Head(f))) = Len(d) + 1
    BY <2>1, <1>0
  <2>4. /\ Len(g) + (Len(d) + 1) + Len(Tail(f)) = Len(g) + Len(d) + Len(f)
        /\ Len(g) + (Len(d) + 1) = Len(g) + Len(d) + 1
    <3> DEFINE w == Len(g) x == Len(d) y == Len(Tail(f)) z == Len(f)
    <3>1. w \in Nat /\ x \in Nat /\ y \in Nat /\ z \in Nat /\ y + 1 = z
      BY <2>1, <1>0
    <3> HIDE DEF w, x, y, z
    <3>2. w + (x + 1) + y = w + x + z /\ w + (x + 1) = w + x + 1
      BY ONLY <3>1
    <3> QED
      BY ONLY <3>2 DEF w, x, y, z
  <2> QED
    BY <2>1, <2>2, <2>3, <2>4, <1>0, <1>1, <1>10 DEF UpOK
<1>11. ASSUME d # <<>>
       PROVE  UpOK(Append(g, Head(d)), Tail(d), f, b, h, s, in, direct)
  <2>1. Head(d) = Len(g) + 1 /\ Numbered(Tail(d), Len(g) + 1) /\ Len(Tail(d)) + 1 = Len(d) /\ Len(Tail(d)) \in Nat
    BY <1>11, <1>0, <1>1, NumberedFacts
  <2>2. Numbered(Append(g, Head(d)), 0)
    <3>1. Head(d) = 0 + Len(g) + 1
      BY <2>1, <1>0
    <3> QED
      BY <3>1, <1>0, <1>1, NumberedFacts
  <2>3. Len(Append(g, Head(d))) = Len(g) + 1
    BY <2>1, <1>0
  <2>4. (Len(g) + 1) + Len(Tail(d)) = Len(g) + Len(d)
    BY ZenonT(30), <2>1, <1>0, <1>a
  <2> QED
    BY <2>1, <2>2, <2>3, <2>4, <1>0, <1>1 DEF UpOK
<1>12. UpOK(g, d, f, b, h, s, in, FALSE)
  BY <1>0, <1>1 DEF UpOK
<1>13. s = 0 /\ h = NoHold => UpOK(g, d, f, b, h, s, TRUE, FALSE)
  BY <1>0, <1>1 DEF UpOK, One
<1> QED
  BY <1>2, <1>3, <1>4, <1>5, <1>6, <1>7, <1>8, <1>9, <1>10, <1>11, <1>12, <1>13 DEF hb, hs, UpMoved

(* And to the frames of its data pipe on their way down. *)
DownMoved(e, w, x, y, o, in, ds) ==
  /\ DownOK(e, w, x, y, o, FALSE, ds) /\ DownOK(e, w, 0, y, o, FALSE, ds)
  /\ ds # "none" => DownOK(e, w, 0, <<>>, o, FALSE, "done")
  /\ w # <<>> => DownOK(Append(e, Head(w)), Tail(w), x, y, o, in, ds)
  /\ x # 0 => DownOK(e, Append(w, x), 0, y, o, in, ds)
  /\ x = 0 /\ y # <<>> /\ in => DownOK(e, w, Head(y), Tail(y), o, in, ds)
  /\ x = 0 /\ y # <<>> /\ ~in => DownOK(e, w, 0, Tail(y), o, in, ds)
  /\ ds = "run" => DownOK(e, w, x, Append(y, o + 1), o + 1, in, ds) /\ DownOK(e, w, x, y, o + 1, in, "drain")
  /\ ds = "none" => DownOK(e, w, x, y, o, TRUE, "bind")
  /\ \A d2 : d2 # "none" /\ (in => d2 = "drain" \/ ds # "drain") => DownOK(e, w, x, y, o, in, d2)

LEMMA DownMoves ==
  ASSUME NEW e \in Seq(Nat), NEW w \in Seq(Nat), NEW x \in Nat, NEW y \in Seq(Nat), NEW o \in Nat, NEW in \in BOOLEAN,
         NEW ds, DownOK(e, w, x, y, o, in, ds)
  PROVE  DownMoved(e, w, x, y, o, in, ds)
<1> DEFINE E == Len(e) W == Len(w) Y == Len(y) X == One(x # 0)
<1>0. E \in Nat /\ W \in Nat /\ Y \in Nat /\ Len(<<>>) = 0
  OBVIOUS
<1>o. One(TRUE) = 1 /\ One(FALSE) = 0
  BY DEF One
<1>x. X \in Nat /\ (x # 0 => X = 1) /\ (x = 0 => X = 0)
  BY DEF One
<1>1. /\ Numbered(e, 0) /\ Numbered(w, E)
      /\ x # 0 => x = E + W + 1
      /\ E + W + X <= o
      /\ in => Numbered(y, E + W + X) /\ E + W + X + Y <= o /\ (ds # "drain" => E + W + X + Y = o)
      /\ ds = "none" => o = 0 /\ y = <<>>
  BY DEF DownOK
<1>u. ASSUME NEW e2, NEW w2, NEW x2, NEW y2, NEW o2, NEW in2, NEW d2,
             Numbered(e2, 0), Numbered(w2, Len(e2)), x2 # 0 => x2 = Len(e2) + Len(w2) + 1,
             NEW X2 \in Nat, x2 # 0 => X2 = 1, x2 = 0 => X2 = 0,
             Len(e2) + Len(w2) + X2 <= o2,
             in2 => Numbered(y2, Len(e2) + Len(w2) + X2),
             in2 => Len(e2) + Len(w2) + X2 + Len(y2) <= o2,
             in2 /\ d2 # "drain" => Len(e2) + Len(w2) + X2 + Len(y2) = o2,
             d2 = "none" => o2 = 0 /\ y2 = <<>>
      PROVE  DownOK(e2, w2, x2, y2, o2, in2, d2)
  <2>1. One(x2 # 0) = X2
    BY <1>u DEF One
  <2> QED
    BY <2>1, <1>u DEF DownOK
<1> HIDE DEF X
<1>2. E + W + 0 <= o /\ E + W <= o
  <2> HIDE DEF E, W
  <2> QED
    BY <1>0, <1>1, <1>x
<1>3. DownOK(e, w, x, y, o, FALSE, ds)
  BY <1>u, <1>0, <1>x, <1>1
<1>4. DownOK(e, w, 0, y, o, FALSE, ds) /\ (ds # "none" => DownOK(e, w, 0, <<>>, o, FALSE, "done"))
  BY <1>u, <1>0, <1>1, <1>2
<1>5. ASSUME w # <<>>
      PROVE  DownOK(Append(e, Head(w)), Tail(w), x, y, o, in, ds)
  <2> DEFINE V == Len(Tail(w))
  <2>1. Head(w) = E + 1 /\ Numbered(Tail(w), E + 1) /\ V + 1 = W /\ V \in Nat
    BY <1>5, <1>0, <1>1, NumberedFacts
  <2>2. Numbered(Append(e, Head(w)), 0)
    <3>1. Head(w) = 0 + E + 1
      BY <2>1, <1>0
    <3> QED
      BY <3>1, <1>0, <1>1, NumberedFacts
  <2>3. Len(Append(e, Head(w))) = E + 1
    BY <2>1, <1>0
  <2>4. (E + 1) + V = E + W
    <3> HIDE DEF E, V, W
    <3> QED
      BY <2>1, <1>0
  <2> QED
    BY <2>1, <2>2, <2>3, <2>4, <1>u, <1>0, <1>x, <1>1
<1>6. ASSUME x # 0
      PROVE  DownOK(e, Append(w, x), 0, y, o, in, ds)
  <2>1. x = E + W + 1 /\ X = 1
    BY <1>6, <1>1, <1>x
  <2>2. Numbered(Append(w, x), E)
    BY <2>1, <1>0, <1>1, NumberedFacts
  <2>3. Len(Append(w, x)) = W + 1
    BY <1>0
  <2>4. E + (W + 1) + 0 = E + W + X
    <3> HIDE DEF E, W
    <3> QED
      BY <2>1, <1>0
  <2> QED
    BY ZenonT(40), <2>1, <2>2, <2>3, <2>4, <1>u, <1>0, <1>x, <1>1
<1>7. ASSUME x = 0, y # <<>>
      PROVE  (in => DownOK(e, w, Head(y), Tail(y), o, in, ds)) /\ (~in => DownOK(e, w, 0, Tail(y), o, in, ds))
  <2>0. ds # "none" /\ X = 0
    BY <1>7, <1>1, <1>x
  <2>1. ASSUME in
        PROVE  DownOK(e, w, Head(y), Tail(y), o, in, ds)
    <3> DEFINE V == Len(Tail(y))
    <3>1. Head(y) = (E + W + X) + 1 /\ Numbered(Tail(y), (E + W + X) + 1) /\ V + 1 = Y /\ V \in Nat
      BY <2>1, <1>7, <1>0, <1>1, <1>x, NumberedFacts
    <3>2. E + W + X + Y <= o /\ (ds # "drain" => E + W + X + Y = o)
      BY <2>1, <1>1
    <3>3. Head(y) = E + W + 1 /\ Head(y) # 0 /\ (E + W + X) + 1 = E + W + 1 /\ E + W + 1 + V = E + W + X + Y
          /\ E + W + 1 <= o
      <4> DEFINE hy == Head(y)
      <4>1. hy = (E + W + X) + 1
        BY <3>1
      <4> HIDE DEF E, W, V, Y, hy
      <4>2. hy = E + W + 1 /\ hy # 0 /\ (E + W + X) + 1 = E + W + 1 /\ E + W + 1 + V = E + W + X + Y /\ E + W + 1 <= o
        BY <4>1, <3>1, <3>2, <2>0, <1>0
      <4> QED
        BY <4>2 DEF hy
    <3>4. Numbered(Tail(y), E + W + 1) /\ 1 \in Nat
      BY <3>1, <3>3
    <3> QED
      BY <3>1, <3>2, <3>3, <3>4, <2>0, <2>1, <1>u, <1>1
  <2>2. ASSUME ~in
        PROVE  DownOK(e, w, 0, Tail(y), o, in, ds)
    BY <2>0, <2>2, <1>u, <1>1, <1>2
  <2> QED
    BY <2>1, <2>2
<1>8. ASSUME ds = "run"
      PROVE  DownOK(e, w, x, Append(y, o + 1), o + 1, in, ds) /\ DownOK(e, w, x, y, o + 1, in, "drain")
  <2>1. E + W + X <= o + 1 /\ (in => E + W + X + Y = o /\ E + W + X + Y <= o + 1 /\ E + W + X + (Y + 1) = o + 1)
    <3>1. in => E + W + X + Y = o
      BY <1>8, <1>1
    <3> HIDE DEF E, W, Y
    <3> QED
      BY <3>1, <1>0, <1>1, <1>x
  <2>2. Len(Append(y, o + 1)) = Y + 1 /\ o + 1 \in Nat
    BY <1>0
  <2>3. in => Numbered(Append(y, o + 1), E + W + X)
    BY <2>1, <1>0, <1>1, <1>x, NumberedFacts
  <2>4. in => E + W + X + Len(Append(y, o + 1)) = o + 1 /\ E + W + X + Len(Append(y, o + 1)) <= o + 1
    BY <2>1, <2>2
  <2>5. DownOK(e, w, x, Append(y, o + 1), o + 1, in, ds)
    BY <2>1, <2>3, <2>4, <1>8, <1>u, <1>x, <1>1
  <2>6. DownOK(e, w, x, y, o + 1, in, "drain")
    BY <2>1, <1>u, <1>x, <1>1
  <2> QED
    BY <2>5, <2>6
<1>9. ASSUME ds = "none"
      PROVE  DownOK(e, w, x, y, o, TRUE, "bind")
  <2>1. o = 0 /\ y = <<>> /\ Y = 0
    BY <1>9, <1>1
  <2>2. E + W + X + Y = 0 /\ E + W + X + Y <= 0
    <3> HIDE DEF E, W, Y
    <3> QED
      BY <2>1, <1>0, <1>1, <1>x
  <2> QED
    BY <2>1, <2>2, <1>u, <1>x, <1>1, NumberedEmpty
<1>10. ASSUME NEW d2, d2 # "none", in => d2 = "drain" \/ ds # "drain"
       PROVE  DownOK(e, w, x, y, o, in, d2)
  BY <1>10, <1>u, <1>x, <1>1
<1> QED
  BY <1>3, <1>4, <1>5, <1>6, <1>7, <1>8, <1>9, <1>10 DEF DownMoved

(* Room s is room r after some clients were dropped. *)
Loses(r, s) == \E G \in SUBSET Clients : Lost(r, s, G)

LEMMA LosesGives ==
  ASSUME NEW r, NEW s, Loses(r, s)
  PROVE  /\ s \in RoomRec /\ Neat(s) /\ (Counted(r) => Counted(s)) /\ (s.live => r.live)
         /\ s.clients \subseteq r.clients /\ s.paired \subseteq r.paired /\ s.flush \subseteq r.flush
         /\ s.data \subseteq r.data /\ s.dq = r.dq /\ s.cq = r.cq
         /\ s.control = r.control \/ (s.control = 0 /\ s.clients = {} /\ s.data = {})
         /\ Told(r.q, s.q)
         /\ \A c \in Clients :
              \/ c \notin s.clients /\ s.buf[c] = <<>>
              \/ /\ s.buf[c] = r.buf[c] /\ (c \in s.clients <=> c \in r.clients) /\ (c \in s.data <=> c \in r.data)
                 /\ (c \in s.paired \ s.flush <=> c \in r.paired \ r.flush)
<1>1. PICK G \in SUBSET Clients : Lost(r, s, G)
  BY DEF Loses
<1>2. s.clients = {} => s.data = {}
  BY <1>1 DEF Lost, Neat
<1> QED
  BY <1>1, <1>2 DEF Lost

(* The socket tasks' ways to drop a client, as the actions use them. *)
LEMMA SweptDrop ==
  ASSUME NEW r \in RoomRec, Neat(r), NEW c \in Clients, NEW s, s = Swept(DropClient(r, c))
  PROVE  Loses(r, s) /\ c \notin s.clients /\ (s.live => ~EmptyRoom(s))
<1> DEFINE t == DropClient(r, c)
<1>1. PICK G \in SUBSET Clients : c \in G /\ Lost(r, t, G)
  BY DropLoses
<1> HIDE DEF t
<1>2. Lost(r, Swept(t), G) /\ (Swept(t).live => ~EmptyRoom(Swept(t)))
  BY <1>1, SweptLoses
<1>3. s = Swept(t)
  BY DEF t
<1> QED
  BY <1>1, <1>2, <1>3 DEF Loses, Lost

LEMMA SweptClose ==
  ASSUME NEW r \in RoomRec, Neat(r), NEW c \in Clients, NEW s, s = Swept(CloseClient(r, c))
  PROVE  Loses(r, s) /\ c \notin s.clients
<1> DEFINE t == CloseClient(r, c)
<1>1. Lost(r, t, {c})
  BY CloseClientLoses
<1> HIDE DEF t
<1>2. Lost(r, Swept(t), {c})
  BY <1>1, SweptLoses
<1>3. s = Swept(t) /\ {c} \in SUBSET Clients
  BY DEF t
<1> QED
  BY <1>2, <1>3 DEF Loses, Lost

LEMMA SweptSame ==
  ASSUME NEW r \in RoomRec, Neat(r)
  PROVE  Loses(r, r) /\ Loses(r, Swept(r)) /\ (Swept(r).live => ~EmptyRoom(Swept(r)))
<1>1. Lost(r, r, {}) /\ {} \in SUBSET Clients
  BY LostNone
<1>2. Lost(r, Swept(r), {}) /\ (Swept(r).live => ~EmptyRoom(Swept(r)))
  BY <1>1, SweptLoses
<1> QED
  BY <1>1, <1>2 DEF Loses

LEMMA LosesTwice ==
  ASSUME NEW r, NEW s, NEW t, Loses(r, s), Loses(s, t), s.q = r.q
  PROVE  Loses(r, t)
<1>1. PICK G \in SUBSET Clients : Lost(r, s, G)
  BY DEF Loses
<1>2. PICK H \in SUBSET Clients : Lost(s, t, H)
  BY DEF Loses
<1>3. Lost(r, t, G \cup H) /\ G \cup H \in SUBSET Clients
  BY <1>1, <1>2, LostTwice
<1> QED
  BY <1>3 DEF Loses

(* Close signals and exited writers change nothing that counts. *)
SignalRoom(r, cl, mu) == [r EXCEPT !.closed = cl, !.mute = mu]

LEMMA SignalLoses ==
  ASSUME NEW r \in RoomRec, Neat(r), NEW cl \in SUBSET RoomEnds, r.closed \subseteq cl, NEW mu \in SUBSET Ctls,
         NEW s, s = SignalRoom(r, cl, mu)
  PROVE  Loses(r, s) /\ s.q = r.q /\ s.control = r.control /\ s.live = r.live /\ s.data = r.data
         /\ s.clients = r.clients /\ s.paired = r.paired
<1>1. /\ s.live = r.live /\ s.control = r.control /\ s.clients = r.clients /\ s.paired = r.paired
      /\ s.flush = r.flush /\ s.data = r.data /\ s.buf = r.buf /\ s.bytes = r.bytes /\ s.closed = cl
      /\ s.mute = mu /\ s.q = r.q /\ s.dq = r.dq /\ s.cq = r.cq
  BY DEF RoomRec, SignalRoom
<1>2. s \in RoomRec
  BY DEF RoomRec, SignalRoom
<1>3. Neat(s) /\ (Counted(r) => Counted(s))
  BY <1>1 DEF Neat, Counted, Held
<1>4. r.buf = [d \in Clients |-> IF d \in {} THEN <<>> ELSE r.buf[d]]
  BY DEF RoomRec
<1>5. Lost(r, s, {}) /\ {} \in SUBSET Clients
  BY <1>1, <1>2, <1>3, <1>4 DEF Lost, Told
<1> QED
  BY <1>1, <1>5 DEF Loses

(* A room that is not in the registry has nobody in it. *)
LEMMA DeadRoom ==
  ASSUME NEW r, Neat(r), ~r.live
  PROVE  r.clients = {} /\ r.data = {} /\ r.control = 0
BY DEF Neat

LEMMA ClientEndsDrops ==
  ASSUME room \in RoomRec, Neat(room), NEW c \in Clients, ClientEnds(c)
  PROVE  Loses(room, room') /\ c \notin room'.clients /\ (room'.live => ~EmptyRoom(room'))
<1>1. CASE room.live
  BY <1>1, SweptDrop DEF ClientEnds
<1>2. CASE ~room.live
  BY <1>2, SweptSame, DeadRoom DEF ClientEnds
<1> QED
  BY <1>1, <1>2

LEMMA DeadlineDrops ==
  ASSUME room \in RoomRec, Neat(room), NEW c \in Clients, PairDeadline(c)
  PROVE  Loses(room, room')
BY SweptDrop DEF PairDeadline

LEMMA BuffersOrDrops ==
  ASSUME room \in RoomRec, Neat(room), NEW c \in Clients, ClientBuffers(c)
  PROVE  \/ Loses(room, room') /\ c \notin room'.clients /\ late' = late
         \/ /\ c \in room.clients
            /\ room' = [room EXCEPT !.buf = [room.buf EXCEPT ![c] = Append(room.buf[c], hold[c].frame)],
                                    !.bytes = room.bytes + 1]
            /\ late' = IF c \in room.paired \ room.flush THEN late \cup {c} ELSE late
<1> DEFINE fits == /\ c \in room.clients
                   /\ room.bytes + 1 <= RoomCap
                   /\ Len(room.buf[c]) < BufferCap
<1>1. CASE ~room.live
  BY <1>1, SweptSame, DeadRoom DEF ClientBuffers
<1>2. CASE room.live /\ ~fits
  <2>1. room' = Swept(DropClient(room, c)) /\ late' = late
    BY <1>2 DEF ClientBuffers
  <2> QED
    BY <2>1, SweptDrop
<1>3. CASE room.live /\ fits
  BY <1>3 DEF ClientBuffers, RoomRec
<1> QED
  BY <1>1, <1>2, <1>3

LEMMA SendsOrDrops ==
  ASSUME room \in RoomRec, Neat(room), NEW c \in Clients, ClientSends(c)
  PROVE  \/ Loses(room, room') /\ (c \in room.data => c \notin room'.clients)
         \/ room' = [room EXCEPT !.dq = [room.dq EXCEPT ![c] = Append(room.dq[c], hold[c].frame)]]
<1>1. CASE room' = [room EXCEPT !.dq[c] = Append(@, hold[c].frame)]
  BY <1>1 DEF RoomRec
<1>2. CASE room' = Swept(IF c \in room.data THEN CloseClient(room, c) ELSE room)
  BY <1>2, SweptClose, SweptSame
<1> QED
  BY <1>1, <1>2 DEF ClientSends

LEMMA FlushOrDrops ==
  ASSUME room \in RoomRec, Neat(room), NEW c \in Clients, FlushSends(c)
  PROVE  \/ Loses(room, room') /\ c \notin room'.clients /\ flushing' = [flushing EXCEPT ![c] = <<>>]
         \/ /\ room' = [room EXCEPT !.dq = [room.dq EXCEPT ![c] = Append(room.dq[c], Head(flushing[c]))]]
            /\ flushing' = [flushing EXCEPT ![c] = Tail(flushing[c])]
<1>1. CASE <<"d", c>> \in room.closed /\ room.live
  BY <1>1, SweptDrop DEF FlushSends
<1>2. CASE <<"d", c>> \in room.closed /\ ~room.live
  BY <1>2, SweptSame, DeadRoom DEF FlushSends
<1>3. CASE <<"d", c>> \notin room.closed
  <2>1. flushing' = [flushing EXCEPT ![c] = Tail(flushing[c])]
    BY <1>3 DEF FlushSends
  <2>2. room' = [room EXCEPT !.dq = [room.dq EXCEPT ![c] = Append(room.dq[c], Head(flushing[c]))]]
    BY <1>3 DEF FlushSends, RoomRec
  <2> QED
    BY <2>1, <2>2
<1> QED
  BY <1>1, <1>2, <1>3

LEMMA ForwardOrDrops ==
  ASSUME room \in RoomRec, Neat(room), NEW c \in Clients, ForwardSends(c)
  PROVE  \/ Loses(room, room') /\ c \notin room'.clients
         \/ room' = [room EXCEPT !.cq = [room.cq EXCEPT ![c] = Append(room.cq[c], fwd[c])]]
<1>1. CASE <<"c", c>> \in room.closed /\ room.live
  BY <1>1, SweptDrop DEF ForwardSends
<1>2. CASE <<"c", c>> \in room.closed /\ ~room.live
  BY <1>2, SweptSame, DeadRoom DEF ForwardSends
<1>3. CASE <<"c", c>> \notin room.closed
  BY <1>3 DEF ForwardSends, RoomRec
<1> QED
  BY <1>1, <1>2, <1>3

LEMMA UnregisterDrops ==
  ASSUME room \in RoomRec, Neat(room), NEW c \in Clients, DataUnregisters(c)
  PROVE  Loses(room, room') /\ c \notin room'.data
<1>1. CASE ~room.live \/ c \notin room.data
  BY <1>1, SweptSame, DeadRoom DEF DataUnregisters
<1>2. CASE room.live /\ c \in room.data
  <2> DEFINE cl == room.closed \cup {<<"d", c>>}
             r == [room EXCEPT !.data = room.data \ {c}, !.closed = cl]
             t == [room EXCEPT !.closed = cl, !.mute = room.mute]
  <2>1. c \in room.paired /\ c \in room.clients /\ room.data = room.paired
    BY <1>2 DEF Neat
  <2>2. room' = Swept(CloseClient(r, c))
    BY <1>2, <2>1 DEF DataUnregisters, RoomRec
  <2>3. cl \in SUBSET RoomEnds /\ room.closed \subseteq cl /\ room.mute \in SUBSET Ctls /\ <<"d", c>> \in cl
    BY DEF RoomRec, RoomEnds
  <2> HIDE DEF cl
  <2>4. Loses(room, t) /\ t.q = room.q
    <3>1. t = SignalRoom(room, cl, room.mute)
      BY DEF SignalRoom
    <3> HIDE DEF t
    <3> QED
      BY <3>1, <2>3, SignalLoses
  <2>5. CloseClient(r, c) = CloseClient(t, c)
    <3> DEFINE v == [room EXCEPT !.clients = room.clients \ {c}, !.paired = room.paired \ {c},
                       !.flush = room.flush \ {c}, !.data = room.data \ {c}, !.buf = [room.buf EXCEPT ![c] = <<>>],
                       !.bytes = room.bytes - Len(room.buf[c]), !.closed = cl \cup {<<"c", c>>}]
    <3>1. (room.data \ {c}) \ {c} = room.data \ {c} /\ cl \cup {<<"c", c>>} \cup {} = cl \cup {<<"c", c>>}
          /\ cl \cup {<<"c", c>>} \cup {<<"d", c>>} = cl \cup {<<"c", c>>}
      BY <2>3
    <3>2. /\ r.clients = room.clients /\ r.paired = room.paired /\ r.data = room.data \ {c} /\ r.flush = room.flush
          /\ r.buf = room.buf /\ r.bytes = room.bytes /\ r.closed = cl
          /\ t.clients = room.clients /\ t.paired = room.paired /\ t.data = room.data /\ t.flush = room.flush
          /\ t.buf = room.buf /\ t.bytes = room.bytes /\ t.closed = cl
      BY DEF RoomRec
    <3>3. CloseClient(r, c) = v
      <4>1. c \notin r.paired \cap r.data /\ c \in r.clients /\ c \in r.paired
        BY <3>2, <2>1
      <4>2. CloseClient(r, c) = [r EXCEPT !.clients = room.clients \ {c}, !.paired = room.paired \ {c},
               !.flush = room.flush \ {c}, !.data = (room.data \ {c}) \ {c}, !.buf = [room.buf EXCEPT ![c] = <<>>],
               !.bytes = room.bytes - Len(room.buf[c]), !.closed = cl \cup {<<"c", c>>} \cup {}]
        BY <4>1, <3>2 DEF CloseClient, RoomRec
      <4> QED
        BY <4>2, <3>1 DEF RoomRec
    <3>4. CloseClient(t, c) = v
      <4>1. c \in t.paired \cap t.data /\ c \in t.clients /\ c \in t.paired
        BY <3>2, <2>1, <1>2
      <4>2. CloseClient(t, c) = [t EXCEPT !.clients = room.clients \ {c}, !.paired = room.paired \ {c},
               !.flush = room.flush \ {c}, !.data = room.data \ {c}, !.buf = [room.buf EXCEPT ![c] = <<>>],
               !.bytes = room.bytes - Len(room.buf[c]), !.closed = cl \cup {<<"c", c>>} \cup {<<"d", c>>}]
        BY <4>1, <3>2 DEF CloseClient, RoomRec
      <4> QED
        BY <4>2, <3>1 DEF RoomRec
    <3> QED
      BY <3>3, <3>4
  <2> HIDE DEF r, t
  <2>6. t \in RoomRec /\ Neat(t) /\ room' = Swept(CloseClient(t, c))
    BY <2>2, <2>4, <2>5, LosesGives
  <2>7. Loses(t, room') /\ c \notin room'.clients
    BY <2>6, SweptClose
  <2>8. Loses(room, room')
    BY <2>4, <2>7, LosesTwice
  <2>9. c \notin room'.data
    BY <2>7, <2>8, LosesGives DEF Neat
  <2> QED
    BY <2>8, <2>9
<1> QED
  BY <1>1, <1>2

LEMMA ControlEndsDrops ==
  ASSUME room \in RoomRec, Neat(room), NEW k \in Ctls, ControlEnds(k)
  PROVE  Loses(room, room') /\ room'.control # k /\ (room'.live => ~EmptyRoom(room'))
<1> DEFINE r == [room EXCEPT !.closed = room.closed, !.mute = room.mute \cup {k}]
<1>0. room.closed \in SUBSET RoomEnds /\ room.mute \cup {k} \in SUBSET Ctls /\ room.closed \subseteq room.closed /\ k # 0
  BY DEF RoomRec, Ctls
<1>1. Loses(room, r) /\ r.q = room.q /\ r.control = room.control /\ r.live = room.live
  <2>1. r = SignalRoom(room, room.closed, room.mute \cup {k})
    BY DEF SignalRoom
  <2> HIDE DEF r
  <2> QED
    BY <2>1, <1>0, SignalLoses
<1>2. r \in RoomRec /\ Neat(r)
  BY <1>1, LosesGives
<1>3. r = [room EXCEPT !.mute = @ \cup {k}]
  BY DEF RoomRec
<1>4. room' = IF ~r.live THEN r ELSE Swept(IF r.control = k THEN ClearControl(r) ELSE r)
  BY <1>3 DEF ControlEnds
<1> HIDE DEF r
<1>5. CASE ~r.live
  BY <1>0, <1>1, <1>2, <1>4, <1>5, DeadRoom
<1>6. CASE r.live /\ r.control # k
  <2>1. room' = Swept(r)
    BY <1>4, <1>6
  <2>2. Loses(r, room') /\ (room'.live => ~EmptyRoom(room'))
    BY <2>1, <1>2, SweptSame
  <2>3. room'.control # k
    BY <2>2, <1>0, <1>6, LosesGives
  <2> QED
    BY <2>2, <2>3, <1>1, LosesTwice
<1>7. CASE r.live /\ r.control = k
  <2> DEFINE t == ClearControl(r)
  <2>1. room' = Swept(t)
    BY <1>4, <1>7
  <2>2. Lost(r, t, r.clients) /\ t.control = 0 /\ r.clients \in SUBSET Clients
    BY <1>2, ClearControlLoses DEF RoomRec
  <2> HIDE DEF t
  <2>3. Lost(r, Swept(t), r.clients) /\ (Swept(t).live => ~EmptyRoom(Swept(t))) /\ Swept(t).control = 0
    BY <2>2, SweptLoses
  <2>4. Loses(r, room') /\ (room'.live => ~EmptyRoom(room')) /\ room'.control # k
    BY <2>1, <2>2, <2>3, <1>0 DEF Loses
  <2> QED
    BY <2>4, <1>1, LosesTwice
<1> QED
  BY <1>5, <1>6, <1>7

LEMMA WriterFailsDrops ==
  ASSUME room \in RoomRec, Neat(room)
  PROVE  /\ \A k \in Ctls : ControlWriterFails(k) => Loses(room, room')
         /\ \A c \in Clients : DataWriterFails(c) => Loses(room, room')
<1>1. ASSUME NEW k \in Ctls, ControlWriterFails(k)
      PROVE  Loses(room, room')
  <2>1. room' = SignalRoom(room, room.closed \cup {<<"k", k>>}, room.mute \cup {k})
    BY <1>1 DEF SignalRoom, ControlWriterFails, RoomRec
  <2>2. room.closed \cup {<<"k", k>>} \in SUBSET RoomEnds /\ room.mute \cup {k} \in SUBSET Ctls
    BY DEF RoomRec, RoomEnds
  <2> QED
    BY <2>1, <2>2, SignalLoses
<1>2. ASSUME NEW c \in Clients, DataWriterFails(c)
      PROVE  Loses(room, room')
  <2>1. room' = SignalRoom(room, room.closed \cup {<<"d", c>>}, room.mute)
    BY <1>2 DEF SignalRoom, DataWriterFails, RoomRec
  <2>2. room.closed \cup {<<"d", c>>} \in SUBSET RoomEnds /\ room.mute \in SUBSET Ctls
    BY DEF RoomRec, RoomEnds
  <2> QED
    BY <2>1, <2>2, SignalLoses
<1> QED
  BY <1>1, <1>2

LEMMA ConnectsOrRefused ==
  ASSUME room \in RoomRec, Neat(room), NEW c \in Clients, BrowserConnects(c), c \notin room.clients
  PROVE  \/ /\ Loses(room, room') /\ browser' = [browser EXCEPT ![c] = "refused"] /\ csock' = csock
         \/ /\ room.control \in Ctls /\ room.live
            /\ room' = [room EXCEPT !.clients = room.clients \cup {c},
                          !.q = [room.q EXCEPT ![room.control] =
                                   Append(room.q[room.control], [kind |-> "open", c |-> c])]]
            /\ browser' = [browser EXCEPT ![c] = "on"]
            /\ csock' = [csock EXCEPT ![c] = "run"]
<1> DEFINE r1 == [room EXCEPT !.clients = @ \cup {c}]
           admitted == room.live /\ Cardinality(Pending(room)) < PendingLimit /\ room.control # 0
           Accept == admitted /\ ~ControlClosed(room) /\ ~ControlFull(room)
<1>0. room.clients \cup {c} \in SUBSET Clients /\ room.control \in Ctls \cup {0} /\ room.buf \in [Clients -> Seq(Nat)]
      /\ room.buf[c] = <<>>
  BY DEF RoomRec, Neat
<1>1. CASE Accept
  <2>1. room' = SendControl(r1, "open", c) /\ browser' = [browser EXCEPT ![c] = "on"] /\ csock' = [csock EXCEPT ![c] = "run"]
        /\ room.live /\ room.control # 0
    BY <1>1 DEF BrowserConnects
  <2>2. SendControl(r1, "open", c) = [room EXCEPT !.clients = room.clients \cup {c},
                          !.q = [room.q EXCEPT ![room.control] =
                                   Append(room.q[room.control], [kind |-> "open", c |-> c])]]
    BY DEF SendControl, RoomRec
  <2> QED
    BY <2>1, <2>2, <1>0
<1>2. CASE ~Accept
  <2>1. /\ browser' = [browser EXCEPT ![c] = "refused"] /\ csock' = csock
        /\ room' = IF ~admitted THEN room
                   ELSE IF ControlClosed(room) THEN ClearControl(CloseClient(r1, c)) ELSE CloseClient(r1, c)
    BY <1>2 DEF BrowserConnects
  <2>2. CASE ~admitted
    <3>1. room' = room
      BY <2>1, <2>2
    <3> QED
      BY <3>1, <2>1, SweptSame
  <2>3. CASE admitted
    <3>0. r1 = [room EXCEPT !.clients = room.clients \cup {c}] /\ room.control # 0
      BY <2>3
    <3> HIDE DEF r1
    <3>1. /\ r1.live = room.live /\ r1.control = room.control /\ r1.clients = room.clients \cup {c}
          /\ r1.paired = room.paired /\ r1.flush = room.flush /\ r1.data = room.data /\ r1.buf = room.buf
          /\ r1.bytes = room.bytes /\ r1.closed = room.closed /\ r1.mute = room.mute /\ r1.q = room.q
          /\ r1.dq = room.dq /\ r1.cq = room.cq
      BY <3>0 DEF RoomRec
    <3>2. r1 \in RoomRec
      BY <3>0, <1>0 DEF RoomRec
    <3>3. Neat(r1)
      BY <3>0, <3>1 DEF Neat
    <3>4. Counted(room) => Counted(r1)
      BY <3>1, <1>0, CountedJoin
    <3>5. ASSUME NEW s, NEW G \in SUBSET Clients, c \in G, Lost(r1, s, G)
          PROVE  Lost(room, s, G)
      BY <3>1, <3>4, <3>5 DEF Lost, Neat
    <3> DEFINE t == CloseClient(r1, c)
    <3>6. Lost(r1, t, {c}) /\ t.q = r1.q
      BY <3>2, <3>3, CloseClientLoses
    <3> HIDE DEF t
    <3>7. Lost(room, t, {c}) /\ {c} \in SUBSET Clients
      BY <3>5, <3>6
    <3>8. t \in RoomRec /\ Neat(t) /\ t.q = room.q /\ Loses(room, t)
      BY <3>1, <3>6, <3>7 DEF Lost, Loses
    <3>9. Lost(t, ClearControl(t), t.clients) /\ t.clients \in SUBSET Clients
      BY <3>8, ClearControlLoses DEF RoomRec
    <3>10. Loses(room, ClearControl(t))
      BY <3>8, <3>9, LosesTwice DEF Loses
    <3>11. room' = ClearControl(t) \/ room' = t
      BY <2>1, <2>3 DEF t
    <3> QED
      BY <2>1, <3>8, <3>10, <3>11
  <2> QED
    BY <2>2, <2>3
<1> QED
  BY <1>1, <1>2

LEMMA RegistersControlDrops ==
  ASSUME room \in RoomRec, Neat(room), NEW k \in Ctls, RegistersControl(k)
  PROVE  /\ room' \in RoomRec /\ Neat(room') /\ (Counted(room) => Counted(room'))
         /\ room'.clients = {} /\ room'.data = {} /\ room'.paired = {} /\ room'.flush = {} /\ room'.control = k /\ room'.live
         /\ room'.q = room.q /\ room'.dq = room.dq /\ room'.cq = room.cq
         /\ \A c \in Clients : room'.buf[c] = <<>>
<1> DEFINE cls == room.closed \cup {<<"k", room.control>>}
           kept == IF room.control = 0 THEN room ELSE CutRoom(room, room.control, cls)
<1>1. room' = [kept EXCEPT !.live = TRUE, !.control = k]
  BY DEF RegistersControl, CutRoom, RoomRec
<1>2. /\ kept \in RoomRec /\ Neat(kept) /\ (Counted(room) => Counted(kept)) /\ kept.clients = {}
      /\ kept.q = room.q /\ kept.dq = room.dq /\ kept.cq = room.cq
  <2>1. CASE room.control = 0
    BY <2>1 DEF Neat
  <2>2. CASE room.control # 0
    <3>1. cls \in SUBSET RoomEnds /\ room.closed \subseteq cls /\ room.control \in {room.control, 0}
      BY <2>2 DEF RoomRec, RoomEnds
    <3> DEFINE s == CutRoom(room, room.control, cls)
    <3> HIDE DEF cls
    <3>2. s = CutRoom(room, room.control, cls)
      OBVIOUS
    <3> HIDE DEF s
    <3>3. Lost(room, s, room.clients) /\ s.clients = {} /\ s.q = room.q
      BY <3>1, <3>2, CloseClientsLoses
    <3>4. kept = s
      BY <2>2, <3>2
    <3> HIDE DEF kept
    <3> QED
      BY <3>3, <3>4 DEF Lost
  <2> QED
    BY <2>1, <2>2
<1> HIDE DEF kept
<1>3. /\ room'.live = TRUE /\ room'.control = k /\ room'.clients = kept.clients /\ room'.paired = kept.paired
      /\ room'.flush = kept.flush /\ room'.data = kept.data /\ room'.buf = kept.buf /\ room'.bytes = kept.bytes
      /\ room'.closed = kept.closed /\ room'.mute = kept.mute /\ room'.q = kept.q /\ room'.dq = kept.dq
      /\ room'.cq = kept.cq
  BY <1>1, <1>2 DEF RoomRec
<1>4. room' \in RoomRec
  BY <1>1, <1>2 DEF RoomRec
<1>5. Neat(room') /\ (Counted(kept) => Counted(room'))
  BY <1>2, <1>3 DEF Neat, Counted, Held
<1> QED
  BY <1>2, <1>3, <1>4, <1>5 DEF Neat

(* The updates that drop nobody. *)
SetRoom(r, cl, fl, pa, bu, by, qq, dd, cc) ==
  [r EXCEPT !.clients = cl, !.flush = fl, !.paired = pa, !.data = pa, !.buf = bu, !.bytes = by, !.q = qq, !.dq = dd,
            !.cq = cc]

LEMMA SetRoomGives ==
  ASSUME NEW r \in RoomRec, NEW cl \in SUBSET Clients, NEW fl \in SUBSET Clients, NEW pa \in SUBSET Clients,
         NEW bu \in [Clients -> Seq(Nat)], NEW by \in Int, NEW qq \in [Ctls -> Seq(RoomMsgs)],
         NEW dd \in [Clients -> Seq(Nat)], NEW cc \in [Clients -> Seq(Nat)],
         NEW s, s = SetRoom(r, cl, fl, pa, bu, by, qq, dd, cc)
  PROVE  /\ s \in RoomRec /\ s.live = r.live /\ s.control = r.control /\ s.clients = cl /\ s.flush = fl /\ s.paired = pa
         /\ s.data = pa /\ s.buf = bu /\ s.bytes = by /\ s.q = qq /\ s.dq = dd /\ s.cq = cc
         /\ s.closed = r.closed /\ s.mute = r.mute
<1>1. s \in RoomRec
  BY DEF RoomRec, SetRoom
<1> QED
  BY ZenonT(30), <1>1 DEF RoomRec, SetRoom

RoomOK(r) == r \in RoomRec /\ Neat(r) /\ Counted(r)
RoomIs(s, r, cl, fl, pa, bu, qq, dd, cc) ==
  /\ s.live = r.live /\ s.control = r.control /\ s.clients = cl /\ s.flush = fl /\ s.paired = pa /\ s.data = pa
  /\ s.buf = bu /\ s.q = qq /\ s.dq = dd /\ s.cq = cc

LEMMA SetRoomKeeps ==
  ASSUME NEW r, RoomOK(r), NEW fl \in SUBSET Clients, NEW pa \in SUBSET r.clients, fl \subseteq pa,
         NEW qq \in [Ctls -> Seq(RoomMsgs)], NEW dd \in [Clients -> Seq(Nat)], NEW cc \in [Clients -> Seq(Nat)],
         NEW s, s = SetRoom(r, r.clients, fl, pa, r.buf, r.bytes, qq, dd, cc)
  PROVE  RoomOK(s) /\ RoomIs(s, r, r.clients, fl, pa, r.buf, qq, dd, cc)
<1>0. r.clients \in SUBSET Clients /\ pa \in SUBSET Clients /\ r.buf \in [Clients -> Seq(Nat)] /\ r.bytes \in Int
      /\ r \in RoomRec
  BY DEF RoomOK, RoomRec
<1>1. /\ s \in RoomRec /\ s.live = r.live /\ s.control = r.control /\ s.clients = r.clients /\ s.flush = fl /\ s.paired = pa
      /\ s.data = pa /\ s.buf = r.buf /\ s.bytes = r.bytes /\ s.q = qq /\ s.dq = dd /\ s.cq = cc
  BY <1>0, SetRoomGives
<1>2. Neat(s) /\ Counted(s)
  BY <1>1 DEF RoomOK, Neat, Counted, Held
<1> QED
  BY <1>1, <1>2 DEF RoomOK, RoomIs

LEMMA RoomFacts ==
  ASSUME NEW r, RoomOK(r)
  PROVE  /\ r.flush \in SUBSET Clients /\ r.paired \in SUBSET r.clients /\ r.flush \subseteq r.paired
         /\ r.q \in [Ctls -> Seq(RoomMsgs)] /\ r.dq \in [Clients -> Seq(Nat)] /\ r.cq \in [Clients -> Seq(Nat)]
         /\ r.data = r.paired /\ r.clients \subseteq Clients /\ r.buf \in [Clients -> Seq(Nat)] /\ r.bytes \in Int
         /\ r \in RoomRec /\ Neat(r) /\ Counted(r)
         /\ r.control \in Ctls \cup {0} /\ r.live \in BOOLEAN
BY DEF RoomOK, RoomRec, Neat

LEMMA QueueSet ==
  ASSUME NEW r, RoomOK(r), NEW s
  PROVE  /\ \A dd \in [Clients -> Seq(Nat)] :
              s = [r EXCEPT !.dq = dd] => RoomOK(s) /\ RoomIs(s, r, r.clients, r.flush, r.paired, r.buf, r.q, dd, r.cq)
         /\ \A cc \in [Clients -> Seq(Nat)] :
              s = [r EXCEPT !.cq = cc] => RoomOK(s) /\ RoomIs(s, r, r.clients, r.flush, r.paired, r.buf, r.q, r.dq, cc)
         /\ \A qq \in [Ctls -> Seq(RoomMsgs)] :
              s = [r EXCEPT !.q = qq] => RoomOK(s) /\ RoomIs(s, r, r.clients, r.flush, r.paired, r.buf, qq, r.dq, r.cq)
<1> USE RoomFacts
<1>1. ASSUME NEW dd \in [Clients -> Seq(Nat)], s = [r EXCEPT !.dq = dd]
      PROVE  s = SetRoom(r, r.clients, r.flush, r.paired, r.buf, r.bytes, r.q, dd, r.cq)
  BY <1>1 DEF SetRoom, RoomRec
<1>2. ASSUME NEW cc \in [Clients -> Seq(Nat)], s = [r EXCEPT !.cq = cc]
      PROVE  s = SetRoom(r, r.clients, r.flush, r.paired, r.buf, r.bytes, r.q, r.dq, cc)
  BY <1>2 DEF SetRoom, RoomRec
<1>3. ASSUME NEW qq \in [Ctls -> Seq(RoomMsgs)], s = [r EXCEPT !.q = qq]
      PROVE  s = SetRoom(r, r.clients, r.flush, r.paired, r.buf, r.bytes, qq, r.dq, r.cq)
  BY <1>3 DEF SetRoom, RoomRec
<1>4. ASSUME NEW dd \in [Clients -> Seq(Nat)], s = [r EXCEPT !.dq = dd]
      PROVE  RoomOK(s) /\ RoomIs(s, r, r.clients, r.flush, r.paired, r.buf, r.q, dd, r.cq)
  <2>1. s = SetRoom(r, r.clients, r.flush, r.paired, r.buf, r.bytes, r.q, dd, r.cq)
    BY ONLY <1>1, <1>4
  <2>2. /\ r.flush \in SUBSET Clients /\ r.paired \in SUBSET r.clients /\ r.flush \subseteq r.paired
        /\ r.q \in [Ctls -> Seq(RoomMsgs)] /\ r.dq \in [Clients -> Seq(Nat)] /\ r.cq \in [Clients -> Seq(Nat)]
    OBVIOUS
  <2> QED
    BY ONLY <2>1, <2>2, <1>4, RoomOK(r), SetRoomKeeps
<1>5. ASSUME NEW cc \in [Clients -> Seq(Nat)], s = [r EXCEPT !.cq = cc]
      PROVE  RoomOK(s) /\ RoomIs(s, r, r.clients, r.flush, r.paired, r.buf, r.q, r.dq, cc)
  <2>1. s = SetRoom(r, r.clients, r.flush, r.paired, r.buf, r.bytes, r.q, r.dq, cc)
    BY ONLY <1>2, <1>5
  <2>2. /\ r.flush \in SUBSET Clients /\ r.paired \in SUBSET r.clients /\ r.flush \subseteq r.paired
        /\ r.q \in [Ctls -> Seq(RoomMsgs)] /\ r.dq \in [Clients -> Seq(Nat)] /\ r.cq \in [Clients -> Seq(Nat)]
    OBVIOUS
  <2> QED
    BY ONLY <2>1, <2>2, <1>5, RoomOK(r), SetRoomKeeps
<1>6. ASSUME NEW qq \in [Ctls -> Seq(RoomMsgs)], s = [r EXCEPT !.q = qq]
      PROVE  RoomOK(s) /\ RoomIs(s, r, r.clients, r.flush, r.paired, r.buf, qq, r.dq, r.cq)
  <2>1. s = SetRoom(r, r.clients, r.flush, r.paired, r.buf, r.bytes, qq, r.dq, r.cq)
    BY ONLY <1>3, <1>6
  <2>2. /\ r.flush \in SUBSET Clients /\ r.paired \in SUBSET r.clients /\ r.flush \subseteq r.paired
        /\ r.q \in [Ctls -> Seq(RoomMsgs)] /\ r.dq \in [Clients -> Seq(Nat)] /\ r.cq \in [Clients -> Seq(Nat)]
    OBVIOUS
  <2> QED
    BY ONLY <2>1, <2>2, <1>6, RoomOK(r), SetRoomKeeps
<1> QED
  BY <1>4, <1>5, <1>6

LEMMA JoinGives ==
  ASSUME RoomOK(room), NEW c \in Clients, BrowserConnects(c), c \notin room.clients, ~Loses(room, room')
  PROVE  LET k == room.control
             qq == [room.q EXCEPT ![k] = Append(room.q[k], [kind |-> "open", c |-> c])]
         IN  /\ RoomOK(room') /\ k \in Ctls
             /\ RoomIs(room', room, room.clients \cup {c}, room.flush, room.paired, room.buf, qq, room.dq, room.cq)
             /\ browser' = [browser EXCEPT ![c] = "on"] /\ csock' = [csock EXCEPT ![c] = "run"]
<1> DEFINE k == room.control
           m == [kind |-> "open", c |-> c]
           qq == [room.q EXCEPT ![k] = Append(room.q[k], m)]
           cl == room.clients \cup {c}
<1>1. /\ k \in Ctls /\ room.live
      /\ room' = [room EXCEPT !.clients = cl, !.q = qq]
      /\ browser' = [browser EXCEPT ![c] = "on"] /\ csock' = [csock EXCEPT ![c] = "run"]
  BY ConnectsOrRefused, RoomFacts
<1>2. /\ cl \in SUBSET Clients /\ room \in RoomRec /\ room.q \in [Ctls -> Seq(RoomMsgs)] /\ m \in RoomMsgs
  BY RoomFacts DEF RoomMsgs
<1> HIDE DEF m
<1>3. qq \in [Ctls -> Seq(RoomMsgs)]
  BY <1>1, <1>2
<1>z. k # 0
  BY <1>1 DEF Ctls
<1> HIDE DEF k, qq, cl
<1>4. room' = SetRoom(room, cl, room.flush, room.paired, room.buf, room.bytes, qq, room.dq, room.cq)
  BY <1>1, RoomFacts DEF SetRoom, RoomRec
<1>5. /\ room.flush \in SUBSET Clients /\ room.paired \in SUBSET Clients /\ room.buf \in [Clients -> Seq(Nat)]
      /\ room.bytes \in Int /\ room.dq \in [Clients -> Seq(Nat)] /\ room.cq \in [Clients -> Seq(Nat)]
  BY RoomFacts
<1>6. /\ room' \in RoomRec /\ room'.live = room.live /\ room'.control = room.control /\ room'.clients = cl
      /\ room'.flush = room.flush /\ room'.paired = room.paired
      /\ room'.data = room.paired /\ room'.buf = room.buf /\ room'.bytes = room.bytes /\ room'.q = qq /\ room'.dq = room.dq
      /\ room'.cq = room.cq
  <2>1. room' \in RoomRec
    BY ONLY <1>2, <1>3, <1>4, <1>5 DEF SetRoom, RoomRec
  <2> QED
    BY ONLY <2>1, <1>2, <1>3, <1>4, <1>5 DEF SetRoom, RoomRec
<1>7. room.buf[c] = <<>>
  BY RoomFacts DEF Neat
<1>8. Counted(room')
  BY <1>6, <1>7, RoomFacts, CountedJoin DEF cl
<1>9. Neat(room')
  BY <1>6, <1>z, RoomFacts DEF Neat, cl, k
<1> QED
  BY <1>1, <1>6, <1>8, <1>9 DEF RoomOK, RoomIs, cl, qq, m, k

LEMMA BufferGives ==
  ASSUME RoomOK(room), NEW c \in Clients, ClientBuffers(c), ~(Loses(room, room') /\ c \notin room'.clients /\ late' = late),
         hold[c].frame \in Nat
  PROVE  /\ RoomOK(room') /\ c \in room.clients
         /\ RoomIs(room', room, room.clients, room.flush, room.paired,
                   [room.buf EXCEPT ![c] = Append(room.buf[c], hold[c].frame)], room.q, room.dq, room.cq)
         /\ late' = IF c \in room.paired \ room.flush THEN late \cup {c} ELSE late
<1> DEFINE bu == [room.buf EXCEPT ![c] = Append(room.buf[c], hold[c].frame)]
           by == room.bytes + 1
<1>1. /\ c \in room.clients /\ room' = [room EXCEPT !.buf = bu, !.bytes = by]
      /\ late' = IF c \in room.paired \ room.flush THEN late \cup {c} ELSE late
  BY BuffersOrDrops, RoomFacts
<1>2. bu \in [Clients -> Seq(Nat)] /\ by \in Int
  <2>1. room.buf \in [Clients -> Seq(Nat)] /\ room.bytes \in Int
    BY RoomFacts
  <2>2. Append(room.buf[c], hold[c].frame) \in Seq(Nat)
    BY <2>1
  <2> QED
    BY ONLY <2>1, <2>2
<1>3. \A d \in Clients : d # c => bu[d] = room.buf[d]
  BY RoomFacts
<1>4. bu = [room.buf EXCEPT ![c] = Append(@, hold[c].frame)] /\ by = room.bytes + 1
  OBVIOUS
<1> HIDE DEF bu, by
<1>5. room' = SetRoom(room, room.clients, room.flush, room.paired, bu, by, room.q, room.dq, room.cq)
  BY <1>1, RoomFacts DEF SetRoom, RoomRec
<1>6. /\ room.flush \in SUBSET Clients /\ room.paired \in SUBSET Clients /\ room.clients \in SUBSET Clients
      /\ room.q \in [Ctls -> Seq(RoomMsgs)] /\ room.dq \in [Clients -> Seq(Nat)] /\ room.cq \in [Clients -> Seq(Nat)]
      /\ room \in RoomRec /\ Counted(room)
  BY RoomFacts
<1>7. /\ room' \in RoomRec /\ room'.live = room.live /\ room'.control = room.control /\ room'.clients = room.clients
      /\ room'.flush = room.flush /\ room'.paired = room.paired
      /\ room'.data = room.paired /\ room'.buf = bu /\ room'.bytes = by /\ room'.q = room.q /\ room'.dq = room.dq
      /\ room'.cq = room.cq
  <2>1. room' \in RoomRec
    BY ONLY <1>2, <1>5, <1>6 DEF SetRoom, RoomRec
  <2> QED
    BY ONLY <2>1, <1>2, <1>5, <1>6 DEF SetRoom, RoomRec
<1>8. Counted(room')
  <2>1. /\ room'.clients = room.clients /\ room'.buf = [room.buf EXCEPT ![c] = Append(@, hold[c].frame)]
        /\ room'.bytes = room.bytes + 1 /\ c \in room.clients /\ room' \in RoomRec
    BY <1>1, <1>4, <1>7
  <2> QED
    BY ONLY <2>1, <1>6, hold[c].frame \in Nat, CountedAppend
<1>9. Neat(room')
  BY <1>1, <1>3, <1>7, RoomFacts DEF Neat
<1> QED
  BY <1>1, <1>7, <1>8, <1>9 DEF RoomOK, RoomIs, bu

LEMMA PairGives ==
  ASSUME RoomOK(room), NEW c \in Clients, RegistersData(c), DataAdmitted(c)
  PROVE  LET fl == IF room.buf[c] = <<>> THEN room.flush \ {c} ELSE room.flush \cup {c}
         IN  /\ RoomOK(room') /\ c \in room.clients \ room.paired
             /\ RoomIs(room', room, room.clients, fl, room.paired \cup {c}, room.buf, room.q, room.dq, room.cq)
<1> DEFINE fl == IF room.buf[c] = <<>> THEN room.flush \ {c} ELSE room.flush \cup {c}
           pa == room.paired \cup {c}
<1>1. c \in room.clients \ room.paired /\ room' = [room EXCEPT !.paired = pa, !.data = pa, !.flush = fl]
  BY RoomFacts DEF RegistersData, DataAdmitted, RoomRec
<1>2. fl \in SUBSET Clients /\ fl \subseteq pa /\ pa \in SUBSET room.clients
  BY <1>1, RoomFacts
<1> HIDE DEF fl, pa
<1>3. room' = SetRoom(room, room.clients, fl, pa, room.buf, room.bytes, room.q, room.dq, room.cq)
  BY <1>1, RoomFacts DEF SetRoom, RoomRec
<1>4. room.q \in [Ctls -> Seq(RoomMsgs)] /\ room.dq \in [Clients -> Seq(Nat)] /\ room.cq \in [Clients -> Seq(Nat)]
  BY RoomFacts
<1>5. RoomOK(room') /\ RoomIs(room', room, room.clients, fl, pa, room.buf, room.q, room.dq, room.cq)
  BY ONLY <1>2, <1>3, <1>4, RoomOK(room), SetRoomKeeps
<1> QED
  BY <1>1, <1>5 DEF fl, pa

LEMMA FlushGives ==
  ASSUME RoomOK(room), NEW c \in Clients, FlushTakes(c)
  PROVE  \/ /\ RoomOK(room') /\ c \in room.data /\ room.buf[c] # <<>>
            /\ RoomIs(room', room, room.clients, room.flush, room.paired, [room.buf EXCEPT ![c] = <<>>], room.q,
                      room.dq, room.cq)
            /\ flushing' = [flushing EXCEPT ![c] = room.buf[c]] /\ dsock' = dsock
         \/ /\ RoomOK(room') /\ (c \notin room.data \/ room.buf[c] = <<>>)
            /\ RoomIs(room', room, room.clients, room.flush \ {c}, room.paired, room.buf, room.q, room.dq, room.cq)
            /\ flushing' = flushing /\ dsock' = [dsock EXCEPT ![c] = "run"]
<1>0. (c \in room.data => room.live /\ c \in room.data \cap room.paired /\ c \in room.clients)
  BY RoomFacts DEF Neat
<1>1. CASE c \in room.data /\ room.buf[c] # <<>>
  <2> DEFINE bu == [room.buf EXCEPT ![c] = <<>>]
             by == room.bytes - Len(room.buf[c])
  <2>1. room' = [room EXCEPT !.buf = bu, !.bytes = by] /\ flushing' = [flushing EXCEPT ![c] = room.buf[c]] /\ dsock' = dsock
    BY <1>0, <1>1, RoomFacts DEF FlushTakes, RoomRec
  <2>2. bu \in [Clients -> Seq(Nat)] /\ by \in Int
    <3>1. room.buf \in [Clients -> Seq(Nat)] /\ room.bytes \in Int
      BY RoomFacts
    <3>2. <<>> \in Seq(Nat) /\ Len(room.buf[c]) \in Nat
      BY <3>1
    <3> QED
      BY ONLY <3>1, <3>2
  <2>3. bu[c] = <<>> /\ \A d \in Clients : d # c => bu[d] = room.buf[d]
    BY RoomFacts
  <2>4. by = room.bytes - Len(room.buf[c])
    OBVIOUS
  <2> HIDE DEF bu, by
  <2>5. room' = SetRoom(room, room.clients, room.flush, room.paired, bu, by, room.q, room.dq, room.cq)
    BY <2>1, RoomFacts DEF SetRoom, RoomRec
  <2>6. /\ room.flush \in SUBSET Clients /\ room.paired \in SUBSET Clients /\ room.clients \in SUBSET Clients
        /\ room.q \in [Ctls -> Seq(RoomMsgs)] /\ room.dq \in [Clients -> Seq(Nat)] /\ room.cq \in [Clients -> Seq(Nat)]
        /\ room \in RoomRec /\ Counted(room)
    BY RoomFacts
  <2>7. /\ room' \in RoomRec /\ room'.live = room.live /\ room'.control = room.control /\ room'.clients = room.clients
        /\ room'.flush = room.flush /\ room'.paired = room.paired
        /\ room'.data = room.paired /\ room'.buf = bu /\ room'.bytes = by /\ room'.q = room.q /\ room'.dq = room.dq
        /\ room'.cq = room.cq
    <3>1. room' \in RoomRec
      BY ONLY <2>2, <2>5, <2>6 DEF SetRoom, RoomRec
    <3> QED
      BY ONLY <3>1, <2>2, <2>5, <2>6 DEF SetRoom, RoomRec
  <2>8. Counted(room')
    <3>1. /\ room'.clients \in {room.clients, room.clients \ {c}} /\ \A d \in room'.clients : d # c => room'.buf[d] = room.buf[d]
          /\ (c \in room'.clients => room'.buf[c] = <<>>) /\ (c \notin room.clients => room.buf[c] = <<>>)
          /\ room'.bytes = room.bytes - Len(room.buf[c]) /\ room' \in RoomRec
      BY <1>0, <1>1, <2>3, <2>4, <2>6, <2>7
    <3> QED
      BY ONLY <3>1, <2>6, c \in Clients, CountedDrop
  <2>9. Neat(room')
    BY <2>3, <2>7, RoomFacts DEF Neat
  <2> QED
    BY <1>1, <2>1, <2>7, <2>8, <2>9 DEF RoomOK, RoomIs, bu
<1>2. CASE ~(c \in room.data /\ room.buf[c] # <<>>)
  <2> DEFINE fl == room.flush \ {c}
  <2>1. flushing' = flushing /\ dsock' = [dsock EXCEPT ![c] = "run"]
        /\ room' = IF room.live /\ c \in room.data \cap room.paired THEN [room EXCEPT !.flush = @ \ {c}] ELSE room
    BY <1>2 DEF FlushTakes
  <2>2. fl \in SUBSET Clients /\ fl \subseteq room.paired /\ (c \notin room.data => fl = room.flush)
    BY RoomFacts DEF Neat
  <2>3. room' = SetRoom(room, room.clients, fl, room.paired, room.buf, room.bytes, room.q, room.dq, room.cq)
    <3>1. CASE c \in room.data
      BY <3>1, <2>1, <1>0, RoomFacts DEF SetRoom, RoomRec
    <3>2. CASE c \notin room.data
      <4>1. room' = room /\ fl = room.flush
        BY <3>2, <2>1, <2>2
      <4> HIDE DEF fl
      <4> QED
        BY ZenonT(40), <4>1, RoomFacts DEF SetRoom, RoomRec
    <3> QED
      BY <3>1, <3>2
  <2> HIDE DEF fl
  <2>4. /\ room.q \in [Ctls -> Seq(RoomMsgs)] /\ room.dq \in [Clients -> Seq(Nat)] /\ room.cq \in [Clients -> Seq(Nat)]
        /\ room.paired \in SUBSET room.clients
    BY RoomFacts
  <2>5. RoomOK(room') /\ RoomIs(room', room, room.clients, fl, room.paired, room.buf, room.q, room.dq, room.cq)
    BY ONLY <2>2, <2>3, <2>4, RoomOK(room), SetRoomKeeps
  <2> QED
    BY <1>2, <2>1, <2>5 DEF fl
<1> QED
  BY <1>1, <1>2

(* Every step keeps the room in order. *)
LEMMA RoomStep ==
  ASSUME RoomOK(room), SideType, LifeInv, RelayNext
  PROVE  RoomOK(room')
<1>1. ASSUME NEW c \in Clients, BrowserConnects(c)
      PROVE  RoomOK(room')
  <2>1. c \notin room.clients
    BY <1>1 DEF LifeInv, BrowserConnects
  <2>2. CASE Loses(room, room')
    BY <2>2, RoomFacts, LosesGives DEF RoomOK
  <2>3. CASE ~Loses(room, room')
    BY <2>1, <2>3, <1>1, JoinGives
  <2> QED
    BY <2>2, <2>3
<1>2. ASSUME NEW c \in Clients, BrowserLeaves(c)
      PROVE  RoomOK(room')
  BY <1>2 DEF BrowserLeaves
<1>3. ASSUME NEW c \in Clients, BrowserReads(c)
      PROVE  RoomOK(room')
  <2> DEFINE cc == [room.cq EXCEPT ![c] = Tail(room.cq[c])]
  <2>1. room' = [room EXCEPT !.cq = cc] /\ room.cq \in [Clients -> Seq(Nat)] /\ room.cq[c] # <<>>
    BY <1>3, RoomFacts DEF BrowserReads, RoomRec
  <2>2. Tail(room.cq[c]) \in Seq(Nat)
    BY <2>1
  <2>3. cc \in [Clients -> Seq(Nat)]
    BY <2>1, <2>2
  <2> HIDE DEF cc
  <2> QED
    BY ONLY <2>1, <2>3, RoomOK(room), QueueSet
<1>4. ASSUME NEW c \in Clients, PairDeadline(c)
      PROVE  RoomOK(room')
  BY <1>4, RoomFacts, DeadlineDrops, LosesGives DEF RoomOK
<1>5. ASSUME NEW c \in Clients, ClientReads(c)
      PROVE  RoomOK(room')
  BY <1>5 DEF ClientReads
<1>6. ASSUME NEW c \in Clients, ClientBuffers(c)
      PROVE  RoomOK(room')
  <2>0. hold[c].frame \in Nat
    BY DEF SideType
  <2>2. CASE Loses(room, room')
    BY <2>2, RoomFacts, LosesGives DEF RoomOK
  <2>3. CASE ~Loses(room, room')
    BY <2>0, <2>3, <1>6, BufferGives
  <2> QED
    BY <2>2, <2>3
<1>7. ASSUME NEW c \in Clients, ClientSends(c)
      PROVE  RoomOK(room')
  <2>0. hold[c].frame \in Nat
    BY DEF SideType
  <2>2. CASE Loses(room, room')
    BY <2>2, RoomFacts, LosesGives DEF RoomOK
  <2>3. CASE ~Loses(room, room')
    <3> DEFINE dd == [room.dq EXCEPT ![c] = Append(room.dq[c], hold[c].frame)]
    <3>1. room' = [room EXCEPT !.dq = dd]
      BY <2>3, <1>7, SendsOrDrops, RoomFacts
    <3>2. room.dq \in [Clients -> Seq(Nat)]
      BY RoomFacts
    <3>3. Append(room.dq[c], hold[c].frame) \in Seq(Nat)
      BY <2>0, <3>2
    <3>4. dd \in [Clients -> Seq(Nat)]
      BY <3>2, <3>3
    <3> HIDE DEF dd
    <3> QED
      BY ONLY <3>1, <3>4, RoomOK(room), QueueSet
  <2> QED
    BY <2>2, <2>3
<1>8. ASSUME NEW c \in Clients, ClientEnds(c)
      PROVE  RoomOK(room')
  BY <1>8, RoomFacts, ClientEndsDrops, LosesGives DEF RoomOK
<1>9. ASSUME NEW c \in Clients, DataHello(c)
      PROVE  RoomOK(room')
  BY <1>9 DEF DataHello
<1>10. ASSUME NEW c \in Clients, RegistersData(c)
      PROVE  RoomOK(room')
  <2>1. CASE DataAdmitted(c)
    BY <1>10, <2>1, PairGives
  <2>2. CASE ~DataAdmitted(c)
    BY <1>10, <2>2 DEF RegistersData
  <2> QED
    BY <2>1, <2>2
<1>11. ASSUME NEW c \in Clients, DataReady(c)
      PROVE  RoomOK(room')
  BY <1>11 DEF DataReady
<1>12. ASSUME NEW c \in Clients, DataTimesOut(c)
      PROVE  RoomOK(room')
  BY <1>12 DEF DataTimesOut
<1>13. ASSUME NEW c \in Clients, FlushTakes(c)
      PROVE  RoomOK(room')
  BY <1>13, FlushGives
<1>14. ASSUME NEW c \in Clients, FlushSends(c)
      PROVE  RoomOK(room')
  <2>0. Head(flushing[c]) \in Nat
    BY <1>14 DEF FlushSends, SideType
  <2>2. CASE Loses(room, room')
    BY <2>2, RoomFacts, LosesGives DEF RoomOK
  <2>3. CASE ~Loses(room, room')
    <3> DEFINE dd == [room.dq EXCEPT ![c] = Append(room.dq[c], Head(flushing[c]))]
    <3>1. room' = [room EXCEPT !.dq = dd]
      BY <2>3, <1>14, FlushOrDrops, RoomFacts
    <3>2. room.dq \in [Clients -> Seq(Nat)]
      BY RoomFacts
    <3>3. Append(room.dq[c], Head(flushing[c])) \in Seq(Nat)
      BY <2>0, <3>2
    <3>4. dd \in [Clients -> Seq(Nat)]
      BY <3>2, <3>3
    <3> HIDE DEF dd
    <3> QED
      BY ONLY <3>1, <3>4, RoomOK(room), QueueSet
  <2> QED
    BY <2>2, <2>3
<1>15. ASSUME NEW c \in Clients, DataWriterFails(c)
      PROVE  RoomOK(room')
  BY <1>15, RoomFacts, WriterFailsDrops, LosesGives DEF RoomOK
<1>16. ASSUME NEW c \in Clients, DataSocketEnds(c)
      PROVE  RoomOK(room')
  BY <1>16 DEF DataSocketEnds
<1>17. ASSUME NEW c \in Clients, DataUnregisters(c)
      PROVE  RoomOK(room')
  BY <1>17, RoomFacts, UnregisterDrops, LosesGives DEF RoomOK
<1>18. ASSUME NEW c \in Clients, DataTaskSeesEnd(c)
      PROVE  RoomOK(room')
  BY <1>18 DEF DataTaskSeesEnd
<1>19. ASSUME NEW c \in Clients, ForwardTakes(c)
      PROVE  RoomOK(room')
  BY <1>19 DEF ForwardTakes
<1>20. ASSUME NEW c \in Clients, ForwardSends(c)
      PROVE  RoomOK(room')
  <2>0. fwd[c] \in Nat
    BY DEF SideType
  <2>2. CASE Loses(room, room')
    BY <2>2, RoomFacts, LosesGives DEF RoomOK
  <2>3. CASE ~Loses(room, room')
    <3> DEFINE cc == [room.cq EXCEPT ![c] = Append(room.cq[c], fwd[c])]
    <3>1. room' = [room EXCEPT !.cq = cc]
      BY <2>3, <1>20, ForwardOrDrops, RoomFacts
    <3>2. room.cq \in [Clients -> Seq(Nat)]
      BY RoomFacts
    <3>3. Append(room.cq[c], fwd[c]) \in Seq(Nat)
      BY <2>0, <3>2
    <3>4. cc \in [Clients -> Seq(Nat)]
      BY <3>2, <3>3
    <3> HIDE DEF cc
    <3> QED
      BY ONLY <3>1, <3>4, RoomOK(room), QueueSet
  <2> QED
    BY <2>2, <2>3
<1>21. ASSUME NEW c \in Clients, DaemonReads(c)
      PROVE  RoomOK(room')
  <2> DEFINE dd == [room.dq EXCEPT ![c] = Tail(room.dq[c])]
  <2>1. room' = [room EXCEPT !.dq = dd] /\ room.dq \in [Clients -> Seq(Nat)] /\ room.dq[c] # <<>>
    BY <1>21, RoomFacts DEF DaemonReads, RoomRec
  <2>2. Tail(room.dq[c]) \in Seq(Nat)
    BY <2>1
  <2>3. dd \in [Clients -> Seq(Nat)]
    BY <2>1, <2>2
  <2> HIDE DEF dd
  <2> QED
    BY ONLY <2>1, <2>3, RoomOK(room), QueueSet
<1>22. ASSUME NEW c \in Clients, DataReads(c)
      PROVE  RoomOK(room')
  BY <1>22 DEF DataReads
<1>23. ASSUME NEW c \in Clients, DataTaskEnds(c)
      PROVE  RoomOK(room')
  BY <1>23 DEF DataTaskEnds
<1>24. ASSUME NEW k \in Ctls, LinkCut(k)
      PROVE  RoomOK(room')
  BY <1>24 DEF LinkCut
<1>25. ASSUME NEW k \in Ctls, RegistersControl(k)
      PROVE  RoomOK(room')
  BY <1>25, RoomFacts, RegistersControlDrops DEF RoomOK
<1>26. ASSUME NEW k \in Ctls, ControlWriterFails(k)
      PROVE  RoomOK(room')
  BY <1>26, RoomFacts, WriterFailsDrops, LosesGives DEF RoomOK
<1>27. ASSUME NEW k \in Ctls, ControlEnds(k)
      PROVE  RoomOK(room')
  BY <1>27, RoomFacts, ControlEndsDrops, LosesGives DEF RoomOK
<1>28. ASSUME DaemonDials
      PROVE  RoomOK(room')
  BY <1>28 DEF DaemonDials
<1>29. ASSUME DaemonLosesControl
      PROVE  RoomOK(room')
  BY <1>29 DEF DaemonLosesControl
<1>30. ASSUME DaemonHandles
      PROVE  RoomOK(room')
  <2> DEFINE qq == [room.q EXCEPT ![dctl] = Tail(room.q[dctl])]
  <2>1. room' = [room EXCEPT !.q = qq] /\ room.q \in [Ctls -> Seq(RoomMsgs)] /\ room.q[dctl] # <<>> /\ dctl \in Ctls
    BY <1>30, RoomFacts DEF DaemonHandles, RoomRec, SideType
  <2>2. Tail(room.q[dctl]) \in Seq(RoomMsgs)
    BY <2>1
  <2>3. qq \in [Ctls -> Seq(RoomMsgs)]
    BY <2>1, <2>2
  <2> HIDE DEF qq
  <2> QED
    BY ONLY <2>1, <2>3, RoomOK(room), QueueSet
<1> QED
  BY <1>1, <1>2, <1>3, <1>4, <1>5, <1>6, <1>7, <1>8, <1>9, <1>10, <1>11, <1>12, <1>13, <1>14, <1>15, <1>16, <1>17, <1>18, <1>19, <1>20, <1>21, <1>22, <1>23, <1>24, <1>25, <1>26, <1>27, <1>28, <1>29, <1>30 DEF RelayNext, ClientStep, PipeStep, ForwardStep, ControlStep, DaemonStep

LEMMA SideStep ==
  ASSUME RoomOK(room), SideType, RelayNext
  PROVE  SideType'
<1>1. ASSUME NEW c \in Clients, BrowserConnects(c)
      PROVE  SideType'
  <2>1. browser' \in {[browser EXCEPT ![c] = "on"], [browser EXCEPT ![c] = "refused"]}
        /\ csock' \in {csock, [csock EXCEPT ![c] = "run"]}
    BY <1>1 DEF BrowserConnects
  <2>2. UNCHANGED <<rload, sent, seen, hold, rctl, rtask, rdata, late>>
    BY <1>1 DEF BrowserConnects
  <2> QED
    BY ZenonT(30), <2>1, <2>2 DEF SideType, rctl, rtask, rdata
<1>2. ASSUME NEW c \in Clients, BrowserLeaves(c)
      PROVE  SideType'
  BY <1>2 DEF BrowserLeaves, SideType, NoHold, rbrowser, rclient, rctl, rtask, rdata
<1>3. ASSUME NEW c \in Clients, BrowserReads(c)
      PROVE  SideType'
  <2>1. room.cq[c] \in Seq(Nat) /\ room.cq[c] # <<>> /\ seen[c] \in Seq(Nat)
    BY <1>3, RoomFacts DEF BrowserReads, SideType
  <2>2. Append(seen[c], Head(room.cq[c])) \in Seq(Nat)
    BY <2>1
  <2> QED
    BY <1>3, <2>2 DEF BrowserReads, SideType, rclient, rctl, rtask, rdata
<1>4. ASSUME NEW c \in Clients, PairDeadline(c)
      PROVE  SideType'
  BY <1>4 DEF PairDeadline, SideType, NoHold, rbrowser, rclient, rctl, rtask, rdata
<1>5. ASSUME NEW c \in Clients, ClientReads(c)
      PROVE  SideType'
  <2> DEFINE stage == IF ~room.live \/ c \notin room.clients THEN "none"
                      ELSE IF c \in room.flush \/ c \notin room.paired THEN "buffer"
                      ELSE IF c \notin room.data THEN "none"
                      ELSE "send"
             h == IF stage = "none" THEN NoHold ELSE [stage |-> stage, frame |-> sent[c] + 1]
  <2>1. stage \in {"none", "buffer", "send"}
    OBVIOUS
  <2>2. hold' = [hold EXCEPT ![c] = h] /\ sent' = [sent EXCEPT ![c] = @ + 1]
        /\ UNCHANGED <<room, rload, browser, seen, csock, rctl, rtask, rdata, late>>
    BY <1>5 DEF ClientReads
  <2> HIDE DEF stage
  <2>3. h \in [stage : {"none", "buffer", "send"}, frame : Nat]
    BY <2>1 DEF NoHold, SideType
  <2> HIDE DEF h
  <2>4. hold' \in [Clients -> [stage : {"none", "buffer", "send"}, frame : Nat]] /\ sent' \in [Clients -> Nat]
    BY <2>2, <2>3 DEF SideType
  <2> QED
    BY <2>2, <2>4 DEF SideType, rctl, rtask, rdata
<1>6. ASSUME NEW c \in Clients, ClientBuffers(c)
      PROVE  SideType'
  <2>1. hold' = [hold EXCEPT ![c] = NoHold] /\ UNCHANGED <<rload, rbrowser, csock, rctl, rtask, rdata>>
        /\ late' \subseteq late \cup {c}
    BY <1>6 DEF ClientBuffers
  <2>2. NoHold \in [stage : {"none", "buffer", "send"}, frame : Nat]
    BY DEF NoHold
  <2>3. hold' \in [Clients -> [stage : {"none", "buffer", "send"}, frame : Nat]]
    BY <2>1, <2>2 DEF SideType
  <2> QED
    BY <2>1, <2>3 DEF SideType, rbrowser, rctl, rtask, rdata
<1>7. ASSUME NEW c \in Clients, ClientSends(c)
      PROVE  SideType'
  <2>1. hold' = [hold EXCEPT ![c] = NoHold] /\ UNCHANGED <<rload, rbrowser, csock, rctl, rtask, rdata>>
        /\ late' \subseteq late \cup {c}
    BY <1>7 DEF ClientSends
  <2>2. NoHold \in [stage : {"none", "buffer", "send"}, frame : Nat]
    BY DEF NoHold
  <2>3. hold' \in [Clients -> [stage : {"none", "buffer", "send"}, frame : Nat]]
    BY <2>1, <2>2 DEF SideType
  <2> QED
    BY <2>1, <2>3 DEF SideType, rbrowser, rctl, rtask, rdata
<1>8. ASSUME NEW c \in Clients, ClientEnds(c)
      PROVE  SideType'
  BY <1>8 DEF ClientEnds, SideType, NoHold, rbrowser, rclient, rctl, rtask, rdata
<1>9. ASSUME NEW c \in Clients, DataHello(c)
      PROVE  SideType'
  BY ZenonT(30), <1>9 DEF DataHello, SideType, NoHold, rbrowser, rclient, rctl, rtask, rdata
<1>10. ASSUME NEW c \in Clients, RegistersData(c)
      PROVE  SideType'
  <2>1. /\ dnet' = [dnet EXCEPT ![c] = "read"] /\ task' \in {task, [task EXCEPT ![c] = "end"]}
        /\ dsock' \in {[dsock EXCEPT ![c] = "bind"], [dsock EXCEPT ![c] = "done"]}
        /\ UNCHANGED <<rload, rbrowser, rclient, rctl, tgen, flushing, ingress, fwd, out, got, late>>
    BY <1>10 DEF RegistersData
  <2> QED
    BY ZenonT(30), <2>1 DEF SideType, rbrowser, rclient, rctl
<1>11. ASSUME NEW c \in Clients, DataReady(c)
      PROVE  SideType'
  <2>1. /\ task' \in {task, [task EXCEPT ![c] = "open"]}
        /\ dsock' \in {[dsock EXCEPT ![c] = "flush"], [dsock EXCEPT ![c] = "drain"]}
        /\ UNCHANGED <<room, rload, rbrowser, rclient, rctl, tgen, dnet, flushing, ingress, fwd, out, got, late>>
    BY <1>11 DEF DataReady
  <2> QED
    BY ZenonT(30), <2>1 DEF SideType, rbrowser, rclient, rctl
<1>12. ASSUME NEW c \in Clients, DataTimesOut(c)
      PROVE  SideType'
  BY <1>12 DEF DataTimesOut, SideType, NoHold, rbrowser, rclient, rctl, rtask, rdata
<1>13. ASSUME NEW c \in Clients, FlushTakes(c)
      PROVE  SideType'
  <2>1. /\ flushing' \in {flushing, [flushing EXCEPT ![c] = room.buf[c]]} /\ dsock' \in {dsock, [dsock EXCEPT ![c] = "run"]}
        /\ UNCHANGED <<rload, rbrowser, rclient, rctl, rtask, ingress, fwd, out, got, late>>
    BY <1>13 DEF FlushTakes
  <2>2. room.buf[c] \in Seq(Nat)
    BY RoomFacts
  <2> QED
    BY ZenonT(30), <2>1, <2>2 DEF SideType, rbrowser, rclient, rctl, rtask
<1>14. ASSUME NEW c \in Clients, FlushSends(c)
      PROVE  SideType'
  <2>1. /\ flushing' \in {[flushing EXCEPT ![c] = <<>>], [flushing EXCEPT ![c] = Tail(flushing[c])]}
        /\ UNCHANGED <<rload, rbrowser, rclient, rctl, rtask, dsock, ingress, fwd, out, got, late>>
    BY <1>14 DEF FlushSends
  <2>2. <<>> \in Seq(Nat) /\ Tail(flushing[c]) \in Seq(Nat)
    <3>1. flushing[c] \in Seq(Nat) /\ flushing[c] # <<>>
      BY <1>14 DEF FlushSends, SideType
    <3> QED
      BY <3>1
  <2>3. flushing' \in [Clients -> Seq(Nat)]
    <3>1. flushing \in [Clients -> Seq(Nat)]
      BY DEF SideType
    <3>2. CASE flushing' = [flushing EXCEPT ![c] = <<>>]
      BY ONLY <3>1, <3>2, <2>2
    <3>3. CASE flushing' = [flushing EXCEPT ![c] = Tail(flushing[c])]
      BY ONLY <3>1, <3>3, <2>2
    <3> QED
      BY <3>2, <3>3, <2>1
  <2> QED
    BY <2>1, <2>3 DEF SideType, rbrowser, rclient, rctl, rtask
<1>15. ASSUME NEW c \in Clients, DataWriterFails(c)
      PROVE  SideType'
  BY <1>15 DEF DataWriterFails, SideType, NoHold, rbrowser, rclient, rctl, rtask, rdata
<1>16. ASSUME NEW c \in Clients, DataSocketEnds(c)
      PROVE  SideType'
  BY <1>16 DEF DataSocketEnds, SideType, NoHold, rbrowser, rclient, rctl, rtask, rdata
<1>17. ASSUME NEW c \in Clients, DataUnregisters(c)
      PROVE  SideType'
  <2>1. /\ dsock' = [dsock EXCEPT ![c] = "done"] /\ ingress' = [ingress EXCEPT ![c] = <<>>] /\ fwd' = [fwd EXCEPT ![c] = 0]
        /\ UNCHANGED <<rload, rbrowser, rclient, rctl, rtask, flushing, out, got, late>>
    BY <1>17 DEF DataUnregisters
  <2>2. <<>> \in Seq(Nat)
    OBVIOUS
  <2> QED
    BY <2>1, <2>2 DEF SideType, rbrowser, rclient, rctl, rtask
<1>18. ASSUME NEW c \in Clients, DataTaskSeesEnd(c)
      PROVE  SideType'
  BY <1>18 DEF DataTaskSeesEnd, SideType, NoHold, rbrowser, rclient, rctl, rtask, rdata
<1>19. ASSUME NEW c \in Clients, ForwardTakes(c)
      PROVE  SideType'
  <2>1. ingress[c] \in Seq(Nat) /\ ingress[c] # <<>>
    BY <1>19 DEF ForwardTakes, SideType
  <2>2. Tail(ingress[c]) \in Seq(Nat) /\ Head(ingress[c]) \in Nat
    BY <2>1
  <2>3. /\ ingress' = [ingress EXCEPT ![c] = Tail(ingress[c])] /\ fwd' \in {[fwd EXCEPT ![c] = 0], [fwd EXCEPT ![c] = Head(ingress[c])]}
        /\ UNCHANGED <<rload, rbrowser, rclient, rctl, rtask, dsock, flushing, out, got, late>>
    BY <1>19 DEF ForwardTakes
  <2>4. ingress' \in [Clients -> Seq(Nat)] /\ fwd' \in [Clients -> Nat]
    <3>1. ingress \in [Clients -> Seq(Nat)] /\ fwd \in [Clients -> Nat]
      BY DEF SideType
    <3>2. ingress' \in [Clients -> Seq(Nat)]
      BY ONLY <3>1, <2>2, <2>3
    <3> DEFINE hd == Head(ingress[c])
    <3>a. hd \in Nat /\ 0 \in Nat /\ fwd \in [Clients -> Nat] /\ (fwd' = [fwd EXCEPT ![c] = 0] \/ fwd' = [fwd EXCEPT ![c] = hd])
      BY <3>1, <2>2, <2>3
    <3> HIDE DEF hd
    <3>3. fwd' \in [Clients -> Nat]
      BY ONLY <3>a
    <3> QED
      BY <3>2, <3>3
  <2> QED
    BY <2>3, <2>4 DEF SideType, rbrowser, rclient, rctl, rtask
<1>20. ASSUME NEW c \in Clients, ForwardSends(c)
      PROVE  SideType'
  <2>1. fwd' = [fwd EXCEPT ![c] = 0]
        /\ UNCHANGED <<rload, rbrowser, rclient, rctl, rtask, dsock, flushing, ingress, out, got, late>>
    BY <1>20 DEF ForwardSends
  <2> QED
    BY <2>1 DEF SideType, rbrowser, rclient, rctl, rtask
<1>21. ASSUME NEW c \in Clients, DaemonReads(c)
      PROVE  SideType'
  <2>1. room.dq[c] \in Seq(Nat) /\ room.dq[c] # <<>> /\ got[c] \in Seq(Nat)
    BY ZenonT(30), <1>21, RoomFacts DEF DaemonReads, SideType
  <2>2. Append(got[c], Head(room.dq[c])) \in Seq(Nat)
    BY <2>1
  <2> QED
    BY <1>21, <2>2 DEF DaemonReads, SideType, rclient, rctl, rtask, rdata, rbrowser
<1>22. ASSUME NEW c \in Clients, DataReads(c)
      PROVE  SideType'
  <2>0. ingress[c] \in Seq(Nat) /\ out[c] \in Nat
    BY DEF SideType
  <2>1. Append(ingress[c], out[c] + 1) \in Seq(Nat) /\ out[c] + 1 \in Nat
    BY <2>0
  <2>2. /\ ingress' \in {ingress, [ingress EXCEPT ![c] = Append(ingress[c], out[c] + 1)]}
        /\ out' = [out EXCEPT ![c] = out[c] + 1] /\ dsock' \in {dsock, [dsock EXCEPT ![c] = "drain"]}
        /\ UNCHANGED <<rload, rbrowser, rclient, rctl, rtask, flushing, fwd, got, late>>
    BY <1>22 DEF DataReads
  <2>3. ingress' \in [Clients -> Seq(Nat)] /\ out' \in [Clients -> Nat]
    <3>1. ingress \in [Clients -> Seq(Nat)] /\ out \in [Clients -> Nat]
      BY DEF SideType
    <3>2. ingress' \in [Clients -> Seq(Nat)]
      BY ONLY <3>1, <2>1, <2>2
    <3>3. out' \in [Clients -> Nat]
      BY ONLY <3>1, <2>1, <2>2
    <3> QED
      BY <3>2, <3>3
  <2> QED
    BY ZenonT(30), <2>2, <2>3 DEF SideType, rbrowser, rclient, rctl, rtask
<1>23. ASSUME NEW c \in Clients, DataTaskEnds(c)
      PROVE  SideType'
  BY <1>23 DEF DataTaskEnds, SideType, NoHold, rbrowser, rclient, rctl, rtask, rdata
<1>24. ASSUME NEW k \in Ctls, LinkCut(k)
      PROVE  SideType'
  BY <1>24 DEF LinkCut, SideType, NoHold, rbrowser, rclient, rctl, rtask, rdata
<1>25. ASSUME NEW k \in Ctls, RegistersControl(k)
      PROVE  SideType'
  BY <1>25 DEF RegistersControl, SideType, NoHold, rbrowser, rclient, rctl, rtask, rdata
<1>26. ASSUME NEW k \in Ctls, ControlWriterFails(k)
      PROVE  SideType'
  BY <1>26 DEF ControlWriterFails, SideType, NoHold, rbrowser, rclient, rctl, rtask, rdata
<1>27. ASSUME NEW k \in Ctls, ControlEnds(k)
      PROVE  SideType'
  BY <1>27 DEF ControlEnds, SideType, NoHold, rbrowser, rclient, rctl, rtask, rdata
<1>28. ASSUME DaemonDials
      PROVE  SideType'
  <2>1. PICK k \in 1 .. rload.ctls : /\ dctl' = k /\ knet' = [knet EXCEPT ![k] = "hello"]
          /\ UNCHANGED <<room, rload, rbrowser, rclient, ksock, rtask, rdata, late>>
    BY <1>28 DEF DaemonDials
  <2>2. rload.ctls \in 0 .. MaxControl /\ MaxControl \in Nat
    BY RelayRoomAssumption DEF SideType
  <2>3. k \in Ctls
    BY <2>2 DEF Ctls
  <2> QED
    BY <2>1, <2>3 DEF SideType, rbrowser, rclient, rtask, rdata
<1>29. ASSUME DaemonLosesControl
      PROVE  SideType'
  BY <1>29 DEF DaemonLosesControl, SideType, NoHold, rbrowser, rclient, rctl, rtask, rdata
<1>30. ASSUME DaemonHandles
      PROVE  SideType'
  <2> DEFINE m == Head(room.q[dctl])
  <2>g. dctl # 0 /\ room.q[dctl] # <<>>
    BY ONLY <1>30 DEF DaemonHandles
  <2>d. dctl \in Ctls \cup {0}
    BY DEF SideType
  <2>q. room.q \in [Ctls -> Seq(RoomMsgs)]
    BY RoomFacts
  <2>1. room.q[dctl] \in Seq(RoomMsgs) /\ room.q[dctl] # <<>> /\ dctl \in Ctls
    BY ONLY <2>g, <2>d, <2>q
  <2>2. m \in RoomMsgs
    BY <2>1
  <2>3. m.c \in Clients
    BY <2>2 DEF RoomMsgs
  <2>4. /\ \E v \in {"dial", "end", task[m.c]} : task' = [task EXCEPT ![m.c] = v]
        /\ \E v \in {dctl, tgen[m.c]} : tgen' = [tgen EXCEPT ![m.c] = v]
        /\ UNCHANGED <<rload, rbrowser, rclient, rctl, dnet, rdata, late>>
    BY <1>30 DEF DaemonHandles
  <2> HIDE DEF m
  <2>5. task' \in [Clients -> {"none", "dial", "hello", "open", "end"}] /\ tgen' \in [Clients -> Ctls \cup {0}]
    <3> DEFINE T == {"none", "dial", "hello", "open", "end"}
               K == Ctls \cup {0}
    <3>1. task \in [Clients -> T] /\ tgen \in [Clients -> K]
      BY DEF SideType
    <3>2. {"dial", "end", task[m.c]} \subseteq T /\ {dctl, tgen[m.c]} \subseteq K
      BY <3>1, <2>1, <2>3
    <3> HIDE DEF T, K
    <3>3. task' \in [Clients -> T]
      BY ONLY <3>1, <3>2, <2>4
    <3>4. tgen' \in [Clients -> K]
      BY ONLY <3>1, <3>2, <2>4
    <3> QED
      BY <3>3, <3>4 DEF T, K
  <2> QED
    BY <2>4, <2>5 DEF SideType, rbrowser, rclient, rctl, rdata
<1> QED
  BY <1>1, <1>2, <1>3, <1>4, <1>5, <1>6, <1>7, <1>8, <1>9, <1>10, <1>11, <1>12, <1>13, <1>14, <1>15, <1>16, <1>17, <1>18, <1>19, <1>20, <1>21, <1>22, <1>23, <1>24, <1>25, <1>26, <1>27, <1>28, <1>29, <1>30 DEF RelayNext, ClientStep, PipeStep, ForwardStep, ControlStep, DaemonStep

(* OpenData messages: a queue that only gains a "gone" keeps them. *)
LEMMA OpensKept ==
  ASSUME OpensInv, RoomOK(room), RoomOK(room'), Told(room.q, room'.q),
         \A c \in Clients : browser[c] # "new" => browser'[c] # "new",
         \A c \in Clients : task[c] = "none" => task'[c] = "none"
  PROVE  OpensInv'
<1>1. room.q \in [Ctls -> Seq(RoomMsgs)]
  BY RoomFacts
<1>2. ASSUME NEW k \in Ctls, NEW i \in 1 .. Len(room'.q[k]), room'.q[k][i].kind = "open"
      PROVE  i \in 1 .. Len(room.q[k]) /\ room'.q[k][i] = room.q[k][i]
  <2>1. CASE room'.q = room.q
    BY <2>1, <1>2
  <2>2. CASE room'.q # room.q
    <3>1. PICK j \in Ctls, c \in Clients : room'.q = [room.q EXCEPT ![j] = Append(@, [kind |-> "gone", c |-> c])]
      BY <2>2 DEF Told
    <3> DEFINE m == [kind |-> "gone", c |-> c]
               n == Len(room.q[k])
    <3>2. m \in RoomMsgs /\ m.kind = "gone"
      BY DEF RoomMsgs
    <3>3. room'.q = [room.q EXCEPT ![j] = Append(room.q[j], m)]
      BY <3>1
    <3> HIDE DEF m
    <3>4. room.q[k] \in Seq(RoomMsgs) /\ n \in Nat
      BY <1>1
    <3>5. CASE k # j
      BY <3>3, <3>5, <1>1, <1>2
    <3>6. CASE k = j
      <4>1. room'.q[k] = Append(room.q[k], m)
        BY <3>3, <3>6, <1>1
      <4>2. /\ Len(Append(room.q[k], m)) = n + 1 /\ Append(room.q[k], m)[n + 1] = m
            /\ \A l \in 1 .. n : Append(room.q[k], m)[l] = room.q[k][l]
        BY <3>2, <3>4
      <4> HIDE DEF n
      <4>3. i \in 1 .. (n + 1) /\ (i \in 1 .. n \/ i = n + 1)
        BY <4>1, <4>2, <3>4, <1>2
      <4>4. i # n + 1
        BY <4>1, <4>2, <3>2, <1>2
      <4> QED
        BY <4>1, <4>2, <4>3, <4>4 DEF n
    <3> QED
      BY <3>5, <3>6
  <2> QED
    BY <2>1, <2>2
<1>3. \A k \in Ctls : \A i \in 1 .. Len(room.q[k]) : room.q[k][i] \in RoomMsgs
  BY <1>1
<1>4. \A k \in Ctls : \A i \in 1 .. Len(room.q[k]) : room.q[k][i].c \in Clients
  BY <1>3 DEF RoomMsgs
<1>5. ASSUME NEW k \in Ctls, NEW i \in 1 .. Len(room'.q[k]), room'.q[k][i].kind = "open"
      PROVE  browser'[room'.q[k][i].c] # "new" /\ task'[room'.q[k][i].c] = "none"
  <2>1. i \in 1 .. Len(room.q[k]) /\ room'.q[k][i] = room.q[k][i] /\ room.q[k][i].kind = "open"
    BY <1>2, <1>5
  <2>2. browser[room.q[k][i].c] # "new" /\ task[room.q[k][i].c] = "none" /\ room.q[k][i].c \in Clients
    BY <2>1, <1>4 DEF OpensInv
  <2> QED
    BY <2>1, <2>2
<1>6. ASSUME NEW k \in Ctls, NEW i \in 1 .. Len(room'.q[k]), NEW j \in Ctls, NEW n \in 1 .. Len(room'.q[j]),
             room'.q[k][i].kind = "open", room'.q[j][n].kind = "open", room'.q[j][n].c = room'.q[k][i].c
      PROVE  j = k /\ n = i
  <2>1. i \in 1 .. Len(room.q[k]) /\ room'.q[k][i] = room.q[k][i] /\ n \in 1 .. Len(room.q[j]) /\ room'.q[j][n] = room.q[j][n]
    BY <1>2, <1>6
  <2>2. room.q[k][i].kind = "open" /\ room.q[j][n].kind = "open" /\ room.q[j][n].c = room.q[k][i].c
    BY <2>1, <1>6
  <2> QED
    BY <2>1, <2>2 DEF OpensInv
<1> QED
  BY <1>5, <1>6 DEF OpensInv

LEMMA OpensStep ==
  ASSUME OpensInv, RoomOK(room), RoomOK(room'), SideType, LifeInv, RelayNext
  PROVE  OpensInv'
<1>1. ASSUME NEW c \in Clients, BrowserConnects(c)
      PROVE  OpensInv'
  <2>0. c \notin room.clients /\ browser[c] = "new" /\ task[c] = "none" /\ task' = task /\ browser \in [Clients -> {"new", "on", "off", "refused"}]
    BY <1>1 DEF BrowserConnects, LifeInv, rtask, SideType
  <2>1. CASE Loses(room, room')
    <3>1. Told(room.q, room'.q)
      BY <2>1, LosesGives
    <3>2. browser' \in {[browser EXCEPT ![c] = "on"], [browser EXCEPT ![c] = "refused"]}
      BY <1>1 DEF BrowserConnects
    <3>3. \A d \in Clients : browser[d] # "new" => browser'[d] # "new"
      BY <3>2, <2>0
    <3> QED
      BY <3>1, <3>3, <2>0, OpensKept
  <2>2. CASE ~Loses(room, room')
    <3> DEFINE k == room.control
               m == [kind |-> "open", c |-> c]
               n == Len(room.q[k])
    <3>1. k \in Ctls /\ room'.q = [room.q EXCEPT ![k] = Append(room.q[k], m)] /\ browser' = [browser EXCEPT ![c] = "on"]
      BY <1>1, <2>0, <2>2, JoinGives DEF RoomIs
    <3>2. m \in RoomMsgs /\ m.kind = "open" /\ m.c = c /\ room.q \in [Ctls -> Seq(RoomMsgs)]
      BY RoomFacts DEF RoomMsgs
    <3> HIDE DEF m, k
    <3>3. room.q[k] \in Seq(RoomMsgs) /\ n \in Nat
      BY <3>1, <3>2
    <3>4. /\ Len(Append(room.q[k], m)) = n + 1 /\ Append(room.q[k], m)[n + 1] = m
          /\ \A i \in 1 .. n : Append(room.q[k], m)[i] = room.q[k][i]
      BY <3>2, <3>3
    <3> HIDE DEF n
    <3>5. \A i \in 1 .. (n + 1) : i \in 1 .. n \/ i = n + 1
      BY <3>3
    <3>6. ASSUME NEW j \in Ctls, NEW i \in 1 .. Len(room'.q[j])
          PROVE  \/ i \in 1 .. Len(room.q[j]) /\ room'.q[j][i] = room.q[j][i]
                 \/ j = k /\ i = n + 1 /\ room'.q[j][i] = m
      <4>1. CASE j = k
        BY <4>1, <3>1, <3>2, <3>4, <3>5, <3>6 DEF n
      <4>2. CASE j # k
        BY <4>2, <3>1, <3>2, <3>6
      <4> QED
        BY <4>1, <4>2
    <3>7. \A j \in Ctls : \A i \in 1 .. Len(room.q[j]) : room.q[j][i] \in RoomMsgs
      BY <3>2
    <3>8. \A j \in Ctls : \A i \in 1 .. Len(room.q[j]) : room.q[j][i].kind = "open" => room.q[j][i].c \in Clients /\ room.q[j][i].c # c
      BY <3>7, <2>0 DEF OpensInv, RoomMsgs
    <3>9. browser'[c] # "new" /\ \A d \in Clients : browser[d] # "new" => browser'[d] # "new"
      BY <3>1, <2>0
    <3> HIDE <3>4, <3>5
    <3>10. ASSUME NEW j \in Ctls, NEW i \in 1 .. Len(room'.q[j]), room'.q[j][i].kind = "open"
           PROVE  browser'[room'.q[j][i].c] # "new" /\ task'[room'.q[j][i].c] = "none"
      <4>1. CASE room'.q[j][i] = m
        BY <4>1, <3>2, <3>9, <2>0
      <4>2. CASE room'.q[j][i] # m
        <5>1. i \in 1 .. Len(room.q[j]) /\ room'.q[j][i] = room.q[j][i] /\ room.q[j][i].kind = "open"
          BY <4>2, <3>6, <3>10
        <5>2. browser[room.q[j][i].c] # "new" /\ task[room.q[j][i].c] = "none" /\ room.q[j][i].c \in Clients
          BY <5>1, <3>8 DEF OpensInv
        <5> QED
          BY <5>1, <5>2, <3>9, <2>0
      <4> QED
        BY <4>1, <4>2
    <3>11. ASSUME NEW j \in Ctls, NEW i \in 1 .. Len(room'.q[j]), NEW l \in Ctls, NEW p \in 1 .. Len(room'.q[l]),
                  room'.q[j][i].kind = "open", room'.q[l][p].kind = "open", room'.q[l][p].c = room'.q[j][i].c
           PROVE  l = j /\ p = i
      <4> DEFINE had(a, b) == b \in 1 .. Len(room.q[a]) /\ room'.q[a][b] = room.q[a][b]
                 came(a, b) == a = k /\ b = n + 1 /\ room'.q[a][b] = m
      <4>1. (had(j, i) \/ came(j, i)) /\ (had(l, p) \/ came(l, p))
        BY <3>6
      <4>2. CASE had(j, i) /\ had(l, p)
        <5>1. room.q[j][i].kind = "open" /\ room.q[l][p].kind = "open" /\ room.q[l][p].c = room.q[j][i].c
          BY <4>2, <3>11
        <5> QED
          BY <5>1, <4>2 DEF OpensInv
      <4>3. CASE had(j, i) /\ came(l, p)
        BY <4>3, <3>2, <3>8, <3>11
      <4>4. CASE came(j, i) /\ had(l, p)
        BY <4>4, <3>2, <3>8, <3>11
      <4>5. CASE came(j, i) /\ came(l, p)
        BY <4>5
      <4> QED
        BY <4>1, <4>2, <4>3, <4>4, <4>5
    <3> QED
      BY <3>10, <3>11 DEF OpensInv
  <2> QED
    BY <2>1, <2>2
<1>2. ASSUME NEW c \in Clients, BrowserLeaves(c)
      PROVE  OpensInv'
  <2>1. Told(room.q, room'.q)
    BY <1>2 DEF BrowserLeaves, Told
  <2>2. /\ \A d \in Clients : browser[d] # "new" => browser'[d] # "new"
        /\ \A d \in Clients : task[d] = "none" => task'[d] = "none"
    BY <1>2 DEF BrowserLeaves, SideType, rbrowser, rtask
  <2> QED
    BY <2>1, <2>2, OpensKept
<1>3. ASSUME NEW c \in Clients, BrowserReads(c)
      PROVE  OpensInv'
  <2>1. Told(room.q, room'.q)
    BY <1>3, RoomFacts DEF BrowserReads, Told, RoomRec
  <2>2. /\ \A d \in Clients : browser[d] # "new" => browser'[d] # "new"
        /\ \A d \in Clients : task[d] = "none" => task'[d] = "none"
    BY <1>3 DEF BrowserReads, SideType, rbrowser, rtask
  <2> QED
    BY <2>1, <2>2, OpensKept
<1>4. ASSUME NEW c \in Clients, PairDeadline(c)
      PROVE  OpensInv'
  <2>1. Told(room.q, room'.q)
    BY <1>4, RoomFacts, LosesGives, DeadlineDrops
  <2>2. /\ \A d \in Clients : browser[d] # "new" => browser'[d] # "new"
        /\ \A d \in Clients : task[d] = "none" => task'[d] = "none"
    BY <1>4 DEF PairDeadline, SideType, rbrowser, rtask
  <2> QED
    BY <2>1, <2>2, OpensKept
<1>5. ASSUME NEW c \in Clients, ClientReads(c)
      PROVE  OpensInv'
  <2>1. Told(room.q, room'.q)
    BY <1>5 DEF ClientReads, Told
  <2>2. /\ \A d \in Clients : browser[d] # "new" => browser'[d] # "new"
        /\ \A d \in Clients : task[d] = "none" => task'[d] = "none"
    BY <1>5 DEF ClientReads, SideType, rbrowser, rtask
  <2> QED
    BY <2>1, <2>2, OpensKept
<1>6. ASSUME NEW c \in Clients, ClientBuffers(c)
      PROVE  OpensInv'
  <2>1. Told(room.q, room'.q)
    <3>1. CASE Loses(room, room')
      BY <3>1, LosesGives
    <3>2. CASE ~Loses(room, room')
      BY <3>2, <1>6, RoomFacts, BufferGives DEF RoomIs, Told, RoomRec, SideType
    <3> QED
      BY <3>1, <3>2
  <2>2. /\ \A d \in Clients : browser[d] # "new" => browser'[d] # "new"
        /\ \A d \in Clients : task[d] = "none" => task'[d] = "none"
    BY <1>6 DEF ClientBuffers, SideType, rbrowser, rtask
  <2> QED
    BY <2>1, <2>2, OpensKept
<1>7. ASSUME NEW c \in Clients, ClientSends(c)
      PROVE  OpensInv'
  <2>1. Told(room.q, room'.q)
    <3>1. CASE Loses(room, room')
      BY <3>1, LosesGives
    <3>2. CASE ~Loses(room, room')
      <4>1. room' = [room EXCEPT !.dq = [room.dq EXCEPT ![c] = Append(room.dq[c], hold[c].frame)]] /\ room \in RoomRec
        BY <3>2, <1>7, RoomFacts, SendsOrDrops
      <4> QED
        BY <4>1 DEF Told, RoomRec
    <3> QED
      BY <3>1, <3>2
  <2>2. /\ \A d \in Clients : browser[d] # "new" => browser'[d] # "new"
        /\ \A d \in Clients : task[d] = "none" => task'[d] = "none"
    BY <1>7 DEF ClientSends, SideType, rbrowser, rtask
  <2> QED
    BY <2>1, <2>2, OpensKept
<1>8. ASSUME NEW c \in Clients, ClientEnds(c)
      PROVE  OpensInv'
  <2>1. Told(room.q, room'.q)
    BY <1>8, RoomFacts, LosesGives, ClientEndsDrops
  <2>2. /\ \A d \in Clients : browser[d] # "new" => browser'[d] # "new"
        /\ \A d \in Clients : task[d] = "none" => task'[d] = "none"
    BY <1>8 DEF ClientEnds, SideType, rbrowser, rtask
  <2> QED
    BY <2>1, <2>2, OpensKept
<1>9. ASSUME NEW c \in Clients, DataHello(c)
      PROVE  OpensInv'
  <2>1. Told(room.q, room'.q)
    BY <1>9 DEF DataHello, Told
  <2>2. /\ \A d \in Clients : browser[d] # "new" => browser'[d] # "new"
        /\ \A d \in Clients : task[d] = "none" => task'[d] = "none"
    BY SMTT(30), <1>9 DEF DataHello, SideType, rbrowser, rtask
  <2> QED
    BY <2>1, <2>2, OpensKept
<1>10. ASSUME NEW c \in Clients, RegistersData(c)
      PROVE  OpensInv'
  <2>1. Told(room.q, room'.q)
    <3>1. CASE DataAdmitted(c)
      BY <1>10, <3>1, PairGives DEF RoomIs, Told
    <3>2. CASE ~DataAdmitted(c)
      BY <1>10, <3>2 DEF RegistersData, Told
    <3> QED
      BY <3>1, <3>2
  <2>2. /\ \A d \in Clients : browser[d] # "new" => browser'[d] # "new"
        /\ \A d \in Clients : task[d] = "none" => task'[d] = "none"
    <3>1. task' \in {task, [task EXCEPT ![c] = "end"]} /\ browser' = browser
      BY <1>10 DEF RegistersData, rbrowser
    <3>2. task[c] # "none"
      BY <1>10 DEF RegistersData, LifeInv
    <3> QED
      BY <3>1, <3>2 DEF SideType
  <2> QED
    BY <2>1, <2>2, OpensKept
<1>11. ASSUME NEW c \in Clients, DataReady(c)
      PROVE  OpensInv'
  <2>1. Told(room.q, room'.q)
    BY <1>11 DEF DataReady, Told
  <2>2. /\ \A d \in Clients : browser[d] # "new" => browser'[d] # "new"
        /\ \A d \in Clients : task[d] = "none" => task'[d] = "none"
    <3>1. task' \in {task, [task EXCEPT ![c] = "open"]} /\ (task' # task => task[c] = "hello") /\ browser' = browser
      BY <1>11 DEF DataReady, rbrowser
    <3> QED
      BY <3>1 DEF SideType
  <2> QED
    BY <2>1, <2>2, OpensKept
<1>12. ASSUME NEW c \in Clients, DataTimesOut(c)
      PROVE  OpensInv'
  <2>1. Told(room.q, room'.q)
    BY <1>12 DEF DataTimesOut, Told
  <2>2. /\ \A d \in Clients : browser[d] # "new" => browser'[d] # "new"
        /\ \A d \in Clients : task[d] = "none" => task'[d] = "none"
    BY <1>12 DEF DataTimesOut, SideType, rbrowser, rtask
  <2> QED
    BY <2>1, <2>2, OpensKept
<1>13. ASSUME NEW c \in Clients, FlushTakes(c)
      PROVE  OpensInv'
  <2>1. Told(room.q, room'.q)
    BY <1>13, RoomFacts, LosesGives, FlushGives DEF RoomIs, Told
  <2>2. /\ \A d \in Clients : browser[d] # "new" => browser'[d] # "new"
        /\ \A d \in Clients : task[d] = "none" => task'[d] = "none"
    BY <1>13 DEF FlushTakes, SideType, rbrowser, rtask
  <2> QED
    BY <2>1, <2>2, OpensKept
<1>14. ASSUME NEW c \in Clients, FlushSends(c)
      PROVE  OpensInv'
  <2>1. Told(room.q, room'.q)
    <3>1. CASE Loses(room, room')
      BY <3>1, LosesGives
    <3>2. CASE ~Loses(room, room')
      BY <3>2, <1>14, RoomFacts, FlushOrDrops DEF RoomIs, Told, RoomRec
    <3> QED
      BY <3>1, <3>2
  <2>2. /\ \A d \in Clients : browser[d] # "new" => browser'[d] # "new"
        /\ \A d \in Clients : task[d] = "none" => task'[d] = "none"
    BY <1>14 DEF FlushSends, SideType, rbrowser, rtask
  <2> QED
    BY <2>1, <2>2, OpensKept
<1>15. ASSUME NEW c \in Clients, DataWriterFails(c)
      PROVE  OpensInv'
  <2>1. Told(room.q, room'.q)
    BY <1>15, RoomFacts, LosesGives, WriterFailsDrops
  <2>2. /\ \A d \in Clients : browser[d] # "new" => browser'[d] # "new"
        /\ \A d \in Clients : task[d] = "none" => task'[d] = "none"
    BY <1>15 DEF DataWriterFails, SideType, rbrowser, rtask
  <2> QED
    BY <2>1, <2>2, OpensKept
<1>16. ASSUME NEW c \in Clients, DataSocketEnds(c)
      PROVE  OpensInv'
  <2>1. Told(room.q, room'.q)
    BY <1>16 DEF DataSocketEnds, Told
  <2>2. /\ \A d \in Clients : browser[d] # "new" => browser'[d] # "new"
        /\ \A d \in Clients : task[d] = "none" => task'[d] = "none"
    BY <1>16 DEF DataSocketEnds, SideType, rbrowser, rtask
  <2> QED
    BY <2>1, <2>2, OpensKept
<1>17. ASSUME NEW c \in Clients, DataUnregisters(c)
      PROVE  OpensInv'
  <2>1. Told(room.q, room'.q)
    BY <1>17, RoomFacts, LosesGives, UnregisterDrops
  <2>2. /\ \A d \in Clients : browser[d] # "new" => browser'[d] # "new"
        /\ \A d \in Clients : task[d] = "none" => task'[d] = "none"
    BY <1>17 DEF DataUnregisters, SideType, rbrowser, rtask
  <2> QED
    BY <2>1, <2>2, OpensKept
<1>18. ASSUME NEW c \in Clients, DataTaskSeesEnd(c)
      PROVE  OpensInv'
  <2>1. Told(room.q, room'.q)
    BY <1>18 DEF DataTaskSeesEnd, Told
  <2>2. /\ \A d \in Clients : browser[d] # "new" => browser'[d] # "new"
        /\ \A d \in Clients : task[d] = "none" => task'[d] = "none"
    BY <1>18 DEF DataTaskSeesEnd, SideType, rbrowser, rtask
  <2> QED
    BY <2>1, <2>2, OpensKept
<1>19. ASSUME NEW c \in Clients, ForwardTakes(c)
      PROVE  OpensInv'
  <2>1. Told(room.q, room'.q)
    BY <1>19 DEF ForwardTakes, Told
  <2>2. /\ \A d \in Clients : browser[d] # "new" => browser'[d] # "new"
        /\ \A d \in Clients : task[d] = "none" => task'[d] = "none"
    BY <1>19 DEF ForwardTakes, SideType, rbrowser, rtask
  <2> QED
    BY <2>1, <2>2, OpensKept
<1>20. ASSUME NEW c \in Clients, ForwardSends(c)
      PROVE  OpensInv'
  <2>1. Told(room.q, room'.q)
    <3>1. CASE Loses(room, room')
      BY <3>1, LosesGives
    <3>2. CASE ~Loses(room, room')
      BY ZenonT(30), <3>2, <1>20, RoomFacts, ForwardOrDrops DEF RoomIs, Told, RoomRec
    <3> QED
      BY <3>1, <3>2
  <2>2. /\ \A d \in Clients : browser[d] # "new" => browser'[d] # "new"
        /\ \A d \in Clients : task[d] = "none" => task'[d] = "none"
    BY <1>20 DEF ForwardSends, SideType, rbrowser, rtask
  <2> QED
    BY <2>1, <2>2, OpensKept
<1>21. ASSUME NEW c \in Clients, DaemonReads(c)
      PROVE  OpensInv'
  <2>1. Told(room.q, room'.q)
    BY <1>21, RoomFacts DEF DaemonReads, Told, RoomRec
  <2>2. /\ \A d \in Clients : browser[d] # "new" => browser'[d] # "new"
        /\ \A d \in Clients : task[d] = "none" => task'[d] = "none"
    BY <1>21 DEF DaemonReads, SideType, rbrowser, rtask
  <2> QED
    BY <2>1, <2>2, OpensKept
<1>22. ASSUME NEW c \in Clients, DataReads(c)
      PROVE  OpensInv'
  <2>1. Told(room.q, room'.q)
    BY <1>22 DEF DataReads, Told
  <2>2. /\ \A d \in Clients : browser[d] # "new" => browser'[d] # "new"
        /\ \A d \in Clients : task[d] = "none" => task'[d] = "none"
    BY <1>22 DEF DataReads, SideType, rbrowser, rtask
  <2> QED
    BY <2>1, <2>2, OpensKept
<1>23. ASSUME NEW c \in Clients, DataTaskEnds(c)
      PROVE  OpensInv'
  <2>1. Told(room.q, room'.q)
    BY <1>23 DEF DataTaskEnds, Told
  <2>2. /\ \A d \in Clients : browser[d] # "new" => browser'[d] # "new"
        /\ \A d \in Clients : task[d] = "none" => task'[d] = "none"
    BY <1>23 DEF DataTaskEnds, SideType, rbrowser, rtask
  <2> QED
    BY <2>1, <2>2, OpensKept
<1>24. ASSUME NEW k \in Ctls, LinkCut(k)
      PROVE  OpensInv'
  <2>1. Told(room.q, room'.q)
    BY <1>24 DEF LinkCut, Told
  <2>2. /\ \A d \in Clients : browser[d] # "new" => browser'[d] # "new"
        /\ \A d \in Clients : task[d] = "none" => task'[d] = "none"
    BY <1>24 DEF LinkCut, SideType, rbrowser, rtask
  <2> QED
    BY <2>1, <2>2, OpensKept
<1>25. ASSUME NEW k \in Ctls, RegistersControl(k)
      PROVE  OpensInv'
  <2>1. Told(room.q, room'.q)
    BY <1>25, RoomFacts, LosesGives, RegistersControlDrops DEF Told
  <2>2. /\ \A d \in Clients : browser[d] # "new" => browser'[d] # "new"
        /\ \A d \in Clients : task[d] = "none" => task'[d] = "none"
    BY <1>25 DEF RegistersControl, SideType, rbrowser, rtask
  <2> QED
    BY <2>1, <2>2, OpensKept
<1>26. ASSUME NEW k \in Ctls, ControlWriterFails(k)
      PROVE  OpensInv'
  <2>1. Told(room.q, room'.q)
    BY <1>26, RoomFacts, LosesGives, WriterFailsDrops
  <2>2. /\ \A d \in Clients : browser[d] # "new" => browser'[d] # "new"
        /\ \A d \in Clients : task[d] = "none" => task'[d] = "none"
    BY <1>26 DEF ControlWriterFails, SideType, rbrowser, rtask
  <2> QED
    BY <2>1, <2>2, OpensKept
<1>27. ASSUME NEW k \in Ctls, ControlEnds(k)
      PROVE  OpensInv'
  <2>1. Told(room.q, room'.q)
    BY <1>27, RoomFacts, LosesGives, ControlEndsDrops
  <2>2. /\ \A d \in Clients : browser[d] # "new" => browser'[d] # "new"
        /\ \A d \in Clients : task[d] = "none" => task'[d] = "none"
    BY <1>27 DEF ControlEnds, SideType, rbrowser, rtask
  <2> QED
    BY <2>1, <2>2, OpensKept
<1>28. ASSUME DaemonDials
      PROVE  OpensInv'
  <2>1. Told(room.q, room'.q)
    BY <1>28 DEF DaemonDials, Told
  <2>2. /\ \A d \in Clients : browser[d] # "new" => browser'[d] # "new"
        /\ \A d \in Clients : task[d] = "none" => task'[d] = "none"
    BY <1>28 DEF DaemonDials, SideType, rbrowser, rtask
  <2> QED
    BY <2>1, <2>2, OpensKept
<1>29. ASSUME DaemonLosesControl
      PROVE  OpensInv'
  <2>1. Told(room.q, room'.q)
    BY <1>29 DEF DaemonLosesControl, Told
  <2>2. /\ \A d \in Clients : browser[d] # "new" => browser'[d] # "new"
        /\ \A d \in Clients : task[d] = "none" => task'[d] = "none"
    BY <1>29 DEF DaemonLosesControl, SideType, rbrowser, rtask
  <2> QED
    BY <2>1, <2>2, OpensKept
<1>30. ASSUME DaemonHandles
      PROVE  OpensInv'
  <2> DEFINE q == room.q[dctl]
             m == Head(q)
             t == Tail(q)
  <2>g. dctl # 0 /\ q # <<>> /\ browser' = browser
    BY ONLY <1>30 DEF DaemonHandles, rbrowser
  <2>d. dctl \in Ctls \cup {0}
    BY DEF SideType
  <2>q. room.q \in [Ctls -> Seq(RoomMsgs)]
    BY RoomFacts
  <2>1. room.q \in [Ctls -> Seq(RoomMsgs)] /\ q # <<>> /\ dctl \in Ctls /\ q \in Seq(RoomMsgs) /\ browser' = browser
    BY ONLY <2>g, <2>d, <2>q
  <2>2. m \in RoomMsgs /\ m = q[1] /\ 1 \in 1 .. Len(q) /\ t \in Seq(RoomMsgs) /\ Len(t) = Len(q) - 1 /\ Len(q) \in Nat
        /\ \A i \in 1 .. Len(t) : t[i] = q[i + 1]
    BY <2>1
  <2>3. m.c \in Clients /\ m.kind \in {"open", "gone"}
    BY <2>2 DEF RoomMsgs
  <2>4. /\ task' = [task EXCEPT ![m.c] = IF m.kind = "open" THEN "dial" ELSE IF @ = "none" THEN @ ELSE "end"]
        /\ room'.q = [room.q EXCEPT ![dctl] = t]
    BY <1>30, <2>1, RoomFacts DEF DaemonHandles, RoomRec
  <2>5. \A d \in Clients : task[d] = "none" /\ (m.kind = "open" => m.c # d) => task'[d] = "none"
    BY <2>3, <2>4 DEF SideType
  <2>6. \A i \in 1 .. Len(t) : i + 1 \in 1 .. Len(q) /\ i + 1 # 1
    BY <2>2
  <2> DEFINE o(j, i) == IF j = dctl THEN i + 1 ELSE i
  <2>7. ASSUME NEW j \in Ctls, NEW i \in 1 .. Len(room'.q[j])
        PROVE  o(j, i) \in 1 .. Len(room.q[j]) /\ room'.q[j][i] = room.q[j][o(j, i)] /\ (j = dctl => o(j, i) # 1)
    <3>1. CASE j = dctl
      BY <3>1, <2>1, <2>2, <2>4, <2>6, <2>7
    <3>2. CASE j # dctl
      BY <3>2, <2>1, <2>4, <2>7
    <3> QED
      BY <3>1, <3>2
  <2>8. \A j \in Ctls : \A i, n \in 1 .. Len(room'.q[j]) : o(j, i) = o(j, n) => i = n
    OBVIOUS
  <2> HIDE DEF o, t, m, q
  <2>9. \A j \in Ctls : \A i \in 1 .. Len(room.q[j]) : room.q[j][i] \in RoomMsgs
    BY <2>1
  <2>10. ASSUME NEW j \in Ctls, NEW i \in 1 .. Len(room'.q[j]), room'.q[j][i].kind = "open"
         PROVE  browser'[room'.q[j][i].c] # "new" /\ task'[room'.q[j][i].c] = "none"
    <3>1. o(j, i) \in 1 .. Len(room.q[j]) /\ room.q[j][o(j, i)].kind = "open" /\ room'.q[j][i].c = room.q[j][o(j, i)].c
      BY <2>7, <2>10
    <3>2. room.q[j][o(j, i)].c \in Clients
      BY <3>1, <2>9 DEF RoomMsgs
    <3>3. browser[room.q[j][o(j, i)].c] # "new" /\ task[room.q[j][o(j, i)].c] = "none"
      BY <3>1 DEF OpensInv
    <3>4. m.kind = "open" => m.c # room.q[j][o(j, i)].c
      <4>1. m = room.q[dctl][1] /\ 1 \in 1 .. Len(room.q[dctl])
        BY <2>2 DEF q
      <4>2. j = dctl => o(j, i) # 1
        BY <2>7
      <4> QED
        BY <4>1, <4>2, <3>1, <2>1 DEF OpensInv
    <3> QED
      BY <3>1, <3>2, <3>3, <3>4, <2>1, <2>5
  <2>11. ASSUME NEW j \in Ctls, NEW i \in 1 .. Len(room'.q[j]), NEW l \in Ctls, NEW n \in 1 .. Len(room'.q[l]),
                room'.q[j][i].kind = "open", room'.q[l][n].kind = "open", room'.q[l][n].c = room'.q[j][i].c
         PROVE  l = j /\ n = i
    <3>1. /\ o(j, i) \in 1 .. Len(room.q[j]) /\ room.q[j][o(j, i)].kind = "open"
          /\ o(l, n) \in 1 .. Len(room.q[l]) /\ room.q[l][o(l, n)].kind = "open"
          /\ room.q[l][o(l, n)].c = room.q[j][o(j, i)].c
      BY <2>7, <2>11
    <3>2. l = j /\ o(l, n) = o(j, i)
      BY <3>1 DEF OpensInv
    <3> QED
      BY <3>2, <2>8
  <2> QED
    BY <2>10, <2>11 DEF OpensInv
<1> QED
  BY <1>1, <1>2, <1>3, <1>4, <1>5, <1>6, <1>7, <1>8, <1>9, <1>10, <1>11, <1>12, <1>13, <1>14, <1>15, <1>16, <1>17, <1>18, <1>19, <1>20, <1>21, <1>22, <1>23, <1>24, <1>25, <1>26, <1>27, <1>28, <1>29, <1>30 DEF RelayNext, ClientStep, PipeStep, ForwardStep, ControlStep, DaemonStep

LEMMA LifeStep ==
  ASSUME LifeInv, OpensInv, RoomOK(room), RoomOK(room'), SideType, RelayNext
  PROVE  LifeInv'
<1>1. ASSUME NEW c \in Clients, BrowserConnects(c)
      PROVE  LifeInv'
  <2>0. c \notin room.clients
    BY <1>1 DEF BrowserConnects, LifeInv
  <2>1. /\ room'.clients \subseteq room.clients \cup {c} /\ room'.data \subseteq room.data /\ room'.flush \subseteq room.flush
        /\ \A d \in Clients : d \in room.data => d \in room'.data \/ d \notin room'.clients
    <3>1. CASE Loses(room, room')
      BY <3>1, LosesGives
    <3>2. CASE ~Loses(room, room')
      BY <3>2, <2>0, <1>1, JoinGives, RoomFacts DEF RoomIs
    <3> QED
      BY <3>1, <3>2
  <2>2. browser' \in {[browser EXCEPT ![c] = "on"], [browser EXCEPT ![c] = "refused"]} /\ UNCHANGED <<sent, hold, task, dnet, dsock, flushing>>
    BY <1>1 DEF BrowserConnects, rtask, rdata
  <2>3. \A d \in Clients : browser'[d] = "new" => d # c /\ browser[d] = "new"
    BY SMTT(30), <2>2 DEF SideType
  <2>4. UNCHANGED <<sent, hold, task, dnet, dsock, flushing>>
    BY <2>2
  <2>5. hold[c] = NoHold /\ NoHold.stage # "send"
    BY <1>1 DEF BrowserConnects, LifeInv, NoHold
  <2> QED
    BY <2>1, <2>3, <2>4, <2>5 DEF LifeInv
<1>2. ASSUME NEW c \in Clients, BrowserLeaves(c)
      PROVE  LifeInv'
  BY <1>2 DEF BrowserLeaves, LifeInv, SideType, NoHold, rbrowser, rclient, rctl, rtask, rdata
<1>3. ASSUME NEW c \in Clients, BrowserReads(c)
      PROVE  LifeInv'
  <2>1. room'.clients = room.clients /\ room'.data = room.data /\ room'.flush = room.flush
    BY <1>3, RoomFacts DEF BrowserReads, RoomRec
  <2> QED
    BY <1>3, <2>1 DEF BrowserReads, LifeInv, SideType, rbrowser, rclient, rctl, rtask, rdata
<1>4. ASSUME NEW c \in Clients, PairDeadline(c)
      PROVE  LifeInv'
  <2>1. room'.clients \subseteq room.clients /\ room'.data \subseteq room.data /\ room'.flush \subseteq room.flush /\ \A d \in Clients : d \in room.data => d \in room'.data \/ d \notin room'.clients
    BY <1>4, RoomFacts, DeadlineDrops, LosesGives
  <2> QED
    BY <1>4, <2>1 DEF PairDeadline, LifeInv, SideType, NoHold, rbrowser, rclient, rctl, rtask, rdata
<1>5. ASSUME NEW c \in Clients, ClientReads(c)
      PROVE  LifeInv'
  <2>1. /\ room' = room /\ browser[c] = "on" /\ sent' = [sent EXCEPT ![c] = @ + 1]
        /\ \E h : hold' = [hold EXCEPT ![c] = h] /\ (h = NoHold \/ \E s \in {"buffer", "send"} : h = [stage |-> s, frame |-> sent[c] + 1] /\ (s = "send" => c \in room.data))
        /\ UNCHANGED <<browser, task, dnet, dsock, flushing>>
    BY <1>5 DEF ClientReads, rctl, rtask, rdata
  <2>2. PICK h : hold' = [hold EXCEPT ![c] = h] /\ (h = NoHold \/ \E s \in {"buffer", "send"} : h = [stage |-> s, frame |-> sent[c] + 1] /\ (s = "send" => c \in room.data))
    BY <2>1
  <2>3. (h.stage = "none" => h = NoHold) /\ (h.stage = "send" => c \in room.data)
    BY <2>2 DEF NoHold
  <2>4. /\ hold'[c] = h /\ \A d \in Clients : d # c => hold'[d] = hold[d] /\ sent'[d] = sent[d]
    BY <2>1, <2>2 DEF SideType
  <2> QED
    BY <2>1, <2>3, <2>4 DEF LifeInv
<1>6. ASSUME NEW c \in Clients, ClientBuffers(c)
      PROVE  LifeInv'
  <2>1. room'.clients \subseteq room.clients /\ room'.data \subseteq room.data /\ room'.flush \subseteq room.flush /\ \A d \in Clients : d \in room.data => d \in room'.data \/ d \notin room'.clients
    <3>1. CASE Loses(room, room')
      BY <3>1, LosesGives
    <3>2. CASE ~Loses(room, room')
      <4>1. hold[c].frame \in Nat
        BY DEF SideType
      <4> QED
        BY <4>1, <3>2, <1>6, RoomFacts, BufferGives DEF RoomIs
    <3> QED
      BY <3>1, <3>2
  <2>2. hold' = [hold EXCEPT ![c] = NoHold] /\ UNCHANGED <<browser, sent, task, dnet, dsock, flushing>>
    BY <1>6, BufferGives, RoomFacts DEF ClientBuffers, rbrowser, rclient, rctl, rtask, rdata
  <2>3. hold'[c] = NoHold /\ NoHold.stage # "send" /\ \A d \in Clients : d # c => hold'[d] = hold[d]
    BY <2>2 DEF SideType, NoHold
  <2> QED
    BY <2>1, <2>2, <2>3 DEF LifeInv
<1>7. ASSUME NEW c \in Clients, ClientSends(c)
      PROVE  LifeInv'
  <2>1. room'.clients \subseteq room.clients /\ room'.data \subseteq room.data /\ room'.flush \subseteq room.flush /\ \A d \in Clients : d \in room.data => d \in room'.data \/ d \notin room'.clients
    <3>1. CASE Loses(room, room')
      BY <3>1, LosesGives
    <3>2. CASE ~Loses(room, room')
      <4>1. room' = [room EXCEPT !.dq = [room.dq EXCEPT ![c] = Append(room.dq[c], hold[c].frame)]] /\ room \in RoomRec
        BY <3>2, <1>7, RoomFacts, SendsOrDrops
      <4> QED
        BY <4>1 DEF RoomRec
    <3> QED
      BY <3>1, <3>2
  <2>2. hold' = [hold EXCEPT ![c] = NoHold] /\ UNCHANGED <<browser, sent, task, dnet, dsock, flushing>>
    BY <1>7, SendsOrDrops, RoomFacts DEF ClientSends, rbrowser, rclient, rctl, rtask, rdata
  <2>3. hold'[c] = NoHold /\ NoHold.stage # "send" /\ \A d \in Clients : d # c => hold'[d] = hold[d]
    BY <2>2 DEF SideType, NoHold
  <2> QED
    BY <2>1, <2>2, <2>3 DEF LifeInv
<1>8. ASSUME NEW c \in Clients, ClientEnds(c)
      PROVE  LifeInv'
  <2>1. room'.clients \subseteq room.clients /\ room'.data \subseteq room.data /\ room'.flush \subseteq room.flush /\ \A d \in Clients : d \in room.data => d \in room'.data \/ d \notin room'.clients
    BY <1>8, RoomFacts, ClientEndsDrops, LosesGives
  <2> QED
    BY SMTT(30), <1>8, <2>1 DEF ClientEnds, LifeInv, SideType, NoHold, rbrowser, rclient, rctl, rtask, rdata
<1>9. ASSUME NEW c \in Clients, DataHello(c)
      PROVE  LifeInv'
  BY SMTT(30), <1>9 DEF DataHello, LifeInv, SideType, NoHold, rbrowser, rclient, rctl, rtask, rdata
<1>10. ASSUME NEW c \in Clients, RegistersData(c)
      PROVE  LifeInv'
  <2>1. CASE DataAdmitted(c)
    <3>1. room'.clients = room.clients /\ room'.data = room.data \cup {c} /\ room'.flush \subseteq room.flush \cup {c}
      BY <1>10, <2>1, PairGives, RoomFacts DEF RoomIs
    <3>2. dnet' = [dnet EXCEPT ![c] = "read"] /\ dsock' = [dsock EXCEPT ![c] = "bind"] /\ dnet[c] = "hello"
          /\ UNCHANGED <<browser, sent, hold, task, flushing>>
      BY <1>10, <2>1 DEF RegistersData, rbrowser, rclient
    <3>3. dnet'[c] = "read" /\ dsock'[c] = "bind" /\ \A d \in Clients : d # c => dnet'[d] = dnet[d] /\ dsock'[d] = dsock[d]
      BY <3>2 DEF SideType
    <3> QED
      BY <3>1, <3>2, <3>3 DEF LifeInv
  <2>2. CASE ~DataAdmitted(c)
    <3>1. /\ dnet' = [dnet EXCEPT ![c] = "read"] /\ dsock' = [dsock EXCEPT ![c] = "done"] /\ dnet[c] = "hello"
          /\ task' = [task EXCEPT ![c] = "end"] /\ UNCHANGED <<room, browser, sent, hold, flushing>>
      BY <1>10, <2>2 DEF RegistersData, rbrowser, rclient
    <3>2. room.flush \subseteq room.data
      BY RoomFacts
    <3> QED
      BY <3>1, <3>2 DEF LifeInv, SideType
  <2> QED
    BY <2>1, <2>2
<1>11. ASSUME NEW c \in Clients, DataReady(c)
      PROVE  LifeInv'
  <2>1. /\ task' \in {task, [task EXCEPT ![c] = "open"]} /\ (task' # task => task[c] = "hello") /\ dsock[c] = "bind"
        /\ dsock' \in {[dsock EXCEPT ![c] = "flush"], [dsock EXCEPT ![c] = "drain"]}
        /\ UNCHANGED <<room, browser, sent, hold, dnet, flushing>>
    BY <1>11 DEF DataReady, rbrowser, rclient
  <2>2. /\ \A d \in Clients : task'[d] \in {"none", "dial"} => task[d] \in {"none", "dial"}
        /\ \A d \in Clients : task[d] = "none" => task'[d] = "none"
        /\ \A d \in Clients : d # c => dsock'[d] = dsock[d]
        /\ dsock'[c] \in {"flush", "drain"}
    BY <2>1 DEF SideType
  <2> QED
    BY <2>1, <2>2 DEF LifeInv
<1>12. ASSUME NEW c \in Clients, DataTimesOut(c)
      PROVE  LifeInv'
  BY SMTT(30), <1>12 DEF DataTimesOut, LifeInv, SideType, NoHold, rbrowser, rclient, rctl, rtask, rdata
<1>13. ASSUME NEW c \in Clients, FlushTakes(c)
      PROVE  LifeInv'
  <2>0. room.data = room.paired /\ room.flush \subseteq room.paired /\ room'.data = room'.paired
    BY RoomFacts
  <2>1. /\ room'.clients = room.clients /\ room'.paired = room.paired /\ room'.flush \subseteq room.flush
        /\ (dsock' = dsock /\ flushing' = [flushing EXCEPT ![c] = room.buf[c]])
           \/ (flushing' = flushing /\ dsock' = [dsock EXCEPT ![c] = "run"] /\ c \notin room'.flush)
    BY <1>13, FlushGives DEF RoomIs
  <2>2. dsock[c] = "flush" /\ flushing[c] = <<>> /\ UNCHANGED <<browser, sent, hold, task, dnet>>
    BY <1>13 DEF FlushTakes, rbrowser, rclient, rtask
  <2>3. \A d \in Clients : d # c => flushing'[d] = flushing[d] /\ dsock'[d] = dsock[d]
    BY <2>1 DEF SideType
  <2>4. dsock'[c] = "flush" \/ (dsock'[c] = "run" /\ flushing'[c] = <<>> /\ c \notin room'.flush)
    BY <2>1, <2>2 DEF SideType
  <2>5. room'.clients = room.clients /\ room'.data = room.data /\ room'.flush \subseteq room.flush
    BY <2>0, <2>1
  <2> QED
    BY <2>2, <2>3, <2>4, <2>5 DEF LifeInv
<1>14. ASSUME NEW c \in Clients, FlushSends(c)
      PROVE  LifeInv'
  <2>1. room'.clients \subseteq room.clients /\ room'.data \subseteq room.data /\ room'.flush \subseteq room.flush /\ \A d \in Clients : d \in room.data => d \in room'.data \/ d \notin room'.clients
    <3>1. CASE Loses(room, room')
      BY <3>1, LosesGives
    <3>2. CASE ~Loses(room, room')
      <4>1. room' = [room EXCEPT !.dq = [room.dq EXCEPT ![c] = Append(room.dq[c], Head(flushing[c]))]] /\ room \in RoomRec
        BY <3>2, <1>14, RoomFacts, FlushOrDrops
      <4> QED
        BY <4>1 DEF RoomRec
    <3> QED
      BY <3>1, <3>2
  <2>2. dsock[c] = "flush" /\ (\A d \in Clients : d # c => flushing'[d] = flushing[d]) /\ UNCHANGED <<hold, browser, sent, task, dnet, dsock>>
    BY SMTT(30), <1>14, FlushOrDrops, RoomFacts DEF FlushSends, SideType, rbrowser, rclient, rctl, rtask, rdata
  <2> QED
    BY <2>1, <2>2 DEF LifeInv, SideType, NoHold
<1>15. ASSUME NEW c \in Clients, DataWriterFails(c)
      PROVE  LifeInv'
  <2>1. room'.clients \subseteq room.clients /\ room'.data \subseteq room.data /\ room'.flush \subseteq room.flush /\ \A d \in Clients : d \in room.data => d \in room'.data \/ d \notin room'.clients
    BY <1>15, RoomFacts, WriterFailsDrops, LosesGives
  <2> QED
    BY <1>15, <2>1 DEF DataWriterFails, LifeInv, SideType, NoHold, rbrowser, rclient, rctl, rtask, rdata
<1>16. ASSUME NEW c \in Clients, DataSocketEnds(c)
      PROVE  LifeInv'
  BY SMTT(30), <1>16 DEF DataSocketEnds, LifeInv, SideType, NoHold, rbrowser, rclient, rctl, rtask, rdata
<1>17. ASSUME NEW c \in Clients, DataUnregisters(c)
      PROVE  LifeInv'
  <2>1. c \notin room'.data /\ room'.clients \subseteq room.clients /\ room'.data \subseteq room.data /\ room'.flush \subseteq room.flush /\ \A d \in Clients : d \in room.data => d \in room'.data \/ d \notin room'.clients
    BY <1>17, RoomFacts, UnregisterDrops, LosesGives
  <2>2. c \notin room'.flush
    BY <2>1, RoomFacts
  <2>3. dsock[c] = "drain" /\ dsock' = [dsock EXCEPT ![c] = "done"] /\ UNCHANGED <<browser, sent, hold, task, dnet, flushing>>
    BY <1>17 DEF DataUnregisters, rbrowser, rclient, rtask
  <2>4. dsock'[c] = "done" /\ \A d \in Clients : d # c => dsock'[d] = dsock[d]
    BY <2>3 DEF SideType
  <2> QED
    BY <2>1, <2>2, <2>3, <2>4 DEF LifeInv
<1>18. ASSUME NEW c \in Clients, DataTaskSeesEnd(c)
      PROVE  LifeInv'
  BY SMTT(30), <1>18 DEF DataTaskSeesEnd, LifeInv, SideType, NoHold, rbrowser, rclient, rctl, rtask, rdata
<1>19. ASSUME NEW c \in Clients, ForwardTakes(c)
      PROVE  LifeInv'
  BY <1>19 DEF ForwardTakes, LifeInv, SideType, NoHold, rbrowser, rclient, rctl, rtask, rdata
<1>20. ASSUME NEW c \in Clients, ForwardSends(c)
      PROVE  LifeInv'
  <2>1. room'.clients \subseteq room.clients /\ room'.data \subseteq room.data /\ room'.flush \subseteq room.flush /\ \A d \in Clients : d \in room.data => d \in room'.data \/ d \notin room'.clients
    <3>1. CASE Loses(room, room')
      BY <3>1, LosesGives
    <3>2. CASE ~Loses(room, room')
      <4>1. room' = [room EXCEPT !.cq = [room.cq EXCEPT ![c] = Append(room.cq[c], fwd[c])]] /\ room \in RoomRec
        BY <3>2, <1>20, RoomFacts, ForwardOrDrops
      <4> QED
        BY <4>1 DEF RoomRec
    <3> QED
      BY <3>1, <3>2
  <2>2. UNCHANGED <<hold, browser, sent, task, dnet, dsock, flushing>>
    BY <1>20, RoomFacts DEF ForwardSends, rbrowser, rclient, rctl, rtask, rdata
  <2> QED
    BY <2>1, <2>2 DEF LifeInv, SideType, NoHold
<1>21. ASSUME NEW c \in Clients, DaemonReads(c)
      PROVE  LifeInv'
  <2>1. room'.clients = room.clients /\ room'.data = room.data /\ room'.flush = room.flush
    BY <1>21, RoomFacts DEF DaemonReads, RoomRec
  <2> QED
    BY <1>21, <2>1 DEF DaemonReads, LifeInv, SideType, rbrowser, rclient, rctl, rtask, rdata
<1>22. ASSUME NEW c \in Clients, DataReads(c)
      PROVE  LifeInv'
  <2>1. dsock[c] = "run" /\ dsock' \in {dsock, [dsock EXCEPT ![c] = "drain"]} /\ UNCHANGED <<room, browser, sent, hold, task, dnet, flushing>>
    BY <1>22 DEF DataReads, rbrowser, rclient, rtask
  <2>2. /\ \A d \in Clients : d # c => dsock'[d] = dsock[d]
        /\ dsock'[c] \in {"run", "drain"}
    BY <2>1 DEF SideType
  <2> QED
    BY <2>1, <2>2 DEF LifeInv
<1>23. ASSUME NEW c \in Clients, DataTaskEnds(c)
      PROVE  LifeInv'
  BY SMTT(30), <1>23 DEF DataTaskEnds, LifeInv, SideType, NoHold, rbrowser, rclient, rctl, rtask, rdata
<1>24. ASSUME NEW k \in Ctls, LinkCut(k)
      PROVE  LifeInv'
  BY <1>24 DEF LinkCut, LifeInv, SideType, NoHold, rbrowser, rclient, rctl, rtask, rdata
<1>25. ASSUME NEW k \in Ctls, RegistersControl(k)
      PROVE  LifeInv'
  <2>1. room'.clients \subseteq room.clients /\ room'.data \subseteq room.data /\ room'.flush \subseteq room.flush /\ \A d \in Clients : d \in room.data => d \in room'.data \/ d \notin room'.clients
    BY <1>25, RoomFacts, RegistersControlDrops, LosesGives
  <2> QED
    BY <1>25, <2>1 DEF RegistersControl, LifeInv, SideType, NoHold, rbrowser, rclient, rctl, rtask, rdata
<1>26. ASSUME NEW k \in Ctls, ControlWriterFails(k)
      PROVE  LifeInv'
  <2>1. room'.clients \subseteq room.clients /\ room'.data \subseteq room.data /\ room'.flush \subseteq room.flush /\ \A d \in Clients : d \in room.data => d \in room'.data \/ d \notin room'.clients
    BY <1>26, RoomFacts, WriterFailsDrops, LosesGives
  <2> QED
    BY <1>26, <2>1 DEF ControlWriterFails, LifeInv, SideType, NoHold, rbrowser, rclient, rctl, rtask, rdata
<1>27. ASSUME NEW k \in Ctls, ControlEnds(k)
      PROVE  LifeInv'
  <2>1. room'.clients \subseteq room.clients /\ room'.data \subseteq room.data /\ room'.flush \subseteq room.flush /\ \A d \in Clients : d \in room.data => d \in room'.data \/ d \notin room'.clients
    BY <1>27, RoomFacts, ControlEndsDrops, LosesGives
  <2> QED
    BY <1>27, <2>1 DEF ControlEnds, LifeInv, SideType, NoHold, rbrowser, rclient, rctl, rtask, rdata
<1>28. ASSUME DaemonDials
      PROVE  LifeInv'
  BY <1>28 DEF DaemonDials, LifeInv, SideType, NoHold, rbrowser, rclient, rctl, rtask, rdata
<1>29. ASSUME DaemonLosesControl
      PROVE  LifeInv'
  <2>1. task' = [c \in Clients |-> IF task[c] = "none" THEN "none" ELSE "end"] /\ UNCHANGED <<room, browser, sent, hold, dnet, dsock, flushing>>
    BY <1>29 DEF DaemonLosesControl, rbrowser, rclient, rdata
  <2> QED
    BY <2>1 DEF LifeInv
<1>30. ASSUME DaemonHandles
      PROVE  LifeInv'
  <2> DEFINE m == Head(room.q[dctl])
  <2>1. room.q[dctl] \in Seq(RoomMsgs) /\ room.q[dctl] # <<>> /\ dctl \in Ctls /\ room \in RoomRec
    <3>1. dctl \in Ctls /\ room.q[dctl] # <<>>
      BY <1>30 DEF DaemonHandles, SideType
    <3>2. room.q \in [Ctls -> Seq(RoomMsgs)] /\ room \in RoomRec
      BY RoomFacts
    <3> QED
      BY <3>1, <3>2
  <2>2. m \in RoomMsgs /\ m = room.q[dctl][1] /\ 1 \in 1 .. Len(room.q[dctl])
    BY <2>1
  <2>3. m.c \in Clients /\ m.kind \in {"open", "gone"}
    BY <2>2 DEF RoomMsgs
  <2>4. m.kind = "open" => browser[m.c] # "new" /\ task[m.c] = "none"
    BY <2>1, <2>2 DEF OpensInv
  <2>5. /\ room'.clients = room.clients /\ room'.data = room.data /\ room'.flush = room.flush
    BY <1>30, <2>1 DEF DaemonHandles, RoomRec
  <2>6. /\ task' = [task EXCEPT ![m.c] = IF m.kind = "open" THEN "dial" ELSE IF @ = "none" THEN @ ELSE "end"]
        /\ UNCHANGED <<browser, sent, hold, dnet, dsock, flushing>>
    BY <1>30 DEF DaemonHandles, rbrowser, rclient, rdata
  <2> HIDE DEF m
  <2>7. \A d \in Clients : \/ task'[d] = task[d]
                           \/ task'[d] = "end" /\ task[d] # "none"
                           \/ task'[d] = "dial" /\ task[d] = "none" /\ browser[d] # "new"
    BY <2>3, <2>4, <2>6 DEF SideType
  <2> QED
    BY <2>5, <2>6, <2>7 DEF LifeInv
<1> QED
  BY <1>1, <1>2, <1>3, <1>4, <1>5, <1>6, <1>7, <1>8, <1>9, <1>10, <1>11, <1>12, <1>13, <1>14, <1>15, <1>16, <1>17, <1>18, <1>19, <1>20, <1>21, <1>22, <1>23, <1>24, <1>25, <1>26, <1>27, <1>28, <1>29, <1>30 DEF RelayNext, ClientStep, PipeStep, ForwardStep, ControlStep, DaemonStep

(* Who is in office, and who will remove the room. *)
LEMMA OfficeSame ==
  ASSUME OfficeInv, room'.live = room.live, room'.control = room.control, room'.clients = room.clients,
         room'.data = room.data, UNCHANGED <<ksock, tgen, csock>>
  PROVE  OfficeInv'
BY DEF OfficeInv, PipesOfThisGeneration, EmptyRoomIsRemoved

LEMMA OfficeLost ==
  ASSUME OfficeInv, RoomOK(room), RoomOK(room'), Loses(room, room'), UNCHANGED <<ksock, tgen>>,
         \A d \in Clients : csock[d] = "run" => csock'[d] = "run"
  PROVE  OfficeInv'
<1>1. /\ room'.live => room.live
      /\ room'.control = room.control \/ (room'.control = 0 /\ room'.data = {})
      /\ room'.data \subseteq room.data
  BY LosesGives
<1>2. room.control = 0 => room.clients = {} /\ room.data = {}
  BY RoomFacts DEF Neat
<1>3. room.control \in Ctls \cup {0}
  BY RoomFacts
<1>4. EmptyRoomIsRemoved'
  <2>1. CASE room.control # 0
    BY <2>1, <1>3 DEF OfficeInv, EmptyRoomIsRemoved
  <2>2. CASE room.control = 0
    BY <2>2, <1>1, <1>2 DEF OfficeInv, EmptyRoomIsRemoved
  <2> QED
    BY <2>1, <2>2
<1> QED
  BY <1>1, <1>4 DEF OfficeInv, PipesOfThisGeneration

LEMMA OfficeSwept ==
  ASSUME OfficeInv, RoomOK(room), Loses(room, room'), room'.live => ~EmptyRoom(room'), tgen' = tgen,
         \A j \in Ctls : j = room'.control => ksock'[j] = ksock[j]
  PROVE  OfficeInv'
<1>1. /\ room'.control = room.control \/ (room'.control = 0 /\ room'.data = {})
      /\ room'.data \subseteq room.data
  BY LosesGives
<1>2. room.control \in Ctls \cup {0}
  BY RoomFacts
<1> QED
  BY <1>1, <1>2 DEF OfficeInv, PipesOfThisGeneration, EmptyRoomIsRemoved, EmptyRoom

LEMMA OfficeStep ==
  ASSUME OfficeInv, LifeInv, OpensInv, RoomOK(room), RoomOK(room'), SideType, RelayNext
  PROVE  OfficeInv'
<1>1. ASSUME NEW c \in Clients, BrowserConnects(c)
      PROVE  OfficeInv'
  <2>0. c \notin room.clients
    BY <1>1 DEF BrowserConnects, LifeInv
  <2>1. UNCHANGED <<ksock, tgen>> /\ csock' \in {csock, [csock EXCEPT ![c] = "run"]}
    BY <1>1 DEF BrowserConnects, rctl, rtask
  <2>c. \A d \in Clients : csock[d] = "run" => csock'[d] = "run"
    BY <2>1 DEF SideType
  <2>2. CASE Loses(room, room')
    BY <2>1, <2>2, <2>c, OfficeLost
  <2>3. CASE ~Loses(room, room')
    <3>1. /\ room'.live = room.live /\ room'.control = room.control /\ room.control \in Ctls /\ room'.data = room.data
      BY <2>0, <2>3, <1>1, JoinGives, RoomFacts DEF RoomIs
    <3>2. room.control # 0
      BY <3>1 DEF Ctls
    <3> QED
      BY <3>1, <3>2, <2>1 DEF OfficeInv, PipesOfThisGeneration, EmptyRoomIsRemoved
  <2> QED
    BY <2>2, <2>3
<1>2. ASSUME NEW c \in Clients, BrowserLeaves(c)
      PROVE  OfficeInv'
  <2>1. UNCHANGED <<room, ksock, tgen, csock>>
    BY <1>2 DEF BrowserLeaves, rbrowser, rclient, rctl, rtask, rdata
  <2> QED
    BY <2>1, OfficeSame
<1>3. ASSUME NEW c \in Clients, BrowserReads(c)
      PROVE  OfficeInv'
  <2>1. room'.live = room.live /\ room'.control = room.control /\ room'.clients = room.clients /\ room'.data = room.data
    BY <1>3, RoomFacts DEF BrowserReads, RoomRec
  <2>2. UNCHANGED <<ksock, tgen, csock>>
    BY <1>3 DEF BrowserReads, rbrowser, rclient, rctl, rtask, rdata
  <2> QED
    BY <2>1, <2>2, OfficeSame
<1>4. ASSUME NEW c \in Clients, PairDeadline(c)
      PROVE  OfficeInv'
  <2>1. Loses(room, room')
    BY <1>4, RoomFacts, DeadlineDrops
  <2>2. UNCHANGED <<ksock, tgen, csock>>
    BY <1>4 DEF PairDeadline, rbrowser, rclient, rctl, rtask, rdata
  <2> QED
    BY <2>1, <2>2, OfficeLost
<1>5. ASSUME NEW c \in Clients, ClientReads(c)
      PROVE  OfficeInv'
  <2>1. UNCHANGED <<room, ksock, tgen, csock>>
    BY <1>5 DEF ClientReads, rbrowser, rclient, rctl, rtask, rdata
  <2> QED
    BY <2>1, OfficeSame
<1>6. ASSUME NEW c \in Clients, ClientBuffers(c)
      PROVE  OfficeInv'
  <2>1. UNCHANGED <<ksock, tgen, csock>>
    BY <1>6 DEF ClientBuffers, rbrowser, rclient, rctl, rtask, rdata
  <2>2. CASE Loses(room, room')
    BY <2>1, <2>2, OfficeLost
  <2>3. CASE ~Loses(room, room')
    <3>1. room'.live = room.live /\ room'.control = room.control /\ room'.clients = room.clients /\ room'.data = room.data
      <4>1. hold[c].frame \in Nat
        BY DEF SideType
      <4> QED
        BY <4>1, <2>3, <1>6, RoomFacts, BufferGives DEF RoomIs
    <3> QED
      BY <3>1, <2>1, OfficeSame
  <2> QED
    BY <2>2, <2>3
<1>7. ASSUME NEW c \in Clients, ClientSends(c)
      PROVE  OfficeInv'
  <2>1. UNCHANGED <<ksock, tgen, csock>>
    BY <1>7 DEF ClientSends, rbrowser, rclient, rctl, rtask, rdata
  <2>2. CASE Loses(room, room')
    BY <2>1, <2>2, OfficeLost
  <2>3. CASE ~Loses(room, room')
    <3>1. room'.live = room.live /\ room'.control = room.control /\ room'.clients = room.clients /\ room'.data = room.data
      <4>1. room' = [room EXCEPT !.dq = [room.dq EXCEPT ![c] = Append(room.dq[c], hold[c].frame)]] /\ room \in RoomRec
        BY <2>3, <1>7, RoomFacts, SendsOrDrops
      <4> QED
        BY <4>1 DEF RoomRec
    <3> QED
      BY <3>1, <2>1, OfficeSame
  <2> QED
    BY <2>2, <2>3
<1>8. ASSUME NEW c \in Clients, ClientEnds(c)
      PROVE  OfficeInv'
  <2>1. Loses(room, room') /\ (room'.live => ~EmptyRoom(room'))
    BY <1>8, RoomFacts, ClientEndsDrops
  <2>2. UNCHANGED <<ksock, tgen>>
    BY <1>8 DEF ClientEnds, rctl, rtask
  <2> QED
    BY <2>1, <2>2, OfficeSwept
<1>9. ASSUME NEW c \in Clients, DataHello(c)
      PROVE  OfficeInv'
  <2>1. UNCHANGED <<room, ksock, tgen, csock>>
    BY <1>9 DEF DataHello, rbrowser, rclient, rctl, rtask, rdata
  <2> QED
    BY <2>1, OfficeSame
<1>10. ASSUME NEW c \in Clients, RegistersData(c)
      PROVE  OfficeInv'
  <2>2. UNCHANGED <<ksock, tgen, csock>>
    BY <1>10 DEF RegistersData, rbrowser, rclient, rctl, rtask, rdata
  <2>3. CASE DataAdmitted(c)
    <3>1. room'.live = room.live /\ room'.control = room.control /\ room'.clients = room.clients /\ room'.data = room.data \cup {c} /\ c \in room.clients
      BY <1>10, <2>3, PairGives, RoomFacts DEF RoomIs
    <3>2. room.control # 0
      BY <3>1, RoomFacts DEF Neat
    <3>3. tgen[c] = room.control
      BY <3>2, <2>3 DEF DataAdmitted
    <3> QED
      BY <3>1, <3>2, <3>3, <2>2 DEF OfficeInv, PipesOfThisGeneration, EmptyRoomIsRemoved
  <2>4. CASE ~DataAdmitted(c)
    <3>1. room' = room
      BY <1>10, <2>4 DEF RegistersData
    <3> QED
      BY <3>1, <2>2, OfficeSame
  <2> QED
    BY <2>3, <2>4
<1>11. ASSUME NEW c \in Clients, DataReady(c)
      PROVE  OfficeInv'
  <2>1. UNCHANGED <<room, ksock, tgen, csock>>
    BY <1>11 DEF DataReady, rbrowser, rclient, rctl, rtask, rdata
  <2> QED
    BY <2>1, OfficeSame
<1>12. ASSUME NEW c \in Clients, DataTimesOut(c)
      PROVE  OfficeInv'
  <2>1. UNCHANGED <<room, ksock, tgen, csock>>
    BY <1>12 DEF DataTimesOut, rbrowser, rclient, rctl, rtask, rdata
  <2> QED
    BY <2>1, OfficeSame
<1>13. ASSUME NEW c \in Clients, FlushTakes(c)
      PROVE  OfficeInv'
  <2>1. room'.live = room.live /\ room'.control = room.control /\ room'.clients = room.clients /\ room'.data = room.data
    BY <1>13, FlushGives, RoomFacts DEF RoomIs
  <2>2. UNCHANGED <<ksock, tgen, csock>>
    BY <1>13 DEF FlushTakes, rbrowser, rclient, rctl, rtask, rdata
  <2> QED
    BY <2>1, <2>2, OfficeSame
<1>14. ASSUME NEW c \in Clients, FlushSends(c)
      PROVE  OfficeInv'
  <2>1. UNCHANGED <<ksock, tgen, csock>>
    BY <1>14 DEF FlushSends, rbrowser, rclient, rctl, rtask, rdata
  <2>2. CASE Loses(room, room')
    BY <2>1, <2>2, OfficeLost
  <2>3. CASE ~Loses(room, room')
    <3>1. room'.live = room.live /\ room'.control = room.control /\ room'.clients = room.clients /\ room'.data = room.data
      <4>1. room' = [room EXCEPT !.dq = [room.dq EXCEPT ![c] = Append(room.dq[c], Head(flushing[c]))]] /\ room \in RoomRec
        BY <2>3, <1>14, RoomFacts, FlushOrDrops
      <4> QED
        BY <4>1 DEF RoomRec
    <3> QED
      BY <3>1, <2>1, OfficeSame
  <2> QED
    BY <2>2, <2>3
<1>15. ASSUME NEW c \in Clients, DataWriterFails(c)
      PROVE  OfficeInv'
  <2>1. Loses(room, room')
    BY <1>15, RoomFacts, WriterFailsDrops
  <2>2. UNCHANGED <<ksock, tgen, csock>>
    BY <1>15 DEF DataWriterFails, rbrowser, rclient, rctl, rtask, rdata
  <2> QED
    BY <2>1, <2>2, OfficeLost
<1>16. ASSUME NEW c \in Clients, DataSocketEnds(c)
      PROVE  OfficeInv'
  <2>1. UNCHANGED <<room, ksock, tgen, csock>>
    BY <1>16 DEF DataSocketEnds, rbrowser, rclient, rctl, rtask, rdata
  <2> QED
    BY <2>1, OfficeSame
<1>17. ASSUME NEW c \in Clients, DataUnregisters(c)
      PROVE  OfficeInv'
  <2>1. Loses(room, room')
    BY <1>17, RoomFacts, UnregisterDrops
  <2>2. UNCHANGED <<ksock, tgen, csock>>
    BY <1>17 DEF DataUnregisters, rbrowser, rclient, rctl, rtask, rdata
  <2> QED
    BY <2>1, <2>2, OfficeLost
<1>18. ASSUME NEW c \in Clients, DataTaskSeesEnd(c)
      PROVE  OfficeInv'
  <2>1. UNCHANGED <<room, ksock, tgen, csock>>
    BY <1>18 DEF DataTaskSeesEnd, rbrowser, rclient, rctl, rtask, rdata
  <2> QED
    BY <2>1, OfficeSame
<1>19. ASSUME NEW c \in Clients, ForwardTakes(c)
      PROVE  OfficeInv'
  <2>1. UNCHANGED <<room, ksock, tgen, csock>>
    BY <1>19 DEF ForwardTakes, rbrowser, rclient, rctl, rtask, rdata
  <2> QED
    BY <2>1, OfficeSame
<1>20. ASSUME NEW c \in Clients, ForwardSends(c)
      PROVE  OfficeInv'
  <2>1. UNCHANGED <<ksock, tgen, csock>>
    BY <1>20 DEF ForwardSends, rbrowser, rclient, rctl, rtask, rdata
  <2>2. CASE Loses(room, room')
    BY <2>1, <2>2, OfficeLost
  <2>3. CASE ~Loses(room, room')
    <3>1. room'.live = room.live /\ room'.control = room.control /\ room'.clients = room.clients /\ room'.data = room.data
      <4>1. room' = [room EXCEPT !.cq = [room.cq EXCEPT ![c] = Append(room.cq[c], fwd[c])]] /\ room \in RoomRec
        BY <2>3, <1>20, RoomFacts, ForwardOrDrops
      <4> QED
        BY <4>1 DEF RoomRec
    <3> QED
      BY <3>1, <2>1, OfficeSame
  <2> QED
    BY <2>2, <2>3
<1>21. ASSUME NEW c \in Clients, DaemonReads(c)
      PROVE  OfficeInv'
  <2>1. room'.live = room.live /\ room'.control = room.control /\ room'.clients = room.clients /\ room'.data = room.data
    BY <1>21, RoomFacts DEF DaemonReads, RoomRec
  <2>2. UNCHANGED <<ksock, tgen, csock>>
    BY <1>21 DEF DaemonReads, rbrowser, rclient, rctl, rtask, rdata
  <2> QED
    BY <2>1, <2>2, OfficeSame
<1>22. ASSUME NEW c \in Clients, DataReads(c)
      PROVE  OfficeInv'
  <2>1. UNCHANGED <<room, ksock, tgen, csock>>
    BY <1>22 DEF DataReads, rbrowser, rclient, rctl, rtask, rdata
  <2> QED
    BY <2>1, OfficeSame
<1>23. ASSUME NEW c \in Clients, DataTaskEnds(c)
      PROVE  OfficeInv'
  <2>1. UNCHANGED <<room, ksock, tgen, csock>>
    BY <1>23 DEF DataTaskEnds, rbrowser, rclient, rctl, rtask, rdata
  <2> QED
    BY <2>1, OfficeSame
<1>24. ASSUME NEW k \in Ctls, LinkCut(k)
      PROVE  OfficeInv'
  <2>1. UNCHANGED <<room, ksock, tgen, csock>>
    BY <1>24 DEF LinkCut, rbrowser, rclient, rctl, rtask, rdata
  <2> QED
    BY <2>1, OfficeSame
<1>25. ASSUME NEW k \in Ctls, RegistersControl(k)
      PROVE  OfficeInv'
  <2>1. room'.data = {} /\ room'.control = k
    BY <1>25, RoomFacts, RegistersControlDrops
  <2>2. ksock'[k] = "run" /\ k # 0
    BY <1>25 DEF RegistersControl, SideType, Ctls
  <2> QED
    BY <2>1, <2>2 DEF OfficeInv, PipesOfThisGeneration, EmptyRoomIsRemoved
<1>26. ASSUME NEW k \in Ctls, ControlWriterFails(k)
      PROVE  OfficeInv'
  <2>1. Loses(room, room')
    BY <1>26, RoomFacts, WriterFailsDrops
  <2>2. UNCHANGED <<ksock, tgen, csock>>
    BY <1>26 DEF ControlWriterFails, rbrowser, rclient, rctl, rtask, rdata
  <2> QED
    BY <2>1, <2>2, OfficeLost
<1>27. ASSUME NEW k \in Ctls, ControlEnds(k)
      PROVE  OfficeInv'
  <2>1. Loses(room, room') /\ (room'.live => ~EmptyRoom(room')) /\ room'.control # k
    BY <1>27, RoomFacts, ControlEndsDrops
  <2>2. ksock' = [ksock EXCEPT ![k] = "done"] /\ tgen' = tgen
    BY <1>27 DEF ControlEnds, rtask
  <2>3. \A j \in Ctls : j # k => ksock'[j] = ksock[j]
    BY <2>2 DEF SideType
  <2> QED
    BY <2>1, <2>2, <2>3, OfficeSwept
<1>28. ASSUME DaemonDials
      PROVE  OfficeInv'
  <2>1. UNCHANGED <<room, ksock, tgen, csock>>
    BY <1>28 DEF DaemonDials, rbrowser, rclient, rctl, rtask, rdata
  <2> QED
    BY <2>1, OfficeSame
<1>29. ASSUME DaemonLosesControl
      PROVE  OfficeInv'
  <2>1. UNCHANGED <<room, ksock, tgen, csock>>
    BY <1>29 DEF DaemonLosesControl, rbrowser, rclient, rctl, rtask, rdata
  <2> QED
    BY <2>1, OfficeSame
<1>30. ASSUME DaemonHandles
      PROVE  OfficeInv'
  <2> DEFINE m == Head(room.q[dctl])
  <2>1. room.q[dctl] \in Seq(RoomMsgs) /\ room.q[dctl] # <<>> /\ dctl \in Ctls /\ room \in RoomRec
    <3>1. dctl \in Ctls /\ room.q[dctl] # <<>>
      BY <1>30 DEF DaemonHandles, SideType
    <3>2. room.q \in [Ctls -> Seq(RoomMsgs)] /\ room \in RoomRec
      BY RoomFacts
    <3> QED
      BY <3>1, <3>2
  <2>2. m \in RoomMsgs /\ m = room.q[dctl][1] /\ 1 \in 1 .. Len(room.q[dctl])
    BY <2>1
  <2>3. m.c \in Clients /\ m.kind \in {"open", "gone"}
    BY <2>2 DEF RoomMsgs
  <2>4. m.kind = "open" => browser[m.c] # "new" /\ task[m.c] = "none"
    BY <2>1, <2>2 DEF OpensInv
  <2>5. room'.live = room.live /\ room'.control = room.control /\ room'.clients = room.clients /\ room'.data = room.data
    BY <1>30, <2>1 DEF DaemonHandles, RoomRec
  <2>6. /\ tgen' = [tgen EXCEPT ![m.c] = IF m.kind = "open" THEN dctl ELSE @]
        /\ UNCHANGED <<ksock, csock>>
    BY <1>30 DEF DaemonHandles, rctl, rclient
  <2> HIDE DEF m
  <2>7. \A d \in room.data : tgen'[d] = tgen[d]
    <3>1. m.kind = "open" => m.c \notin room.data
      BY <2>3, <2>4 DEF LifeInv
    <3>2. room.data \subseteq Clients
      BY RoomFacts
    <3> QED
      BY <3>1, <3>2, <2>3, <2>6 DEF SideType
  <2> QED
    BY <2>5, <2>6, <2>7 DEF OfficeInv, PipesOfThisGeneration, EmptyRoomIsRemoved
<1> QED
  BY <1>1, <1>2, <1>3, <1>4, <1>5, <1>6, <1>7, <1>8, <1>9, <1>10, <1>11, <1>12, <1>13, <1>14, <1>15, <1>16, <1>17, <1>18, <1>19, <1>20, <1>21, <1>22, <1>23, <1>24, <1>25, <1>26, <1>27, <1>28, <1>29, <1>30 DEF RelayNext, ClientStep, PipeStep, ForwardStep, ControlStep, DaemonStep

LEMMA UpMovesAt ==
  ASSUME SideType, RoomOK(room), LifeInv, NEW c \in Clients, UpAt(c)
  PROVE  UpMoved(got[c], room.dq[c], flushing[c], room.buf[c], hold[c], sent[c], c \in room.clients, c \in room.paired \ room.flush)
<1>1. /\ got[c] \in Seq(Nat) /\ flushing[c] \in Seq(Nat) /\ hold[c] \in [stage : {"none", "buffer", "send"}, frame : Nat]
      /\ sent[c] \in Nat
  BY DEF SideType
<1>2. room.dq[c] \in Seq(Nat) /\ room.buf[c] \in Seq(Nat)
  BY RoomFacts
<1>3. hold[c].stage = "none" => hold[c] = NoHold
  BY DEF LifeInv
<1> DEFINE in == c \in room.clients
           direct == c \in room.paired \ room.flush
<1>4. in \in BOOLEAN /\ direct \in BOOLEAN
  OBVIOUS
<1>5. UpOK(got[c], room.dq[c], flushing[c], room.buf[c], hold[c], sent[c], in, direct)
  BY DEF UpAt
<1> HIDE DEF in, direct
<1>6. UpMoved(got[c], room.dq[c], flushing[c], room.buf[c], hold[c], sent[c], in, direct)
  BY SMTT(30), <1>1, <1>2, <1>3, <1>4, <1>5, UpMoves
<1> QED
  BY <1>6 DEF in, direct

LEMMA UpLost ==
  ASSUME SideType, RoomOK(room), RoomOK(room'), LifeInv, Loses(room, room'), NEW c \in Clients, UpAt(c),
         got'[c] = got[c], flushing'[c] = flushing[c], hold'[c] = hold[c], sent'[c] = sent[c]
  PROVE  UpAt(c)'
<1>1. UpMoved(got[c], room.dq[c], flushing[c], room.buf[c], hold[c], sent[c], c \in room.clients, c \in room.paired \ room.flush)
  BY UpMovesAt
<1>2. /\ room'.dq = room.dq
      /\ \/ c \notin room'.clients /\ room'.buf[c] = <<>>
         \/ /\ room'.buf[c] = room.buf[c] /\ (c \in room'.clients <=> c \in room.clients)
            /\ (c \in room'.paired \ room'.flush <=> c \in room.paired \ room.flush)
  BY LosesGives
<1>3. CASE c \notin room'.clients /\ room'.buf[c] = <<>>
  <2>1. c \notin room'.paired \ room'.flush
    BY <1>3, RoomFacts
  <2> QED
    BY <2>1, <1>1, <1>2, <1>3 DEF UpAt, UpMoved, UpOK
<1>4. CASE /\ room'.buf[c] = room.buf[c] /\ (c \in room'.clients <=> c \in room.clients)
           /\ (c \in room'.paired \ room'.flush <=> c \in room.paired \ room.flush)
  BY <1>2, <1>4 DEF UpAt
<1> QED
  BY <1>2, <1>3, <1>4

LEMMA UpStep ==
  ASSUME UpInv, LifeInv, OpensInv, RoomOK(room), RoomOK(room'), SideType, RelayNext
  PROVE  UpInv'
<1>1. ASSUME NEW c \in Clients, BrowserConnects(c)
      PROVE  UpInv'
  <2>0. c \notin room.clients /\ sent[c] = 0 /\ hold[c] = NoHold
    BY <1>1 DEF BrowserConnects, LifeInv
  <2>1. UNCHANGED <<got, flushing, hold, sent, late>>
    BY <1>1 DEF BrowserConnects, rbrowser, rclient, rctl, rtask, rdata
  <2>2. CASE Loses(room, room')
    BY <2>1, <2>2, UpLost DEF UpInv
  <2>6. CASE ~Loses(room, room')
    <3>1. room'.clients = room.clients \cup {c} /\ room'.paired = room.paired /\ room'.flush = room.flush /\ room'.buf = room.buf /\ room'.dq = room.dq
      BY <1>1, <2>0, <2>6, JoinGives DEF RoomIs
    <3>s. SUFFICES ASSUME NEW d \in Clients \ late'
                  PROVE  UpAt(d)'
      BY DEF UpInv
    <3>3. UpAt(d)
      BY <2>1 DEF UpInv
    <3>m. UpMoved(got[d], room.dq[d], flushing[d], room.buf[d], hold[d], sent[d], d \in room.clients, d \in room.paired \ room.flush)
      BY <3>3, UpMovesAt
    <3>4. CASE d # c
      <4>1. d \in room'.clients <=> d \in room.clients
        BY <3>1, <3>4
      <4> QED
        BY <4>1, <3>1, <3>3, <2>1 DEF UpAt
    <3>5. CASE d = c
      <4>1. c \in room'.clients /\ c \notin room'.paired \ room'.flush
        BY <3>1, <2>0, RoomFacts
      <4> QED
        BY <4>1, <3>1, <3>5, <3>m, <2>0, <2>1 DEF UpAt, UpMoved, UpOK
    <3> QED
      BY <3>4, <3>5
  <2> QED
    BY <2>2, <2>6
<1>2. ASSUME NEW c \in Clients, BrowserLeaves(c)
      PROVE  UpInv'
  <2>1. UNCHANGED <<room, got, flushing, hold, sent, late>>
    BY <1>2 DEF BrowserLeaves, rbrowser, rclient, rctl, rtask, rdata
  <2> QED
    BY <2>1 DEF UpInv, UpAt
<1>3. ASSUME NEW c \in Clients, BrowserReads(c)
      PROVE  UpInv'
  <2>1. room'.buf = room.buf /\ room'.clients = room.clients /\ room'.paired = room.paired /\ room'.flush = room.flush /\ room'.dq = room.dq
    BY <1>3, RoomFacts DEF BrowserReads, RoomRec
  <2>2. UNCHANGED <<got, flushing, hold, sent, late>>
    BY <1>3 DEF BrowserReads, rbrowser, rclient, rctl, rtask, rdata
  <2> QED
    BY <2>1, <2>2 DEF UpInv, UpAt
<1>4. ASSUME NEW c \in Clients, PairDeadline(c)
      PROVE  UpInv'
  <2>1. Loses(room, room')
    BY <1>4, RoomFacts, DeadlineDrops
  <2>2. UNCHANGED <<got, flushing, hold, sent, late>>
    BY <1>4 DEF PairDeadline, rbrowser, rclient, rctl, rtask, rdata
  <2> QED
    BY <2>1, <2>2, UpLost DEF UpInv
<1>5. ASSUME NEW c \in Clients, ClientReads(c)
      PROVE  UpInv'
  <2>1. /\ sent' = [sent EXCEPT ![c] = @ + 1] /\ UNCHANGED <<room, got, flushing, late>> /\ hold[c] = NoHold
        /\ \A d \in Clients : d # c => hold'[d] = hold[d] /\ sent'[d] = sent[d]
    BY <1>5 DEF ClientReads, SideType, rctl, rtask, rdata
  <2>2. room.data = room.paired /\ room.paired \subseteq room.clients /\ (~room.live => room.clients = {})
    BY RoomFacts DEF Neat
  <2>3. \/ c \notin room.clients /\ hold'[c] = NoHold
        \/ c \in room.clients /\ c \notin room.paired \ room.flush /\ hold'[c] = [stage |-> "buffer", frame |-> sent[c] + 1]
        \/ c \in room.clients /\ c \in room.paired \ room.flush /\ hold'[c] = [stage |-> "send", frame |-> sent[c] + 1]
    <3> DEFINE stage == IF ~room.live \/ c \notin room.clients THEN "none"
                        ELSE IF c \in room.flush \/ c \notin room.paired THEN "buffer"
                        ELSE IF c \notin room.data THEN "none"
                        ELSE "send"
    <3>1. hold' = [hold EXCEPT ![c] = IF stage = "none" THEN NoHold ELSE [stage |-> stage, frame |-> sent[c] + 1]]
      BY <1>5 DEF ClientReads
    <3>2. hold'[c] = IF stage = "none" THEN NoHold ELSE [stage |-> stage, frame |-> sent[c] + 1]
      <4> HIDE DEF stage
      <4> QED
        BY <3>1 DEF SideType
    <3>3. CASE c \notin room.clients
      BY <3>2, <3>3
    <3>4. CASE c \in room.clients /\ c \notin room.paired \ room.flush
      <4>1. stage = "buffer"
        BY <3>4, <2>2
      <4> QED
        BY <4>1, <3>2, <3>4
    <3>5. CASE c \in room.clients /\ c \in room.paired \ room.flush
      <4>1. stage = "send"
        BY <3>5, <2>2
      <4> QED
        BY <4>1, <3>2, <3>5
    <3> QED
      BY <3>3, <3>4, <3>5
  <2>4. sent'[c] = sent[c] + 1
    BY <2>1 DEF SideType
  <2>s. SUFFICES ASSUME NEW d \in Clients \ late'
                PROVE  UpAt(d)'
    BY DEF UpInv
  <2>o. CASE d # c
    BY <2>o, <2>1 DEF UpInv, UpAt
  <2>c. CASE d = c
    <3>0. UpAt(c)
      BY <2>c, <2>1 DEF UpInv
    <3>1. UpMoved(got[c], room.dq[c], flushing[c], room.buf[c], hold[c], sent[c], c \in room.clients, c \in room.paired \ room.flush)
      BY <3>0, UpMovesAt
    <3>2. CASE c \notin room.clients /\ hold'[c] = NoHold
      <4>1. c \notin room.paired \ room.flush
        BY <3>2, <2>2
      <4> QED
        BY <4>1, <3>1, <3>2, <2>1, <2>4, <2>c DEF UpMoved, UpAt
    <3>3. CASE c \in room.clients /\ c \notin room.paired \ room.flush /\ hold'[c] = [stage |-> "buffer", frame |-> sent[c] + 1]
      BY <3>1, <3>3, <2>1, <2>4, <2>c DEF UpMoved, UpAt
    <3>4. CASE c \in room.clients /\ c \in room.paired \ room.flush /\ hold'[c] = [stage |-> "send", frame |-> sent[c] + 1]
      BY <3>1, <3>4, <2>1, <2>4, <2>c DEF UpMoved, UpAt
    <3> QED
      BY <3>2, <3>3, <3>4, <2>3
  <2> QED
    BY <2>o, <2>c
<1>6. ASSUME NEW c \in Clients, ClientBuffers(c)
      PROVE  UpInv'
  <2>1. hold' = [hold EXCEPT ![c] = NoHold] /\ UNCHANGED <<got, flushing, sent>> /\ late \subseteq late' /\ hold[c].stage = "buffer"
    BY <1>6 DEF ClientBuffers, rbrowser, rclient, rctl, rtask, rdata
  <2>2. hold'[c] = NoHold /\ (\A d \in Clients : d # c => hold'[d] = hold[d]) /\ hold[c].frame \in Nat
    BY <2>1 DEF SideType
  <2>s. SUFFICES ASSUME NEW d \in Clients \ late'
                PROVE  UpAt(d)'
    BY DEF UpInv
  <2>3. UpAt(d)
    BY <2>1 DEF UpInv
  <2>m. UpMoved(got[d], room.dq[d], flushing[d], room.buf[d], hold[d], sent[d], d \in room.clients, d \in room.paired \ room.flush)
    BY <2>3, UpMovesAt
  <2>4. CASE Loses(room, room') /\ c \notin room'.clients
    <3>1. CASE d # c
      BY <3>1, <2>1, <2>2, <2>3, <2>4, UpLost
    <3>2. CASE d = c
      <4>1. room'.buf[c] = <<>> /\ c \notin room'.paired /\ room'.dq = room.dq
        BY <2>4, LosesGives DEF Neat
      <4> QED
        BY ZenonT(40), <4>1, <3>2, <2>1, <2>2, <2>4, <2>m DEF UpAt, UpMoved, UpOK
    <3> QED
      BY <3>1, <3>2
  <2>5. CASE ~(Loses(room, room') /\ c \notin room'.clients)
    <3>1. /\ c \in room.clients /\ room'.clients = room.clients /\ room'.paired = room.paired /\ room'.flush = room.flush
          /\ room'.buf = [room.buf EXCEPT ![c] = Append(room.buf[c], hold[c].frame)] /\ room'.dq = room.dq
          /\ late' = IF c \in room.paired \ room.flush THEN late \cup {c} ELSE late
      BY <2>2, <2>5, <1>6, BufferGives DEF RoomIs
    <3>2. CASE d # c
      <4>1. room'.buf[d] = room.buf[d]
        BY <3>1, <3>2, RoomFacts
      <4> QED
        BY <4>1, <3>1, <3>2, <2>1, <2>2, <2>3 DEF UpAt
    <3>3. CASE d = c
      <4>1. room'.buf[c] = Append(room.buf[c], hold[c].frame)
        BY <3>1, RoomFacts
      <4>2. c \notin room.paired \ room.flush
        BY <3>1, <3>3
      <4> QED
        BY <4>1, <4>2, <3>1, <3>3, <2>1, <2>2, <2>m DEF UpAt, UpMoved, UpOK
    <3> QED
      BY <3>2, <3>3
  <2> QED
    BY <2>4, <2>5
<1>7. ASSUME NEW c \in Clients, ClientSends(c)
      PROVE  UpInv'
  <2>1. hold' = [hold EXCEPT ![c] = NoHold] /\ UNCHANGED <<got, flushing, sent, late>> /\ hold[c].stage = "send"
    BY <1>7 DEF ClientSends, rbrowser, rclient, rctl, rtask, rdata
  <2>2. hold'[c] = NoHold /\ (\A d \in Clients : d # c => hold'[d] = hold[d]) /\ hold[c].frame \in Nat
    BY <2>1 DEF SideType
  <2>s. SUFFICES ASSUME NEW d \in Clients \ late'
                PROVE  UpAt(d)'
    BY DEF UpInv
  <2>3. UpAt(d)
    BY <2>1 DEF UpInv
  <2>m. UpMoved(got[d], room.dq[d], flushing[d], room.buf[d], hold[d], sent[d], d \in room.clients, d \in room.paired \ room.flush)
    BY <2>3, UpMovesAt
  <2>4. CASE Loses(room, room') /\ (c \in room.data => c \notin room'.clients)
    <3>0. c \notin room'.clients
      BY <2>1, <2>4, LosesGives DEF LifeInv
    <3>1. CASE d # c
      BY <3>1, <2>1, <2>2, <2>3, <2>4, UpLost
    <3>2. CASE d = c
      <4>1. room'.buf[c] = <<>> /\ c \notin room'.paired /\ room'.dq = room.dq
        BY <2>4, <3>0, LosesGives DEF Neat
      <4> QED
        BY <4>1, <3>0, <3>2, <2>1, <2>2, <2>4, <2>m DEF UpAt, UpMoved, UpOK
    <3> QED
      BY <3>1, <3>2
  <2>5. CASE ~(Loses(room, room') /\ (c \in room.data => c \notin room'.clients))
    <3>0. room' = [room EXCEPT !.dq = [room.dq EXCEPT ![c] = Append(room.dq[c], hold[c].frame)]] /\ room \in RoomRec
      BY <2>5, <1>7, RoomFacts, SendsOrDrops
    <3>1. room'.buf = room.buf /\ room'.clients = room.clients /\ room'.paired = room.paired /\ room'.flush = room.flush /\ room'.dq = [room.dq EXCEPT ![c] = Append(room.dq[c], hold[c].frame)]
      BY <3>0 DEF RoomRec
    <3>2. CASE d # c
      <4>1. room'.dq[d] = room.dq[d]
        BY <3>1, <3>2, RoomFacts
      <4> QED
        BY <4>1, <3>1, <3>2, <2>1, <2>2, <2>3 DEF UpAt
    <3>3. CASE d = c
      <4>1. room'.dq[c] = Append(room.dq[c], hold[c].frame)
        BY <3>1, RoomFacts
      <4> QED
        BY <4>1, <3>1, <3>3, <2>1, <2>2, <2>m DEF UpAt, UpMoved
    <3> QED
      BY <3>2, <3>3
  <2> QED
    BY <2>4, <2>5
<1>8. ASSUME NEW c \in Clients, ClientEnds(c)
      PROVE  UpInv'
  <2>1. Loses(room, room')
    BY <1>8, RoomFacts, ClientEndsDrops
  <2>2. UNCHANGED <<got, flushing, hold, sent, late>>
    BY <1>8 DEF ClientEnds, rbrowser, rclient, rctl, rtask, rdata
  <2> QED
    BY <2>1, <2>2, UpLost DEF UpInv
<1>9. ASSUME NEW c \in Clients, DataHello(c)
      PROVE  UpInv'
  <2>1. UNCHANGED <<room, got, flushing, hold, sent, late>>
    BY <1>9 DEF DataHello, rbrowser, rclient, rctl, rtask, rdata
  <2> QED
    BY <2>1 DEF UpInv, UpAt
<1>10. ASSUME NEW c \in Clients, RegistersData(c)
      PROVE  UpInv'
  <2>1. UNCHANGED <<got, flushing, hold, sent, late>> /\ dnet[c] = "hello"
    BY <1>10 DEF RegistersData, rbrowser, rclient, rctl, rtask, rdata
  <2>f. flushing[c] = <<>>
    BY <2>1 DEF LifeInv
  <2>s. SUFFICES ASSUME NEW d \in Clients \ late'
                PROVE  UpAt(d)'
    BY DEF UpInv
  <2>3. UpAt(d)
    BY <2>1 DEF UpInv
  <2>m. UpMoved(got[d], room.dq[d], flushing[d], room.buf[d], hold[d], sent[d], d \in room.clients, d \in room.paired \ room.flush)
    BY <2>3, UpMovesAt
  <2>4. CASE ~DataAdmitted(c)
    <3>1. room' = room
      BY <1>10, <2>4 DEF RegistersData
    <3> QED
      BY <3>1, <2>1, <2>3 DEF UpAt
  <2>5. CASE DataAdmitted(c)
    <3>1. /\ room'.clients = room.clients /\ room'.paired = room.paired \cup {c} /\ room'.buf = room.buf /\ room'.dq = room.dq
          /\ (room.buf[c] = <<>> => room'.flush = room.flush \ {c}) /\ (room.buf[c] # <<>> => room'.flush = room.flush \cup {c})
      BY <1>10, <2>5, PairGives DEF RoomIs
    <3>2. CASE d # c
      <4>1. d \in room'.paired \ room'.flush <=> d \in room.paired \ room.flush
        BY <3>1, <3>2
      <4> QED
        BY <4>1, <3>1, <3>2, <2>1, <2>3 DEF UpAt
    <3>3. CASE d = c /\ room.buf[c] = <<>>
      <4>1. c \in room'.paired \ room'.flush
        BY <3>1, <3>3
      <4> QED
        BY <4>1, <3>1, <3>3, <2>1, <2>f, <2>m DEF UpAt, UpMoved
    <3>4. CASE d = c /\ room.buf[c] # <<>>
      <4>1. c \notin room'.paired \ room'.flush
        BY <3>1, <3>4
      <4> QED
        BY <4>1, <3>1, <3>4, <2>1, <2>f, <2>m DEF UpAt, UpMoved, UpOK
    <3> QED
      BY <3>2, <3>3, <3>4
  <2> QED
    BY <2>4, <2>5
<1>11. ASSUME NEW c \in Clients, DataReady(c)
      PROVE  UpInv'
  <2>1. UNCHANGED <<room, got, flushing, hold, sent, late>>
    BY <1>11 DEF DataReady, rbrowser, rclient, rctl, rtask, rdata
  <2> QED
    BY <2>1 DEF UpInv, UpAt
<1>12. ASSUME NEW c \in Clients, DataTimesOut(c)
      PROVE  UpInv'
  <2>1. UNCHANGED <<room, got, flushing, hold, sent, late>>
    BY <1>12 DEF DataTimesOut, rbrowser, rclient, rctl, rtask, rdata
  <2> QED
    BY <2>1 DEF UpInv, UpAt
<1>13. ASSUME NEW c \in Clients, FlushTakes(c)
      PROVE  UpInv'
  <2>1. UNCHANGED <<got, hold, sent, late>> /\ flushing[c] = <<>>
    BY <1>13 DEF FlushTakes, rbrowser, rclient, rctl, rtask, rdata
  <2>d. room.data = room.paired
    BY RoomFacts
  <2>s. SUFFICES ASSUME NEW d \in Clients \ late'
                PROVE  UpAt(d)'
    BY DEF UpInv
  <2>3. UpAt(d)
    BY <2>1 DEF UpInv
  <2>m. UpMoved(got[d], room.dq[d], flushing[d], room.buf[d], hold[d], sent[d], d \in room.clients, d \in room.paired \ room.flush)
    BY <2>3, UpMovesAt
  <2>4. CASE flushing' # flushing
    <3>1. /\ room.buf[c] # <<>> /\ room'.buf = [room.buf EXCEPT ![c] = <<>>] /\ room'.clients = room.clients
          /\ room'.paired = room.paired /\ room'.flush = room.flush /\ room'.dq = room.dq
          /\ flushing' = [flushing EXCEPT ![c] = room.buf[c]]
      BY <1>13, <2>4, FlushGives DEF RoomIs
    <3>2. flushing'[c] = room.buf[c] /\ \A e \in Clients : e # c => flushing'[e] = flushing[e]
      BY <3>1 DEF SideType
    <3>3. room'.buf[c] = <<>> /\ \A e \in Clients : e # c => room'.buf[e] = room.buf[e]
      BY <3>1, RoomFacts
    <3>4. CASE d # c
      BY <3>1, <3>2, <3>3, <3>4, <2>1, <2>3 DEF UpAt
    <3>5. CASE d = c
      BY <3>1, <3>2, <3>3, <3>5, <2>1, <2>m DEF UpAt, UpMoved
    <3> QED
      BY <3>4, <3>5
  <2>5. CASE flushing' = flushing
    <3>1. /\ c \notin room.paired \/ room.buf[c] = <<>>
          /\ room'.clients = room.clients /\ room'.paired = room.paired /\ room'.flush = room.flush \ {c}
          /\ room'.dq = room.dq /\ room'.buf = room.buf
      <4>1. CASE flushing = [flushing EXCEPT ![c] = room.buf[c]] /\ room.buf[c] # <<>>
        <5>1. flushing[c] = room.buf[c]
          BY <4>1 DEF SideType
        <5> QED
          BY <5>1, <4>1, <2>1
      <4>2. CASE ~(flushing = [flushing EXCEPT ![c] = room.buf[c]] /\ room.buf[c] # <<>>)
        BY <1>13, <4>2, <2>5, <2>d, FlushGives DEF RoomIs
      <4> QED
        BY <4>1, <4>2
    <3>2. CASE d # c
      BY <3>1, <3>2, <2>1, <2>3, <2>5 DEF UpAt
    <3>3. CASE d = c /\ c \in room.paired
      BY <3>1, <3>3, <2>1, <2>5, <2>m DEF UpAt, UpMoved
    <3>4. CASE d = c /\ c \notin room.paired
      BY <3>1, <3>4, <2>1, <2>3, <2>5 DEF UpAt
    <3> QED
      BY <3>2, <3>3, <3>4
  <2> QED
    BY <2>4, <2>5
<1>14. ASSUME NEW c \in Clients, FlushSends(c)
      PROVE  UpInv'
  <2>1. UNCHANGED <<got, hold, sent, late>> /\ flushing[c] # <<>>
    BY <1>14 DEF FlushSends, rbrowser, rclient, rctl, rtask, rdata
  <2>s. SUFFICES ASSUME NEW d \in Clients \ late'
                PROVE  UpAt(d)'
    BY DEF UpInv
  <2>3. UpAt(d)
    BY <2>1 DEF UpInv
  <2>m. UpMoved(got[d], room.dq[d], flushing[d], room.buf[d], hold[d], sent[d], d \in room.clients, d \in room.paired \ room.flush)
    BY <2>3, UpMovesAt
  <2>4. CASE Loses(room, room') /\ c \notin room'.clients /\ flushing' = [flushing EXCEPT ![c] = <<>>]
    <3>0. flushing'[c] = <<>> /\ \A e \in Clients : e # c => flushing'[e] = flushing[e]
      BY <2>4 DEF SideType
    <3>1. CASE d # c
      BY <3>0, <3>1, <2>1, <2>3, <2>4, UpLost
    <3>2. CASE d = c
      <4>1. room'.buf[c] = <<>> /\ c \notin room'.paired /\ room'.dq = room.dq
        BY <2>4, <3>0, LosesGives DEF Neat
      <4> QED
        BY <4>1, <3>0, <3>2, <2>1, <2>4, <2>m DEF UpAt, UpMoved, UpOK
    <3> QED
      BY <3>1, <3>2
  <2>5. CASE ~(Loses(room, room') /\ c \notin room'.clients /\ flushing' = [flushing EXCEPT ![c] = <<>>])
    <3>0. /\ room' = [room EXCEPT !.dq = [room.dq EXCEPT ![c] = Append(room.dq[c], Head(flushing[c]))]] /\ room \in RoomRec
          /\ flushing' = [flushing EXCEPT ![c] = Tail(flushing[c])]
      BY <2>5, <1>14, RoomFacts, FlushOrDrops
    <3>1. room'.buf = room.buf /\ room'.clients = room.clients /\ room'.paired = room.paired /\ room'.flush = room.flush /\ room'.dq = [room.dq EXCEPT ![c] = Append(room.dq[c], Head(flushing[c]))]
      BY <3>0 DEF RoomRec
    <3>f. flushing'[c] = Tail(flushing[c]) /\ \A e \in Clients : e # c => flushing'[e] = flushing[e]
      BY <3>0 DEF SideType
    <3>2. CASE d # c
      <4>1. room'.dq[d] = room.dq[d]
        BY <3>1, <3>2, RoomFacts
      <4> QED
        BY <4>1, <3>1, <3>2, <3>f, <2>1, <2>3 DEF UpAt
    <3>3. CASE d = c
      <4>1. room'.dq[c] = Append(room.dq[c], Head(flushing[c]))
        BY <3>1, RoomFacts
      <4> QED
        BY <4>1, <3>1, <3>3, <3>f, <2>1, <2>m DEF UpAt, UpMoved
    <3> QED
      BY <3>2, <3>3
  <2> QED
    BY <2>4, <2>5
<1>15. ASSUME NEW c \in Clients, DataWriterFails(c)
      PROVE  UpInv'
  <2>1. Loses(room, room')
    BY <1>15, RoomFacts, WriterFailsDrops
  <2>2. UNCHANGED <<got, flushing, hold, sent, late>>
    BY <1>15 DEF DataWriterFails, rbrowser, rclient, rctl, rtask, rdata
  <2> QED
    BY <2>1, <2>2, UpLost DEF UpInv
<1>16. ASSUME NEW c \in Clients, DataSocketEnds(c)
      PROVE  UpInv'
  <2>1. UNCHANGED <<room, got, flushing, hold, sent, late>>
    BY <1>16 DEF DataSocketEnds, rbrowser, rclient, rctl, rtask, rdata
  <2> QED
    BY <2>1 DEF UpInv, UpAt
<1>17. ASSUME NEW c \in Clients, DataUnregisters(c)
      PROVE  UpInv'
  <2>1. Loses(room, room')
    BY <1>17, RoomFacts, UnregisterDrops
  <2>2. UNCHANGED <<got, flushing, hold, sent, late>>
    BY <1>17 DEF DataUnregisters, rbrowser, rclient, rctl, rtask, rdata
  <2> QED
    BY <2>1, <2>2, UpLost DEF UpInv
<1>18. ASSUME NEW c \in Clients, DataTaskSeesEnd(c)
      PROVE  UpInv'
  <2>1. UNCHANGED <<room, got, flushing, hold, sent, late>>
    BY <1>18 DEF DataTaskSeesEnd, rbrowser, rclient, rctl, rtask, rdata
  <2> QED
    BY <2>1 DEF UpInv, UpAt
<1>19. ASSUME NEW c \in Clients, ForwardTakes(c)
      PROVE  UpInv'
  <2>1. UNCHANGED <<room, got, flushing, hold, sent, late>>
    BY <1>19 DEF ForwardTakes, rbrowser, rclient, rctl, rtask, rdata
  <2> QED
    BY <2>1 DEF UpInv, UpAt
<1>20. ASSUME NEW c \in Clients, ForwardSends(c)
      PROVE  UpInv'
  <2>2. UNCHANGED <<got, flushing, hold, sent, late>>
    BY <1>20 DEF ForwardSends, rbrowser, rclient, rctl, rtask, rdata
  <2>3. CASE Loses(room, room')
    BY <2>2, <2>3, UpLost DEF UpInv
  <2>4. CASE ~Loses(room, room')
    <3>1. room' = [room EXCEPT !.cq = [room.cq EXCEPT ![c] = Append(room.cq[c], fwd[c])]] /\ room \in RoomRec
      BY <2>4, <1>20, RoomFacts, ForwardOrDrops
    <3>2. room'.buf = room.buf /\ room'.clients = room.clients /\ room'.paired = room.paired /\ room'.flush = room.flush /\ room'.dq = room.dq
      BY <3>1 DEF RoomRec
    <3> QED
      BY <3>2, <2>2 DEF UpInv, UpAt
  <2> QED
    BY <2>3, <2>4
<1>21. ASSUME NEW c \in Clients, DaemonReads(c)
      PROVE  UpInv'
  <2>1. UNCHANGED <<flushing, hold, sent, late>> /\ room.dq[c] # <<>> /\ got' = [got EXCEPT ![c] = Append(@, Head(room.dq[c]))]
    BY <1>21 DEF DaemonReads, rbrowser, rclient, rctl, rtask, rdata
  <2>2. room'.buf = room.buf /\ room'.clients = room.clients /\ room'.paired = room.paired /\ room'.flush = room.flush /\ room'.dq = [room.dq EXCEPT ![c] = Tail(room.dq[c])]
    BY <1>21, RoomFacts DEF DaemonReads, RoomRec
  <2>g. got'[c] = Append(got[c], Head(room.dq[c])) /\ \A e \in Clients : e # c => got'[e] = got[e]
    BY <2>1 DEF SideType
  <2>s. SUFFICES ASSUME NEW d \in Clients \ late'
                PROVE  UpAt(d)'
    BY DEF UpInv
  <2>3. UpAt(d)
    BY <2>1 DEF UpInv
  <2>m. UpMoved(got[d], room.dq[d], flushing[d], room.buf[d], hold[d], sent[d], d \in room.clients, d \in room.paired \ room.flush)
    BY <2>3, UpMovesAt
  <2>4. CASE d # c
    <3>1. room'.dq[d] = room.dq[d]
      BY <2>2, <2>4, RoomFacts
    <3> QED
      BY <3>1, <2>1, <2>2, <2>3, <2>4, <2>g DEF UpAt
  <2>5. CASE d = c
    <3>1. room'.dq[c] = Tail(room.dq[c])
      BY <2>2, RoomFacts
    <3> QED
      BY <3>1, <2>1, <2>2, <2>5, <2>g, <2>m DEF UpAt, UpMoved
  <2> QED
    BY <2>4, <2>5
<1>22. ASSUME NEW c \in Clients, DataReads(c)
      PROVE  UpInv'
  <2>1. UNCHANGED <<room, got, flushing, hold, sent, late>>
    BY <1>22 DEF DataReads, rbrowser, rclient, rctl, rtask, rdata
  <2> QED
    BY <2>1 DEF UpInv, UpAt
<1>23. ASSUME NEW c \in Clients, DataTaskEnds(c)
      PROVE  UpInv'
  <2>1. UNCHANGED <<room, got, flushing, hold, sent, late>>
    BY <1>23 DEF DataTaskEnds, rbrowser, rclient, rctl, rtask, rdata
  <2> QED
    BY <2>1 DEF UpInv, UpAt
<1>24. ASSUME NEW k \in Ctls, LinkCut(k)
      PROVE  UpInv'
  <2>1. UNCHANGED <<room, got, flushing, hold, sent, late>>
    BY <1>24 DEF LinkCut, rbrowser, rclient, rctl, rtask, rdata
  <2> QED
    BY <2>1 DEF UpInv, UpAt
<1>25. ASSUME NEW k \in Ctls, RegistersControl(k)
      PROVE  UpInv'
  <2>1. UNCHANGED <<got, flushing, hold, sent, late>>
    BY <1>25 DEF RegistersControl, rbrowser, rclient, rctl, rtask, rdata
  <2>2. room'.clients = {} /\ room'.paired = {} /\ room'.dq = room.dq /\ \A d \in Clients : room'.buf[d] = <<>>
    BY <1>25, RoomFacts, RegistersControlDrops
  <2>s. SUFFICES ASSUME NEW d \in Clients \ late'
                PROVE  UpAt(d)'
    BY DEF UpInv
  <2>3. UpAt(d)
    BY <2>1 DEF UpInv
  <2>m. UpMoved(got[d], room.dq[d], flushing[d], room.buf[d], hold[d], sent[d], d \in room.clients, d \in room.paired \ room.flush)
    BY <2>3, UpMovesAt
  <2> QED
    BY <2>1, <2>2, <2>m DEF UpAt, UpMoved, UpOK
<1>26. ASSUME NEW k \in Ctls, ControlWriterFails(k)
      PROVE  UpInv'
  <2>1. Loses(room, room')
    BY <1>26, RoomFacts, WriterFailsDrops
  <2>2. UNCHANGED <<got, flushing, hold, sent, late>>
    BY <1>26 DEF ControlWriterFails, rbrowser, rclient, rctl, rtask, rdata
  <2> QED
    BY <2>1, <2>2, UpLost DEF UpInv
<1>27. ASSUME NEW k \in Ctls, ControlEnds(k)
      PROVE  UpInv'
  <2>1. Loses(room, room')
    BY <1>27, RoomFacts, ControlEndsDrops
  <2>2. UNCHANGED <<got, flushing, hold, sent, late>>
    BY <1>27 DEF ControlEnds, rbrowser, rclient, rctl, rtask, rdata
  <2> QED
    BY <2>1, <2>2, UpLost DEF UpInv
<1>28. ASSUME DaemonDials
      PROVE  UpInv'
  <2>1. UNCHANGED <<room, got, flushing, hold, sent, late>>
    BY <1>28 DEF DaemonDials, rbrowser, rclient, rctl, rtask, rdata
  <2> QED
    BY <2>1 DEF UpInv, UpAt
<1>29. ASSUME DaemonLosesControl
      PROVE  UpInv'
  <2>1. UNCHANGED <<room, got, flushing, hold, sent, late>>
    BY <1>29 DEF DaemonLosesControl, rbrowser, rclient, rctl, rtask, rdata
  <2> QED
    BY <2>1 DEF UpInv, UpAt
<1>30. ASSUME DaemonHandles
      PROVE  UpInv'
  <2>0. room \in RoomRec
    BY RoomFacts
  <2>1. room'.buf = room.buf /\ room'.clients = room.clients /\ room'.paired = room.paired /\ room'.flush = room.flush /\ room'.dq = room.dq
    BY <1>30, <2>0 DEF DaemonHandles, RoomRec
  <2>2. UNCHANGED <<got, flushing, hold, sent, late>>
    BY <1>30 DEF DaemonHandles, rbrowser, rclient, rctl, rtask, rdata
  <2> QED
    BY <2>1, <2>2 DEF UpInv, UpAt
<1> QED
  BY <1>1, <1>2, <1>3, <1>4, <1>5, <1>6, <1>7, <1>8, <1>9, <1>10, <1>11, <1>12, <1>13, <1>14, <1>15, <1>16, <1>17, <1>18, <1>19, <1>20, <1>21, <1>22, <1>23, <1>24, <1>25, <1>26, <1>27, <1>28, <1>29, <1>30 DEF RelayNext, ClientStep, PipeStep, ForwardStep, ControlStep, DaemonStep

LEMMA DownMovesAt ==
  ASSUME SideType, RoomOK(room), NEW c \in Clients, DownAt(c)
  PROVE  DownMoved(seen[c], room.cq[c], fwd[c], ingress[c], out[c], c \in room.data, dsock[c])
<1>1. seen[c] \in Seq(Nat) /\ fwd[c] \in Nat /\ ingress[c] \in Seq(Nat) /\ out[c] \in Nat
  BY DEF SideType
<1>2. room.cq[c] \in Seq(Nat)
  BY RoomFacts
<1> DEFINE in == c \in room.data
<1>4. in \in BOOLEAN
  OBVIOUS
<1>5. DownOK(seen[c], room.cq[c], fwd[c], ingress[c], out[c], in, dsock[c])
  BY DEF DownAt
<1> HIDE DEF in
<1>6. DownMoved(seen[c], room.cq[c], fwd[c], ingress[c], out[c], in, dsock[c])
  BY <1>1, <1>2, <1>4, <1>5, DownMoves
<1> QED
  BY <1>6 DEF in

LEMMA DownLost ==
  ASSUME SideType, RoomOK(room), RoomOK(room'), Loses(room, room'), NEW c \in Clients, DownAt(c),
         seen'[c] = seen[c], fwd'[c] = fwd[c], ingress'[c] = ingress[c], out'[c] = out[c], dsock'[c] = dsock[c]
  PROVE  DownAt(c)'
<1>1. DownMoved(seen[c], room.cq[c], fwd[c], ingress[c], out[c], c \in room.data, dsock[c])
  BY DownMovesAt
<1>2. room'.cq = room.cq /\ room'.data \subseteq room.data
  BY LosesGives
<1> QED
  BY <1>1, <1>2 DEF DownAt, DownMoved, DownOK

LEMMA DownStep ==
  ASSUME DownInv, LifeInv, OpensInv, RoomOK(room), RoomOK(room'), SideType, RelayNext
  PROVE  DownInv'
<1>1. ASSUME NEW c \in Clients, BrowserConnects(c)
      PROVE  DownInv'
  <2>2. UNCHANGED <<seen, fwd, ingress, out, dsock>>
    BY <1>1 DEF BrowserConnects, rbrowser, rclient, rctl, rtask, rdata
  <2>3. CASE Loses(room, room')
    BY <2>2, <2>3, DownLost DEF DownInv
  <2>4. CASE ~Loses(room, room')
    <3>1. room'.data = room.data /\ room'.cq = room.cq
      <4>1. c \notin room.clients
        BY <1>1 DEF BrowserConnects, LifeInv
      <4> QED
        BY <4>1, <2>4, <1>1, JoinGives, RoomFacts DEF RoomIs
    <3> QED
      BY <3>1, <2>2 DEF DownInv, DownAt
  <2> QED
    BY <2>3, <2>4
<1>2. ASSUME NEW c \in Clients, BrowserLeaves(c)
      PROVE  DownInv'
  <2>1. UNCHANGED <<room, seen, fwd, ingress, out, dsock>>
    BY <1>2 DEF BrowserLeaves, rbrowser, rclient, rctl, rtask, rdata
  <2> QED
    BY <2>1 DEF DownInv, DownAt
<1>3. ASSUME NEW c \in Clients, BrowserReads(c)
      PROVE  DownInv'
  <2>0. room \in RoomRec /\ room.cq \in [Clients -> Seq(Nat)]
    BY RoomFacts
  <2>1. room'.data = room.data /\ room'.cq = [room.cq EXCEPT ![c] = Tail(room.cq[c])] /\ room.cq[c] # <<>>
    BY <1>3, <2>0 DEF BrowserReads, RoomRec
  <2>2. UNCHANGED <<fwd, ingress, out, dsock>> /\ seen' = [seen EXCEPT ![c] = Append(@, Head(room.cq[c]))]
    BY <1>3 DEF BrowserReads, rbrowser, rclient, rctl, rtask, rdata
  <2>4. seen'[c] = Append(seen[c], Head(room.cq[c])) /\ \A e \in Clients : e # c => seen'[e] = seen[e]
    BY <2>2 DEF SideType
  <2>5. room'.cq[c] = Tail(room.cq[c]) /\ \A e \in Clients : e # c => room'.cq[e] = room.cq[e]
    BY <2>0, <2>1
  <2>s. SUFFICES ASSUME NEW d \in Clients
                PROVE  DownAt(d)'
    BY DEF DownInv
  <2>3. DownAt(d)
    BY DEF DownInv
  <2>m. DownMoved(seen[d], room.cq[d], fwd[d], ingress[d], out[d], d \in room.data, dsock[d])
    BY <2>3, DownMovesAt
  <2>6. CASE d # c
    BY <2>1, <2>2, <2>3, <2>4, <2>5, <2>6 DEF DownAt
  <2>7. CASE d = c
    BY <2>1, <2>2, <2>4, <2>5, <2>7, <2>m DEF DownAt, DownMoved
  <2> QED
    BY <2>6, <2>7
<1>4. ASSUME NEW c \in Clients, PairDeadline(c)
      PROVE  DownInv'
  <2>1. Loses(room, room')
    BY <1>4, RoomFacts, DeadlineDrops
  <2>2. UNCHANGED <<seen, fwd, ingress, out, dsock>>
    BY <1>4 DEF PairDeadline, rbrowser, rclient, rctl, rtask, rdata
  <2> QED
    BY <2>1, <2>2, DownLost DEF DownInv
<1>5. ASSUME NEW c \in Clients, ClientReads(c)
      PROVE  DownInv'
  <2>1. UNCHANGED <<room, seen, fwd, ingress, out, dsock>>
    BY <1>5 DEF ClientReads, rbrowser, rclient, rctl, rtask, rdata
  <2> QED
    BY <2>1 DEF DownInv, DownAt
<1>6. ASSUME NEW c \in Clients, ClientBuffers(c)
      PROVE  DownInv'
  <2>2. UNCHANGED <<seen, fwd, ingress, out, dsock>>
    BY <1>6 DEF ClientBuffers, rbrowser, rclient, rctl, rtask, rdata
  <2>3. CASE Loses(room, room')
    BY <2>2, <2>3, DownLost DEF DownInv
  <2>4. CASE ~Loses(room, room')
    <3>1. room'.data = room.data /\ room'.cq = room.cq
      <4>1. hold[c].frame \in Nat
        BY DEF SideType
      <4> QED
        BY <4>1, <2>4, <1>6, RoomFacts, BufferGives DEF RoomIs
    <3> QED
      BY <3>1, <2>2 DEF DownInv, DownAt
  <2> QED
    BY <2>3, <2>4
<1>7. ASSUME NEW c \in Clients, ClientSends(c)
      PROVE  DownInv'
  <2>2. UNCHANGED <<seen, fwd, ingress, out, dsock>>
    BY <1>7 DEF ClientSends, rbrowser, rclient, rctl, rtask, rdata
  <2>3. CASE Loses(room, room')
    BY <2>2, <2>3, DownLost DEF DownInv
  <2>4. CASE ~Loses(room, room')
    <3>1. room'.data = room.data /\ room'.cq = room.cq
      <4>1. room' = [room EXCEPT !.dq = [room.dq EXCEPT ![c] = Append(room.dq[c], hold[c].frame)]] /\ room \in RoomRec
        BY <2>4, <1>7, RoomFacts, SendsOrDrops
      <4> QED
        BY <4>1 DEF RoomRec
    <3> QED
      BY <3>1, <2>2 DEF DownInv, DownAt
  <2> QED
    BY <2>3, <2>4
<1>8. ASSUME NEW c \in Clients, ClientEnds(c)
      PROVE  DownInv'
  <2>1. Loses(room, room')
    BY <1>8, RoomFacts, ClientEndsDrops
  <2>2. UNCHANGED <<seen, fwd, ingress, out, dsock>>
    BY <1>8 DEF ClientEnds, rbrowser, rclient, rctl, rtask, rdata
  <2> QED
    BY <2>1, <2>2, DownLost DEF DownInv
<1>9. ASSUME NEW c \in Clients, DataHello(c)
      PROVE  DownInv'
  <2>1. UNCHANGED <<room, seen, fwd, ingress, out, dsock>>
    BY <1>9 DEF DataHello, rbrowser, rclient, rctl, rtask, rdata
  <2> QED
    BY <2>1 DEF DownInv, DownAt
<1>10. ASSUME NEW c \in Clients, RegistersData(c)
      PROVE  DownInv'
  <2>1. dnet[c] = "hello" /\ UNCHANGED <<seen, fwd, ingress, out>>
    BY <1>10 DEF RegistersData, rbrowser, rclient, rctl, rtask, rdata
  <2>2. dsock[c] = "none" /\ c \notin room.data
    BY <2>1 DEF LifeInv
  <2>s. SUFFICES ASSUME NEW d \in Clients
                PROVE  DownAt(d)'
    BY DEF DownInv
  <2>3. DownAt(d)
    BY DEF DownInv
  <2>m. DownMoved(seen[d], room.cq[d], fwd[d], ingress[d], out[d], d \in room.data, dsock[d])
    BY <2>3, DownMovesAt
  <2>4. CASE DataAdmitted(c)
    <3>1. room'.data = room.data \cup {c} /\ room'.cq = room.cq
      BY <1>10, <2>4, PairGives, RoomFacts DEF RoomIs
    <3>2. dsock' = [dsock EXCEPT ![c] = "bind"]
      BY <1>10, <2>4 DEF RegistersData
    <3>3. dsock'[c] = "bind" /\ \A e \in Clients : e # c => dsock'[e] = dsock[e]
      BY <3>2 DEF SideType
    <3>4. CASE d # c
      BY <3>1, <3>3, <3>4, <2>1, <2>3 DEF DownAt, DownOK
    <3>5. CASE d = c
      BY <3>1, <3>3, <3>5, <2>1, <2>2, <2>m DEF DownAt, DownMoved, DownOK
    <3> QED
      BY <3>4, <3>5
  <2>5. CASE ~DataAdmitted(c)
    <3>1. room' = room /\ dsock' = [dsock EXCEPT ![c] = "done"]
      BY <1>10, <2>5 DEF RegistersData
    <3>3. dsock'[c] = "done" /\ \A e \in Clients : e # c => dsock'[e] = dsock[e]
      BY <3>1 DEF SideType
    <3>4. CASE d # c
      BY <3>1, <3>3, <3>4, <2>1, <2>3 DEF DownAt
    <3>5. CASE d = c
      BY <3>1, <3>3, <3>5, <2>1, <2>2, <2>m DEF DownAt, DownMoved
    <3> QED
      BY <3>4, <3>5
  <2> QED
    BY <2>4, <2>5
<1>11. ASSUME NEW c \in Clients, DataReady(c)
      PROVE  DownInv'
  <2>1. room'.data = room.data /\ room'.cq = room.cq
    BY <1>11 DEF DataReady
  <2>2. UNCHANGED <<seen, fwd, ingress, out>>
    BY <1>11 DEF DataReady, rbrowser, rclient, rctl, rtask, rdata
  <2>4. /\ dsock[c] # "none" /\ dsock'[c] # "none" /\ (dsock'[c] = "drain" \/ dsock[c] # "drain")
        /\ \A e \in Clients : e # c => dsock'[e] = dsock[e]
    <3>1. dsock[c] = "bind" /\ dsock' \in {[dsock EXCEPT ![c] = "flush"], [dsock EXCEPT ![c] = "drain"]}
      BY <1>11 DEF DataReady
    <3> QED
      BY <3>1 DEF SideType
  <2>s. SUFFICES ASSUME NEW d \in Clients
                PROVE  DownAt(d)'
    BY DEF DownInv
  <2>3. DownAt(d)
    BY DEF DownInv
  <2>m. DownMoved(seen[d], room.cq[d], fwd[d], ingress[d], out[d], d \in room.data, dsock[d])
    BY <2>3, DownMovesAt
  <2>6. CASE d # c
    BY <2>1, <2>2, <2>3, <2>4, <2>6 DEF DownAt
  <2>7. CASE d = c
    BY <2>1, <2>2, <2>4, <2>7, <2>m DEF DownAt, DownMoved
  <2> QED
    BY <2>6, <2>7
<1>12. ASSUME NEW c \in Clients, DataTimesOut(c)
      PROVE  DownInv'
  <2>1. UNCHANGED <<room, seen, fwd, ingress, out, dsock>>
    BY <1>12 DEF DataTimesOut, rbrowser, rclient, rctl, rtask, rdata
  <2> QED
    BY <2>1 DEF DownInv, DownAt
<1>13. ASSUME NEW c \in Clients, FlushTakes(c)
      PROVE  DownInv'
  <2>1. room'.data = room.data /\ room'.cq = room.cq
    BY <1>13, FlushGives, RoomFacts DEF RoomIs
  <2>2. UNCHANGED <<seen, fwd, ingress, out>>
    BY <1>13 DEF FlushTakes, rbrowser, rclient, rctl, rtask, rdata
  <2>4. /\ dsock[c] # "none" /\ dsock'[c] # "none" /\ (dsock'[c] = "drain" \/ dsock[c] # "drain")
        /\ \A e \in Clients : e # c => dsock'[e] = dsock[e]
    <3>1. dsock[c] = "flush" /\ dsock' \in {dsock, [dsock EXCEPT ![c] = "run"]}
      BY <1>13 DEF FlushTakes
    <3> QED
      BY <3>1 DEF SideType
  <2>s. SUFFICES ASSUME NEW d \in Clients
                PROVE  DownAt(d)'
    BY DEF DownInv
  <2>3. DownAt(d)
    BY DEF DownInv
  <2>m. DownMoved(seen[d], room.cq[d], fwd[d], ingress[d], out[d], d \in room.data, dsock[d])
    BY <2>3, DownMovesAt
  <2>6. CASE d # c
    BY <2>1, <2>2, <2>3, <2>4, <2>6 DEF DownAt
  <2>7. CASE d = c
    BY <2>1, <2>2, <2>4, <2>7, <2>m DEF DownAt, DownMoved
  <2> QED
    BY <2>6, <2>7
<1>14. ASSUME NEW c \in Clients, FlushSends(c)
      PROVE  DownInv'
  <2>2. UNCHANGED <<seen, fwd, ingress, out, dsock>>
    BY <1>14 DEF FlushSends, rbrowser, rclient, rctl, rtask, rdata
  <2>3. CASE Loses(room, room')
    BY <2>2, <2>3, DownLost DEF DownInv
  <2>4. CASE ~Loses(room, room')
    <3>1. room'.data = room.data /\ room'.cq = room.cq
      <4>1. room' = [room EXCEPT !.dq = [room.dq EXCEPT ![c] = Append(room.dq[c], Head(flushing[c]))]] /\ room \in RoomRec
        BY <2>4, <1>14, RoomFacts, FlushOrDrops
      <4> QED
        BY <4>1 DEF RoomRec
    <3> QED
      BY <3>1, <2>2 DEF DownInv, DownAt
  <2> QED
    BY <2>3, <2>4
<1>15. ASSUME NEW c \in Clients, DataWriterFails(c)
      PROVE  DownInv'
  <2>1. Loses(room, room')
    BY <1>15, RoomFacts, WriterFailsDrops
  <2>2. UNCHANGED <<seen, fwd, ingress, out, dsock>>
    BY <1>15 DEF DataWriterFails, rbrowser, rclient, rctl, rtask, rdata
  <2> QED
    BY <2>1, <2>2, DownLost DEF DownInv
<1>16. ASSUME NEW c \in Clients, DataSocketEnds(c)
      PROVE  DownInv'
  <2>1. room'.data = room.data /\ room'.cq = room.cq
    BY <1>16 DEF DataSocketEnds
  <2>2. UNCHANGED <<seen, fwd, ingress, out>>
    BY <1>16 DEF DataSocketEnds, rbrowser, rclient, rctl, rtask, rdata
  <2>4. /\ dsock[c] # "none" /\ dsock'[c] # "none" /\ (dsock'[c] = "drain" \/ dsock[c] # "drain")
        /\ \A e \in Clients : e # c => dsock'[e] = dsock[e]
    BY <1>16 DEF DataSocketEnds, SideType
  <2>s. SUFFICES ASSUME NEW d \in Clients
                PROVE  DownAt(d)'
    BY DEF DownInv
  <2>3. DownAt(d)
    BY DEF DownInv
  <2>m. DownMoved(seen[d], room.cq[d], fwd[d], ingress[d], out[d], d \in room.data, dsock[d])
    BY <2>3, DownMovesAt
  <2>6. CASE d # c
    BY <2>1, <2>2, <2>3, <2>4, <2>6 DEF DownAt
  <2>7. CASE d = c
    BY <2>1, <2>2, <2>4, <2>7, <2>m DEF DownAt, DownMoved
  <2> QED
    BY <2>6, <2>7
<1>17. ASSUME NEW c \in Clients, DataUnregisters(c)
      PROVE  DownInv'
  <2>1. Loses(room, room') /\ c \notin room'.data
    BY <1>17, RoomFacts, UnregisterDrops
  <2>2. /\ dsock[c] = "drain" /\ dsock' = [dsock EXCEPT ![c] = "done"] /\ ingress' = [ingress EXCEPT ![c] = <<>>]
        /\ fwd' = [fwd EXCEPT ![c] = 0] /\ UNCHANGED <<seen, out>>
    BY <1>17 DEF DataUnregisters, rbrowser, rclient, rctl, rtask, rdata
  <2>4. /\ dsock'[c] = "done" /\ ingress'[c] = <<>> /\ fwd'[c] = 0
        /\ \A e \in Clients : e # c => dsock'[e] = dsock[e] /\ ingress'[e] = ingress[e] /\ fwd'[e] = fwd[e]
    BY <2>2 DEF SideType
  <2>5. room'.cq = room.cq
    BY <2>1, LosesGives
  <2>s. SUFFICES ASSUME NEW d \in Clients
                PROVE  DownAt(d)'
    BY DEF DownInv
  <2>3. DownAt(d)
    BY DEF DownInv
  <2>m. DownMoved(seen[d], room.cq[d], fwd[d], ingress[d], out[d], d \in room.data, dsock[d])
    BY <2>3, DownMovesAt
  <2>6. CASE d # c
    BY <2>1, <2>2, <2>3, <2>4, <2>6, DownLost
  <2>7. CASE d = c
    BY <2>1, <2>2, <2>4, <2>5, <2>7, <2>m DEF DownAt, DownMoved, DownOK
  <2> QED
    BY <2>6, <2>7
<1>18. ASSUME NEW c \in Clients, DataTaskSeesEnd(c)
      PROVE  DownInv'
  <2>1. UNCHANGED <<room, seen, fwd, ingress, out, dsock>>
    BY <1>18 DEF DataTaskSeesEnd, rbrowser, rclient, rctl, rtask, rdata
  <2> QED
    BY <2>1 DEF DownInv, DownAt
<1>19. ASSUME NEW c \in Clients, ForwardTakes(c)
      PROVE  DownInv'
  <2>0. room.data = room.paired /\ (~room.live => room.data = {})
    BY RoomFacts DEF Neat
  <2>1. /\ fwd[c] = 0 /\ ingress[c] # <<>> /\ ingress' = [ingress EXCEPT ![c] = Tail(@)] /\ UNCHANGED <<room, seen, out, dsock>>
        /\ fwd' = [fwd EXCEPT ![c] = IF room.live /\ c \in room.data \cap room.paired THEN Head(ingress[c]) ELSE 0]
    BY <1>19 DEF ForwardTakes, rbrowser, rclient, rctl, rtask, rdata
  <2>2. /\ ingress'[c] = Tail(ingress[c]) /\ (\A e \in Clients : e # c => fwd'[e] = fwd[e] /\ ingress'[e] = ingress[e])
        /\ fwd'[c] = IF c \in room.data THEN Head(ingress[c]) ELSE 0
    BY <2>0, <2>1 DEF SideType
  <2>s. SUFFICES ASSUME NEW d \in Clients
                PROVE  DownAt(d)'
    BY DEF DownInv
  <2>3. DownAt(d)
    BY DEF DownInv
  <2>m. DownMoved(seen[d], room.cq[d], fwd[d], ingress[d], out[d], d \in room.data, dsock[d])
    BY <2>3, DownMovesAt
  <2>4. CASE d # c
    BY <2>1, <2>2, <2>3, <2>4 DEF DownAt
  <2>5. CASE d = c
    BY <2>1, <2>2, <2>5, <2>m DEF DownAt, DownMoved
  <2> QED
    BY <2>4, <2>5
<1>20. ASSUME NEW c \in Clients, ForwardSends(c)
      PROVE  DownInv'
  <2>1. fwd[c] # 0 /\ fwd' = [fwd EXCEPT ![c] = 0] /\ UNCHANGED <<seen, ingress, out, dsock>>
    BY <1>20 DEF ForwardSends, rbrowser, rclient, rctl, rtask, rdata
  <2>2. fwd'[c] = 0 /\ \A e \in Clients : e # c => fwd'[e] = fwd[e]
    BY <2>1 DEF SideType
  <2>s. SUFFICES ASSUME NEW d \in Clients
                PROVE  DownAt(d)'
    BY DEF DownInv
  <2>3. DownAt(d)
    BY DEF DownInv
  <2>m. DownMoved(seen[d], room.cq[d], fwd[d], ingress[d], out[d], d \in room.data, dsock[d])
    BY <2>3, DownMovesAt
  <2>4. CASE Loses(room, room') /\ c \notin room'.clients
    <3>1. CASE d # c
      BY <3>1, <2>1, <2>2, <2>3, <2>4, DownLost
    <3>2. CASE d = c
      <4>1. c \notin room'.data /\ room'.cq = room.cq
        BY <2>4, LosesGives DEF Neat
      <4> QED
        BY <4>1, <3>2, <2>1, <2>2, <2>m DEF DownAt, DownMoved, DownOK
    <3> QED
      BY <3>1, <3>2
  <2>5. CASE ~(Loses(room, room') /\ c \notin room'.clients)
    <3>0. room' = [room EXCEPT !.cq = [room.cq EXCEPT ![c] = Append(room.cq[c], fwd[c])]] /\ room \in RoomRec
          /\ room.cq \in [Clients -> Seq(Nat)]
      BY <2>5, <1>20, RoomFacts, ForwardOrDrops
    <3>1. room'.data = room.data /\ room'.cq = [room.cq EXCEPT ![c] = Append(room.cq[c], fwd[c])]
      BY <3>0 DEF RoomRec
    <3>2. room'.cq[c] = Append(room.cq[c], fwd[c]) /\ \A e \in Clients : e # c => room'.cq[e] = room.cq[e]
      BY <3>0, <3>1
    <3>3. CASE d # c
      BY <3>1, <3>2, <3>3, <2>1, <2>2, <2>3 DEF DownAt
    <3>4. CASE d = c
      BY <3>1, <3>2, <3>4, <2>1, <2>2, <2>m DEF DownAt, DownMoved
    <3> QED
      BY <3>3, <3>4
  <2> QED
    BY <2>4, <2>5
<1>21. ASSUME NEW c \in Clients, DaemonReads(c)
      PROVE  DownInv'
  <2>1. room'.data = room.data /\ room'.cq = room.cq
    BY <1>21, RoomFacts DEF DaemonReads, RoomRec
  <2>2. UNCHANGED <<seen, fwd, ingress, out, dsock>>
    BY <1>21 DEF DaemonReads, rbrowser, rclient, rctl, rtask, rdata
  <2> QED
    BY <2>1, <2>2 DEF DownInv, DownAt
<1>22. ASSUME NEW c \in Clients, DataReads(c)
      PROVE  DownInv'
  <2>1. dsock[c] = "run" /\ out' = [out EXCEPT ![c] = @ + 1] /\ UNCHANGED <<room, seen, fwd>>
    BY <1>22 DEF DataReads, rbrowser, rclient, rctl, rtask, rdata
  <2>2. \/ ingress' = [ingress EXCEPT ![c] = Append(@, out[c] + 1)] /\ dsock' = dsock
        \/ ingress' = ingress /\ dsock' = [dsock EXCEPT ![c] = "drain"]
    BY <1>22 DEF DataReads
  <2>4. out'[c] = out[c] + 1 /\ \A e \in Clients : e # c => out'[e] = out[e] /\ ingress'[e] = ingress[e] /\ dsock'[e] = dsock[e]
    BY <2>1, <2>2 DEF SideType
  <2>5. \/ ingress'[c] = Append(ingress[c], out[c] + 1) /\ dsock'[c] = dsock[c]
        \/ ingress'[c] = ingress[c] /\ dsock'[c] = "drain"
    BY <2>2 DEF SideType
  <2>s. SUFFICES ASSUME NEW d \in Clients
                PROVE  DownAt(d)'
    BY DEF DownInv
  <2>3. DownAt(d)
    BY DEF DownInv
  <2>m. DownMoved(seen[d], room.cq[d], fwd[d], ingress[d], out[d], d \in room.data, dsock[d])
    BY <2>3, DownMovesAt
  <2>6. CASE d # c
    BY <2>1, <2>3, <2>4, <2>6 DEF DownAt
  <2>7. CASE d = c
    BY <2>1, <2>4, <2>5, <2>7, <2>m DEF DownAt, DownMoved
  <2> QED
    BY <2>6, <2>7
<1>23. ASSUME NEW c \in Clients, DataTaskEnds(c)
      PROVE  DownInv'
  <2>1. UNCHANGED <<room, seen, fwd, ingress, out, dsock>>
    BY <1>23 DEF DataTaskEnds, rbrowser, rclient, rctl, rtask, rdata
  <2> QED
    BY <2>1 DEF DownInv, DownAt
<1>24. ASSUME NEW k \in Ctls, LinkCut(k)
      PROVE  DownInv'
  <2>1. UNCHANGED <<room, seen, fwd, ingress, out, dsock>>
    BY <1>24 DEF LinkCut, rbrowser, rclient, rctl, rtask, rdata
  <2> QED
    BY <2>1 DEF DownInv, DownAt
<1>25. ASSUME NEW k \in Ctls, RegistersControl(k)
      PROVE  DownInv'
  <2>1. room'.data = {} /\ room'.cq = room.cq
    BY <1>25, RoomFacts, RegistersControlDrops
  <2>2. UNCHANGED <<seen, fwd, ingress, out, dsock>>
    BY <1>25 DEF RegistersControl, rbrowser, rclient, rctl, rtask, rdata
  <2>s. SUFFICES ASSUME NEW d \in Clients
                PROVE  DownAt(d)'
    BY DEF DownInv
  <2>3. DownAt(d)
    BY DEF DownInv
  <2>m. DownMoved(seen[d], room.cq[d], fwd[d], ingress[d], out[d], d \in room.data, dsock[d])
    BY <2>3, DownMovesAt
  <2> QED
    BY <2>1, <2>2, <2>m DEF DownAt, DownMoved, DownOK
<1>26. ASSUME NEW k \in Ctls, ControlWriterFails(k)
      PROVE  DownInv'
  <2>1. Loses(room, room')
    BY <1>26, RoomFacts, WriterFailsDrops
  <2>2. UNCHANGED <<seen, fwd, ingress, out, dsock>>
    BY <1>26 DEF ControlWriterFails, rbrowser, rclient, rctl, rtask, rdata
  <2> QED
    BY <2>1, <2>2, DownLost DEF DownInv
<1>27. ASSUME NEW k \in Ctls, ControlEnds(k)
      PROVE  DownInv'
  <2>1. Loses(room, room')
    BY <1>27, RoomFacts, ControlEndsDrops
  <2>2. UNCHANGED <<seen, fwd, ingress, out, dsock>>
    BY <1>27 DEF ControlEnds, rbrowser, rclient, rctl, rtask, rdata
  <2> QED
    BY <2>1, <2>2, DownLost DEF DownInv
<1>28. ASSUME DaemonDials
      PROVE  DownInv'
  <2>1. UNCHANGED <<room, seen, fwd, ingress, out, dsock>>
    BY <1>28 DEF DaemonDials, rbrowser, rclient, rctl, rtask, rdata
  <2> QED
    BY <2>1 DEF DownInv, DownAt
<1>29. ASSUME DaemonLosesControl
      PROVE  DownInv'
  <2>1. UNCHANGED <<room, seen, fwd, ingress, out, dsock>>
    BY <1>29 DEF DaemonLosesControl, rbrowser, rclient, rctl, rtask, rdata
  <2> QED
    BY <2>1 DEF DownInv, DownAt
<1>30. ASSUME DaemonHandles
      PROVE  DownInv'
  <2>0. room \in RoomRec
    BY RoomFacts
  <2>1. room'.data = room.data /\ room'.cq = room.cq
    BY <1>30, <2>0 DEF DaemonHandles, RoomRec
  <2>2. UNCHANGED <<seen, fwd, ingress, out, dsock>>
    BY <1>30 DEF DaemonHandles, rbrowser, rclient, rctl, rtask, rdata
  <2> QED
    BY <2>1, <2>2 DEF DownInv, DownAt
<1> QED
  BY <1>1, <1>2, <1>3, <1>4, <1>5, <1>6, <1>7, <1>8, <1>9, <1>10, <1>11, <1>12, <1>13, <1>14, <1>15, <1>16, <1>17, <1>18, <1>19, <1>20, <1>21, <1>22, <1>23, <1>24, <1>25, <1>26, <1>27, <1>28, <1>29, <1>30 DEF RelayNext, ClientStep, PipeStep, ForwardStep, ControlStep, DaemonStep

----------------------------------------------------------------------------
(* Sums over the clients.  A set of naturals has a least element, which   *)
(* stands in for induction.                                                *)
LEMMA LeastNat ==
  ASSUME NEW T \in SUBSET Nat, T # {}
  PROVE  \E m \in T : \A k \in T : m <= k
<1>1. IsWellFoundedOn(OpToRel(<, Nat), Nat)
  BY NatLessThanWellFounded
<1>2. PICK m \in T : \A k \in T : ~(<<k, m>> \in OpToRel(<, Nat))
  BY <1>1, WFMin
<1>3. m \in Nat /\ \A k \in T : k \in Nat /\ ~(k < m)
  BY <1>2 DEF OpToRel
<1> QED
  BY <1>3

(* A finite set with a property the empty set has not has a least one.     *)
LEMMA LeastSet ==
  ASSUME NEW U, IsFiniteSet(U), NEW W \in SUBSET (SUBSET U), W # {}
  PROVE  \E S \in W : IsFiniteSet(S) /\ \A x \in S : S \ {x} \notin W
<1> DEFINE T == {Cardinality(S) : S \in W}
<1>1. \A S \in W : IsFiniteSet(S) /\ Cardinality(S) \in Nat
  BY FS_Subset, FS_CardinalityType
<1>2. T \in SUBSET Nat /\ T # {}
  BY <1>1
<1>3. PICK n \in T : \A k \in T : n <= k
  BY <1>2, LeastNat
<1>4. PICK S \in W : Cardinality(S) = n
  BY <1>3
<1>5. ASSUME NEW x \in S, S \ {x} \in W
      PROVE  FALSE
  <2>1. Cardinality(S \ {x}) = Cardinality(S) - 1
    BY <1>1, FS_RemoveElement
  <2>2. n <= Cardinality(S \ {x})
    BY <1>3, <1>5
  <2> QED
    BY <1>1, <1>4, <2>1, <2>2
<1> QED
  BY <1>1, <1>5

(* The frames the clients in S have in the buffers b. *)
HeldOf(b, S) == {p \in S \X Nat : p[2] \in 1 .. Len(b[p[1]])}

LEMMA HeldOfOne ==
  ASSUME NEW b \in [Clients -> Seq(Nat)], NEW S \in SUBSET Clients, NEW c \in S
  PROVE  /\ IsFiniteSet(HeldOf(b, {c})) /\ Cardinality(HeldOf(b, {c})) = Len(b[c])
         /\ HeldOf(b, S) = HeldOf(b, S \ {c}) \cup HeldOf(b, {c})
         /\ HeldOf(b, S \ {c}) \cap HeldOf(b, {c}) = {}
<1> DEFINE r == [buf |-> b, clients |-> {c}]
<1>1. r.buf = b /\ r.clients = {c} /\ Held(r) = HeldOf(b, {c})
  BY DEF Held, HeldOf
<1> HIDE DEF r
<1>2. Len(b[c]) \in Nat
  OBVIOUS
<1>3. {p \in Held(r) : p[1] = c} = HeldOf(b, {c})
  BY <1>1 DEF HeldOf
<1>4. IsFiniteSet({p \in Held(r) : p[1] = c}) /\ Cardinality({p \in Held(r) : p[1] = c}) = Len(b[c])
  BY <1>1, <1>2, HeldBy
<1>5. HeldOf(b, S) = HeldOf(b, S \ {c}) \cup HeldOf(b, {c})
  BY DEF HeldOf
<1>6. HeldOf(b, S \ {c}) \cap HeldOf(b, {c}) = {}
  BY DEF HeldOf
<1> QED
  BY <1>3, <1>4, <1>5, <1>6

LEMMA HeldOfFinite ==
  ASSUME NEW b \in [Clients -> Seq(Nat)], NEW S \in SUBSET Clients
  PROVE  IsFiniteSet(HeldOf(b, S)) /\ Cardinality(HeldOf(b, S)) \in Nat
<1> DEFINE W == {X \in SUBSET Clients : ~IsFiniteSet(HeldOf(b, X))}
<1>1. ASSUME W # {} PROVE FALSE
  <2>1. IsFiniteSet(Clients)
    BY RelayRoomAssumption
  <2>2. PICK X \in W : IsFiniteSet(X) /\ \A x \in X : X \ {x} \notin W
    BY <1>1, <2>1, LeastSet
  <2>3. X \in SUBSET Clients /\ ~IsFiniteSet(HeldOf(b, X))
    BY <2>2
  <2>4. \A x \in X : IsFiniteSet(HeldOf(b, X \ {x}))
    BY <2>2, <2>3
  <2> HIDE DEF W
  <2>5. CASE X = {}
    <3>1. HeldOf(b, X) = {}
      BY <2>5 DEF HeldOf
    <3> QED
      BY <2>3, <3>1, FS_EmptySet
  <2>6. CASE X # {}
    <3>1. PICK c : c \in X
      BY <2>6
    <3> DEFINE A == HeldOf(b, X \ {c})
               B == HeldOf(b, {c})
    <3>2. IsFiniteSet(A)
      BY <2>4, <3>1
    <3>3. IsFiniteSet(B) /\ HeldOf(b, X) = A \cup B
      BY <2>3, <3>1, HeldOfOne
    <3> HIDE DEF A, B
    <3>4. IsFiniteSet(A \cup B)
      BY <3>2, <3>3, FS_Union
    <3> QED
      BY <2>3, <3>3, <3>4
  <2> QED
    BY <2>5, <2>6
<1>2. IsFiniteSet(HeldOf(b, S))
  BY <1>1
<1> QED
  BY <1>2, FS_CardinalityType

LEMMA HeldOfStep ==
  ASSUME NEW b \in [Clients -> Seq(Nat)], NEW S \in SUBSET Clients, NEW c \in S
  PROVE  Cardinality(HeldOf(b, S)) = Len(b[c]) + Cardinality(HeldOf(b, S \ {c}))
<1> DEFINE A == HeldOf(b, S \ {c})
           B == HeldOf(b, {c})
<1>1. IsFiniteSet(A) /\ Cardinality(A) \in Nat
  BY HeldOfFinite
<1>2. IsFiniteSet(B) /\ Cardinality(B) = Len(b[c]) /\ HeldOf(b, S) = A \cup B /\ A \cap B = {}
  BY HeldOfOne
<1>3. Len(b[c]) \in Nat
  OBVIOUS
<1> HIDE DEF A, B
<1>4. Cardinality(A \cup B) = Cardinality(A) + Cardinality(B) - Cardinality(A \cap B)
  BY <1>1, <1>2, FS_Union
<1>5. Cardinality(A \cap B) = 0
  BY <1>2, FS_EmptySet
<1>6. Cardinality(A \cup B) = Len(b[c]) + Cardinality(A)
  BY <1>1, <1>2, <1>3, <1>4, <1>5
<1> QED
  BY <1>2, <1>6 DEF A

(* The byte count is the sum of the lengths of the buffers, by induction   *)
(* on the set of clients that is summed over.                              *)
LEMMA CountIsSum ==
  ASSUME RoomOK(room)
  PROVE  BytesAreBuffered /\ room.bytes \in Nat
<1> DEFINE b == room.buf
           Step(g) == [S \in SUBSET Clients |->
              IF S = {} THEN 0 ELSE LET c == CHOOSE c \in S : TRUE IN Len(room.buf[c]) + g[S \ {c}]]
           h == [S \in SUBSET Clients |-> Cardinality(HeldOf(room.buf, S))]
           F == CHOOSE g : g = Step(g)
<1>0. /\ room.buf \in [Clients -> Seq(Nat)] /\ room.clients \in SUBSET Clients
      /\ room.bytes = Cardinality(HeldOf(room.buf, room.clients))
  BY RoomFacts DEF Counted, Held, HeldOf
<1>1. h = Step(h)
  <2>1. ASSUME NEW S \in SUBSET Clients
        PROVE  h[S] = Step(h)[S]
    <3>1. CASE S = {}
      <4>1. HeldOf(room.buf, S) = {}
        BY <3>1 DEF HeldOf
      <4> QED
        BY <3>1, <4>1, FS_EmptySet
    <3>2. CASE S # {}
      <4> DEFINE c == CHOOSE c \in S : TRUE
      <4>1. c \in S
        BY <3>2
      <4>2. Step(h)[S] = Len(room.buf[c]) + h[S \ {c}]
        BY <3>2
      <4> HIDE DEF c
      <4>3. S \ {c} \in SUBSET Clients
        OBVIOUS
      <4>4. h[S \ {c}] = Cardinality(HeldOf(room.buf, S \ {c})) /\ h[S] = Cardinality(HeldOf(room.buf, S))
        BY <4>3
      <4>5. h[S] = Len(room.buf[c]) + h[S \ {c}]
        BY <1>0, <4>1, <4>4, HeldOfStep
      <4> QED
        BY <4>2, <4>5
    <3> QED
      BY <3>1, <3>2
  <2> QED
    BY <2>1
<1>2. F = Step(F)
  BY <1>1
<1>3. BytesAreBuffered <=> room.bytes = F[room.clients]
  BY DEF BytesAreBuffered
<1> HIDE DEF F
<1>4. ASSUME NEW S \in SUBSET Clients, F[S] # h[S]
      PROVE  FALSE
  <2> DEFINE W == {X \in SUBSET Clients : F[X] # h[X]}
  <2>1. IsFiniteSet(Clients) /\ W # {}
    BY <1>4, RelayRoomAssumption
  <2>2. PICK X \in W : \A x \in X : X \ {x} \notin W
    BY <2>1, LeastSet
  <2>3. h[X] = Step(h)[X] /\ F[X] = Step(F)[X]
    BY <1>1, <1>2
  <2>4. CASE X = {}
    BY <2>2, <2>3, <2>4
  <2>5. CASE X # {}
    <3> DEFINE c == CHOOSE c \in X : TRUE
    <3>1. c \in X
      BY <2>5
    <3>2. /\ Step(F)[X] = Len(room.buf[c]) + F[X \ {c}]
          /\ Step(h)[X] = Len(room.buf[c]) + h[X \ {c}]
      BY <2>5
    <3> HIDE DEF c, h
    <3>3. F[X \ {c}] = h[X \ {c}]
      BY <2>2, <3>1
    <3> QED
      BY <2>2, <2>3, <3>2, <3>3
  <2> QED
    BY <2>4, <2>5
<1>5. F[room.clients] = Cardinality(HeldOf(room.buf, room.clients))
  BY <1>0, <1>4
<1>6. room.bytes \in Nat
  BY <1>0, HeldOfFinite
<1> QED
  BY <1>0, <1>3, <1>5, <1>6

RelayInv ==
  SideType /\ RoomOK(room) /\ OpensInv /\ LifeInv /\ OfficeInv /\ UpInv /\ DownInv

LEMMA RelayInitInv == RelayInit => RelayInv
<1> SUFFICES ASSUME RelayInit
             PROVE  RelayInv
  OBVIOUS
<1>1. SideType
  BY DEF RelayInit, SideType, NoHold
<1>2. /\ room.live = FALSE /\ room.control = 0 /\ room.clients = {} /\ room.paired = {} /\ room.flush = {}
      /\ room.data = {} /\ room.buf = [c \in Clients |-> <<>>] /\ room.bytes = 0
      /\ room.q = [k \in Ctls |-> <<>>]
      /\ room.dq = [c \in Clients |-> <<>>] /\ room.cq = [c \in Clients |-> <<>>]
  BY DEF RelayInit
<1>3. RoomOK(room)
  <2>1. room \in RoomRec
    BY DEF RelayInit, RoomRec, Ctls
  <2>2. Neat(room)
    BY <1>2 DEF Neat
  <2>3. Counted(room)
    BY <1>2, CountedEmpty
  <2> QED
    BY <2>1, <2>2, <2>3 DEF RoomOK
<1>4. OpensInv
  BY <1>2 DEF OpensInv
<1>5. LifeInv
  BY <1>2 DEF LifeInv, RelayInit, NoHold
<1>6. OfficeInv
  BY <1>2 DEF OfficeInv, PipesOfThisGeneration, EmptyRoomIsRemoved
<1>7. UpInv
  <2> SUFFICES ASSUME NEW c \in Clients
               PROVE  UpAt(c)
    BY DEF UpInv
  <2>1. got[c] = <<>> /\ room.dq[c] = <<>> /\ flushing[c] = <<>> /\ room.buf[c] = <<>> /\ hold[c] = NoHold
        /\ sent[c] = 0 /\ c \notin room.clients
    BY <1>2 DEF RelayInit
  <2> QED
    BY <2>1 DEF UpAt, UpOK, Numbered, NoHold
<1>8. DownInv
  <2> SUFFICES ASSUME NEW c \in Clients
               PROVE  DownAt(c)
    BY DEF DownInv
  <2>1. seen[c] = <<>> /\ room.cq[c] = <<>> /\ fwd[c] = 0 /\ ingress[c] = <<>> /\ out[c] = 0
        /\ c \notin room.data
    BY <1>2 DEF RelayInit
  <2> QED
    BY <2>1 DEF DownAt, DownOK, Numbered, One
<1> QED
  BY <1>1, <1>3, <1>4, <1>5, <1>6, <1>7, <1>8 DEF RelayInv

LEMMA RelayStep == RelayInv /\ [RelayNext]_relayVars => RelayInv'
<1>1. ASSUME RelayInv, RelayNext
      PROVE  RelayInv'
  <2>0. SideType /\ RoomOK(room) /\ OpensInv /\ LifeInv /\ OfficeInv /\ UpInv /\ DownInv
    BY <1>1 DEF RelayInv
  <2>1. RoomOK(room')
    BY <1>1, <2>0, RoomStep
  <2>2. SideType'
    BY <1>1, <2>0, SideStep
  <2>3. OpensInv'
    BY <1>1, <2>0, <2>1, OpensStep
  <2>4. LifeInv'
    BY <1>1, <2>0, <2>1, LifeStep
  <2>5. OfficeInv'
    BY <1>1, <2>0, <2>1, OfficeStep
  <2>6. UpInv'
    BY <1>1, <2>0, <2>1, UpStep
  <2>7. DownInv'
    BY <1>1, <2>0, <2>1, DownStep
  <2> QED
    BY <2>1, <2>2, <2>3, <2>4, <2>5, <2>6, <2>7 DEF RelayInv
<1>2. ASSUME RelayInv, UNCHANGED relayVars
      PROVE  RelayInv'
  <2>0. /\ room' = room /\ rload' = rload /\ browser' = browser /\ sent' = sent /\ seen' = seen
        /\ csock' = csock /\ hold' = hold /\ ksock' = ksock /\ knet' = knet /\ dctl' = dctl
        /\ task' = task /\ tgen' = tgen /\ dnet' = dnet /\ dsock' = dsock /\ flushing' = flushing
        /\ ingress' = ingress /\ fwd' = fwd /\ out' = out /\ got' = got /\ late' = late
    BY <1>2 DEF relayVars, rbrowser, rclient, rctl, rtask, rdata
  <2>1. SideType' <=> SideType
    BY <2>0 DEF SideType
  <2>2. RoomOK(room')
    BY <1>2, <2>0 DEF RelayInv
  <2>3. OpensInv' <=> OpensInv
    BY <2>0 DEF OpensInv
  <2>4. LifeInv' <=> LifeInv
    BY <2>0 DEF LifeInv
  <2>5. OfficeInv' <=> OfficeInv
    BY <2>0 DEF OfficeInv, PipesOfThisGeneration, EmptyRoomIsRemoved
  <2>6. UpInv' <=> UpInv
    BY <2>0 DEF UpInv, UpAt
  <2>7. DownInv' <=> DownInv
    BY <2>0 DEF DownInv, DownAt
  <2> QED
    BY <1>2, <2>1, <2>2, <2>3, <2>4, <2>5, <2>6, <2>7 DEF RelayInv
<1> QED
  BY <1>1, <1>2

LEMMA RelayInvGives == RelayInv => RelayTypeOK /\ RoomIsCoherent /\ FramesInOrder
<1> SUFFICES ASSUME RelayInv
             PROVE  RelayTypeOK /\ RoomIsCoherent /\ FramesInOrder
  OBVIOUS
<1>0. SideType /\ RoomOK(room) /\ LifeInv /\ OfficeInv /\ UpInv /\ DownInv
  BY DEF RelayInv
<1>1. BytesAreBuffered /\ room.bytes \in Nat
  BY <1>0, CountIsSum
<1>2. room \in RoomRec /\ Neat(room)
  BY <1>0 DEF RoomOK
<1>3. RelayTypeOK
  <2>1. /\ room.live \in BOOLEAN
        /\ room.control \in Ctls \cup {0}
        /\ \A s \in {room.clients, room.paired, room.flush, room.data} : s \subseteq Clients
        /\ room.paired \subseteq room.clients
        /\ room.buf \in [Clients -> Seq(Nat)]
        /\ room.closed \subseteq ({"c", "d"} \X Clients) \cup ({"k"} \X Ctls)
        /\ room.mute \subseteq Ctls
        /\ room.q \in [Ctls -> Seq([kind : {"open", "gone"}, c : Clients])]
        /\ room.dq \in [Clients -> Seq(Nat)]
        /\ room.cq \in [Clients -> Seq(Nat)]
    BY <1>2 DEF RoomRec, Neat, RoomEnds, RoomMsgs
  <2>2. \A f \in {sent, fwd, out} : f \in [Clients -> Nat]
    BY <1>0 DEF SideType
  <2>3. \A f \in {seen, flushing, ingress, got} : f \in [Clients -> Seq(Nat)]
    BY <1>0 DEF SideType
  <2>4. /\ rload \in Loads
        /\ browser \in [Clients -> {"new", "on", "off", "refused"}]
        /\ csock \in [Clients -> {"none", "run", "done"}]
        /\ hold \in [Clients -> [stage : {"none", "buffer", "send"}, frame : Nat]]
        /\ ksock \in [Ctls -> {"none", "run", "done"}]
        /\ knet \in [Ctls -> {"none", "hello", "up", "cut"}]
        /\ dctl \in Ctls \cup {0}
        /\ task \in [Clients -> {"none", "dial", "hello", "open", "end"}]
        /\ tgen \in [Clients -> Ctls \cup {0}]
        /\ dnet \in [Clients -> {"none", "hello", "read"}]
        /\ dsock \in [Clients -> {"none", "bind", "flush", "run", "drain", "done"}]
        /\ late \subseteq Clients
    BY <1>0 DEF SideType
  <2> QED
    BY ONLY <1>1, <2>1, <2>2, <2>3, <2>4, Zenon DEF RelayTypeOK
<1>4. RoomIsCoherent
  BY <1>0, <1>1 DEF RoomIsCoherent, OfficeInv
<1>5. FlushKeepsOrder
  <2> SUFFICES ASSUME NEW c \in Clients \ late
               PROVE  IsPrefixOf(got[c], sent[c])
    BY DEF FlushKeepsOrder
  <2>1. UpAt(c)
    BY <1>0 DEF UpInv
  <2>2. /\ got[c] \in Seq(Nat) /\ room.dq[c] \in Seq(Nat) /\ flushing[c] \in Seq(Nat)
        /\ room.buf[c] \in Seq(Nat) /\ sent[c] \in Nat
    BY <1>0, <1>2 DEF SideType, RoomRec
  <2>3. /\ Len(got[c]) \in Nat /\ Len(room.dq[c]) \in Nat /\ Len(flushing[c]) \in Nat
        /\ Len(room.buf[c]) \in Nat
    BY <2>2
  <2>4. Numbered(got[c], 0) /\ Len(got[c]) + Len(room.dq[c]) + Len(flushing[c]) + Len(room.buf[c]) <= sent[c]
    BY <2>1 DEF UpAt, UpOK
  <2>5. \A i, j, k, l, n \in Nat : i + j + k + l <= n => i <= n
    OBVIOUS
  <2>6. Len(got[c]) <= sent[c]
    BY ONLY <2>2, <2>3, <2>4, <2>5, Zenon
  <2> QED
    BY <2>3, <2>4, <2>6 DEF IsPrefixOf, Numbered
<1>6. DownstreamInOrder
  <2> SUFFICES ASSUME NEW c \in Clients
               PROVE  IsPrefixOf(seen[c], out[c])
    BY DEF DownstreamInOrder
  <2>1. DownAt(c)
    BY <1>0 DEF DownInv
  <2>2. seen[c] \in Seq(Nat) /\ room.cq[c] \in Seq(Nat) /\ out[c] \in Nat
    BY <1>0, <1>2 DEF SideType, RoomRec
  <2>3. Len(seen[c]) \in Nat /\ Len(room.cq[c]) \in Nat /\ One(fwd[c] # 0) \in Nat
    BY <2>2 DEF One
  <2>4. Numbered(seen[c], 0) /\ Len(seen[c]) + Len(room.cq[c]) + One(fwd[c] # 0) <= out[c]
    BY <2>1 DEF DownAt, DownOK
  <2>5. \A i, j, k, n \in Nat : i + j + k <= n => i <= n
    OBVIOUS
  <2>6. Len(seen[c]) <= out[c]
    BY ONLY <2>2, <2>3, <2>4, <2>5, Zenon
  <2> QED
    BY <2>3, <2>4, <2>6 DEF IsPrefixOf, Numbered
<1>7. BufferIsFlushed
  <2> SUFFICES ASSUME NEW c \in room.paired \ late, room.buf[c] # <<>>
               PROVE  c \in room.flush /\ dsock[c] \in {"bind", "flush", "drain"}
    BY DEF BufferIsFlushed
  <2>1. c \in Clients
    BY <1>2 DEF RoomRec
  <2>2. UpAt(c)
    BY <1>0, <2>1 DEF UpInv
  <2>3. c \in room.flush
    BY <2>2 DEF UpAt, UpOK
  <2> QED
    BY <1>0, <2>1, <2>3 DEF LifeInv
<1> QED
  BY <1>3, <1>4, <1>5, <1>6, <1>7 DEF FramesInOrder

(* For every number of clients, control lines and frames, and every size   *)
(* of the queues and the pre-pair buffers: the room the relay keeps for a  *)
(* daemon stays coherent across reconnects, late dials and clients that    *)
(* leave in the middle of pairing (ws/registry.rs).                        *)
THEOREM RoomStaysCoherent == RelaySpec => [](RelayTypeOK /\ RoomIsCoherent)
<1>1. RelayInv /\ [RelayNext]_relayVars => RelayInv'
  BY RelayStep
<1> QED
  BY <1>1, RelayInitInv, RelayInvGives, PTL DEF RelaySpec

(* Under the same generality the relay keeps the frames of a client and of *)
(* its data pipe in order, from the pre-pair buffer over its flush to      *)
(* direct forwarding (take_pre_pair_client_frames, pipe_pump.rs), for as   *)
(* long as no frame is buffered after the flush ended.                     *)
THEOREM FramesKeepOrder == RelaySpec => []FramesInOrder
<1>1. RelayInv /\ [RelayNext]_relayVars => RelayInv'
  BY RelayStep
<1> QED
  BY <1>1, RelayInitInv, RelayInvGives, PTL DEF RelaySpec
=============================================================================
