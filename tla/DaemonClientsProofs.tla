------------------------ MODULE DaemonClientsProofs ------------------------
(***************************************************************************)
(* DaemonClients: a device keeps its operator role while one of its        *)
(* connections is in the session, the metadata streams show the daemon's   *)
(* state or will be told, and the client list is true.                     *)
(*                                                                         *)
(* Every critical section is a function of the daemon's record, so the     *)
(* invariant is a predicate WOK(w, lk) of such a record and of the state   *)
(* of the connections; each operator has a lemma that says what it keeps,  *)
(* and the actions put them together.                                      *)
(***************************************************************************)
EXTENDS DaemonClients, TLAPS, FiniteSetTheorems

DaeRec ==
  [life : [Shells -> {"none", "running", "exited", "closed"}],
   index : SUBSET Shells, disk : SUBSET Shells, meta : [Shells -> Nat],
   role : [Shells -> SUBSET Owners], host : [Shells -> SUBSET Owners],
   watched : [Shells -> SUBSET Links], at : [Links -> Shells \cup {NoShell}],
   rec : [Owners -> {"none", "online", "offline"}], conns : SUBSET Links,
   act : [Links -> SUBSET Shells], count : [Owners -> Int], hist : [Links -> SUBSET Shells],
   skew : SUBSET Owners, quiet : BOOLEAN]

LinkStates == {"new", "open", "closed", "lost"}

(* Who is tracked, and how often: a connection is tracked from its attach  *)
(* until it is marked offline, and the history counts the same, unless it  *)
(* could not record a disconnect.  No client is in a session that is not   *)
(* listed.                                                                 *)
Tracked(w, d) == Of(d) \cap w.conns
Begun(lk, d) == {c \in Of(d) : lk[c] # "new"}

PresInv(w, lk) ==
  /\ \A c \in Links : c \in w.conns <=> lk[c] \in {"open", "lost"}
  /\ \A d \in Owners : w.rec[d] = "online" <=> Tracked(w, d) # {}
  /\ \A d \in Owners \ w.skew : \/ w.count[d] = Cardinality(Tracked(w, d))
                                \/ w.count[d] = -1 /\ Tracked(w, d) = {}
  /\ \A d \in Owners : w.count[d] >= -1 /\ w.count[d] <= Cardinality(Begun(lk, d))
  /\ \A c \in Links : w.hist[c] \subseteq w.index /\ w.act[c] \subseteq w.index

(* An open connection holds the session it attached while that is listed,  *)
(* which is how detach_connection knows, and its device has the role.      *)
RoleInv(w, lk) ==
  /\ \A s \in w.index : w.life[s] # "none"
  /\ \A c \in Links : lk[c] = "open" =>
       /\ w.at[c] \in Shells /\ w.life[w.at[c]] # "none"
       /\ w.at[c] \in w.index => w.at[c] \in w.act[c]
       /\ w.at[c] \in w.index /\ w.life[w.at[c]] = "running" => OwnerOf[c] \in w.role[w.at[c]]

WOK(w, lk) == w \in DaeRec /\ PresInv(w, lk) /\ RoleInv(w, lk)

ViewerRec(x) == /\ x = [st |-> x.st, pend |-> x.pend, shown |-> x.shown]
                /\ x.st \in {"new", "open", "woken"} /\ x.pend \in BOOLEAN

ViewersOK == DOMAIN viewer = Viewers /\ \A v \in Viewers : ViewerRec(viewer[v])

ClientsInv ==
  /\ WOK(dae, link) /\ link \in [Links -> LinkStates]
  /\ ViewersOK /\ StreamsAreCurrent

LEMMA LinksFacts ==
  /\ IsFiniteSet(Links) /\ "http" \notin Links /\ NoShell \notin Shells
  /\ \A c \in Links : OwnerOf[c] \in Owners /\ c \in Of(OwnerOf[c])
  /\ \A d : Of(d) \subseteq Links /\ IsFiniteSet(Of(d))
<1>1. IsFiniteSet(Links) /\ "http" \notin Links /\ NoShell \notin Shells /\ OwnerOf \in [Links -> Owners]
  BY DaemonClientsAssumption DEF NoShell
<1>2. \A d : Of(d) \subseteq Links
  BY DEF Of
<1>3. \A d : IsFiniteSet(Of(d))
  BY <1>1, <1>2, FS_Subset
<1> QED
  BY <1>1, <1>2, <1>3 DEF Of

LEMMA DaeTypes ==
  ASSUME NEW w \in DaeRec
  PROVE  /\ w.life \in [Shells -> {"none", "running", "exited", "closed"}]
         /\ w.index \subseteq Shells /\ w.disk \subseteq Shells /\ w.meta \in [Shells -> Nat]
         /\ w.role \in [Shells -> SUBSET Owners] /\ w.host \in [Shells -> SUBSET Owners]
         /\ w.watched \in [Shells -> SUBSET Links] /\ w.at \in [Links -> Shells \cup {NoShell}]
         /\ w.rec \in [Owners -> {"none", "online", "offline"}] /\ w.conns \subseteq Links
         /\ w.act \in [Links -> SUBSET Shells] /\ w.count \in [Owners -> Int]
         /\ w.hist \in [Links -> SUBSET Shells] /\ w.skew \subseteq Owners /\ w.quiet \in BOOLEAN
BY DEF DaeRec

(* What a runtime call, a resize or a release may change. *)
Calm(w, x) ==
  /\ x \in DaeRec
  /\ x.index = w.index /\ x.at = w.at /\ x.rec = w.rec /\ x.conns = w.conns
  /\ x.act = w.act /\ x.count = w.count /\ x.hist = w.hist /\ x.skew = w.skew
  /\ \A s \in Shells : \/ x.life[s] = w.life[s]
                       \/ w.life[s] # "none" /\ x.life[s] \in {"exited", "closed"}

LEMMA CalmOK ==
  ASSUME NEW w, NEW lk, WOK(w, lk), NEW x, Calm(w, x),
         \A c \in Links : lk[c] = "open" /\ w.at[c] \in w.index /\ w.life[w.at[c]] = "running"
                          /\ x.life[w.at[c]] = "running" /\ OwnerOf[c] \in w.role[w.at[c]]
                          => OwnerOf[c] \in x.role[w.at[c]]
  PROVE  WOK(x, lk)
<1>0. w \in DaeRec /\ x \in DaeRec /\ w.index \subseteq Shells
  BY DaeTypes DEF WOK, Calm
<1>1. PresInv(x, lk)
  BY DEF WOK, Calm, PresInv, Tracked
<1>2. RoleInv(x, lk)
  <2>1. \A s \in x.index : x.life[s] # "none"
    BY <1>0 DEF WOK, Calm, RoleInv
  <2>2. ASSUME NEW c \in Links, lk[c] = "open"
        PROVE  /\ x.at[c] \in Shells /\ x.life[x.at[c]] # "none"
               /\ x.at[c] \in x.index => x.at[c] \in x.act[c]
               /\ x.at[c] \in x.index /\ x.life[x.at[c]] = "running" => OwnerOf[c] \in x.role[x.at[c]]
    <3>1. /\ w.at[c] \in Shells /\ w.life[w.at[c]] # "none"
          /\ w.at[c] \in w.index => w.at[c] \in w.act[c]
          /\ w.at[c] \in w.index /\ w.life[w.at[c]] = "running" => OwnerOf[c] \in w.role[w.at[c]]
      BY <2>2 DEF WOK, RoleInv
    <3>2. x.at[c] = w.at[c] /\ x.index = w.index /\ x.act = w.act
      BY DEF Calm
    <3>3. \/ x.life[w.at[c]] = w.life[w.at[c]]
          \/ w.life[w.at[c]] # "none" /\ x.life[w.at[c]] \in {"exited", "closed"}
      BY <3>1 DEF Calm
    <3> QED
      BY <2>2, <3>1, <3>2, <3>3
  <2> QED
    BY <2>1, <2>2 DEF RoleInv
<1> QED
  BY <1>0, <1>1, <1>2 DEF WOK

(* Each of the operators of the runtime, by the fields it sets. *)
LEMMA RoleAttachIs ==
  ASSUME NEW w \in DaeRec, NEW s \in Shells, NEW d \in Owners
  PROVE  LET x == RoleAttach(w, s, d)
         IN  /\ Calm(w, x) /\ x.quiet = w.quiet /\ x.life = w.life /\ x.disk = w.disk
             /\ d \in x.role[s] /\ \A t \in Shells : w.role[t] \subseteq x.role[t]
<1> DEFINE x == RoleAttach(w, s, d)
           R == [w.role EXCEPT ![s] = @ \cup {d}]
           H == [w.host EXCEPT ![s] = @ \cup {d}]
<1>1. x = [w EXCEPT !.role = R, !.host = H]
  BY DEF RoleAttach, DaeRec
<1>2. R \in [Shells -> SUBSET Owners] /\ H \in [Shells -> SUBSET Owners]
      /\ d \in R[s] /\ \A t \in Shells : w.role[t] \subseteq R[t]
  BY DaeTypes
<1> HIDE DEF R, H
<1>3. /\ x \in DaeRec /\ x.role = R /\ x.quiet = w.quiet /\ x.life = w.life /\ x.disk = w.disk
      /\ x.index = w.index /\ x.at = w.at /\ x.rec = w.rec /\ x.conns = w.conns
      /\ x.act = w.act /\ x.count = w.count /\ x.hist = w.hist /\ x.skew = w.skew
  BY <1>1, <1>2 DEF DaeRec
<1> HIDE DEF x
<1> QED
  BY <1>2, <1>3 DEF Calm, x

LEMMA CloseShellIs ==
  ASSUME NEW w \in DaeRec, NEW s \in Shells, w.life[s] # "none"
  PROVE  LET x == CloseShell(w, s)
         IN  /\ Calm(w, x) /\ x.quiet = w.quiet /\ x.disk = w.disk /\ x.life[s] = "closed"
             /\ \A t \in Shells \ {s} : x.role[t] = w.role[t]
<1> DEFINE x == CloseShell(w, s)
           L == [w.life EXCEPT ![s] = "closed"]
           R == [w.role EXCEPT ![s] = {}]
           W == [w.watched EXCEPT ![s] = {}]
<1>1. x = [w EXCEPT !.life = L, !.role = R, !.watched = W]
  BY DEF CloseShell, DaeRec
<1>2. /\ L \in [Shells -> {"none", "running", "exited", "closed"}] /\ L[s] = "closed"
      /\ \A t \in Shells \ {s} : L[t] = w.life[t]
      /\ R \in [Shells -> SUBSET Owners] /\ \A t \in Shells \ {s} : R[t] = w.role[t]
      /\ W \in [Shells -> SUBSET Links]
  BY DaeTypes
<1> HIDE DEF L, R, W
<1>3. /\ x \in DaeRec /\ x.role = R /\ x.quiet = w.quiet /\ x.life = L /\ x.disk = w.disk
      /\ x.index = w.index /\ x.at = w.at /\ x.rec = w.rec /\ x.conns = w.conns
      /\ x.act = w.act /\ x.count = w.count /\ x.hist = w.hist /\ x.skew = w.skew
  BY ZenonT(60), <1>1, <1>2 DEF DaeRec
<1> HIDE DEF x
<1> QED
  BY <1>2, <1>3 DEF Calm, x

LEMMA HostSetIs ==
  ASSUME NEW w \in DaeRec, NEW s \in Shells, NEW D \in SUBSET Owners
  PROVE  LET x == [w EXCEPT !.host[s] = D]
         IN  Calm(w, x) /\ x.quiet = w.quiet /\ x.life = w.life /\ x.disk = w.disk /\ x.role = w.role
<1> DEFINE x == [w EXCEPT !.host[s] = D]
           H == [w.host EXCEPT ![s] = D]
<1>1. x = [w EXCEPT !.host = H]
  BY DEF DaeRec
<1>2. H \in [Shells -> SUBSET Owners]
  BY DaeTypes
<1> HIDE DEF H
<1>3. /\ x \in DaeRec /\ x.role = w.role /\ x.quiet = w.quiet /\ x.life = w.life /\ x.disk = w.disk
      /\ x.index = w.index /\ x.at = w.at /\ x.rec = w.rec /\ x.conns = w.conns
      /\ x.act = w.act /\ x.count = w.count /\ x.hist = w.hist /\ x.skew = w.skew
  BY <1>1, <1>2 DEF DaeRec
<1> HIDE DEF x
<1> QED
  BY <1>3 DEF Calm, x

(* SessionRuntime::attach takes no role. *)
LEMMA RuntimeAttachIs ==
  ASSUME NEW w \in DaeRec, NEW s \in Shells, NEW d \in Owners, NEW r \in RuntimeAttach(w, s, d)
  PROVE  /\ Calm(w, r.w) /\ r.w.quiet = w.quiet /\ r.w.disk = w.disk
         /\ \A t \in Shells : r.w.life[t] = "running" => w.role[t] \subseteq r.w.role[t]
         /\ r.ok => r.w = RoleAttach(w, s, d) /\ r.w.life[s] = "running"
<1>0. Calm(w, w)
  BY DEF Calm
<1>1. CASE ~Open(w, s)
  BY <1>0, <1>1 DEF RuntimeAttach
<1>2. CASE w.life[s] = "exited"
  <2>1. r = [ok |-> FALSE, w |-> CloseShell(w, s)]
    BY <1>2 DEF RuntimeAttach, Open
  <2> DEFINE x == CloseShell(w, s)
  <2>2. /\ Calm(w, x) /\ x.quiet = w.quiet /\ x.disk = w.disk /\ x.life[s] = "closed"
        /\ \A t \in Shells \ {s} : x.role[t] = w.role[t]
    BY <1>2, CloseShellIs
  <2>3. r.w = x /\ r.ok = FALSE
    BY <2>1
  <2> HIDE DEF x
  <2>4. \A t \in Shells : x.life[t] = "running" => w.role[t] \subseteq x.role[t]
    BY <2>2
  <2> QED
    BY <2>2, <2>3, <2>4
<1>3. CASE Open(w, s) /\ w.life[s] # "exited"
  <2>0. w.life[s] = "running"
    BY <1>3 DEF Open
  <2>1. \/ r = [ok |-> TRUE, w |-> RoleAttach(w, s, d)]
        \/ r = [ok |-> FALSE, w |-> w]
        \/ r = [ok |-> FALSE, w |-> [w EXCEPT !.host[s] = @ \cup {d}]]
    BY <1>3 DEF RuntimeAttach
  <2>2. CASE r = [ok |-> TRUE, w |-> RoleAttach(w, s, d)]
    <3>1. r.w = RoleAttach(w, s, d) /\ r.ok
      BY <2>2
    <3> QED
      BY <2>0, <3>1, RoleAttachIs
  <2>3. CASE r = [ok |-> FALSE, w |-> w]
    BY <1>0, <2>3
  <2>4. CASE r = [ok |-> FALSE, w |-> [w EXCEPT !.host[s] = @ \cup {d}]]
    <3>1. w.host[s] \cup {d} \in SUBSET Owners
      BY DaeTypes
    <3>2. r.w = [w EXCEPT !.host[s] = w.host[s] \cup {d}] /\ r.ok = FALSE
      BY <2>4
    <3> QED
      BY <3>1, <3>2, HostSetIs
  <2> QED
    BY <2>1, <2>2, <2>3, <2>4
<1> QED
  BY <1>1, <1>2, <1>3

(* SessionRuntime::detach takes the role of that device in that session. *)
LEMMA RuntimeDetachIs ==
  ASSUME NEW w \in DaeRec, NEW s \in Shells, NEW d \in Owners, NEW x \in RuntimeDetach(w, s, d)
  PROVE  /\ Calm(w, x) /\ x.quiet = w.quiet /\ x.life = w.life
         /\ \A t \in Shells, e \in Owners : e \in w.role[t] /\ (t # s \/ e # d) => e \in x.role[t]
<1>0. Calm(w, w)
  BY DEF Calm
<1>h. w.host[s] \ {d} \in SUBSET Owners
  BY DaeTypes
<1>1. CASE x = w
  BY <1>0, <1>1
<1>2. CASE x = [w EXCEPT !.host[s] = @ \ {d}]
  <2>1. x = [w EXCEPT !.host[s] = w.host[s] \ {d}]
    BY <1>2
  <2> QED
    BY <2>1, <1>h, HostSetIs
<1>3. CASE x = [w EXCEPT !.role[s] = @ \ {d}, !.host[s] = @ \ {d}]
  <2> DEFINE R == [w.role EXCEPT ![s] = @ \ {d}]
             H == [w.host EXCEPT ![s] = @ \ {d}]
  <2>1. x = [w EXCEPT !.role = R, !.host = H]
    BY <1>3 DEF DaeRec
  <2>2. R \in [Shells -> SUBSET Owners] /\ H \in [Shells -> SUBSET Owners]
        /\ \A t \in Shells, e \in Owners : e \in w.role[t] /\ (t # s \/ e # d) => e \in R[t]
    BY DaeTypes
  <2> HIDE DEF R, H
  <2>3. /\ x \in DaeRec /\ x.role = R /\ x.quiet = w.quiet /\ x.life = w.life
        /\ x.index = w.index /\ x.at = w.at /\ x.rec = w.rec /\ x.conns = w.conns
        /\ x.act = w.act /\ x.count = w.count /\ x.hist = w.hist /\ x.skew = w.skew
    BY <2>1, <2>2 DEF DaeRec
  <2> QED
    BY <2>2, <2>3 DEF Calm
<1> QED
  BY <1>1, <1>2, <1>3 DEF RuntimeDetach

LEMMA DetachOK ==
  ASSUME NEW w, NEW lk, WOK(w, lk), NEW s \in Shells, NEW d \in Owners, NEW x \in RuntimeDetach(w, s, d),
         \A c \in Links : lk[c] = "open" /\ OwnerOf[c] = d => w.at[c] # s \/ s \notin w.index
                                                              \/ w.life[s] # "running"
  PROVE  WOK(x, lk) /\ x.quiet = w.quiet
<1>1. w \in DaeRec
  BY DEF WOK
<1>2. /\ Calm(w, x) /\ x.quiet = w.quiet /\ x.life = w.life
      /\ \A t \in Shells, e \in Owners : e \in w.role[t] /\ (t # s \/ e # d) => e \in x.role[t]
  BY <1>1, RuntimeDetachIs
<1>3. ASSUME NEW c \in Links, lk[c] = "open", w.at[c] \in w.index, w.life[w.at[c]] = "running",
             OwnerOf[c] \in w.role[w.at[c]]
      PROVE  OwnerOf[c] \in x.role[w.at[c]]
  <2>1. w.at[c] \in Shells /\ OwnerOf[c] \in Owners
    BY <1>1, <1>3, LinksFacts, DaeTypes
  <2>2. w.at[c] # s \/ OwnerOf[c] # d
    BY <1>3
  <2> QED
    BY <1>2, <1>3, <2>1, <2>2
<1> QED
  BY <1>2, <1>3, CalmOK

LEMMA AttachKeeps ==
  ASSUME NEW w, NEW lk, WOK(w, lk), NEW s \in Shells, NEW d \in Owners, NEW r \in RuntimeAttach(w, s, d)
  PROVE  /\ WOK(r.w, lk) /\ r.w.quiet = w.quiet
         /\ r.ok => /\ d \in r.w.role[s] /\ r.w.life[s] = "running" /\ r.w.index = w.index
                    /\ r.w.disk = w.disk /\ r.w.at = w.at
<1>1. w \in DaeRec
  BY DEF WOK
<1>2. /\ Calm(w, r.w) /\ r.w.quiet = w.quiet /\ r.w.disk = w.disk
      /\ \A t \in Shells : r.w.life[t] = "running" => w.role[t] \subseteq r.w.role[t]
      /\ r.ok => r.w = RoleAttach(w, s, d) /\ r.w.life[s] = "running"
  BY <1>1, RuntimeAttachIs
<1>3. ASSUME NEW c \in Links, w.at[c] \in w.index, r.w.life[w.at[c]] = "running",
             OwnerOf[c] \in w.role[w.at[c]]
      PROVE  OwnerOf[c] \in r.w.role[w.at[c]]
  BY <1>1, <1>2, <1>3, DaeTypes
<1>4. r.ok => d \in r.w.role[s]
  BY <1>1, <1>2, RoleAttachIs
<1>5. WOK(r.w, lk)
  BY <1>2, <1>3, CalmOK
<1> QED
  BY <1>2, <1>4, <1>5 DEF Calm

(* close_visible_session_state with remove_session_attachments: what leaves *)
(* the index leaves every client.                                          *)
LEMMA GoneOK ==
  ASSUME NEW w, NEW lk, WOK(w, lk), NEW S \in SUBSET Shells
  PROVE  LET x == HistoryDrops(CloseVisible(w, S), S)
         IN  /\ WOK(x, lk) /\ x.quiet = w.quiet /\ x.index = w.index \ S /\ x.disk = w.disk
             /\ x.skew = w.skew /\ x.role = w.role /\ x.at = w.at /\ x.life = w.life
<1> DEFINE x == HistoryDrops(CloseVisible(w, S), S)
           I == w.index \ S
           A == [c \in Links |-> w.act[c] \ S]
           H == [c \in Links |-> w.hist[c] \ S]
<1>0. w \in DaeRec /\ PresInv(w, lk) /\ RoleInv(w, lk)
  BY DEF WOK
<1>1. x = [w EXCEPT !.index = I, !.act = A, !.hist = H]
  BY <1>0 DEF HistoryDrops, CloseVisible, DaeRec
<1>2. /\ I \in SUBSET Shells /\ A \in [Links -> SUBSET Shells] /\ H \in [Links -> SUBSET Shells]
      /\ \A c \in Links : A[c] = w.act[c] \ S /\ H[c] = w.hist[c] \ S
  BY <1>0, DaeTypes
<1> HIDE DEF A, H
<1>3. /\ x \in DaeRec /\ x.role = w.role /\ x.quiet = w.quiet /\ x.life = w.life /\ x.disk = w.disk
      /\ x.index = I /\ x.at = w.at /\ x.rec = w.rec /\ x.conns = w.conns
      /\ x.act = A /\ x.count = w.count /\ x.hist = H /\ x.skew = w.skew
  BY ZenonT(60), <1>0, <1>1, <1>2 DEF DaeRec
<1> HIDE DEF x
<1>4. PresInv(x, lk)
  <2>1. \A c \in Links : x.hist[c] \subseteq x.index /\ x.act[c] \subseteq x.index
    BY <1>0, <1>2, <1>3 DEF PresInv
  <2> QED
    BY <1>0, <1>3, <2>1 DEF PresInv, Tracked
<1>5. RoleInv(x, lk)
  BY <1>0, <1>2, <1>3 DEF RoleInv
<1> QED
  BY <1>3, <1>4, <1>5 DEF WOK, x

LEMMA QuietIs ==
  ASSUME NEW w, NEW lk, WOK(w, lk), NEW b \in BOOLEAN
  PROVE  LET x == [w EXCEPT !.quiet = b]
         IN  /\ WOK(x, lk) /\ x.quiet = b /\ x.index = w.index /\ x.disk = w.disk
             /\ x.role = w.role /\ x.at = w.at /\ x.life = w.life /\ x.meta = w.meta
             /\ x.act = w.act /\ x.hist = w.hist /\ x.conns = w.conns /\ x.rec = w.rec
             /\ x.count = w.count /\ x.skew = w.skew
<1> DEFINE x == [w EXCEPT !.quiet = b]
<1>0. w \in DaeRec /\ PresInv(w, lk) /\ RoleInv(w, lk)
  BY DEF WOK
<1>1. /\ x \in DaeRec /\ x.role = w.role /\ x.quiet = b /\ x.life = w.life /\ x.disk = w.disk
      /\ x.index = w.index /\ x.at = w.at /\ x.rec = w.rec /\ x.conns = w.conns /\ x.meta = w.meta
      /\ x.act = w.act /\ x.count = w.count /\ x.hist = w.hist /\ x.skew = w.skew
  BY <1>0 DEF DaeRec
<1> HIDE DEF x
<1>2. PresInv(x, lk) /\ RoleInv(x, lk)
  BY <1>0, <1>1 DEF PresInv, RoleInv, Tracked
<1> QED
  BY <1>1, <1>2 DEF WOK, x

LEMMA ReconciledOK ==
  ASSUME NEW w, NEW lk, WOK(w, lk)
  PROVE  LET x == Reconciled(w)
         IN  /\ WOK(x, lk) /\ (w.quiet => x.quiet) /\ x.index = w.index \cap w.disk
             /\ x.role = w.role /\ x.at = w.at /\ x.life = w.life /\ x.disk = w.disk
             /\ x.skew = w.skew /\ (x = w \/ x.quiet)
<1> DEFINE gone == w.index \ w.disk
           y == HistoryDrops(CloseVisible(w, gone), gone)
<1>0. w \in DaeRec /\ gone \in SUBSET Shells
  BY DaeTypes DEF WOK
<1>1. CASE gone = {}
  <2>1. Reconciled(w) = w /\ w.index = w.index \cap w.disk
    BY <1>1 DEF Reconciled
  <2> QED
    BY <2>1
<1>2. CASE gone # {}
  <2>1. Reconciled(w) = [y EXCEPT !.quiet = TRUE]
    BY <1>2 DEF Reconciled
  <2>2. /\ WOK(y, lk) /\ y.index = w.index \ gone /\ y.disk = w.disk
        /\ y.role = w.role /\ y.at = w.at /\ y.life = w.life /\ y.skew = w.skew
    BY <1>0, GoneOK
  <2>3. w.index \ gone = w.index \cap w.disk
    OBVIOUS
  <2> HIDE DEF y
  <2> DEFINE x == [y EXCEPT !.quiet = TRUE]
  <2>4. WOK(x, lk) /\ x.quiet = TRUE /\ x.index = y.index /\ x.disk = y.disk
        /\ x.role = y.role /\ x.at = y.at /\ x.life = y.life /\ x.skew = y.skew
    BY <2>2, QuietIs
  <2> HIDE DEF x
  <2>5. Reconciled(w) = x
    BY <2>1 DEF x
  <2> QED
    BY <2>2, <2>3, <2>4, <2>5
<1> QED
  BY <1>1, <1>2

LEMMA ReleaseIs ==
  ASSUME NEW w, NEW lk, WOK(w, lk), NEW s \in Shells, NEW c \in Links
  PROVE  LET x == ReleaseWatched(w, s, c)
         IN  /\ WOK(x, lk) /\ x.index = w.index /\ x.at = w.at /\ x.life = w.life /\ x.role = w.role
             /\ x.conns = w.conns /\ x.act = w.act
<1> DEFINE W == [w.watched EXCEPT ![s] = @ \ {c}]
           x == [w EXCEPT !.watched[s] = @ \ {c}]
<1>0. w \in DaeRec
  BY DEF WOK
<1>1. x = [w EXCEPT !.watched = W]
  BY <1>0 DEF DaeRec
<1>2. W \in [Shells -> SUBSET Links]
  BY <1>0, DaeTypes
<1> HIDE DEF W
<1>3. /\ x \in DaeRec /\ x.role = w.role /\ x.quiet = w.quiet /\ x.life = w.life
      /\ x.index = w.index /\ x.at = w.at /\ x.rec = w.rec /\ x.conns = w.conns
      /\ x.act = w.act /\ x.count = w.count /\ x.hist = w.hist /\ x.skew = w.skew
  BY <1>0, <1>1, <1>2 DEF DaeRec
<1> HIDE DEF x
<1>4. WOK(x, lk)
  BY <1>3, CalmOK DEF Calm
<1>5. ReleaseWatched(w, s, c) \in {w, x}
  BY DEF ReleaseWatched, x
<1> QED
  BY <1>3, <1>4, <1>5

(* One connection more, or one less. *)
LEMMA TrackMore ==
  ASSUME NEW C \in SUBSET Links, NEW c \in Links, c \notin C
  PROVE  Cardinality(C) \in Nat /\ Cardinality(C \cup {c}) = Cardinality(C) + 1
<1>1. IsFiniteSet(C)
  BY LinksFacts, FS_Subset
<1> QED
  BY <1>1, FS_AddElement, FS_CardinalityType

LEMMA TrackLess ==
  ASSUME NEW C \in SUBSET Links, NEW c \in C
  PROVE  Cardinality(C) \in Nat /\ Cardinality(C) > 0 /\ Cardinality(C \ {c}) = Cardinality(C) - 1
<1>1. IsFiniteSet(C)
  BY LinksFacts, FS_Subset
<1>2. Cardinality(C \ {c}) = Cardinality(C) - 1 /\ Cardinality(C) \in Nat
  BY <1>1, FS_RemoveElement, FS_CardinalityType
<1>3. Cardinality(C) # 0
  BY <1>1, FS_EmptySet
<1> QED
  BY <1>2, <1>3

LEMMA BegunGrows ==
  ASSUME NEW lk \in [Links -> LinkStates], NEW c \in Links, NEW z \in LinkStates, z # "new"
  PROVE  LET l2 == [lk EXCEPT ![c] = z]
         IN  /\ \A d : Begun(l2, d) = IF d = OwnerOf[c] THEN Begun(lk, d) \cup {c} ELSE Begun(lk, d)
             /\ \A d : Begun(lk, d) \in SUBSET Links /\ Cardinality(Begun(lk, d)) \in Nat
             /\ \A d : Cardinality(Begun(lk, d)) <= Cardinality(Begun(l2, d))
<1> DEFINE l2 == [lk EXCEPT ![c] = z]
<1>1. \A d : Begun(l2, d) = IF d = OwnerOf[c] THEN Begun(lk, d) \cup {c} ELSE Begun(lk, d)
  BY LinksFacts DEF Begun, Of
<1>2. ASSUME NEW d PROVE Begun(lk, d) \in SUBSET Links /\ IsFiniteSet(Begun(lk, d))
  <2>1. Begun(lk, d) \in SUBSET Links
    BY DEF Begun, Of
  <2> QED
    BY <2>1, LinksFacts, FS_Subset
<1>3. \A d : Cardinality(Begun(lk, d)) \in Nat
  BY <1>2, FS_CardinalityType
<1> HIDE DEF l2
<1>4. ASSUME NEW d PROVE Cardinality(Begun(lk, d)) <= Cardinality(Begun(l2, d))
  <2>1. CASE d = OwnerOf[c] /\ c \notin Begun(lk, d)
    <3>1. Begun(l2, d) = Begun(lk, d) \cup {c}
      BY <1>1, <2>1
    <3>2. Cardinality(Begun(l2, d)) = Cardinality(Begun(lk, d)) + 1
      BY <1>2, <2>1, <3>1, TrackMore
    <3> QED
      BY <1>3, <3>2
  <2>2. CASE ~(d = OwnerOf[c] /\ c \notin Begun(lk, d))
    <3>1. Begun(l2, d) = Begun(lk, d)
      BY <1>1, <2>2
    <3>2. Cardinality(Begun(lk, d)) \in Nat
      BY <1>3
    <3> QED
      BY <3>1, <3>2
  <2> QED
    BY <2>1, <2>2
<1> QED
  BY <1>1, <1>2, <1>3, <1>4 DEF l2

(* The books of the clients, replaced together. *)
Booked(w, N, E, C, H, A, K) ==
  [w EXCEPT !.count = N, !.rec = E, !.conns = C, !.hist = H, !.act = A, !.skew = K]

LEMMA BooksAre ==
  ASSUME NEW w \in DaeRec, NEW N \in [Owners -> Int],
         NEW E \in [Owners -> {"none", "online", "offline"}], NEW C \in SUBSET Links,
         NEW H \in [Links -> SUBSET Shells], NEW A \in [Links -> SUBSET Shells], NEW K \in SUBSET Owners
  PROVE  LET x == Booked(w, N, E, C, H, A, K)
         IN  /\ x \in DaeRec /\ x.role = w.role /\ x.life = w.life /\ x.quiet = w.quiet
             /\ x.index = w.index /\ x.at = w.at /\ x.disk = w.disk /\ x.rec = E /\ x.conns = C
             /\ x.act = A /\ x.count = N /\ x.hist = H /\ x.skew = K
<1> DEFINE y == [w EXCEPT !.count = N, !.rec = E, !.conns = C]
           x == [y EXCEPT !.hist = H, !.act = A, !.skew = K]
<1>1. /\ y \in DaeRec /\ y.role = w.role /\ y.life = w.life /\ y.quiet = w.quiet
      /\ y.index = w.index /\ y.at = w.at /\ y.disk = w.disk /\ y.rec = E /\ y.conns = C
      /\ y.count = N
  BY DEF DaeRec
<1>2. Booked(w, N, E, C, H, A, K) = x
  BY DEF Booked, DaeRec
<1> HIDE DEF y
<1>3. /\ x \in DaeRec /\ x.role = y.role /\ x.life = y.life /\ x.quiet = y.quiet
      /\ x.index = y.index /\ x.at = y.at /\ x.disk = y.disk /\ x.rec = y.rec /\ x.conns = y.conns
      /\ x.count = y.count /\ x.act = A /\ x.hist = H /\ x.skew = K
  BY <1>1 DEF DaeRec
<1> HIDE DEF x
<1> QED
  BY <1>1, <1>2, <1>3

(* record_daemon_client_attach: of a connection that is new. *)
LEMMA RecordOK ==
  ASSUME NEW w, NEW lk \in [Links -> LinkStates], WOK(w, lk), NEW c \in Links, lk[c] = "new",
         NEW s \in Shells, s \in w.index, w.at[c] = s, OwnerOf[c] \in w.role[s]
  PROVE  WOK(RecordAttach(w, c, s), [lk EXCEPT ![c] = "open"])
<1> DEFINE d == OwnerOf[c]
           x == RecordAttach(w, c, s)
           l2 == [lk EXCEPT ![c] = "open"]
           N == [w.count EXCEPT ![d] = IF @ < 0 THEN 1 ELSE @ + 1]
           E == [w.rec EXCEPT ![d] = "online"]
           C == w.conns \cup {c}
           H == [w.hist EXCEPT ![c] = {s}]
           A == [w.act EXCEPT ![c] = {s}]
<1>0. w \in DaeRec /\ PresInv(w, lk) /\ RoleInv(w, lk) /\ d \in Owners /\ c \in Of(d)
  BY LinksFacts DEF WOK
<1>1. x = Booked(w, N, E, C, H, A, w.skew)
  BY <1>0 DEF Booked, RecordAttach, HistoryAttaches, RecordConnection, HistoryConnects, DaeRec
<1>2. /\ N \in [Owners -> Int] /\ E \in [Owners -> {"none", "online", "offline"}] /\ C \subseteq Links
      /\ H \in [Links -> SUBSET Shells] /\ A \in [Links -> SUBSET Shells]
      /\ E[d] = "online" /\ \A e \in Owners \ {d} : E[e] = w.rec[e] /\ N[e] = w.count[e]
      /\ N[d] = IF w.count[d] < 0 THEN 1 ELSE w.count[d] + 1
      /\ H[c] = {s} /\ A[c] = {s} /\ \A b \in Links \ {c} : H[b] = w.hist[b] /\ A[b] = w.act[b]
  BY <1>0, DaeTypes
<1> HIDE DEF N, E, H, A, C
<1>3. /\ x \in DaeRec /\ x.role = w.role /\ x.life = w.life
      /\ x.index = w.index /\ x.at = w.at /\ x.rec = E /\ x.conns = C
      /\ x.act = A /\ x.count = N /\ x.hist = H /\ x.skew = w.skew
  <2>1. w.skew \in SUBSET Owners
    BY <1>0, DaeTypes
  <2>2. /\ N \in [Owners -> Int] /\ E \in [Owners -> {"none", "online", "offline"}]
        /\ C \in SUBSET Links /\ H \in [Links -> SUBSET Shells] /\ A \in [Links -> SUBSET Shells]
    BY <1>2
  <2>3. w \in DaeRec
    BY <1>0
  <2> HIDE DEF x
  <2> QED
    BY ONLY <1>1, <2>1, <2>2, <2>3, BooksAre
<1> HIDE DEF x
<1>4. l2[c] = "open" /\ \A b \in Links \ {c} : l2[b] = lk[b]
  OBVIOUS
<1>n. c \notin w.conns
  BY <1>0 DEF PresInv
<1>5. /\ Tracked(x, d) = Tracked(w, d) \cup {c} /\ c \notin Tracked(w, d)
      /\ \A e \in Owners \ {d} : Tracked(x, e) = Tracked(w, e)
      /\ Tracked(w, d) \in SUBSET Links
  BY <1>0, <1>3, <1>n DEF Tracked, Of, C
<1>6. Cardinality(Tracked(w, d)) \in Nat /\ Cardinality(Tracked(x, d)) = Cardinality(Tracked(w, d)) + 1
  BY <1>5, TrackMore
<1>7. /\ Begun(l2, d) = Begun(lk, d) \cup {c} /\ c \notin Begun(lk, d) /\ Begun(lk, d) \in SUBSET Links
      /\ \A e \in Owners \ {d} : Begun(l2, e) = Begun(lk, e)
  <2>1. \A e : Begun(l2, e) = IF e = OwnerOf[c] THEN Begun(lk, e) \cup {c} ELSE Begun(lk, e)
    BY BegunGrows DEF LinkStates
  <2>2. c \notin Begun(lk, d) /\ Begun(lk, d) \in SUBSET Links
    BY DEF Begun, Of
  <2> QED
    BY <2>1, <2>2
<1>8. Cardinality(Begun(lk, d)) \in Nat /\ Cardinality(Begun(l2, d)) = Cardinality(Begun(lk, d)) + 1
  BY <1>7, TrackMore
<1> HIDE DEF l2
<1>9. PresInv(x, l2)
  <2>1. \A b \in Links : b \in x.conns <=> l2[b] \in {"open", "lost"}
    BY <1>0, <1>3, <1>4 DEF PresInv, C
  <2>2. \A e \in Owners : x.rec[e] = "online" <=> Tracked(x, e) # {}
    BY <1>0, <1>2, <1>3, <1>5 DEF PresInv
  <2>3. w.count[d] \in Int /\ \A e \in Owners : w.count[e] >= -1 /\ w.count[e] <= Cardinality(Begun(lk, e))
    BY <1>0, DaeTypes DEF PresInv
  <2>4. ASSUME NEW e \in Owners \ x.skew
        PROVE  x.count[e] = Cardinality(Tracked(x, e)) \/ (x.count[e] = -1 /\ Tracked(x, e) = {})
    <3>1. w.count[e] = Cardinality(Tracked(w, e)) \/ (w.count[e] = -1 /\ Tracked(w, e) = {})
      BY <1>0, <1>3 DEF PresInv
    <3>2. CASE e # d
      BY <3>1, <3>2, <1>2, <1>3, <1>5
    <3>3. CASE e = d
      <4>1. CASE w.count[d] = Cardinality(Tracked(w, d))
        BY <4>1, <3>3, <1>2, <1>3, <1>6
      <4>2. CASE w.count[d] = -1 /\ Tracked(w, d) = {}
        <5>1. Cardinality(Tracked(w, d)) = 0
          BY <4>2, FS_EmptySet
        <5> QED
          BY <5>1, <4>2, <3>3, <1>2, <1>3, <1>6
      <4> QED
        BY <4>1, <4>2, <3>1, <3>3
    <3> QED
      BY <3>2, <3>3
  <2>5. ASSUME NEW e \in Owners
        PROVE  x.count[e] >= -1 /\ x.count[e] <= Cardinality(Begun(l2, e))
    <3>1. CASE e # d
      BY <3>1, <2>3, <1>2, <1>3, <1>7
    <3>2. CASE e = d
      BY <3>2, <2>3, <1>2, <1>3, <1>8
    <3> QED
      BY <3>1, <3>2
  <2>6. \A b \in Links : x.hist[b] \subseteq x.index /\ x.act[b] \subseteq x.index
    BY <1>0, <1>2, <1>3 DEF PresInv
  <2> QED
    BY <2>1, <2>2, <2>4, <2>5, <2>6 DEF PresInv
<1>10. RoleInv(x, l2)
  <2>1. \A t \in x.index : x.life[t] # "none"
    BY <1>0, <1>3 DEF RoleInv
  <2>2. ASSUME NEW b \in Links, l2[b] = "open"
        PROVE  /\ x.at[b] \in Shells /\ x.life[x.at[b]] # "none"
               /\ x.at[b] \in x.index => x.at[b] \in x.act[b]
               /\ x.at[b] \in x.index /\ x.life[x.at[b]] = "running" => OwnerOf[b] \in x.role[x.at[b]]
    <3>1. CASE b = c
      BY <3>1, <2>1, <1>2, <1>3
    <3>2. CASE b # c
      BY <3>2, <2>2, <1>0, <1>2, <1>3, <1>4 DEF RoleInv
    <3> QED
      BY <3>1, <3>2
  <2> QED
    BY <2>1, <2>2 DEF RoleInv
<1> QED
  BY <1>3, <1>9, <1>10 DEF WOK, x, l2

LEMMA MetaOK ==
  ASSUME NEW w, NEW lk, WOK(w, lk), NEW s \in Shells
  PROVE  LET x == [w EXCEPT !.meta[s] = @ + 1]
         IN  /\ WOK(x, lk) /\ x.quiet = w.quiet /\ x.index = w.index /\ x.act = w.act
             /\ x.at = w.at /\ x.life = w.life /\ x.conns = w.conns
<1> DEFINE x == [w EXCEPT !.meta[s] = @ + 1]
           M == [w.meta EXCEPT ![s] = @ + 1]
<1>0. w \in DaeRec
  BY DEF WOK
<1>1. x = [w EXCEPT !.meta = M]
  BY <1>0 DEF DaeRec
<1>2. M \in [Shells -> Nat]
  BY <1>0, DaeTypes
<1> HIDE DEF M
<1>3. /\ x \in DaeRec /\ x.role = w.role /\ x.quiet = w.quiet /\ x.life = w.life
      /\ x.index = w.index /\ x.at = w.at /\ x.rec = w.rec /\ x.conns = w.conns
      /\ x.act = w.act /\ x.count = w.count /\ x.hist = w.hist /\ x.skew = w.skew
  BY <1>0, <1>1, <1>2 DEF DaeRec
<1> HIDE DEF x
<1>4. Calm(w, x)
  BY <1>3 DEF Calm
<1>5. WOK(x, lk)
  BY <1>3, <1>4, CalmOK
<1> QED
  BY <1>3, <1>5 DEF x

LEMMA DiskOK ==
  ASSUME NEW w, NEW lk, WOK(w, lk), NEW D \in SUBSET Shells
  PROVE  LET x == [w EXCEPT !.disk = D]
         IN  WOK(x, lk) /\ x.quiet = w.quiet
<1> DEFINE x == [w EXCEPT !.disk = D]
<1>0. w \in DaeRec
  BY DEF WOK
<1>3. /\ x \in DaeRec /\ x.role = w.role /\ x.quiet = w.quiet /\ x.life = w.life
      /\ x.index = w.index /\ x.at = w.at /\ x.rec = w.rec /\ x.conns = w.conns
      /\ x.act = w.act /\ x.count = w.count /\ x.hist = w.hist /\ x.skew = w.skew
  BY <1>0 DEF DaeRec
<1> HIDE DEF x
<1>4. Calm(w, x)
  BY <1>3 DEF Calm
<1>5. WOK(x, lk)
  BY <1>3, <1>4, CalmOK
<1> QED
  BY <1>3, <1>5 DEF x

(* The commit of a watched attachment: of a connection not open yet. *)
LEMMA CommitOK ==
  ASSUME NEW w, NEW lk, WOK(w, lk), NEW s \in Shells, NEW c \in Links, lk[c] # "open"
  PROVE  LET x == WatchedCommitted(w, s, c)
         IN  /\ WOK(x, lk) /\ x.at[c] = s /\ x.role = w.role /\ x.index = w.index
             /\ x.life = w.life
<1> DEFINE x == WatchedCommitted(w, s, c)
           W == [w.watched EXCEPT ![s] = @ \cup {c}]
           T == [w.at EXCEPT ![c] = s]
<1>0. w \in DaeRec /\ PresInv(w, lk) /\ RoleInv(w, lk)
  BY DEF WOK
<1>1. x = [w EXCEPT !.watched = W, !.at = T]
  BY <1>0 DEF WatchedCommitted, StartWatched, DaeRec
<1>2. /\ W \in [Shells -> SUBSET Links] /\ T \in [Links -> Shells \cup {NoShell}]
      /\ T[c] = s /\ \A b \in Links \ {c} : T[b] = w.at[b]
  BY <1>0, DaeTypes
<1> HIDE DEF W, T
<1>3. /\ x \in DaeRec /\ x.role = w.role /\ x.life = w.life
      /\ x.index = w.index /\ x.at = T /\ x.rec = w.rec /\ x.conns = w.conns
      /\ x.act = w.act /\ x.count = w.count /\ x.hist = w.hist /\ x.skew = w.skew
  BY ZenonT(60), <1>0, <1>1, <1>2 DEF DaeRec
<1> HIDE DEF x
<1>4. PresInv(x, lk)
  BY <1>0, <1>3 DEF PresInv, Tracked
<1>5. RoleInv(x, lk)
  BY <1>0, <1>2, <1>3 DEF RoleInv
<1> QED
  BY <1>2, <1>3, <1>4, <1>5 DEF WOK, x

(* create_session_inner: a session nobody attached before. *)
Shown(w, s) == [w EXCEPT !.life[s] = "running", !.index = @ \cup {s}, !.disk = @ \cup {s}]

LEMMA ShownOK ==
  ASSUME NEW w, NEW lk, WOK(w, lk), NEW s \in Shells,
         \A c \in Links : lk[c] = "open" => w.at[c] # s
  PROVE  LET x == Shown(w, s)
         IN  /\ WOK(x, lk) /\ x.at = w.at /\ x.role = w.role /\ x.index = w.index \cup {s}
<1> DEFINE x == Shown(w, s)
           L == [w.life EXCEPT ![s] = "running"]
           I == w.index \cup {s}
           D == w.disk \cup {s}
<1>0. w \in DaeRec /\ PresInv(w, lk) /\ RoleInv(w, lk)
  BY DEF WOK
<1>1. x = [w EXCEPT !.life = L, !.index = I, !.disk = D]
  BY <1>0 DEF Shown, DaeRec
<1>2. /\ L \in [Shells -> {"none", "running", "exited", "closed"}] /\ L[s] = "running"
      /\ \A t \in Shells \ {s} : L[t] = w.life[t]
      /\ I \in SUBSET Shells /\ D \in SUBSET Shells /\ w.index \subseteq Shells
  BY <1>0, DaeTypes
<1> HIDE DEF L, D
<1>3. /\ x \in DaeRec /\ x.role = w.role /\ x.life = L
      /\ x.index = I /\ x.at = w.at /\ x.rec = w.rec /\ x.conns = w.conns
      /\ x.act = w.act /\ x.count = w.count /\ x.hist = w.hist /\ x.skew = w.skew
  BY ZenonT(60), <1>0, <1>1, <1>2 DEF DaeRec
<1> HIDE DEF x
<1>4. PresInv(x, lk)
  <2>1. \A b \in Links : x.hist[b] \subseteq x.index /\ x.act[b] \subseteq x.index
    BY <1>0, <1>3 DEF PresInv
  <2> QED
    BY <1>0, <1>3, <2>1 DEF PresInv, Tracked
<1>5. RoleInv(x, lk)
  <2>1. \A t \in x.index : x.life[t] # "none"
    BY <1>0, <1>2, <1>3 DEF RoleInv
  <2>2. ASSUME NEW b \in Links, lk[b] = "open"
        PROVE  /\ x.at[b] \in Shells /\ x.life[x.at[b]] # "none"
               /\ x.at[b] \in x.index => x.at[b] \in x.act[b]
               /\ x.at[b] \in x.index /\ x.life[x.at[b]] = "running" => OwnerOf[b] \in x.role[x.at[b]]
    BY <2>2, <1>0, <1>2, <1>3 DEF RoleInv
  <2> QED
    BY <2>1, <2>2 DEF RoleInv
<1> QED
  BY <1>3, <1>4, <1>5 DEF WOK, x

(* mark_daemon_client_connection_offline: of a connection that is open. *)
OfflineOf(w, lk, c, x) ==
  /\ WOK(x, [lk EXCEPT ![c] = "closed"])
  /\ x.index = w.index /\ x.at = w.at /\ x.life = w.life /\ x.role = w.role
  /\ x.conns = w.conns \ {c} /\ \A b \in Links \ {c} : x.act[b] = w.act[b]

LEMMA OfflineOK ==
  ASSUME NEW w, NEW lk \in [Links -> LinkStates], WOK(w, lk), NEW c \in Links, lk[c] = "open",
         NEW saved
  PROVE  OfflineOf(w, lk, c, MarkOffline(w, c, saved))
<1> DEFINE d == OwnerOf[c]
           x == MarkOffline(w, c, saved)
           l2 == [lk EXCEPT ![c] = "closed"]
           left == (w.conns \cap Of(d)) \ {c}
           off == IF saved THEN "none" ELSE "offline"
           e1 == IF w.rec[d] = "none" THEN w.rec[d] ELSE IF left = {} THEN off ELSE "online"
           n1 == IF w.count[d] > 0 THEN w.count[d] - 1 ELSE w.count[d]
           N == IF saved THEN [w.count EXCEPT ![d] = n1] ELSE w.count
           E == [w.rec EXCEPT ![d] = e1]
           C == w.conns \ {c}
           H == IF saved THEN [w.hist EXCEPT ![c] = {}] ELSE w.hist
           A == [w.act EXCEPT ![c] = {}]
           K == IF saved THEN w.skew ELSE w.skew \cup {d}
<1>0. w \in DaeRec /\ PresInv(w, lk) /\ RoleInv(w, lk) /\ d \in Owners /\ c \in Of(d)
  BY LinksFacts DEF WOK
<1>1. x = Booked(w, N, E, C, H, A, K)
  <2>1. CASE saved
    BY ZenonT(60), <1>0, <2>1 DEF Booked, MarkOffline, HistoryDisconnects, DaeRec
  <2>2. CASE ~saved
    BY ZenonT(60), <1>0, <2>2 DEF Booked, MarkOffline, DaeRec
  <2> QED
    BY <2>1, <2>2
<1>2. /\ N \in [Owners -> Int] /\ E \in [Owners -> {"none", "online", "offline"}] /\ C \in SUBSET Links
      /\ H \in [Links -> SUBSET Shells] /\ A \in [Links -> SUBSET Shells] /\ K \in SUBSET Owners
      /\ E[d] = e1 /\ \A e \in Owners \ {d} : E[e] = w.rec[e] /\ N[e] = w.count[e]
      /\ N[d] = IF saved THEN n1 ELSE w.count[d]
      /\ H[c] \subseteq w.hist[c] /\ A[c] = {} /\ \A b \in Links \ {c} : H[b] = w.hist[b] /\ A[b] = w.act[b]
      /\ w.skew \subseteq K /\ (~saved => d \in K)
  BY <1>0, DaeTypes
<1> HIDE DEF N, E, H, A, K
<1>3. /\ x \in DaeRec /\ x.role = w.role /\ x.life = w.life
      /\ x.index = w.index /\ x.at = w.at /\ x.rec = E /\ x.conns = C
      /\ x.act = A /\ x.count = N /\ x.hist = H /\ x.skew = K
  <2>1. /\ w \in DaeRec /\ N \in [Owners -> Int] /\ E \in [Owners -> {"none", "online", "offline"}]
        /\ C \in SUBSET Links /\ H \in [Links -> SUBSET Shells] /\ A \in [Links -> SUBSET Shells]
        /\ K \in SUBSET Owners
    BY <1>0, <1>2
  <2> HIDE DEF x, C
  <2> QED
    BY ONLY <1>1, <2>1, BooksAre
<1> HIDE DEF x
<1>4. l2[c] = "closed" /\ \A b \in Links \ {c} : l2[b] = lk[b]
  OBVIOUS
<1>n. c \in w.conns
  BY <1>0 DEF PresInv
<1>5. /\ Tracked(x, d) = Tracked(w, d) \ {c} /\ c \in Tracked(w, d) /\ left = Tracked(x, d)
      /\ \A e \in Owners \ {d} : Tracked(x, e) = Tracked(w, e)
      /\ Tracked(w, d) \in SUBSET Links
  BY <1>0, <1>3, <1>n DEF Tracked, Of
<1>6. /\ Cardinality(Tracked(w, d)) \in Nat /\ Cardinality(Tracked(w, d)) > 0
      /\ Cardinality(Tracked(x, d)) = Cardinality(Tracked(w, d)) - 1
  BY <1>5, TrackLess
<1>7. \A e : /\ Cardinality(Begun(lk, e)) \in Nat /\ Begun(l2, e) = Begun(lk, e)
  <2>1. /\ \A e : Begun(l2, e) = IF e = OwnerOf[c] THEN Begun(lk, e) \cup {c} ELSE Begun(lk, e)
        /\ \A e : Cardinality(Begun(lk, e)) \in Nat
    BY BegunGrows DEF LinkStates
  <2>2. c \in Begun(lk, OwnerOf[c])
    BY <1>0 DEF Begun
  <2> QED
    BY <2>1, <2>2
<1> HIDE DEF l2
<1>9. PresInv(x, l2)
  <2>1. \A b \in Links : b \in x.conns <=> l2[b] \in {"open", "lost"}
    BY <1>0, <1>3, <1>4 DEF PresInv
  <2>2. ASSUME NEW e \in Owners
        PROVE  x.rec[e] = "online" <=> Tracked(x, e) # {}
    <3>0. w.rec[e] = "online" <=> Tracked(w, e) # {}
      BY <1>0 DEF PresInv
    <3>1. CASE e # d
      BY <3>0, <3>1, <1>2, <1>3, <1>5
    <3>2. CASE e = d
      BY <3>0, <3>2, <1>2, <1>3, <1>5
    <3> QED
      BY <3>1, <3>2
  <2>3. \A e \in Owners : w.count[e] \in Int /\ w.count[e] >= -1 /\ w.count[e] <= Cardinality(Begun(lk, e))
    BY <1>0, DaeTypes DEF PresInv
  <2>4. ASSUME NEW e \in Owners \ x.skew
        PROVE  x.count[e] = Cardinality(Tracked(x, e)) \/ (x.count[e] = -1 /\ Tracked(x, e) = {})
    <3>1. w.count[e] = Cardinality(Tracked(w, e)) \/ (w.count[e] = -1 /\ Tracked(w, e) = {})
      BY <1>0, <1>2, <1>3 DEF PresInv
    <3>2. CASE e # d
      BY <3>1, <3>2, <1>2, <1>3, <1>5
    <3>3. CASE e = d
      <4>1. saved
        BY <3>3, <1>2, <1>3
      <4>2. w.count[d] = Cardinality(Tracked(w, d))
        BY <3>1, <3>3, <1>5
      <4> QED
        BY <4>1, <4>2, <3>3, <1>2, <1>3, <1>6
    <3> QED
      BY <3>2, <3>3
  <2>5. ASSUME NEW e \in Owners
        PROVE  x.count[e] >= -1 /\ x.count[e] <= Cardinality(Begun(l2, e))
    <3>1. CASE e # d
      BY <3>1, <2>3, <1>2, <1>3, <1>7
    <3>2. CASE e = d
      BY <3>2, <2>3, <1>2, <1>3, <1>7
    <3> QED
      BY <3>1, <3>2
  <2>6. \A b \in Links : x.hist[b] \subseteq x.index /\ x.act[b] \subseteq x.index
    BY <1>0, <1>2, <1>3 DEF PresInv
  <2> QED
    BY <2>1, <2>2, <2>4, <2>5, <2>6 DEF PresInv
<1>10. RoleInv(x, l2)
  BY <1>0, <1>2, <1>3, <1>4 DEF RoleInv
<1> QED
  BY <1>2, <1>3, <1>9, <1>10 DEF OfflineOf, WOK, x, l2

(* forget_offline_client: of a device that is not online. *)
LEMMA ForgetOK ==
  ASSUME NEW w, NEW lk \in [Links -> LinkStates], WOK(w, lk), NEW d \in Owners, w.rec[d] # "online"
  PROVE  LET x == [HistoryForgets(w, d) EXCEPT !.rec[d] = "none"]
         IN  WOK(x, lk) /\ x.quiet = w.quiet
<1> DEFINE x == [HistoryForgets(w, d) EXCEPT !.rec[d] = "none"]
           N == IF w.count[d] > 0 THEN w.count ELSE [w.count EXCEPT ![d] = -1]
           E == [w.rec EXCEPT ![d] = "none"]
           H == IF w.count[d] > 0 THEN w.hist
                ELSE [c \in Links |-> IF c \in Of(d) THEN {} ELSE w.hist[c]]
<1>0. w \in DaeRec /\ PresInv(w, lk) /\ RoleInv(w, lk)
  BY DEF WOK
<1>1. x = Booked(w, N, E, w.conns, H, w.act, w.skew)
  <2>1. CASE w.count[d] > 0
    BY <1>0, <2>1 DEF Booked, HistoryForgets, DaeRec
  <2>2. CASE ~(w.count[d] > 0)
    BY <1>0, <2>2 DEF Booked, HistoryForgets, DaeRec
  <2> QED
    BY <2>1, <2>2
<1>2. /\ N \in [Owners -> Int] /\ E \in [Owners -> {"none", "online", "offline"}]
      /\ H \in [Links -> SUBSET Shells]
      /\ E[d] = "none" /\ \A e \in Owners \ {d} : E[e] = w.rec[e] /\ N[e] = w.count[e]
      /\ N[d] = IF w.count[d] > 0 THEN w.count[d] ELSE -1
      /\ \A b \in Links : H[b] \subseteq w.hist[b]
  BY <1>0, DaeTypes
<1> HIDE DEF N, E, H
<1>3. /\ x \in DaeRec /\ x.role = w.role /\ x.life = w.life /\ x.quiet = w.quiet
      /\ x.index = w.index /\ x.at = w.at /\ x.rec = E /\ x.conns = w.conns
      /\ x.act = w.act /\ x.count = N /\ x.hist = H /\ x.skew = w.skew
  <2>1. /\ w \in DaeRec /\ N \in [Owners -> Int] /\ E \in [Owners -> {"none", "online", "offline"}]
        /\ w.conns \in SUBSET Links /\ H \in [Links -> SUBSET Shells] /\ w.act \in [Links -> SUBSET Shells]
        /\ w.skew \in SUBSET Owners
    BY <1>0, <1>2, DaeTypes
  <2> HIDE DEF x
  <2> QED
    BY ONLY <1>1, <2>1, BooksAre
<1> HIDE DEF x
<1>4. Tracked(w, d) = {} /\ \A e : Tracked(x, e) = Tracked(w, e)
  BY <1>0, <1>3 DEF PresInv, Tracked
<1>c. \A e \in Owners : Cardinality(Begun(lk, e)) \in Nat
  <2>1. \A e : Begun(lk, e) \subseteq Of(e)
    BY DEF Begun
  <2> QED
    BY <2>1, LinksFacts, FS_Subset, FS_CardinalityType
<1>5. PresInv(x, lk)
  <2>1. \A b \in Links : b \in x.conns <=> lk[b] \in {"open", "lost"}
    BY <1>0, <1>3 DEF PresInv
  <2>2. \A e \in Owners : x.rec[e] = "online" <=> Tracked(x, e) # {}
    BY <1>0, <1>2, <1>3, <1>4 DEF PresInv
  <2>3. \A e \in Owners : w.count[e] \in Int /\ w.count[e] >= -1 /\ w.count[e] <= Cardinality(Begun(lk, e))
    BY <1>0, DaeTypes DEF PresInv
  <2>4. ASSUME NEW e \in Owners \ x.skew
        PROVE  x.count[e] = Cardinality(Tracked(x, e)) \/ (x.count[e] = -1 /\ Tracked(x, e) = {})
    <3>1. w.count[e] = Cardinality(Tracked(w, e)) \/ (w.count[e] = -1 /\ Tracked(w, e) = {})
      BY <1>0, <1>3 DEF PresInv
    <3>2. CASE e # d
      BY <3>1, <3>2, <1>2, <1>3, <1>4
    <3>3. CASE e = d
      BY <3>1, <3>3, <1>2, <1>3, <1>4
    <3> QED
      BY <3>2, <3>3
  <2>5. \A e \in Owners : x.count[e] >= -1 /\ x.count[e] <= Cardinality(Begun(lk, e))
    BY <2>3, <1>c, <1>2, <1>3
  <2>6. \A b \in Links : x.hist[b] \subseteq x.index /\ x.act[b] \subseteq x.index
    BY <1>0, <1>2, <1>3 DEF PresInv
  <2> QED
    BY <2>1, <2>2, <2>4, <2>5, <2>6 DEF PresInv
<1>6. RoleInv(x, lk)
  BY <1>0, <1>3 DEF RoleInv
<1> QED
  BY <1>3, <1>5, <1>6 DEF WOK, x

(* detach_connection takes the role only when no other connection of the   *)
(* device is in the session.                                               *)
LEMMA TerminalDetachOK ==
  ASSUME NEW w, NEW lk \in [Links -> LinkStates], WOK(w, lk), NEW c \in Links, lk[c] = "open",
         NEW saved, NEW x \in DetachConnection(w, OwnerOf[c], c, w.at[c], saved)
  PROVE  WOK(x, [lk EXCEPT ![c] = "closed"])
<1> DEFINE d == OwnerOf[c]
           s == w.at[c]
           y == ReleaseWatched(w, s, c)
           z == MarkOffline(y, c, saved)
           l2 == [lk EXCEPT ![c] = "closed"]
<1>0. s \in Shells /\ d \in Owners
  BY LinksFacts DEF WOK, RoleInv
<1>1. /\ WOK(y, lk) /\ y.index = w.index /\ y.at = w.at /\ y.life = w.life /\ y.role = w.role
      /\ y.conns = w.conns /\ y.act = w.act
  BY <1>0, ReleaseIs
<1> HIDE DEF y
<1>2. /\ WOK(z, l2) /\ z.index = y.index /\ z.at = y.at /\ z.life = y.life
      /\ \A b \in Links \ {c} : z.act[b] = y.act[b]
  <2>1. lk \in [Links -> LinkStates] /\ lk[c] = "open" /\ WOK(y, lk) /\ c \in Links
    BY <1>1
  <2>2. OfflineOf(y, lk, c, z)
    BY <2>1, OfflineOK
  <2> QED
    BY <2>2 DEF OfflineOf
<1> HIDE DEF z
<1>3. x = z \/ (s \in z.index /\ ~HeldByAnother(w, d, s, c) /\ x \in RuntimeDetach(z, s, d))
  BY DEF DetachConnection, y, z
<1>4. CASE x = z
  BY <1>2, <1>4
<1>5. CASE s \in z.index /\ ~HeldByAnother(w, d, s, c) /\ x \in RuntimeDetach(z, s, d)
  <2>1. ASSUME NEW b \in Links, l2[b] = "open", OwnerOf[b] = d
        PROVE  z.at[b] # s
    <3>1. b # c /\ lk[b] = "open"
      BY <2>1
    <3>2. SUFFICES ASSUME w.at[b] = s PROVE FALSE
      BY <1>1, <1>2
    <3>3. b \in w.conns /\ s \in w.act[b]
      BY <3>1, <3>2, <1>1, <1>2, <1>5 DEF WOK, PresInv, RoleInv
    <3>4. b \in (Of(d) \cap w.conns) \ {c}
      BY <2>1, <3>1, <3>3 DEF Of
    <3> QED
      BY <3>3, <3>4, <1>5 DEF HeldByAnother
  <2> HIDE DEF l2, s
  <2>2. WOK(x, l2)
    BY <1>0, <1>2, <1>5, <2>1, DetachOK
  <2> QED
    BY <2>2 DEF l2
<1> QED
  BY <1>3, <1>4, <1>5

LEMMA HttpDetachOK ==
  ASSUME NEW w, NEW lk, WOK(w, lk), NEW s \in Shells, NEW d \in Owners, NEW x \in HttpCloses(w, s, d)
  PROVE  WOK(x, lk) /\ x.quiet = w.quiet
<1>1. x = w \/ (s \in w.index /\ ~HeldByAnother(w, d, s, "http") /\ x \in RuntimeDetach(w, s, d))
  BY LinksFacts DEF HttpCloses, DetachConnection
<1>2. CASE x = w
  BY <1>2
<1>3. CASE s \in w.index /\ ~HeldByAnother(w, d, s, "http") /\ x \in RuntimeDetach(w, s, d)
  <2>1. ASSUME NEW b \in Links, lk[b] = "open", OwnerOf[b] = d
        PROVE  w.at[b] # s
    <3>2. SUFFICES ASSUME w.at[b] = s PROVE FALSE
      OBVIOUS
    <3>3. b \in w.conns /\ s \in w.act[b]
      BY <2>1, <3>2, <1>3 DEF WOK, PresInv, RoleInv
    <3>4. b \in (Of(d) \cap w.conns) \ {"http"}
      BY <2>1, <3>3, LinksFacts DEF Of
    <3> QED
      BY <3>3, <3>4, <1>3 DEF HeldByAnother
  <2> QED
    BY <1>3, <2>1, DetachOK
<1> QED
  BY <1>1, <1>2, <1>3

LEMMA ScopeOK ==
  ASSUME NEW w, NEW lk, WOK(w, lk), NEW s \in Shells, NEW d \in Owners, NEW r \in HttpScope(w, s, d)
  PROVE  /\ WOK(r.w, lk) /\ r.w.quiet = w.quiet
         /\ r.ok => s \in w.index /\ d \in r.w.role[s] /\ r.w.life[s] = "running" /\ r.w.index = w.index
<1>1. CASE s \in w.index
  BY <1>1, AttachKeeps DEF HttpScope
<1>2. CASE s \notin w.index
  BY <1>2 DEF HttpScope
<1> QED
  BY <1>1, <1>2

(* A process that exits takes no role: its session is not running. *)
LEMMA ExitsOK ==
  ASSUME NEW w, NEW lk, WOK(w, lk), NEW s \in Shells, w.life[s] = "running"
  PROVE  LET x == [w EXCEPT !.life[s] = "exited", !.host[s] = {}]
         IN  /\ WOK(x, lk) /\ x.quiet = w.quiet /\ x.index = w.index /\ x.disk = w.disk /\ x.meta = w.meta
             /\ x.act = w.act /\ x.hist = w.hist /\ x.conns = w.conns /\ x.rec = w.rec
             /\ x.count = w.count /\ \A t \in Shells : Open(x, t) = Open(w, t)
<1> DEFINE x == [w EXCEPT !.life[s] = "exited", !.host[s] = {}]
           L == [w.life EXCEPT ![s] = "exited"]
           H == [w.host EXCEPT ![s] = {}]
<1>0. w \in DaeRec
  BY DEF WOK
<1>1. x = [w EXCEPT !.life = L, !.host = H]
  BY <1>0 DEF DaeRec
<1>2. /\ L \in [Shells -> {"none", "running", "exited", "closed"}] /\ L[s] = "exited"
      /\ \A t \in Shells \ {s} : L[t] = w.life[t]
      /\ H \in [Shells -> SUBSET Owners]
  BY <1>0, DaeTypes
<1> HIDE DEF L, H
<1>3. /\ x \in DaeRec /\ x.role = w.role /\ x.life = L /\ x.quiet = w.quiet /\ x.disk = w.disk
      /\ x.index = w.index /\ x.at = w.at /\ x.rec = w.rec /\ x.conns = w.conns /\ x.meta = w.meta
      /\ x.act = w.act /\ x.count = w.count /\ x.hist = w.hist /\ x.skew = w.skew
  BY <1>0, <1>1, <1>2 DEF DaeRec
<1> HIDE DEF x
<1>4. Calm(w, x)
  BY <1>2, <1>3 DEF Calm
<1>5. WOK(x, lk)
  BY <1>3, <1>4, CalmOK
<1>6. \A t \in Shells : Open(x, t) = Open(w, t)
  <2>1. \A t \in Shells : Open(x, t) <=> Open(w, t)
    BY <1>2, <1>3 DEF Open
  <2> QED
    BY <2>1 DEF Open
<1> QED
  BY <1>3, <1>5, <1>6 DEF x

(* A restart: nobody is attached, and the history has no connection. *)
LEMMA RebootOK ==
  ASSUME NEW w, NEW lk \in [Links -> LinkStates], WOK(w, lk)
  PROVE  LET x == [HistoryReset(RestoreSessions(w)) EXCEPT
                     !.role = [s \in Shells |-> {}], !.watched = [s \in Shells |-> {}],
                     !.at = [c \in Links |-> NoShell],
                     !.rec = [d \in Owners |-> "none"], !.conns = {},
                     !.act = [c \in Links |-> {}], !.skew = {}, !.quiet = FALSE]
         IN  WOK(x, [c \in Links |-> IF lk[c] = "new" THEN "new" ELSE "closed"])
<1> DEFINE x == [HistoryReset(RestoreSessions(w)) EXCEPT
                   !.role = [s \in Shells |-> {}], !.watched = [s \in Shells |-> {}],
                   !.at = [c \in Links |-> NoShell],
                   !.rec = [d \in Owners |-> "none"], !.conns = {},
                   !.act = [c \in Links |-> {}], !.skew = {}, !.quiet = FALSE]
           l2 == [c \in Links |-> IF lk[c] = "new" THEN "new" ELSE "closed"]
           alive == {s \in w.disk : w.life[s] = "running"}
           L == [s \in Shells |-> IF s \in alive THEN "running"
                                  ELSE IF w.life[s] = "none" THEN "none" ELSE "closed"]
           N == [d \in Owners |-> IF w.count[d] > 0 THEN 0 ELSE w.count[d]]
           R == [s \in Shells |-> {}]
           T == [c \in Links |-> NoShell]
           E == [d \in Owners |-> "none"]
           A == [c \in Links |-> {}]
<1>0. w \in DaeRec /\ PresInv(w, lk)
  BY DEF WOK
<1>2. /\ L \in [Shells -> {"none", "running", "exited", "closed"}]
      /\ \A s \in alive : s \in Shells /\ L[s] = "running"
      /\ alive \in SUBSET Shells /\ w.meta \in [Shells -> Nat] /\ w.host \in [Shells -> SUBSET Owners]
  BY <1>0, DaeTypes
<1>3. /\ N \in [Owners -> Int] /\ \A d \in Owners : N[d] = IF w.count[d] > 0 THEN 0 ELSE w.count[d]
      /\ \A d \in Owners : w.count[d] \in Int
  BY <1>0, DaeTypes
<1>4. /\ R \in [Shells -> SUBSET Owners] /\ R \in [Shells -> SUBSET Links]
      /\ T \in [Links -> Shells \cup {NoShell}]
      /\ E \in [Owners -> {"none", "online", "offline"}] /\ \A d \in Owners : E[d] = "none"
      /\ A \in [Links -> SUBSET Shells] /\ \A c \in Links : A[c] = {}
  OBVIOUS
<1> HIDE DEF L, N, R, T, E, A, alive
<1> DEFINE y1 == [w EXCEPT !.index = alive, !.disk = alive, !.life = L]
           y2 == [y1 EXCEPT !.hist = A, !.count = N]
           y3 == [y2 EXCEPT !.role = R, !.watched = R, !.at = T]
           y4 == [y3 EXCEPT !.rec = E, !.conns = {}, !.act = A]
           y5 == [y4 EXCEPT !.skew = {}, !.quiet = FALSE]
<1>y. HistoryReset(RestoreSessions(w)) = y2
  BY <1>0 DEF HistoryReset, RestoreSessions, DaeRec, L, alive, N, A
<1>1. y1 \in DaeRec /\ y1.life = L /\ y1.index = alive
  BY <1>0, <1>2 DEF DaeRec
<1> HIDE DEF y1
<1>5. y2 \in DaeRec /\ y2.life = L /\ y2.index = alive /\ y2.hist = A /\ y2.count = N
  BY <1>1, <1>3, <1>4 DEF DaeRec
<1> HIDE DEF y2
<1>x. x = y5
  BY <1>5, <1>y DEF DaeRec, R, T, E, A
<1>a. y3 \in DaeRec /\ y3.life = L /\ y3.index = alive /\ y3.hist = A /\ y3.count = N
  BY <1>5, <1>4 DEF DaeRec
<1> HIDE DEF y3
<1>b. /\ y4 \in DaeRec /\ y4.life = L /\ y4.index = alive /\ y4.hist = A /\ y4.count = N
      /\ y4.rec = E /\ y4.conns = {} /\ y4.act = A
  BY <1>a, <1>4 DEF DaeRec
<1> HIDE DEF y4
<1>d. /\ y5 \in DaeRec /\ y5.life = L /\ y5.index = alive /\ y5.hist = A /\ y5.count = N
      /\ y5.rec = E /\ y5.conns = {} /\ y5.act = A
  BY <1>b DEF DaeRec
<1> HIDE DEF y5
<1>6. /\ x \in DaeRec /\ x.life = L /\ x.index = alive /\ x.rec = E /\ x.conns = {} /\ x.act = A
      /\ x.count = N /\ x.hist = A
  BY <1>x, <1>d
<1> HIDE DEF x
<1>7. \A c \in Links : l2[c] \in {"new", "closed"} /\ (l2[c] = "new" <=> lk[c] = "new")
  OBVIOUS
<1>8. \A d : Begun(l2, d) = Begun(lk, d) /\ Tracked(x, d) = {}
  BY <1>6, <1>7 DEF Begun, Tracked, Of
<1> HIDE DEF l2
<1>9. PresInv(x, l2)
  <2>c. Cardinality({}) = 0 /\ \A d : Cardinality(Begun(lk, d)) \in Nat
    <3>1. \A d : Begun(lk, d) \subseteq Of(d)
      BY DEF Begun
    <3> QED
      BY <3>1, LinksFacts, FS_Subset, FS_CardinalityType, FS_EmptySet
  <2>1. \A c \in Links : c \in x.conns <=> l2[c] \in {"open", "lost"}
    BY <1>6, <1>7
  <2>2. \A d \in Owners : x.rec[d] = "online" <=> Tracked(x, d) # {}
    BY <1>4, <1>6, <1>8
  <2>3. \A d \in Owners : w.count[d] >= -1 /\ w.count[d] <= Cardinality(Begun(lk, d))
    BY <1>0 DEF PresInv
  <2>4. \A d \in Owners : x.count[d] = 0 \/ x.count[d] = -1
    BY <1>3, <1>6, <2>3
  <2>5. \A d \in Owners : x.count[d] >= -1 /\ x.count[d] <= Cardinality(Begun(l2, d))
    BY <1>8, <2>4, <2>c
  <2>6. \A c \in Links : x.hist[c] \subseteq x.index /\ x.act[c] \subseteq x.index
    BY <1>4, <1>6
  <2>7. \A d \in Owners \ x.skew : \/ x.count[d] = Cardinality(Tracked(x, d))
                                   \/ x.count[d] = -1 /\ Tracked(x, d) = {}
    BY <1>8, <2>4, <2>c
  <2> QED
    BY <2>1, <2>2, <2>5, <2>6, <2>7 DEF PresInv
<1>10. RoleInv(x, l2)
  BY <1>2, <1>6, <1>7 DEF RoleInv
<1> QED
  BY <1>6, <1>9, <1>10 DEF WOK, x, l2

(* What a metadata stream shows depends on these alone. *)
Alike(w, x) ==
  /\ x.index = w.index /\ x.disk = w.disk /\ x.meta = w.meta
  /\ x.act = w.act /\ x.hist = w.hist /\ x.conns = w.conns /\ x.rec = w.rec /\ x.count = w.count
  /\ \A s \in Shells : Open(x, s) = Open(w, s)

LEMMA AlikeShown ==
  ASSUME NEW w \in DaeRec, NEW x \in DaeRec, Alike(w, x)
  PROVE  Payload(x) = Payload(w)
<1>1. w.index \subseteq Shells
  BY DaeTypes
<1>2. ListSessions(x) = ListSessions(w)
  <2>1. \A s \in w.index : <<Open(x, s), x.meta[s]>> = <<Open(w, s), w.meta[s]>>
    BY <1>1 DEF Alike
  <2>2. x.index = w.index
    BY DEF Alike
  <2> QED
    BY <2>1, <2>2, Zenon DEF ListSessions
<1>3. \A d \in Owners : MergedClient(x, d) = MergedClient(w, d)
  <2>1. /\ x.act = w.act /\ x.hist = w.hist /\ x.conns = w.conns /\ x.rec = w.rec /\ x.count = w.count
    BY DEF Alike
  <2>2. ASSUME NEW d \in Owners
        PROVE  MergedClient(x, d) = MergedClient(w, d)
    <3>1. HistoryClient(x, d) = HistoryClient(w, d)
      BY <2>1 DEF HistoryClient
    <3>2. UNION {x.act[c] : c \in Of(d) \cap x.conns} = UNION {w.act[c] : c \in Of(d) \cap w.conns}
      BY <2>1
    <3> QED
      BY <2>1, <3>1, <3>2 DEF MergedClient
  <2> QED
    BY <2>2
<1>4. [d \in Owners |-> MergedClient(x, d)] = [d \in Owners |-> MergedClient(w, d)]
  BY <1>3, Zenon
<1> QED
  BY <1>2, <1>4, Zenon DEF Payload

LEMMA DropsAre ==
  ASSUME NEW w \in DaeRec, NEW S \in SUBSET Shells
  PROVE  LET x == [HistoryDrops(CloseVisible(w, S), S) EXCEPT !.quiet = TRUE]
         IN  /\ x \in DaeRec /\ x.index = w.index \ S /\ x.disk = w.disk /\ x.meta = w.meta /\ x.life = w.life
             /\ x.act = [c \in Links |-> w.act[c] \ S] /\ x.hist = [c \in Links |-> w.hist[c] \ S]
             /\ x.conns = w.conns /\ x.rec = w.rec /\ x.count = w.count
<1> DEFINE x == [HistoryDrops(CloseVisible(w, S), S) EXCEPT !.quiet = TRUE]
           I == w.index \ S
           A == [c \in Links |-> w.act[c] \ S]
           H == [c \in Links |-> w.hist[c] \ S]
<1>1. x = [w EXCEPT !.index = I, !.act = A, !.hist = H, !.quiet = TRUE]
  BY DEF HistoryDrops, CloseVisible, DaeRec
<1>2. /\ I \in SUBSET Shells /\ A \in [Links -> SUBSET Shells] /\ H \in [Links -> SUBSET Shells]
  BY DaeTypes
<1> HIDE DEF A, H, I
<1>3. /\ x \in DaeRec /\ x.index = I /\ x.disk = w.disk /\ x.meta = w.meta /\ x.life = w.life
      /\ x.act = A /\ x.hist = H /\ x.conns = w.conns /\ x.rec = w.rec /\ x.count = w.count
  BY ZenonT(60), <1>1, <1>2 DEF DaeRec
<1> HIDE DEF x
<1> QED
  BY <1>3 DEF x, A, H, I

LEMMA AlikeReconciled ==
  ASSUME NEW w \in DaeRec, NEW x \in DaeRec, Alike(w, x)
  PROVE  Payload(Reconciled(x)) = Payload(Reconciled(w))
<1> DEFINE S == w.index \ w.disk
           w1 == [HistoryDrops(CloseVisible(w, S), S) EXCEPT !.quiet = TRUE]
           x1 == [HistoryDrops(CloseVisible(x, S), S) EXCEPT !.quiet = TRUE]
<1>0. S \in SUBSET Shells /\ x.index \ x.disk = S
  BY DaeTypes DEF Alike
<1>1. CASE S = {}
  <2>1. Reconciled(w) = w /\ Reconciled(x) = x
    BY <1>0, <1>1 DEF Reconciled
  <2> QED
    BY <2>1, AlikeShown
<1>2. CASE S # {}
  <2>1. Reconciled(w) = w1 /\ Reconciled(x) = x1
    BY <1>0, <1>2 DEF Reconciled
  <2> HIDE DEF S
  <2>2. /\ w1 \in DaeRec /\ w1.index = w.index \ S /\ w1.disk = w.disk /\ w1.meta = w.meta
        /\ w1.act = [c \in Links |-> w.act[c] \ S] /\ w1.hist = [c \in Links |-> w.hist[c] \ S]
        /\ w1.conns = w.conns /\ w1.rec = w.rec /\ w1.count = w.count /\ w1.life = w.life
    BY <1>0, DropsAre
  <2>3. /\ x1 \in DaeRec /\ x1.index = x.index \ S /\ x1.disk = x.disk /\ x1.meta = x.meta
        /\ x1.act = [c \in Links |-> x.act[c] \ S] /\ x1.hist = [c \in Links |-> x.hist[c] \ S]
        /\ x1.conns = x.conns /\ x1.rec = x.rec /\ x1.count = x.count /\ x1.life = x.life
    BY <1>0, DropsAre
  <2> HIDE DEF w1, x1
  <2>4. \A s \in Shells : Open(x1, s) = Open(w1, s)
    <3>1. \A s \in Shells : Open(x, s) = Open(w, s)
      BY DEF Alike
    <3>2. \A s : Open(x1, s) = Open(x, s) /\ Open(w1, s) = Open(w, s)
      BY <2>2, <2>3, Zenon DEF Open
    <3> QED
      BY <3>1, <3>2, Zenon
  <2>5. Alike(w1, x1)
    BY <2>2, <2>3, <2>4 DEF Alike
  <2> QED
    BY <2>1, <2>2, <2>3, <2>5, AlikeShown
<1> QED
  BY <1>1, <1>2

LEMMA QuietShown ==
  ASSUME NEW w, NEW lk, WOK(w, lk), NEW b \in BOOLEAN
  PROVE  Payload(Reconciled([w EXCEPT !.quiet = b])) = Payload(Reconciled(w))
<1> DEFINE x == [w EXCEPT !.quiet = b]
<1>1. /\ WOK(x, lk) /\ x.index = w.index /\ x.disk = w.disk /\ x.life = w.life /\ x.meta = w.meta
      /\ x.act = w.act /\ x.hist = w.hist /\ x.conns = w.conns /\ x.rec = w.rec /\ x.count = w.count
  BY QuietIs
<1> HIDE DEF x
<1>2. \A s : Open(x, s) = Open(w, s)
  BY <1>1, Zenon DEF Open
<1>3. Alike(w, x)
  BY <1>1, <1>2 DEF Alike
<1>4. w \in DaeRec /\ x \in DaeRec
  BY <1>1 DEF WOK
<1>5. Payload(Reconciled(x)) = Payload(Reconciled(w))
  BY <1>3, <1>4, AlikeReconciled
<1> QED
  BY <1>5 DEF x

(* A critical section that announces leaves every stream a change to see;  *)
(* one that does not is noted when it changed what the streams show.       *)
LEMMA AnnounceOK ==
  ASSUME ViewersOK, NEW w, Announce(w), WOK(w, link'), link' \in [Links -> LinkStates]
  PROVE  ClientsInv'
<1>1. dae' = [w EXCEPT !.quiet = FALSE]
  BY DEF Announce, Announced
<1>2. WOK(dae', link')
  BY <1>1, QuietIs
<1>3. viewer' = [v \in Viewers |-> [viewer[v] EXCEPT !.pend = @ \/ viewer[v].st # "new"]]
  BY DEF Announce, Notify
<1>4. ASSUME NEW v \in Viewers
      PROVE  /\ ViewerRec(viewer'[v])
             /\ viewer'[v].st # "new" => viewer'[v].pend
  <2>1. ViewerRec(viewer[v])
    BY DEF ViewersOK
  <2> DEFINE p == viewer[v].pend \/ viewer[v].st # "new"
  <2>2. viewer'[v] = [st |-> viewer[v].st, pend |-> p, shown |-> viewer[v].shown]
    BY <1>3, <2>1 DEF ViewerRec
  <2>3. p \in BOOLEAN /\ (viewer[v].st # "new" => p)
    OBVIOUS
  <2> HIDE DEF p
  <2>4. viewer'[v].st = viewer[v].st /\ viewer'[v].pend = p /\ viewer'[v].shown = viewer[v].shown
    BY <2>2
  <2>5. viewer'[v] = [st |-> viewer'[v].st, pend |-> viewer'[v].pend, shown |-> viewer'[v].shown]
    BY <2>2, <2>4
  <2> QED
    BY <2>1, <2>3, <2>4, <2>5 DEF ViewerRec
<1>5. ViewersOK' /\ StreamsAreCurrent'
  BY <1>3, <1>4 DEF ViewersOK, StreamsAreCurrent
<1> QED
  BY <1>2, <1>5 DEF ClientsInv

LEMMA SilentOK ==
  ASSUME ViewersOK, StreamsAreCurrent, NEW w, Silently(w), WOK(w, link'), link' \in [Links -> LinkStates],
         dae.quiet => w.quiet
  PROVE  ClientsInv'
<1> DEFINE b == w.quiet \/ Payload(Reconciled(w)) # Payload(Reconciled(dae))
<1>0. w \in DaeRec /\ w.quiet \in BOOLEAN
  BY DaeTypes DEF WOK
<1>1. dae' = [w EXCEPT !.quiet = b] /\ viewer' = viewer /\ b \in BOOLEAN
  BY <1>0 DEF Silently
<1> HIDE DEF b
<1>2. WOK(dae', link') /\ dae'.quiet = b
  BY <1>1, QuietIs
<1>3. Payload(Reconciled(dae')) = Payload(Reconciled(w))
  BY <1>1, QuietShown
<1>4. StreamsAreCurrent'
  <2>1. CASE b
    BY <1>2, <2>1 DEF StreamsAreCurrent
  <2>2. CASE ~b
    <3>1. ~dae.quiet /\ Payload(Reconciled(w)) = Payload(Reconciled(dae))
      BY <2>2 DEF b
    <3> QED
      BY <1>1, <1>3, <3>1 DEF StreamsAreCurrent
  <2> QED
    BY <2>1, <2>2
<1>5. ViewersOK'
  BY <1>1 DEF ViewersOK
<1> QED
  BY <1>2, <1>4, <1>5 DEF ClientsInv

LEMMA ClientsBegin == ClientsInit => ClientsInv
<1> SUFFICES ASSUME ClientsInit PROVE ClientsInv
  OBVIOUS
<1>1. dae \in DaeRec
  BY DEF ClientsInit, DaeRec
<1>2. /\ dae.index = {} /\ dae.conns = {} /\ dae.rec = [d \in Owners |-> "none"]
      /\ dae.count = [d \in Owners |-> -1] /\ dae.hist = [c \in Links |-> {}]
      /\ dae.act = [c \in Links |-> {}] /\ link = [c \in Links |-> "new"]
  BY DEF ClientsInit
<1>3. \A d \in Owners : Tracked(dae, d) = {} /\ Begun(link, d) = {}
  BY <1>2 DEF Tracked, Begun, Of
<1>4. Cardinality({}) = 0
  BY FS_EmptySet
<1>5. PresInv(dae, link)
  BY SMTT(30), <1>2, <1>3, <1>4 DEF PresInv
<1>6. RoleInv(dae, link)
  BY <1>2 DEF RoleInv
<1>7. ViewersOK /\ StreamsAreCurrent
  BY DEF ClientsInit, ViewersOK, ViewerRec, StreamsAreCurrent
<1> QED
  BY <1>1, <1>2, <1>5, <1>6, <1>7 DEF ClientsInv, WOK, LinkStates

LEMMA CreateStep ==
  ASSUME ClientsInv, NEW c \in Links, NEW s \in Shells, CreateTerminal(c, s)
  PROVE  ClientsInv'
<1> DEFINE d == OwnerOf[c]
           y == RoleAttach(dae, s, d)
           z == WatchedCommitted(y, s, c)
           w1 == Shown(z, s)
           x == RecordAttach(w1, c, s)
<1>0. /\ WOK(dae, link) /\ dae \in DaeRec /\ link \in [Links -> LinkStates] /\ ViewersOK /\ d \in Owners
      /\ link[c] = "new" /\ dae.life[s] = "none" /\ link' = [link EXCEPT ![c] = "open"]
  BY LinksFacts DEF ClientsInv, WOK, CreateTerminal
<1>1. Announce(x)
  BY DEF CreateTerminal, Shown
<1>2. /\ Calm(dae, y) /\ y.life = dae.life /\ d \in y.role[s]
      /\ \A t \in Shells : dae.role[t] \subseteq y.role[t]
  BY <1>0, RoleAttachIs
<1> HIDE DEF y
<1>3. WOK(y, link) /\ y.at = dae.at
  <2>1. y.at = dae.at /\ dae.index \subseteq Shells
    BY <1>0, <1>2, DaeTypes DEF Calm
  <2>2. WOK(y, link)
    BY <1>0, <1>2, <2>1, CalmOK
  <2> QED
    BY <2>1, <2>2
<1>4. /\ WOK(z, link) /\ z.at[c] = s /\ z.role = y.role /\ z.index = y.index /\ z.life = y.life
  BY <1>0, <1>3, CommitOK
<1> HIDE DEF z
<1>5. \A b \in Links : link[b] = "open" => z.at[b] # s
  BY <1>0, <1>2, <1>4 DEF WOK, RoleInv
<1>6. WOK(w1, link) /\ w1.at = z.at /\ w1.role = z.role /\ w1.index = z.index \cup {s}
  BY <1>4, <1>5, ShownOK
<1> HIDE DEF w1
<1>7. WOK(x, link')
  BY <1>0, <1>2, <1>4, <1>6, RecordOK
<1>8. link' \in [Links -> LinkStates]
  BY <1>0 DEF LinkStates
<1> HIDE DEF x
<1> QED
  BY <1>0, <1>1, <1>7, <1>8, AnnounceOK

LEMMA AttachStep ==
  ASSUME ClientsInv, NEW c \in Links, NEW s \in Shells, AttachTerminal(c, s)
  PROVE  ClientsInv'
<1> DEFINE d == OwnerOf[c]
           w1 == Reconciled(dae)
<1>0. /\ WOK(dae, link) /\ link \in [Links -> LinkStates] /\ ViewersOK /\ d \in Owners
      /\ link[c] = "new" /\ s \in w1.index /\ link' = [link EXCEPT ![c] = "open"]
  BY LinksFacts DEF ClientsInv, AttachTerminal
<1>1. PICK r \in RuntimeAttach(w1, s, d) : r.ok /\ Announce(RecordAttach(WatchedCommitted(r.w, s, c), c, s))
  BY DEF AttachTerminal
<1>2. WOK(w1, link)
  BY <1>0, ReconciledOK
<1> HIDE DEF w1
<1>3. WOK(r.w, link) /\ d \in r.w.role[s] /\ r.w.index = w1.index
  BY <1>0, <1>1, <1>2, AttachKeeps
<1> DEFINE z == WatchedCommitted(r.w, s, c)
           x == RecordAttach(z, c, s)
<1>4. /\ WOK(z, link) /\ z.at[c] = s /\ z.role = r.w.role /\ z.index = r.w.index
  BY <1>0, <1>3, CommitOK
<1>5. Announce(x)
  BY <1>1
<1> HIDE DEF z
<1>7. WOK(x, link')
  BY <1>0, <1>3, <1>4, RecordOK
<1>8. link' \in [Links -> LinkStates]
  BY <1>0 DEF LinkStates
<1> HIDE DEF x
<1> QED
  BY <1>0, <1>5, <1>7, <1>8, AnnounceOK

(* A connection that is closed before it was open leaves the books alone. *)
LEMMA ClosedOK ==
  ASSUME NEW w, NEW lk \in [Links -> LinkStates], WOK(w, lk), NEW c \in Links, lk[c] = "new"
  PROVE  WOK(w, [lk EXCEPT ![c] = "closed"])
<1> DEFINE l2 == [lk EXCEPT ![c] = "closed"]
<1>0. w \in DaeRec /\ PresInv(w, lk) /\ RoleInv(w, lk)
  BY DEF WOK
<1>1. l2[c] = "closed" /\ \A b \in Links \ {c} : l2[b] = lk[b]
  OBVIOUS
<1>2. \A e : /\ Cardinality(Begun(lk, e)) \in Nat /\ Cardinality(Begun(l2, e)) \in Nat
             /\ Cardinality(Begun(lk, e)) <= Cardinality(Begun(l2, e))
  <2>1. /\ \A e : Cardinality(Begun(lk, e)) \in Nat
        /\ \A e : Cardinality(Begun(lk, e)) <= Cardinality(Begun(l2, e))
    BY BegunGrows DEF LinkStates
  <2>2. \A e : Begun(l2, e) \subseteq Of(e)
    BY DEF Begun
  <2> HIDE DEF l2
  <2>3. \A e : Cardinality(Begun(l2, e)) \in Nat
    BY <2>2, LinksFacts, FS_Subset, FS_CardinalityType
  <2> QED
    BY <2>1, <2>3
<1> HIDE DEF l2
<1>3. PresInv(w, l2)
  <2>1. \A b \in Links : b \in w.conns <=> l2[b] \in {"open", "lost"}
    BY <1>0, <1>1 DEF PresInv
  <2>2. \A d \in Owners : w.count[d] >= -1 /\ w.count[d] <= Cardinality(Begun(l2, d))
    <3>1. \A d \in Owners : w.count[d] \in Int /\ w.count[d] >= -1 /\ w.count[d] <= Cardinality(Begun(lk, d))
      BY <1>0, DaeTypes DEF PresInv
    <3> QED
      BY <3>1, <1>2
  <2> QED
    BY <1>0, <2>1, <2>2 DEF PresInv
<1>4. RoleInv(w, l2)
  BY <1>0, <1>1 DEF RoleInv
<1> QED
  BY <1>0, <1>3, <1>4 DEF WOK, l2

LEMMA AttachFailsStep ==
  ASSUME ClientsInv, NEW c \in Links, NEW s \in Shells, AttachFails(c, s)
  PROVE  ClientsInv'
<1> DEFINE d == OwnerOf[c]
           w1 == Reconciled(dae)
<1>0. /\ WOK(dae, link) /\ link \in [Links -> LinkStates] /\ ViewersOK /\ StreamsAreCurrent /\ d \in Owners
      /\ link[c] = "new" /\ link' = [link EXCEPT ![c] = "closed"]
  BY LinksFacts DEF ClientsInv, AttachFails
<1>1. WOK(w1, link) /\ (dae.quiet => w1.quiet)
  BY <1>0, ReconciledOK
<1>2. \E w : Silently(w) /\ WOK(w, link) /\ w.quiet = w1.quiet
  <2>1. CASE s \notin w1.index
    BY <1>1, <2>1 DEF AttachFails
  <2>2. CASE s \in w1.index
    <3>1. PICK r \in RuntimeAttach(w1, s, d) :
             IF ~r.ok THEN Silently(r.w)
             ELSE \E w2 \in IF d \in w1.role[s] THEN {r.w} ELSE RuntimeDetach(r.w, s, d) : Silently(w2)
      BY <2>2 DEF AttachFails
    <3> HIDE DEF w1
    <3>2. WOK(r.w, link) /\ r.w.quiet = w1.quiet
      BY <1>0, <1>1, AttachKeeps
    <3>3. CASE Silently(r.w)
      BY <3>2, <3>3
    <3>4. CASE r.ok /\ d \notin w1.role[s] /\ \E w2 \in RuntimeDetach(r.w, s, d) : Silently(w2)
      <4>1. PICK w2 \in RuntimeDetach(r.w, s, d) : Silently(w2)
        BY <3>4
      <4>2. r.w.at = w1.at /\ r.w.index = w1.index
        BY <1>0, <1>1, <3>4, AttachKeeps
      <4>3. w1 \in DaeRec /\ \A t \in Shells : r.w.life[t] = "running" => w1.life[t] = "running"
        <5>1. w1 \in DaeRec
          BY <1>1 DEF WOK
        <5>2. Calm(w1, r.w)
          BY <1>0, <5>1, RuntimeAttachIs
        <5> QED
          BY <5>1, <5>2 DEF Calm
      <4>4. ASSUME NEW b \in Links, link[b] = "open", OwnerOf[b] = d, r.w.at[b] = s, s \in r.w.index,
                   r.w.life[s] = "running"
            PROVE  FALSE
        BY <1>1, <3>4, <4>2, <4>3, <4>4 DEF WOK, RoleInv
      <4>5. WOK(w2, link) /\ w2.quiet = r.w.quiet
        BY <1>0, <3>2, <4>4, DetachOK
      <4> QED
        BY <3>2, <4>1, <4>5
    <3> QED
      BY <3>1, <3>3, <3>4
  <2> QED
    BY <2>1, <2>2
<1>3. PICK w : Silently(w) /\ WOK(w, link) /\ w.quiet = w1.quiet
  BY <1>2
<1>4. WOK(w, link')
  BY <1>0, <1>3, ClosedOK
<1>5. link' \in [Links -> LinkStates]
  BY <1>0 DEF LinkStates
<1> HIDE DEF w1
<1> QED
  BY <1>0, <1>1, <1>3, <1>4, <1>5, SilentOK

LEMMA StreamStep ==
  ASSUME ClientsInv, NEW c \in Links, TerminalResized(c) \/ TerminalDrained(c)
  PROVE  ClientsInv'
<1> DEFINE s == dae.at[c]
           x == [dae EXCEPT !.meta[s] = @ + 1]
<1>0. /\ WOK(dae, link) /\ link \in [Links -> LinkStates] /\ ViewersOK /\ link[c] = "open" /\ link' = link
  BY DEF ClientsInv, TerminalResized, TerminalDrained, Streaming
<1>1. Announce(x)
  BY DEF TerminalResized, TerminalDrained, RecordResize, RefreshCwd
<1>2. s \in Shells
  BY <1>0 DEF WOK, RoleInv
<1> HIDE DEF s
<1>3. WOK(x, link)
  BY <1>0, <1>2, MetaOK
<1> HIDE DEF x
<1> QED
  BY <1>0, <1>1, <1>3, AnnounceOK

LEMMA TerminalClosesStep ==
  ASSUME ClientsInv, NEW c \in Links, TerminalCloses(c)
  PROVE  ClientsInv'
<1>0. /\ WOK(dae, link) /\ link \in [Links -> LinkStates] /\ ViewersOK /\ link[c] = "open"
      /\ link' = [link EXCEPT ![c] = "closed"]
  BY DEF ClientsInv, TerminalCloses
<1>1. PICK saved \in BOOLEAN : \E w \in DetachConnection(dae, OwnerOf[c], c, dae.at[c], saved) : Announce(w)
  BY DEF TerminalCloses
<1>2. PICK w \in DetachConnection(dae, OwnerOf[c], c, dae.at[c], saved) : Announce(w)
  BY <1>1
<1>3. WOK(w, link')
  BY <1>0, <1>2, TerminalDetachOK
<1>4. link' \in [Links -> LinkStates]
  BY <1>0 DEF LinkStates
<1> QED
  BY <1>0, <1>2, <1>3, <1>4, AnnounceOK

(* A dropped relay task leaves its connection tracked, and says so. *)
LEMMA DroppedStep ==
  ASSUME ClientsInv, NEW c \in Links, RelayTaskDropped(c)
  PROVE  ClientsInv'
<1>0. /\ dae \in DaeRec /\ PresInv(dae, link) /\ RoleInv(dae, link) /\ link \in [Links -> LinkStates]
      /\ ViewersOK /\ StreamsAreCurrent /\ link[c] = "open"
      /\ link' = [link EXCEPT ![c] = "lost"] /\ dae' = dae /\ viewer' = viewer
  BY DEF ClientsInv, WOK, RelayTaskDropped
<1>1. link' \in [Links -> LinkStates] /\ link'[c] = "lost" /\ \A b \in Links \ {c} : link'[b] = link[b]
  BY <1>0 DEF LinkStates
<1>2. \A d : Begun(link', d) = Begun(link, d)
  BY <1>0, <1>1 DEF Begun, Of
<1>3. PresInv(dae, link')
  <2>1. \A b \in Links : b \in dae.conns <=> link'[b] \in {"open", "lost"}
    BY <1>0, <1>1 DEF PresInv
  <2> QED
    BY <1>0, <1>2, <2>1 DEF PresInv
<1>4. RoleInv(dae, link')
  BY <1>0, <1>1 DEF RoleInv
<1>5. ViewersOK' /\ StreamsAreCurrent'
  BY <1>0 DEF ViewersOK, StreamsAreCurrent
<1> QED
  BY <1>0, <1>1, <1>3, <1>4, <1>5 DEF ClientsInv, WOK

LEMMA RequestStep ==
  ASSUME ClientsInv, NEW d \in Owners, NEW s \in Shells, RenameSession(d, s) \/ OtherRequest(d, s)
  PROVE  ClientsInv'
<1>0. /\ WOK(dae, link) /\ link \in [Links -> LinkStates] /\ ViewersOK /\ StreamsAreCurrent /\ link' = link
  BY DEF ClientsInv, RenameSession, OtherRequest
<1>1. CASE RenameSession(d, s)
  <2>1. PICK r \in HttpScope(dae, s, d) :
           \E w2 \in HttpCloses([r.w EXCEPT !.meta[s] = @ + 1], s, d) : Announce(w2) \/ Silently(w2)
    BY <1>1 DEF RenameSession
  <2> DEFINE x == [r.w EXCEPT !.meta[s] = @ + 1]
  <2>2. PICK w2 \in HttpCloses(x, s, d) : Announce(w2) \/ Silently(w2)
    BY <2>1
  <2>3. WOK(r.w, link) /\ r.w.quiet = dae.quiet
    BY <1>0, ScopeOK
  <2>4. WOK(x, link) /\ x.quiet = r.w.quiet
    BY <2>3, MetaOK
  <2> HIDE DEF x
  <2>5. WOK(w2, link) /\ w2.quiet = x.quiet
    BY <2>4, HttpDetachOK
  <2> QED
    BY <1>0, <2>2, <2>3, <2>4, <2>5, AnnounceOK, SilentOK
<1>2. CASE OtherRequest(d, s)
  <2>1. PICK r \in HttpScope(dae, s, d) :
           IF r.ok THEN \E w \in {r.w} \cup HttpCloses(r.w, s, d) : Silently(w) ELSE Silently(r.w)
    BY <1>2 DEF OtherRequest
  <2>2. PICK w \in {r.w} \cup HttpCloses(r.w, s, d) : Silently(w)
    BY <2>1
  <2>3. WOK(r.w, link) /\ r.w.quiet = dae.quiet
    BY <1>0, ScopeOK
  <2>4. WOK(w, link) /\ w.quiet = dae.quiet
    BY <2>3, HttpDetachOK
  <2> QED
    BY <1>0, <2>2, <2>4, SilentOK
<1> QED
  BY <1>1, <1>2

LEMMA CloseStep ==
  ASSUME ClientsInv, NEW d \in Owners, NEW s \in Shells, CloseSession(d, s)
  PROVE  ClientsInv'
<1>0. /\ WOK(dae, link) /\ link \in [Links -> LinkStates] /\ ViewersOK /\ link' = link
  BY DEF ClientsInv, CloseSession
<1>1. PICK r \in HttpScope(dae, s, d) :
         /\ r.ok
         /\ Announce([HistoryDrops(CloseVisible(CloseShell(r.w, s), {s}), {s}) EXCEPT !.disk = @ \ {s}])
  BY DEF CloseSession
<1> DEFINE y == CloseShell(r.w, s)
           z == HistoryDrops(CloseVisible(y, {s}), {s})
           x == [z EXCEPT !.disk = z.disk \ {s}]
<1>2. WOK(r.w, link) /\ r.w.life[s] = "running" /\ r.w \in DaeRec
  BY <1>0, <1>1, ScopeOK DEF WOK
<1>3. Announce(x)
  BY <1>1
<1>4. Calm(r.w, y) /\ y.life[s] = "closed" /\ \A t \in Shells \ {s} : y.role[t] = r.w.role[t]
  BY <1>2, CloseShellIs
<1> HIDE DEF y
<1>5. WOK(y, link)
  <2>1. r.w.index \subseteq Shells
    BY <1>2, DaeTypes
  <2>2. ASSUME NEW c \in Links, r.w.at[c] \in r.w.index, y.life[r.w.at[c]] = "running",
               OwnerOf[c] \in r.w.role[r.w.at[c]]
        PROVE  OwnerOf[c] \in y.role[r.w.at[c]]
    BY <1>4, <2>1, <2>2
  <2> QED
    BY <1>2, <1>4, <2>2, CalmOK
<1>6. WOK(z, link)
  BY <1>5, GoneOK
<1> HIDE DEF z
<1>7. z.disk \ {s} \in SUBSET Shells
  BY <1>6, DaeTypes DEF WOK
<1>8. WOK(x, link)
  BY <1>6, <1>7, DiskOK
<1> HIDE DEF x
<1> QED
  BY <1>0, <1>3, <1>8, AnnounceOK

LEMMA ForgetStep ==
  ASSUME ClientsInv, NEW d \in Owners, ForgetClient(d)
  PROVE  ClientsInv'
<1> DEFINE x == [HistoryForgets(dae, d) EXCEPT !.rec[d] = "none"]
<1>0. /\ WOK(dae, link) /\ link \in [Links -> LinkStates] /\ ViewersOK /\ StreamsAreCurrent /\ link' = link
      /\ dae.rec[d] # "online"
  BY DEF ClientsInv, ForgetClient
<1>1. Silently(x)
  BY DEF ForgetClient
<1>2. WOK(x, link) /\ x.quiet = dae.quiet
  BY <1>0, ForgetOK
<1> HIDE DEF x
<1> QED
  BY <1>0, <1>1, <1>2, SilentOK

LEMMA ShellStep ==
  ASSUME ClientsInv, NEW s \in Shells, ShellExits(s) \/ ExitPersisted(s)
  PROVE  ClientsInv'
<1>0. /\ WOK(dae, link) /\ link \in [Links -> LinkStates] /\ ViewersOK /\ StreamsAreCurrent /\ link' = link
      /\ dae \in DaeRec
  BY DEF ClientsInv, WOK, ShellExits, ExitPersisted
<1>1. CASE ShellExits(s)
  <2> DEFINE x == [dae EXCEPT !.life[s] = "exited", !.host[s] = {}]
  <2>1. dae' = x /\ viewer' = viewer
    BY <1>1 DEF ShellExits
  <2>2. /\ WOK(x, link) /\ x.quiet = dae.quiet /\ x.index = dae.index /\ x.disk = dae.disk
        /\ x.meta = dae.meta /\ x.act = dae.act /\ x.hist = dae.hist /\ x.conns = dae.conns
        /\ x.rec = dae.rec /\ x.count = dae.count /\ \A t \in Shells : Open(x, t) = Open(dae, t)
    BY ZenonT(60), <1>0, <1>1, ExitsOK DEF ShellExits
  <2> HIDE DEF x
  <2>3. Payload(Reconciled(x)) = Payload(Reconciled(dae))
    <3>1. Alike(dae, x) /\ x \in DaeRec
      BY <2>2 DEF Alike, WOK
    <3> QED
      BY <1>0, <3>1, AlikeReconciled
  <2>4. ViewersOK' /\ StreamsAreCurrent'
    BY <1>0, <2>1, <2>2, <2>3 DEF ViewersOK, StreamsAreCurrent
  <2> QED
    BY <1>0, <2>1, <2>2, <2>4 DEF ClientsInv
<1>2. CASE ExitPersisted(s)
  <2> DEFINE D == dae.disk \ {s}
             x == [dae EXCEPT !.disk = D]
  <2>1. Silently(x)
    BY <1>2 DEF ExitPersisted
  <2>2. D \in SUBSET Shells
    BY <1>0, DaeTypes
  <2> HIDE DEF D
  <2>3. WOK(x, link) /\ x.quiet = dae.quiet
    BY <1>0, <2>2, DiskOK
  <2> HIDE DEF x
  <2> QED
    BY <1>0, <2>1, <2>3, SilentOK
<1> QED
  BY <1>1, <1>2

LEMMA RebootStep ==
  ASSUME ClientsInv, DaemonReboots
  PROVE  ClientsInv'
<1>0. WOK(dae, link) /\ link \in [Links -> LinkStates] /\ ViewersOK
  BY DEF ClientsInv
<1>1. WOK(dae', link')
  BY <1>0, RebootOK DEF DaemonReboots
<1>2. link' \in [Links -> LinkStates]
  BY <1>0 DEF DaemonReboots, LinkStates
<1>3. viewer' = [v \in Viewers |-> [viewer[v] EXCEPT !.st = "new", !.pend = FALSE]]
  BY DEF DaemonReboots
<1>4. ASSUME NEW v \in Viewers
      PROVE  ViewerRec(viewer'[v]) /\ viewer'[v].st = "new"
  <2>1. ViewerRec(viewer[v])
    BY <1>0 DEF ViewersOK
  <2>2. viewer'[v] = [st |-> "new", pend |-> FALSE, shown |-> viewer[v].shown]
    BY <1>3, <2>1 DEF ViewerRec
  <2> QED
    BY <2>2 DEF ViewerRec
<1>5. ViewersOK' /\ StreamsAreCurrent'
  BY <1>3, <1>4 DEF ViewersOK, StreamsAreCurrent
<1> QED
  BY <1>1, <1>2, <1>5 DEF ClientsInv

(* A stream reads the state it shows. *)
LEMMA ReadsStep ==
  ASSUME ClientsInv, NEW v \in Viewers, NEW pend \in BOOLEAN, ViewerReads(v, "open", pend), link' = link
  PROVE  ClientsInv'
<1> DEFINE w1 == Reconciled(dae)
<1>0. WOK(dae, link) /\ link \in [Links -> LinkStates] /\ ViewersOK /\ StreamsAreCurrent
  BY DEF ClientsInv
<1>1. /\ viewer' = [viewer EXCEPT ![v] = [st |-> "open", pend |-> pend, shown |-> Payload(w1)]]
      /\ dae' = w1
  BY DEF ViewerReads
<1>2. WOK(w1, link) /\ (w1 = dae \/ w1.quiet)
  BY <1>0, ReconciledOK
<1>3. /\ DOMAIN viewer' = Viewers /\ \A u \in Viewers \ {v} : viewer'[u] = viewer[u]
      /\ viewer'[v] = [st |-> "open", pend |-> pend, shown |-> Payload(w1)]
  BY <1>0, <1>1 DEF ViewersOK
<1>4. ViewerRec(viewer'[v]) /\ viewer'[v].shown = Payload(w1)
  BY <1>3 DEF ViewerRec
<1>5. ViewersOK'
  BY <1>0, <1>3, <1>4 DEF ViewersOK
<1>6. w1 = dae => Payload(Reconciled(w1)) = Payload(w1)
  OBVIOUS
<1> HIDE DEF w1
<1>7. StreamsAreCurrent'
  <2>1. CASE w1.quiet
    BY <1>1, <2>1 DEF StreamsAreCurrent
  <2>2. CASE w1 = dae
    BY <1>0, <1>1, <1>3, <1>4, <1>6, <2>2 DEF StreamsAreCurrent
  <2> QED
    BY <1>2, <2>1, <2>2
<1> QED
  BY <1>0, <1>1, <1>2, <1>5, <1>7 DEF ClientsInv

LEMMA ViewerStep ==
  ASSUME ClientsInv, NEW v \in Viewers, ViewerOpens(v) \/ ViewerWakes(v) \/ ViewerUpdates(v)
  PROVE  ClientsInv'
<1>0. WOK(dae, link) /\ link \in [Links -> LinkStates] /\ ViewersOK /\ StreamsAreCurrent /\ ViewerRec(viewer[v])
  BY DEF ClientsInv, ViewersOK
<1>1. CASE ViewerOpens(v)
  BY <1>1, ReadsStep DEF ViewerOpens
<1>2. CASE ViewerUpdates(v)
  BY <1>0, <1>2, ReadsStep DEF ViewerUpdates, ViewerRec
<1>3. CASE ViewerWakes(v)
  <2>1. dae' = dae /\ link' = link
    BY <1>3 DEF ViewerWakes
  <2>2. viewer'[v] = [st |-> "woken", pend |-> FALSE, shown |-> viewer[v].shown]
    BY <1>0, <1>3 DEF ViewerWakes, ViewerRec, ViewersOK
  <2>3. DOMAIN viewer' = Viewers /\ \A u \in Viewers \ {v} : viewer'[u] = viewer[u]
    BY <1>0, <1>3 DEF ViewerWakes, ViewersOK
  <2>4. ViewerRec(viewer'[v]) /\ viewer'[v].st = "woken"
    BY <2>2 DEF ViewerRec
  <2>5. ViewersOK' /\ StreamsAreCurrent'
    BY <1>0, <2>1, <2>3, <2>4 DEF ViewersOK, StreamsAreCurrent
  <2> QED
    BY <1>0, <2>1, <2>5 DEF ClientsInv
<1> QED
  BY <1>1, <1>2, <1>3

LEMMA ClientsStep == ClientsInv /\ [ClientsNext]_clientVars => ClientsInv'
<1> SUFFICES ASSUME ClientsInv, [ClientsNext]_clientVars PROVE ClientsInv'
  OBVIOUS
<1>1. CASE UNCHANGED clientVars
  BY <1>1 DEF clientVars, ClientsInv, ViewersOK, StreamsAreCurrent
<1>2. ASSUME NEW c \in Links, NEW s \in Shells,
             CreateTerminal(c, s) \/ AttachFails(c, s) \/ AttachTerminal(c, s)
      PROVE  ClientsInv'
  BY <1>2, CreateStep, AttachFailsStep, AttachStep
<1>3. ASSUME NEW c \in Links,
             TerminalResized(c) \/ TerminalDrained(c) \/ TerminalCloses(c) \/ RelayTaskDropped(c)
      PROVE  ClientsInv'
  BY <1>3, StreamStep, TerminalClosesStep, DroppedStep
<1>4. ASSUME NEW d \in Owners, NEW s \in Shells,
             RenameSession(d, s) \/ CloseSession(d, s) \/ OtherRequest(d, s)
      PROVE  ClientsInv'
  BY <1>4, RequestStep, CloseStep
<1>5. ASSUME NEW d \in Owners, ForgetClient(d)
      PROVE  ClientsInv'
  BY <1>5, ForgetStep
<1>6. ASSUME NEW s \in Shells, ShellExits(s) \/ ExitPersisted(s)
      PROVE  ClientsInv'
  BY <1>6, ShellStep
<1>7. CASE DaemonReboots
  BY <1>7, RebootStep
<1>8. ASSUME NEW v \in Viewers, ViewerOpens(v) \/ ViewerWakes(v) \/ ViewerUpdates(v)
      PROVE  ClientsInv'
  BY <1>8, ViewerStep
<1> QED
  BY <1>1, <1>2, <1>3, <1>4, <1>5, <1>6, <1>7, <1>8 DEF ClientsNext

(* The client list, of a reconciled state. *)
LEMMA PresenceHolds == ClientsInv => PresenceIsTrue
<1> SUFFICES ASSUME ClientsInv PROVE PresenceIsTrue
  OBVIOUS
<1> DEFINE w == Reconciled(dae)
<1>1. WOK(w, link) /\ w.skew = dae.skew
  BY ReconciledOK DEF ClientsInv
<1>2. PresInv(w, link) /\ w \in DaeRec
  BY <1>1 DEF WOK
<1> HIDE DEF w
<1>3. ASSUME NEW d \in Owners \ w.skew
      PROVE  /\ MergedClient(w, d).online <=> \E c \in Of(d) : link[c] \in {"open", "lost"}
             /\ MergedClient(w, d).in \subseteq w.index
  <2>1. Tracked(w, d) # {} <=> \E c \in Of(d) : link[c] \in {"open", "lost"}
    BY <1>2, LinksFacts DEF PresInv, Tracked
  <2>2. /\ w.rec[d] = "online" <=> Tracked(w, d) # {}
        /\ w.count[d] = Cardinality(Tracked(w, d)) \/ (w.count[d] = -1 /\ Tracked(w, d) = {})
    BY <1>2 DEF PresInv
  <2>3. Tracked(w, d) = {} => ~(w.count[d] > 0)
    BY <2>2, FS_EmptySet
  <2> DEFINE attached == UNION {w.hist[c] : c \in Of(d)}
             live == UNION {w.act[c] : c \in Of(d) \cap w.conns}
  <2>4. attached \subseteq w.index /\ live \subseteq w.index
    BY <1>2, LinksFacts DEF PresInv
  <2>5. HistoryClient(w, d).online <=> w.count[d] > 0
    BY DEF HistoryClient
  <2>6. HistoryClient(w, d).in \subseteq w.index
    <3>1. HistoryClient(w, d).in = IF w.count[d] >= 0 THEN attached ELSE {}
      BY DEF HistoryClient
    <3> HIDE DEF attached
    <3> QED
      BY <2>4, <3>1
  <2>7. CASE w.rec[d] = "none"
    <3>1. MergedClient(w, d) = HistoryClient(w, d)
      BY <2>7 DEF MergedClient
    <3> QED
      BY <2>1, <2>2, <2>3, <2>5, <2>6, <2>7, <3>1
  <2>8. CASE w.rec[d] # "none"
    <3>1. /\ MergedClient(w, d).online <=> w.rec[d] = "online"
          /\ MergedClient(w, d).in = IF w.rec[d] = "online" THEN HistoryClient(w, d).in \cup live ELSE live
      BY <2>8 DEF MergedClient
    <3> HIDE DEF live
    <3> QED
      BY <2>1, <2>2, <2>4, <2>6, <3>1
  <2> QED
    BY <2>7, <2>8
<1> QED
  BY <1>1, <1>3 DEF PresenceIsTrue, w

LEMMA ClientsTypes == ClientsInv => ClientsTypeOK
<1> SUFFICES ASSUME ClientsInv PROVE ClientsTypeOK
  OBVIOUS
<1>1. dae \in DaeRec /\ PresInv(dae, link) /\ link \in [Links -> {"new", "open", "closed", "lost"}]
  BY DEF ClientsInv, WOK, LinkStates
<1>2. ASSUME NEW d \in Owners
      PROVE  dae.count[d] \in -1..Cardinality(Links)
  <2>1. Begun(link, d) \subseteq Links
    BY DEF Begun, Of
  <2>2. Cardinality(Begun(link, d)) <= Cardinality(Links) /\ Cardinality(Begun(link, d)) \in Nat
        /\ Cardinality(Links) \in Nat
    BY <2>1, LinksFacts, FS_Subset, FS_CardinalityType
  <2>3. dae.count[d] \in Int /\ dae.count[d] >= -1 /\ dae.count[d] <= Cardinality(Begun(link, d))
    BY <1>1, DaeTypes DEF PresInv
  <2> QED
    BY <2>2, <2>3
<1>3. dae.count \in [Owners -> -1..Cardinality(Links)]
  BY <1>1, <1>2, DaeTypes
<1> QED
  BY <1>1, <1>3, DaeTypes DEF ClientsTypeOK

(* Clients are served, for every number of devices, connections, sessions  *)
(* and metadata streams: a device keeps its operator role while one of its *)
(* connections is in the session, a stream with no change left to look at  *)
(* shows the daemon's state, and the client list is true (detach_connection,*)
(* notify_v070_metadata_changed, mark_daemon_client_connection_offline).   *)
THEOREM ClientsAreServed == ClientsSpec => [](ClientsTypeOK /\ ClientsSeeTheTruth)
<1>1. ClientsInv => RoleIsKept
  BY DEF ClientsInv, WOK, RoleInv, RoleIsKept
<1>2. ClientsInv => ClientsTypeOK /\ ClientsSeeTheTruth
  BY <1>1, PresenceHolds, ClientsTypes DEF ClientsInv, ClientsSeeTheTruth
<1> QED
  BY <1>2, ClientsBegin, ClientsStep, PTL DEF ClientsSpec
=============================================================================
