--------------------------- MODULE DaemonClients ---------------------------
(***************************************************************************)
(* Who is attached to what: the daemon's protocol state (net/protocol.rs)  *)
(* with the session runtime (runtime/mod.rs, session/mod.rs), the client   *)
(* history (state/client_history.rs) and the sockets that change it: the   *)
(* terminal WebSocket (net/server.rs), its relayed twin (net/relay.rs),    *)
(* HTTP control requests and metadata streams.                             *)
(*                                                                         *)
(* DaemonProtocol is guarded by one mutex, so its state is one record and  *)
(* a critical section is one action.  A terminal connection opens one      *)
(* session, so its watched attachment is named by the connection.  How a   *)
(* session is created, closed and found dead is SessionOwnership's; here a *)
(* process may exit by itself, and the reconciler notes it on disk.        *)
(***************************************************************************)
EXTENDS Integers, FiniteSets

CONSTANTS
    Owners,         \* device ids
    Links,          \* terminal connections
    OwnerOf,        \* the device of each
    Relayed,        \* the connections that come through a relay data pipe
    Shells,         \* session ids
    Viewers,        \* metadata streams
    MaxMeta,        \* bound: renames, resizes and cwd changes of a session
    MaxDbFail,      \* bound: failed writes of the client history
    MaxReboot       \* bound: daemon restarts

ASSUME DaemonClientsAssumption ==
    /\ IsFiniteSet(Links) /\ "http" \notin Links
    /\ OwnerOf \in [Links -> Owners] /\ Relayed \subseteq Links
    /\ "none" \notin Shells
    /\ {MaxMeta, MaxDbFail, MaxReboot} \subseteq Nat

VARIABLES
    dae,        \* the daemon's state under its mutex, and what it persists
    link,       \* each connection: "new", "open", "closed", "lost"
    viewer,     \* each metadata stream
    dbFails, reboots

clientVars == <<dae, link, viewer, dbFails, reboots>>

NoShell == "none"
Of(d) == {c \in Links : OwnerOf[c] = d}

(* life: the process and its runtime session; index: session_index; disk:  *)
(* sessions persisted as running; role: SessionManager's attached devices; *)
(* host: the supervisor's; watched: watched_attachments; at: the session a *)
(* connection attached; rec: daemon_clients, and per connection the        *)
(* sessions of active_connections; count, hist: active_connection_count    *)
(* and attached sessions in the history; quiet: history, something visible *)
(* has changed since the last notification.                                *)
ClientsInit ==
    /\ dae = [life |-> [s \in Shells |-> "none"], index |-> {}, disk |-> {},
              meta |-> [s \in Shells |-> 0],
              role |-> [s \in Shells |-> {}], host |-> [s \in Shells |-> {}],
              watched |-> [s \in Shells |-> {}],
              at |-> [c \in Links |-> NoShell],
              rec |-> [d \in Owners |-> "none"], conns |-> {},
              act |-> [c \in Links |-> {}],
              count |-> [d \in Owners |-> -1], hist |-> [c \in Links |-> {}],
              skew |-> {}, quiet |-> FALSE]
    /\ link = [c \in Links |-> "new"]
    /\ viewer = [v \in Viewers |-> [st |-> "new", pend |-> FALSE, shown |-> 0]]
    /\ dbFails = 0 /\ reboots = 0

ClientsTypeOK ==
    /\ dae.life \in [Shells -> {"none", "running", "exited", "closed"}]
    /\ dae.index \subseteq Shells /\ dae.disk \subseteq Shells
    /\ dae.role \in [Shells -> SUBSET Owners] /\ dae.host \in [Shells -> SUBSET Owners]
    /\ dae.watched \in [Shells -> SUBSET Links]
    /\ dae.at \in [Links -> Shells \cup {NoShell}]
    /\ dae.rec \in [Owners -> {"none", "online", "offline"}]
    /\ dae.conns \subseteq Links /\ dae.act \in [Links -> SUBSET Shells]
    /\ dae.count \in [Owners -> -1..Cardinality(Links)]
    /\ link \in [Links -> {"new", "open", "closed", "lost"}]

----------------------------------------------------------------------------
(* Runtime and SessionManager *)

Open(w, s) == w.life[s] \in {"running", "exited"}            \* ensure_open_session

(* SessionManager::close with detach_all_watched_attachments *)
CloseShell(w, s) ==
    [w EXCEPT !.life[s] = "closed", !.role[s] = {}, !.watched[s] = {}]

(* SessionManager::attach, once the supervisor has the device *)
RoleAttach(w, s, d) == [w EXCEPT !.role[s] = @ \cup {d}, !.host[s] = @ \cup {d}]

(* SessionRuntime::attach: what it may leave behind, with its outcome.  A  *)
(* supervisor that cannot be reached may have taken the device all the     *)
(* same; one that has exited closes the runtime session.                   *)
RuntimeAttach(w, s, d) ==
    IF ~Open(w, s) THEN {[ok |-> FALSE, w |-> w]}
    ELSE IF w.life[s] = "exited" THEN {[ok |-> FALSE, w |-> CloseShell(w, s)]}
    ELSE {[ok |-> TRUE, w |-> RoleAttach(w, s, d)]} \cup
         {[ok |-> FALSE, w |-> x] : x \in {w, [w EXCEPT !.host[s] = @ \cup {d}]}}

(* SessionRuntime::detach: nothing when the supervisor does not answer;    *)
(* a device the supervisor does not have is removed from the mirror.       *)
RuntimeDetach(w, s, d) ==
    IF ~Open(w, s) THEN {w}
    ELSE {w, [w EXCEPT !.host[s] = @ \ {d}],
          [w EXCEPT !.role[s] = @ \ {d}, !.host[s] = @ \ {d}]}

(* SessionRuntime::start_watched_attachment *)
StartWatched(w, s, c) == [w EXCEPT !.watched[s] = @ \cup {c}]

(* SessionRuntime::drop_watched_attachment, of a session still indexed *)
ReleaseWatched(w, s, c) ==
    IF s \in w.index /\ Open(w, s) THEN [w EXCEPT !.watched[s] = @ \ {c}] ELSE w

----------------------------------------------------------------------------
(* Visible sessions *)

(* ClientHistoryStore::remove_session_attachments *)
HistoryDrops(w, S) == [w EXCEPT !.hist = [c \in Links |-> @[c] \ S]]

(* close_visible_session_state *)
CloseVisible(w, S) ==
    [w EXCEPT !.index = @ \ S,
              !.act = [c \in Links |-> @[c] \ S]]

(* reconcile_persisted_closed_sessions; a change is not announced *)
Reconciled(w) ==
    LET gone == w.index \ w.disk
    IN  IF gone = {} THEN w
        ELSE [HistoryDrops(CloseVisible(w, gone), gone) EXCEPT !.quiet = TRUE]

(* list_clients and merge_active_daemon_clients: the history, overridden   *)
(* by what is in memory.                                                   *)
HistoryClient(w, d) ==
    [known |-> w.count[d] >= 0, online |-> w.count[d] > 0,
     in |-> IF w.count[d] >= 0 THEN UNION {w.hist[c] : c \in Of(d)} ELSE {}]

MergedClient(w, d) ==
    LET h == HistoryClient(w, d)
        live == UNION {w.act[c] : c \in Of(d) \cap w.conns}
    IN  IF w.rec[d] = "none" THEN h
        ELSE [known |-> TRUE, online |-> w.rec[d] = "online",
              in |-> IF w.rec[d] = "online" THEN h.in \cup live ELSE live]

(* list_sessions: state, and name, size and cwd *)
ListSessions(w) == [s \in w.index |-> <<Open(w, s), w.meta[s]>>]

(* v070_metadata_payload, of a state already reconciled *)
Payload(w) ==
    [shells |-> ListSessions(w),
     clients |-> [d \in Owners |-> MergedClient(w, d)]]

----------------------------------------------------------------------------
(* daemon_clients and the client history *)

(* ClientHistoryStore: record_connection, record_attach, record_disconnect *)
HistoryConnects(w, d) == [w EXCEPT !.count[d] = IF @ < 0 THEN 1 ELSE @ + 1]
HistoryAttaches(w, c, s) == [w EXCEPT !.hist[c] = {s}]
HistoryDisconnects(w, c) ==
    [w EXCEPT !.count[OwnerOf[c]] = IF @ > 0 THEN @ - 1 ELSE @, !.hist[c] = {}]

(* forget_offline_client: only a device without connections *)
HistoryForgets(w, d) ==
    IF w.count[d] > 0 THEN w
    ELSE [w EXCEPT !.count[d] = -1,
                   !.hist = [c \in Links |-> IF c \in Of(d) THEN {} ELSE @[c]]]

(* record_daemon_client_connection *)
RecordConnection(w, c) ==
    [HistoryConnects(w, OwnerOf[c]) EXCEPT !.rec[OwnerOf[c]] = "online",
                                           !.conns = @ \cup {c}]

(* record_daemon_client_attach *)
RecordAttach(w, c, s) ==
    [HistoryAttaches(RecordConnection(w, c), c, s) EXCEPT !.act[c] = {s}]

(* mark_daemon_client_connection_offline: a device with no connection left *)
(* stays in memory only when the history could not be written.             *)
MarkOffline(w, c, saved) ==
    LET d == OwnerOf[c]
        left == (w.conns \cap Of(d)) \ {c}
        off == IF saved THEN "none" ELSE "offline"
        w1 == IF saved THEN HistoryDisconnects(w, c)
              ELSE [w EXCEPT !.skew = @ \cup {d}]
    IN  [w1 EXCEPT !.conns = @ \ {c}, !.act[c] = {},
                   !.rec[d] = IF @ = "none" THEN @ ELSE IF left = {} THEN off ELSE "online"]

(* daemon_client_has_active_session *)
HeldByAnother(w, d, s, c) ==
    \E other \in (Of(d) \cap w.conns) \ {c} : s \in w.act[other]

(* detach_connection: of a terminal connection, or of an HTTP one (no      *)
(* link), which is not tracked.                                            *)
DetachConnection(w, d, c, s, saved) ==
    LET w1 == IF c \in Links THEN MarkOffline(ReleaseWatched(w, s, c), c, saved) ELSE w
    IN  IF s \notin w1.index \/ HeldByAnother(w, d, s, c) THEN {w1}
        ELSE RuntimeDetach(w1, s, d)

----------------------------------------------------------------------------
(* notify_v070_metadata_changed: every open stream has a change to see *)
Notify == viewer' = [v \in Viewers |->
              [viewer[v] EXCEPT !.pend = @ \/ viewer[v].st # "new"]]
Announced(w) == [w EXCEPT !.quiet = FALSE]

(* A critical section that announces, or does not announce, what it did. *)
Announce(w) == dae' = Announced(w) /\ Notify
Silently(w) ==
    /\ dae' = [w EXCEPT !.quiet = @ \/ Payload(Reconciled(w)) # Payload(Reconciled(dae))]
    /\ UNCHANGED viewer

----------------------------------------------------------------------------
(* Terminal connections *)

(* start_watched_attachment and its commit: the connection remembers it *)
WatchedCommitted(w, s, c) == [StartWatched(w, s, c) EXCEPT !.at[c] = s]

(* create_session_inner: the create itself is SessionOwnership's, and on   *)
(* failure it leaves nothing visible.                                      *)
CreateTerminal(c, s) ==
    LET w1 == [WatchedCommitted(RoleAttach(dae, s, OwnerOf[c]), s, c) EXCEPT
                  !.life[s] = "running", !.index = @ \cup {s}, !.disk = @ \cup {s}]
    IN  /\ link[c] = "new" /\ dae.life[s] = "none"
        /\ link' = [link EXCEPT ![c] = "open"]
        /\ Announce(RecordAttach(w1, c, s))
        /\ UNCHANGED <<dbFails, reboots>>

(* attach_terminal_session ends in an error: of the runtime attach; of the *)
(* history or of start_watched_attachment, which take the role back unless *)
(* the device had it before.                                               *)
AttachFails(c, s) ==
    LET w1 == Reconciled(dae)
        d  == OwnerOf[c]
    IN  /\ link[c] = "new" /\ s \in dae.index
        /\ link' = [link EXCEPT ![c] = "closed"]
        /\ IF s \notin w1.index THEN Silently(w1)
           ELSE \E r \in RuntimeAttach(w1, s, d) :
                   IF ~r.ok THEN Silently(r.w)
                   ELSE \E w2 \in IF d \in w1.role[s] THEN {r.w}
                                  ELSE RuntimeDetach(r.w, s, d) : Silently(w2)
        /\ UNCHANGED <<dbFails, reboots>>

(* attach_terminal_session *)
AttachTerminal(c, s) ==
    LET w1 == Reconciled(dae)
    IN  /\ link[c] = "new" /\ s \in w1.index
        /\ \E r \in RuntimeAttach(w1, s, OwnerOf[c]) :
              /\ r.ok
              /\ Announce(RecordAttach(WatchedCommitted(r.w, s, c), c, s))
        /\ link' = [link EXCEPT ![c] = "open"]
        /\ UNCHANGED <<dbFails, reboots>>

(* ensure_attached_to, and the attachment found in the runtime *)
Streaming(c) ==
    /\ link[c] = "open" /\ dae.at[c] \in dae.index
    /\ dae.life[dae.at[c]] = "running" /\ c \in dae.watched[dae.at[c]]

(* record_v070_terminal_resize; refresh_session_terminal_cwd *)
RecordResize(w, s) == [w EXCEPT !.meta[s] = @ + 1]
RefreshCwd(w, s) == [w EXCEPT !.meta[s] = @ + 1]

(* write_v070_terminal_frame with a resize *)
TerminalResized(c) ==
    /\ Streaming(c) /\ dae.meta[dae.at[c]] < MaxMeta
    /\ Announce(RecordResize(dae, dae.at[c]))
    /\ UNCHANGED <<link, dbFails, reboots>>

(* drain_v070_terminal_frames: output makes the daemon look up the cwd *)
TerminalDrained(c) ==
    /\ Streaming(c) /\ dae.meta[dae.at[c]] < MaxMeta
    /\ Announce(RefreshCwd(dae, dae.at[c]))
    /\ UNCHANGED <<link, dbFails, reboots>>

(* run_terminal_websocket ends: the socket is gone, a frame could not be   *)
(* written or drained.  The connection is closed.                          *)
TerminalCloses(c) ==
    /\ link[c] = "open"
    /\ link' = [link EXCEPT ![c] = "closed"]
    /\ \E saved \in BOOLEAN :
         /\ saved \/ dbFails < MaxDbFail
         /\ dbFails' = IF saved THEN dbFails ELSE dbFails + 1
         /\ \E w \in DetachConnection(dae, OwnerOf[c], c, dae.at[c], saved) : Announce(w)
    /\ UNCHANGED reboots

(* run_relay_v070_terminal: a failed write or drain leaves through `?`,    *)
(* and the data task is aborted when the control line is lost; neither     *)
(* closes the connection.                                                  *)
RelayTaskDropped(c) ==
    /\ c \in Relayed /\ link[c] = "open"
    /\ link' = [link EXCEPT ![c] = "lost"]
    /\ UNCHANGED <<dae, viewer, dbFails, reboots>>

----------------------------------------------------------------------------
(* HTTP control requests of a device: restore_http_control_scope, dispatch *)
(* and close, under one lock.                                              *)

HttpScope(w, s, d) == IF s \in w.index THEN RuntimeAttach(w, s, d)
                      ELSE {[ok |-> FALSE, w |-> w]}
HttpCloses(w, s, d) == DetachConnection(w, d, "http", s, TRUE)

(* rename_session: the name is changed before the history is written, and  *)
(* a failed write is not announced.                                        *)
RenameSession(d, s) ==
    \E r \in HttpScope(dae, s, d) :
        LET w1 == [r.w EXCEPT !.meta[s] = @ + 1]
        IN  /\ r.ok /\ dae.meta[s] < MaxMeta
            /\ \/ /\ \E w2 \in HttpCloses(w1, s, d) : Announce(w2)
                  /\ UNCHANGED dbFails
               \/ /\ dbFails < MaxDbFail /\ dbFails' = dbFails + 1
                  /\ \E w2 \in HttpCloses(w1, s, d) : Silently(w2)
            /\ UNCHANGED <<link, reboots>>

(* Mutant: the streams are not told. *)
CloseSessionUnannounced(d, s) ==
    \E r \in HttpScope(dae, s, d) :
        /\ r.ok
        /\ dae' = [HistoryDrops(CloseVisible(CloseShell(r.w, s), {s}), {s})
                       EXCEPT !.disk = @ \ {s}]
        /\ UNCHANGED <<viewer, link, dbFails, reboots>>

(* close_session *)
CloseSession(d, s) ==
    \E r \in HttpScope(dae, s, d) :
        /\ r.ok
        /\ Announce([HistoryDrops(CloseVisible(CloseShell(r.w, s), {s}), {s})
                        EXCEPT !.disk = @ \ {s}])
        /\ UNCHANGED <<link, dbFails, reboots>>

(* Every other request leaves the sessions alone, one that fails included; *)
(* the error path of v070_file_upload_commit does not close.               *)
OtherRequest(d, s) ==
    \E r \in HttpScope(dae, s, d) :
        /\ IF r.ok THEN \E w \in {r.w} \cup HttpCloses(r.w, s, d) : Silently(w)
           ELSE Silently(r.w)
        /\ UNCHANGED <<link, dbFails, reboots>>

(* forget_daemon_client with forget_offline_client: not announced *)
ForgetClient(d) ==
    /\ dae.rec[d] # "online"
    /\ Silently([HistoryForgets(dae, d) EXCEPT !.rec[d] = "none"])
    /\ UNCHANGED <<link, dbFails, reboots>>

----------------------------------------------------------------------------
(* The process of a session exits, and later the reconciler persists it. *)
ShellExits(s) ==
    /\ dae.life[s] = "running"
    /\ dae' = [dae EXCEPT !.life[s] = "exited", !.host[s] = {}]
    /\ UNCHANGED <<link, viewer, dbFails, reboots>>

ExitPersisted(s) ==
    /\ dae.life[s] \in {"exited", "closed"} /\ s \in dae.disk
    /\ Silently([dae EXCEPT !.disk = @ \ {s}])
    /\ UNCHANGED <<link, dbFails, reboots>>

(* ClientHistoryStore::open: reset_runtime_state *)
HistoryReset(w) ==
    [w EXCEPT !.hist = [c \in Links |-> {}],
              !.count = [d \in Owners |-> IF @[d] > 0 THEN 0 ELSE @[d]]]

(* restore_runtime_sessions: the sessions whose supervisor still answers   *)
(* are indexed again, the others are persisted as closed.                  *)
RestoreSessions(w) ==
    LET alive == {s \in w.disk : w.life[s] = "running"}
    IN  [w EXCEPT !.index = alive, !.disk = alive,
                  !.life = [s \in Shells |-> IF s \in alive THEN "running"
                                ELSE IF @[s] = "none" THEN "none" ELSE "closed"]]

(* A restart: connections and streams are gone, from_state starts anew. *)
DaemonReboots ==
    /\ reboots < MaxReboot
    /\ reboots' = reboots + 1
    /\ dae' = [HistoryReset(RestoreSessions(dae)) EXCEPT
              !.role = [s \in Shells |-> {}], !.watched = [s \in Shells |-> {}],
              !.at = [c \in Links |-> NoShell],
              !.rec = [d \in Owners |-> "none"], !.conns = {},
              !.act = [c \in Links |-> {}], !.skew = {}, !.quiet = FALSE]
    /\ link' = [c \in Links |-> IF link[c] = "new" THEN "new" ELSE "closed"]
    /\ viewer' = [v \in Viewers |-> [viewer[v] EXCEPT !.st = "new", !.pend = FALSE]]
    /\ UNCHANGED dbFails

----------------------------------------------------------------------------
(* Metadata streams *)

(* run_metadata_websocket reads the state under the lock; on opening it    *)
(* subscribes under the same one.                                          *)
ViewerReads(v, st, pend) ==
    LET w1 == Reconciled(dae)
    IN  /\ viewer' = [viewer EXCEPT ![v] = [st |-> st, pend |-> pend, shown |-> Payload(w1)]]
        /\ dae' = w1

ViewerOpens(v) ==
    /\ viewer[v].st = "new"
    /\ ViewerReads(v, "open", FALSE)
    /\ UNCHANGED <<link, dbFails, reboots>>

(* changes.changed() marks the change seen before the lock is taken ... *)
ViewerWakes(v) ==
    /\ viewer[v].st = "open" /\ viewer[v].pend
    /\ viewer' = [viewer EXCEPT ![v].st = "woken", ![v].pend = FALSE]
    /\ UNCHANGED <<dae, link, dbFails, reboots>>

(* ... and the state is read and sent under it. *)
ViewerUpdates(v) ==
    /\ viewer[v].st = "woken"
    /\ ViewerReads(v, "open", viewer[v].pend)
    /\ UNCHANGED <<link, dbFails, reboots>>

----------------------------------------------------------------------------
ClientsNext ==
    \/ \E c \in Links, s \in Shells :
          CreateTerminal(c, s) \/ AttachFails(c, s) \/ AttachTerminal(c, s)
    \/ \E c \in Links :
          TerminalResized(c) \/ TerminalDrained(c) \/ TerminalCloses(c) \/ RelayTaskDropped(c)
    \/ \E d \in Owners, s \in Shells :
          RenameSession(d, s) \/ CloseSession(d, s) \/ OtherRequest(d, s)
    \/ \E d \in Owners : ForgetClient(d)
    \/ \E s \in Shells : ShellExits(s) \/ ExitPersisted(s)
    \/ DaemonReboots
    \/ \E v \in Viewers : ViewerOpens(v) \/ ViewerWakes(v) \/ ViewerUpdates(v)

ClientsSpec == ClientsInit /\ [][ClientsNext]_clientVars

----------------------------------------------------------------------------
(* detach_connection's comment: while a device has another connection      *)
(* attached to a session, closing one of them, or an HTTP request of the   *)
(* same device, does not take its operator role away.                      *)
RoleIsKept ==
    \A c \in Links : link[c] = "open" /\ dae.at[c] \in dae.index
                     /\ dae.life[dae.at[c]] = "running"
                     => OwnerOf[c] \in dae.role[dae.at[c]]

(* The client list shows a device online exactly while it has a tracked    *)
(* connection (one the relay path dropped counts), and in no session that  *)
(* is not listed; unless the history could not record a disconnect.        *)
PresenceIsTrue ==
    LET w == Reconciled(dae)
    IN  \A d \in Owners \ dae.skew :
          /\ MergedClient(w, d).online <=> \E c \in Of(d) : link[c] \in {"open", "lost"}
          /\ MergedClient(w, d).in \subseteq w.index

(* A metadata stream with no change left to look at shows the daemon's     *)
(* state, but for what the daemon did not announce.                        *)
StreamsAreCurrent ==
    \A v \in Viewers : viewer[v].st = "open" /\ ~viewer[v].pend /\ ~dae.quiet
                       => viewer[v].shown = Payload(Reconciled(dae))

(* A connection that is over has released its own attachment. *)
OverIsReleased ==
    \A c \in Links : link[c] \in {"closed", "lost"} =>
        /\ c \notin dae.conns
        /\ \A s \in dae.index : dae.life[s] = "running" => c \notin dae.watched[s]

(* Clients see the truth: a device with an attachment keeps its role when  *)
(* another of its connections closes, every metadata stream will be told   *)
(* of what it does not show yet, and a device is online exactly while it   *)
(* has a connection (detach_connection, close_session, mark_offline).      *)
ClientsSeeTheTruth == RoleIsKept /\ StreamsAreCurrent /\ PresenceIsTrue
=============================================================================
