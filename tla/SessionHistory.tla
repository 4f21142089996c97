--------------------------- MODULE SessionHistory ---------------------------
(***************************************************************************)
(* What the daemon remembers of its sessions across restarts: the SQLite   *)
(* state file (state/mod.rs) with its schema version and the older JSON    *)
(* file, daemon_sessions with the names and the display order              *)
(* (state/client_history.rs), the start-up that loads and repairs them     *)
(* (net/server.rs, net/protocol/recovery.rs), and the requests that change *)
(* them (net/protocol.rs).                                                 *)
(*                                                                         *)
(* Who owns a supervisor is SessionOwnership's: here the ledger only says  *)
(* which sessions a start-up gets back, and when the projection row of a   *)
(* session that ended is removed.  Sizes, roots and file tree positions    *)
(* are left out; so are sessions of the JSON file.  A write of the history *)
(* may fail, and the daemon may be killed between two transactions.        *)
(***************************************************************************)
EXTENDS Integers, Sequences, FiniteSets, SequencesExt

CONSTANTS
    NumTerms,       \* session ids are 1..NumTerms
    Titles,         \* names users give
    MaxStoreFail,   \* bound: failed writes
    MaxBoots,       \* bound: start-ups
    MaxRename       \* bound: renames

ASSUME SessionHistoryAssumption ==
    /\ {NumTerms, MaxStoreFail, MaxBoots, MaxRename} \subseteq Nat
    /\ Titles \cap {"auto", "restored", "none"} = {}

Terms == 1..NumTerms

VARIABLES
    db,         \* [ver, ident, ordered, rt, row]: the SQLite file
    json,       \* [ver, ident]: the older state file
    boots,      \* start-ups so far, which also number generated identities
    stage,      \* how far the start-up has come
    mem,        \* [ident, idx, name]: the daemon's memory
    supv,       \* each session's supervisor: "never", "live", "dead"
    sfails, renames,
    \* history: what clients were told
    given,      \* the name of each session
    promised,   \* the order of the list
    listedNames       \* the identities the daemon has served

historyVars == <<db, json, boots, stage, mem, supv, sfails, renames, given,
                 promised, listedNames>>

NoRow == [st |-> "none", name |-> "none", ord |-> 0, at |-> 0]
NoJson == [ver |-> 0, ident |-> 0]
LegacyIdent == -1
CurrentSchema == 3                                    \* STATE_SCHEMA_VERSION

NoMem == [ident |-> 0, idx |-> {}, name |-> [t \in Terms |-> "none"]]

(* Databases there may be before the first start: none (an empty file),    *)
(* one of schema 2, one of an unknown schema, one with rows of a version   *)
(* too old to have recorded a schema; and one with sessions that outlived  *)
(* a daemon of schema 2 that had no display order yet.                     *)
FirstDb(v, id, old) ==
    [ver |-> v, ident |-> id, ordered |-> ~old,
     rt |-> [t \in Terms |-> IF old THEN "running" ELSE "none"],
     row |-> [t \in Terms |->
                IF old THEN [st |-> "running", name |-> "auto", ord |-> 0, at |-> t]
                ELSE NoRow]]

HistoryInit ==
    /\ \E old \in BOOLEAN, v \in {0, 2, 9}, id \in {0, LegacyIdent} :
         /\ old => v = 2 /\ id = LegacyIdent
         /\ v = 9 => id = 0
         /\ db = FirstDb(v, id, old)
         /\ supv = [t \in Terms |-> IF old THEN "live" ELSE "never"]
         /\ given = [t \in Terms |-> IF old THEN "auto" ELSE "none"]
    /\ json \in {NoJson} \cup
                [ver : {1, 2, 3}, ident : {0, LegacyIdent - 1}]
    /\ boots = 0 /\ stage = "off" /\ mem = NoMem
    /\ sfails = 0 /\ renames = 0 /\ promised = {} /\ listedNames = {}

HistoryTypeOK ==
    /\ db.rt \in [Terms -> {"none", "running", "closed"}]
    /\ \A t \in Terms : /\ db.row[t].st \in {"none", "running", "closed"}
                        /\ db.row[t].name \in Titles \cup {"auto", "restored", "none"}
                        /\ db.row[t].ord \in -NumTerms..(2 * NumTerms)
    /\ stage \in {"off", "loaded", "opened", "recovered", "restored", "serving",
                  "refused"}
    /\ mem.idx \subseteq Terms
    /\ stage = "serving" => \A t \in mem.idx : mem.name[t] # "none"
    /\ supv \in [Terms -> {"never", "live", "dead"}]

----------------------------------------------------------------------------
(* daemon_sessions *)

Rows(d) == {t \in Terms : d.row[t].st # "none"}
Known(d) == {t \in Terms : d.row[t].st = "running"}    \* list_sessions
Orders(d) == {d.row[t].ord : t \in Rows(d)}
Lowest(d) == CHOOSE o \in Orders(d) : \A p \in Orders(d) : o <= p
Highest(d) == CHOOSE o \in Orders(d) : \A p \in Orders(d) : o >= p

CoalesceName(old, new) == IF old = "none" THEN new ELSE old

(* record_session_created and record_session_runtime_state *)
RowCreated(d, t) ==
    [d EXCEPT !.row[t] =
        [st |-> "running", name |-> "auto", at |-> t,
         ord |-> IF Rows(d) = {} THEN 0 ELSE Lowest(d) - 1]]

(* record_session_renamed *)
RowRenamed(d, t, n) ==
    IF t \in Rows(d) THEN [d EXCEPT !.row[t].name = n] ELSE d

(* record_session_closed *)
RowClosed(d, t) ==
    IF t \in Rows(d) THEN [d EXCEPT !.row[t].st = "closed"] ELSE d

(* prune_closed_session *)
RowPruned(d, t) ==
    IF d.row[t].st = "closed" THEN [d EXCEPT !.row[t] = NoRow] ELSE d

(* ClientHistoryStore::prune_closed_sessions_except, with nothing protected *)
RowsPruned(d) ==
    [d EXCEPT !.row = [t \in Terms |-> IF @[t].st = "closed" THEN NoRow ELSE @[t]]]

(* record_session_restored: a row that is there keeps its name and order *)
RowRestored(d, t, n) ==
    IF t \in Rows(d)
    THEN [d EXCEPT !.row[t].st = "running", !.row[t].name = CoalesceName(@, n)]
    ELSE [d EXCEPT !.row[t] =
            [st |-> "running", name |-> n, at |-> t,
             ord |-> IF Rows(d) = {} THEN 0 ELSE Highest(d) + 1]]

(* ORDER BY display_order, created_at_ms, session_id *)
Before(d, a, b) ==
    LET key(t) == d.row[t]
    IN  \/ key(a).ord < key(b).ord
        \/ key(a).ord = key(b).ord /\ key(a).at < key(b).at

(* The order of a list of sessions is the set of its pairs <<a, b>> where  *)
(* a is b or is listed above it.                                           *)
Members(order) == {t \in Terms : <<t, t>> \in order}
OnTop(t, order) == order \cup ({t} \X (Members(order) \cup {t}))
OrderAmong(order, S) == order \cap (S \X S)

(* record_session_order: the sessions asked for, then the others as they   *)
(* were; the result is what the answer holds.                              *)
ListedAbove(d, asked, a, b) ==
    LET front == ToSet(asked)
    IN  \/ a \in front /\ b \notin front
        \/ \E i, j \in DOMAIN asked : i < j /\ asked[i] = a /\ asked[j] = b
        \/ a \notin front /\ b \notin front /\ Before(d, a, b)

OrderOf(d, asked) ==
    {p \in Known(d) \X Known(d) : p[1] = p[2] \/ ListedAbove(d, asked, p[1], p[2])}

(* The index of a session is the number of those listed above it. *)
OrderRecorded(d, order) ==
    [d EXCEPT !.row = [t \in Terms |->
        IF t \in Members(order)
        THEN [@[t] EXCEPT !.ord = Cardinality({a \in Terms : <<a, t>> \in order}) - 1]
        ELSE @[t]]]

----------------------------------------------------------------------------
(* StateStore *)

(* sqlite_state_has_content *)
HasContent(d) == d.ident # 0 \/ Rows(d) # {} \/ \E t \in Terms : d.rt[t] # "none"

(* ensure_sqlite_state_version *)
Compatible(d) ==
    \/ d.ver \in {2, CurrentSchema}
    \/ d.ver = 0 /\ ~HasContent(d)

(* migrate_sqlite_v2_to_current, write_sqlite_state_version *)
Versioned(d) == [d EXCEPT !.ver = CurrentSchema]
Migrated(d) == IF d.ver = 2 THEN Versioned(d) ELSE d

(* load_legacy_json_state, migrate_legacy_state *)
JsonReadable == json.ver \in {0, 2, CurrentSchema}

(* StateStore::load: the identity it returns.  SQLite wins once it holds   *)
(* anything of the state.                                                  *)
StateIsIn(d) == d.ident # 0 \/ \E t \in Terms : d.rt[t] # "none"
Loaded(d) == IF StateIsIn(d) THEN d.ident ELSE json.ident
Loads(d) == Compatible(d) /\ (StateIsIn(d) \/ JsonReadable)

(* save_sqlite_state: rows of the snapshot, a closed one staying closed *)
Saved(d, id, run) ==
    [Versioned(d) EXCEPT
        !.ident = id,
        !.rt = [t \in Terms |->
                  IF t \in run /\ @[t] # "closed" THEN "running" ELSE @[t]]]

(* StateStore::prune_closed_sessions_except *)
RuntimePruned(d) ==
    [d EXCEPT !.rt = [t \in Terms |-> IF @[t] = "closed" THEN "none" ELSE @[t]]]

(* StateStore::record_runtime_session_closed *)
RuntimeClosed(d, t) == [d EXCEPT !.rt[t] = "closed"]

StoreFails == sfails < MaxStoreFail /\ sfails' = sfails + 1

----------------------------------------------------------------------------
(* Start-up *)

Told == <<given, promised, listedNames>>

(* try_default_protocol: StateStore::load *)
StartLoads ==
    /\ stage = "off" /\ boots < MaxBoots
    /\ boots' = boots + 1
    /\ IF Loads(db)
       THEN /\ stage' = "loaded"
            /\ db' = Migrated(db)
            /\ mem' = [NoMem EXCEPT !.ident =
                         IF Loaded(db) # 0 THEN Loaded(db) ELSE boots + 1]
       ELSE stage' = "refused" /\ UNCHANGED <<db, mem>>
    /\ UNCHANGED <<json, supv, sfails, renames, Told>>

(* ensure_daemon_history_schema: rows without an order get one, the newest *)
(* session first.                                                          *)
OrderMigrated(d) ==
    IF d.ordered THEN d
    ELSE [d EXCEPT !.ordered = TRUE,
                   !.row = [t \in Terms |-> [@[t] EXCEPT
                       !.ord = Cardinality({o \in Rows(d) : d.row[o].at > d.row[t].at})]]]

(* ClientHistoryStore::open *)
HistoryOpened(d) == Versioned(OrderMigrated(d))

(* SessionOwnership::open follows, which loads and saves what is there. *)
StartOpens ==
    /\ stage = "loaded"
    /\ stage' = "opened"
    /\ db' = Saved(HistoryOpened(db), Loaded(db), {})
    /\ UNCHANGED <<json, boots, mem, supv, sfails, renames, Told>>

(* SessionOwnership::recover: what it gets back has a running row and a    *)
(* live supervisor; a row it cannot verify is quarantined, and goes.       *)
StartRecovers ==
    /\ stage = "opened"
    /\ \E back \in SUBSET {t \in Terms : db.rt[t] = "running" /\ supv[t] = "live"} :
         /\ mem' = [mem EXCEPT !.idx = back]
         /\ \E gone \in {G \in SUBSET (Terms \ back) :
                          \A t \in Terms \ back : supv[t] = "live" => t \in G} :
              /\ db' = [db EXCEPT !.rt = [t \in Terms |->
                          IF t \in gone THEN "none" ELSE @[t]]]
              \* what a start does not get back is not promised any more
              /\ given' = [t \in Terms |-> IF t \in back THEN given[t] ELSE "none"]
              /\ promised' = OrderAmong(promised, back)
    /\ stage' = "recovered"
    /\ UNCHANGED <<json, boots, supv, sfails, renames, listedNames>>

ClosesAny(t) ==
    /\ stage = "recovered"
    /\ t \in Known(db) /\ mem.name[t] = "none"
    /\ db' = RowClosed(db, t)
    /\ UNCHANGED <<json, boots, stage, mem, supv, sfails, renames, Told>>

(* restore_runtime_sessions, of one visible row without a session *)
ClosesMissing(t) ==
    /\ stage = "recovered"
    /\ t \in Known(db) \ mem.idx
    /\ db' = RowClosed(db, t)
    /\ UNCHANGED <<json, boots, stage, mem, supv, sfails, renames, Told>>

(* restored_session_metadata and register_restored_runtime_session: a      *)
(* write that fails leaves the row, and the name that was read.            *)
RestoredName(t) == CoalesceName(db.row[t].name, "restored")

RestoresOne(t) ==
    /\ stage = "recovered"
    /\ t \in mem.idx /\ mem.name[t] = "none"
    /\ mem' = [mem EXCEPT !.name[t] = RestoredName(t)]
    /\ \/ db' = RowRestored(db, t, RestoredName(t)) /\ UNCHANGED sfails
       \/ StoreFails /\ UNCHANGED db
    /\ UNCHANGED <<json, boots, stage, supv, renames, Told>>

(* The end of restore_runtime_sessions and try_default_protocol's          *)
(* persist_state; when that fails, so does the start.                      *)
StartPersists ==
    /\ stage = "recovered"
    /\ \A t \in mem.idx : mem.name[t] # "none"
    /\ \/ /\ stage' = "restored"
          /\ db' = Saved(db, mem.ident, mem.idx)
          /\ UNCHANGED <<mem, sfails>>
       \/ StoreFails /\ stage' = "off" /\ mem' = NoMem /\ UNCHANGED db
    /\ UNCHANGED <<json, boots, supv, renames, Told>>

(* DaemonProtocol::prune_closed_sessions_except; the daemon then serves *)
StartPrunes ==
    /\ stage = "restored"
    /\ stage' = "serving"
    /\ listedNames' = listedNames \cup {mem.ident}
    /\ \/ db' = RuntimePruned(RowsPruned(db)) /\ UNCHANGED sfails
       \/ StoreFails /\ db' \in {db, RowsPruned(db)}
    /\ UNCHANGED <<json, boots, mem, supv, renames, given, promised>>

(* The daemon is killed. *)
DaemonKilled ==
    /\ stage \notin {"off", "refused"}
    /\ stage' = "off" /\ mem' = NoMem
    /\ UNCHANGED <<db, json, boots, supv, sfails, renames, Told>>

----------------------------------------------------------------------------
(* Requests *)

(* create_session_inner: ownership commits the projection row last *)
CreatesTerm(t) ==
    /\ stage = "serving" /\ supv[t] = "never"
    /\ supv' = [supv EXCEPT ![t] = "live"]
    /\ mem' = [mem EXCEPT !.idx = @ \cup {t}, !.name[t] = "auto"]
    /\ db' = [RowCreated(db, t) EXCEPT !.rt[t] = "running"]
    /\ given' = [given EXCEPT ![t] = "auto"]
    /\ promised' = OnTop(t, promised)
    /\ UNCHANGED <<json, boots, stage, sfails, renames, listedNames>>

(* create_session_inner failing after its history row is written; the two  *)
(* writes that undo it may fail as well.                                   *)
CreateFails(t) ==
    /\ stage = "serving" /\ supv[t] = "never"
    /\ supv' = [supv EXCEPT ![t] = "dead"]
    /\ LET made == RowCreated(db, t)
       IN  \/ db' = RowPruned(RowClosed(made, t), t) /\ UNCHANGED sfails
           \/ StoreFails /\ db' \in {made, RowClosed(made, t), db}
    /\ UNCHANGED <<json, boots, stage, mem, renames, Told>>

(* rename_session *)
RenamesTerm(t, n) ==
    /\ stage = "serving" /\ t \in mem.idx
    /\ renames < MaxRename /\ renames' = renames + 1
    /\ mem' = [mem EXCEPT !.name[t] = n]
    /\ \/ /\ db' = RowRenamed(db, t, n)
          /\ given' = [given EXCEPT ![t] = n]
          /\ UNCHANGED sfails
       \/ StoreFails /\ UNCHANGED <<db, given>>
    /\ UNCHANGED <<json, boots, stage, supv, promised, listedNames>>

(* repair_visible_session_metadata: every indexed session without a        *)
(* visible row, in the order of a hash map; a failed repair is skipped.    *)
RepairOne(d, t) ==
    IF d.row[t].st = "running" THEN d
    ELSE RowRestored(d, t, CoalesceName(CoalesceName(mem.name[t], d.row[t].name),
                                        "restored"))

RepairSeq(d, seq) == FoldLeft(RepairOne, d, seq)

RepairedAll(d, S) ==
    {RepairSeq(d, seq) : seq \in {q \in [1..Cardinality(S) -> S] : IsInjective(q)}}

Repairs(d, d2) ==
    \/ d2 \in RepairedAll(d, mem.idx \ Known(d)) /\ UNCHANGED sfails
    \/ StoreFails /\ \E S \in SUBSET (mem.idx \ Known(d)) : d2 \in RepairedAll(d, S)

(* The orders a client may ask for: each session at most once. *)
AskedOrders ==
    UNION {{q \in [1..k -> Terms] : IsInjective(q)} : k \in 0..NumTerms}

(* reorder_sessions *)
ReordersTerms(asked) ==
    /\ stage = "serving" /\ mem.idx # {}
    /\ ToSet(asked) \subseteq mem.idx
    /\ \E d \in RepairedAll(db, mem.idx \ Known(db)) \cup {db} :
         \/ /\ Repairs(db, d)
            /\ db' = OrderRecorded(d, OrderOf(d, asked))
            /\ promised' = OrderOf(d, asked)
         \/ /\ d \in RepairedAll(db, mem.idx \ Known(db))
            /\ StoreFails /\ db' = d /\ UNCHANGED promised
    /\ UNCHANGED <<json, boots, stage, mem, supv, renames, given, listedNames>>

(* close_visible_session_state *)
Unindexed(m, S) ==
    [m EXCEPT !.idx = @ \ S, !.name = [t \in Terms |-> IF t \in S THEN "none" ELSE @[t]]]

ForgetsPromise(S) ==
    /\ given' = [t \in Terms |-> IF t \in S THEN "none" ELSE given[t]]
    /\ promised' = OrderAmong(promised, Terms \ S)

(* close_session: ownership has closed the projection row *)
ClosesTerm(t) ==
    /\ stage = "serving" /\ t \in mem.idx
    /\ supv' = [supv EXCEPT ![t] = "dead"]
    /\ mem' = Unindexed(mem, {t})
    /\ LET d == RuntimeClosed(db, t)
       IN  \/ db' = RowPruned(RowClosed(d, t), t) /\ UNCHANGED sfails
           \/ StoreFails /\ db' \in {d, RowClosed(d, t)}
    /\ ForgetsPromise({t})
    /\ UNCHANGED <<json, boots, stage, renames, listedNames>>

(* list_sessions: reconcile_persisted_closed_sessions, then the repair *)
ListsTerms ==
    /\ stage = "serving"
    /\ LET over == {t \in mem.idx : db.rt[t] # "running"}
           shut(d, S) == [d EXCEPT !.row = [t \in Terms |->
                            IF t \in S /\ @[t].st # "none"
                            THEN [@[t] EXCEPT !.st = "closed"] ELSE @[t]]]
       IN  /\ mem' = Unindexed(mem, over)
           /\ ForgetsPromise(over)
           /\ \/ /\ db' \in RepairedAll(shut(db, over),
                                        (mem.idx \ over) \ Known(db))
                 /\ UNCHANGED sfails
              \/ /\ StoreFails
                 /\ \E S \in SUBSET over : db' = shut(db, S)
    /\ UNCHANGED <<json, boots, stage, supv, renames, listedNames>>

(* persist_state, from a resize, a pairing or an attach: the sessions of   *)
(* the index, dead ones included while the runtime has not noticed.        *)
SavesSnapshot ==
    /\ stage = "serving"
    /\ \E run \in SUBSET mem.idx :
         /\ \A t \in mem.idx : supv[t] = "live" => t \in run
         /\ db' = Saved(db, mem.ident, run)
    /\ UNCHANGED <<json, boots, stage, mem, supv, sfails, renames, Told>>

(* A shell exits, and the reconciler removes its projection row. *)
TerminalExits(t) ==
    /\ supv[t] = "live"
    /\ supv' = [supv EXCEPT ![t] = "dead"]
    /\ UNCHANGED <<db, json, boots, stage, mem, sfails, renames, Told>>

FinalizesClosed(t) ==
    /\ stage \in {"opened", "recovered", "restored", "serving"}
    /\ supv[t] = "dead" /\ db.rt[t] # "none"
    /\ db' = [db EXCEPT !.rt[t] = "none"]
    /\ UNCHANGED <<json, boots, stage, mem, supv, sfails, renames, Told>>

HistoryNext ==
    \/ StartLoads \/ StartOpens \/ StartRecovers \/ StartPersists \/ StartPrunes
    \/ DaemonKilled \/ ListsTerms \/ SavesSnapshot
    \/ \E t \in Terms :
         \/ ClosesMissing(t) \/ RestoresOne(t)
         \/ CreatesTerm(t) \/ CreateFails(t) \/ ClosesTerm(t)
         \/ TerminalExits(t) \/ FinalizesClosed(t)
         \/ \E n \in Titles : RenamesTerm(t, n)
    \/ \E asked \in AskedOrders : ReordersTerms(asked)

HistorySpec == HistoryInit /\ [][HistoryNext]_historyVars

----------------------------------------------------------------------------
(* Properties *)

(* A name a client was told a session has is the one a restart will find,  *)
(* as long as the session runs: no failed write, start-up repair or prune  *)
(* takes it (record_session_restored, prune_closed_sessions_except).       *)
NamesAreDurable ==
    \A t \in Terms :
        given[t] # "none" /\ supv[t] = "live" => db.row[t].name = given[t]

(* The order a client was promised is the order of the list, restarts and  *)
(* later creations included (display_order).                               *)
OrderIsKept ==
    \A a, b \in Known(db) :
        a # b /\ <<a, b>> \in promised => Before(db, a, b)

(* The daemon never serves two identities, whichever file it started from  *)
(* and wherever a start-up was cut off.                                    *)
OneIdentity == Cardinality(listedNames) <= 1

(* The history of sessions is kept across restarts and failed writes: the  *)
(* names users were promised, the order of the list and the daemon's       *)
(* identity (restore, close_missing, StateStore::load).                    *)
HistoryIsKept == NamesAreDurable /\ OrderIsKept /\ OneIdentity
=============================================================================
