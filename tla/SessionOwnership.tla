------------------------- MODULE SessionOwnership -------------------------
(***************************************************************************)
(* The durable ledger of session supervisors (termd/src/                   *)
(* session_ownership.rs) with the two things it must stay in step with:    *)
(* the supervisor processes, and the runtime_sessions projection that a    *)
(* restarted daemon recovers from.                                         *)
(*                                                                         *)
(* Two threads of a daemon use the ledger: the protocol thread creates,    *)
(* closes and recovers sessions, the reconciler cleans up.  A daemon may   *)
(* die between any two steps; supervisors outlive it.  Every ledger        *)
(* transaction is one step, every exchange with a supervisor another.      *)
(***************************************************************************)
EXTENDS Integers, FiniteSets

CONSTANTS
    Sessions,       \* session ids
    Legacy,         \* sessions an older daemon, without a ledger, may have left
    Ops,            \* close operation ids (random in the code)
    MaxInc          \* bound: daemon incarnations

NoOp      == 0     \* close_operation_id IS NULL; the ids are at least 1
NoSession == "no_session"

ASSUME SessionOwnershipAssumption ==
    /\ Legacy \subseteq Sessions
    /\ NoSession \notin Sessions
    /\ Ops \subseteq Nat \ {0}
    /\ Ops # {}
    /\ MaxInc \in Nat

VARIABLES
    phase,      \* session_ownership.phase, "none" when there is no row
    evid,       \* supervisor_pid and socket_path are set
    gen,        \* owner_generation, 0 for NULL
    op,         \* close_operation_id
    migrating,  \* diagnostic = 'legacy_migration'
    oldproto,   \* legacy_protocol
    projected,  \* runtime_sessions: what a restarted daemon would recover
    sup,        \* the supervisor process
    pipe,       \* its startup grant pipe
    sock,       \* its socket file exists
    confirmed,  \* its confirmed_close_operation_id
    inc,        \* daemon incarnation, which stands for its generation
    main,       \* protocol thread: what it does, for which session
    todo,       \* session records recover() has not looked at yet
    live,       \* sessions the SessionRuntime holds open
    index,      \* session_index: sessions the protocol shows
    recon,      \* reconciler thread
    used,       \* history: session ids handed out
    closed      \* history: sessions finalized as closed

ledger == <<phase, evid, gen, op, migrating, oldproto, projected>>
procs  == <<sup, pipe, sock, confirmed>>
vars   == <<ledger, procs, inc, main, todo, live, index, recon, used, closed>>

Phases == {"none", "preparing", "prepared", "active", "cleaning", "quarantined"}
Sups   == {"none", "starting", "bound", "running", "exited", "killed", "closing", "dead"}
Pipes  == {"none", "open", "granted", "eof"}
Records == {"none", "running", "closing", "invalid"}
MainPc == {"down", "backfill", "recover", "connect", "migrate", "idle", "spawn",
           "evidence", "grant", "reap", "prepare", "commit", "closing"}
ReconPc == {"idle", "natural", "mark", "operation", "close", "finalize", "check", "done"}

TypeOK ==
    /\ phase \in [Sessions -> Phases]
    /\ evid \in [Sessions -> BOOLEAN]
    /\ gen \in [Sessions -> Nat]
    /\ op \in [Sessions -> Ops \cup {NoOp}]
    /\ migrating \in [Sessions -> BOOLEAN]
    /\ oldproto \in [Sessions -> BOOLEAN]
    /\ projected \in [Sessions -> Records]
    /\ sup \in [Sessions -> Sups]
    /\ pipe \in [Sessions -> Pipes]
    /\ sock \in [Sessions -> BOOLEAN]
    /\ confirmed \in [Sessions -> Ops \cup {NoOp}]
    /\ inc \in Nat
    /\ main \in [pc : MainPc, s : Sessions \cup {NoSession}]
    /\ todo \in SUBSET Sessions
    /\ live \in SUBSET Sessions
    /\ index \in SUBSET Sessions
    /\ recon \in [pc : ReconPc, s : Sessions \cup {NoSession}, op : Ops \cup {NoOp}]
    /\ used \in SUBSET Sessions
    /\ closed \in SUBSET Sessions

(* Sessions the old daemon left run without a ledger row; their projection *)
(* says running, or that a close had begun, or lacks the restore evidence. *)
Init ==
    /\ phase = [s \in Sessions |-> "none"]
    /\ evid = [s \in Sessions |-> FALSE]
    /\ gen = [s \in Sessions |-> 0]
    /\ op = [s \in Sessions |-> NoOp]
    /\ migrating = [s \in Sessions |-> FALSE]
    /\ oldproto = [s \in Sessions |-> FALSE]
    /\ used \in SUBSET Legacy
    /\ projected \in {r \in [Sessions -> Records] :
                        \A s \in Sessions : r[s] = "none" <=> s \notin used}
    /\ sup = [s \in Sessions |-> IF s \in used THEN "running" ELSE "none"]
    /\ pipe = [s \in Sessions |-> "none"]
    /\ sock = [s \in Sessions |-> s \in used]
    /\ confirmed = [s \in Sessions |-> NoOp]
    /\ inc = 0
    /\ main = [pc |-> "down", s |-> NoSession]
    /\ todo = {}
    /\ live = {}
    /\ index = {}
    /\ recon = [pc |-> "idle", s |-> NoSession, op |-> NoOp]
    /\ closed = {}

Goto(pc, s)    == main' = [pc |-> pc, s |-> s]
Main(pc, s)    == main.pc = pc /\ main.s = s
Recon(pc, s)   == recon.pc = pc /\ recon.s = s
ReconGoto(pc)  == recon' = [recon EXCEPT !.pc = pc]
ReconRests     == recon' = [pc |-> "idle", s |-> NoSession, op |-> NoOp]

----------------------------------------------------------------------------
(* Ledger transactions *)

SetPhase(s, p) == phase' = [phase EXCEPT ![s] = p]

(* mark_cleaning: not for active rows, and without a close operation. *)
MarkCleaning(s) ==
    phase' = [phase EXCEPT ![s] = IF @ \in {"none", "active"} THEN @ ELSE "cleaning"]

(* Mutant: every retry proposes a fresh operation. *)
FreshOperation(s) ==
    /\ phase' = [phase EXCEPT ![s] =
          IF @ \in {"prepared", "active", "cleaning"} THEN "cleaning" ELSE @]
    /\ \E proposed \in Ops :
          op' = [op EXCEPT ![s] =
             IF phase[s] \in {"prepared", "active", "cleaning"} THEN proposed ELSE @]

(* mark_cleaning_with_stable_operation: the first operation id stays. *)
StableOperation(s) ==
    /\ phase' = [phase EXCEPT ![s] =
          IF @ \in {"prepared", "active", "cleaning"} THEN "cleaning" ELSE @]
    /\ \E proposed \in Ops :
          op' = [op EXCEPT ![s] =
             IF phase[s] \in {"prepared", "active", "cleaning"} /\ @ = NoOp
             THEN proposed ELSE @]

DeleteRow(s) ==
    /\ phase' = [phase EXCEPT ![s] = "none"]
    /\ evid' = [evid EXCEPT ![s] = FALSE]
    /\ gen' = [gen EXCEPT ![s] = 0]
    /\ op' = [op EXCEPT ![s] = NoOp]
    /\ migrating' = [migrating EXCEPT ![s] = FALSE]
    /\ oldproto' = [oldproto EXCEPT ![s] = FALSE]

(* quarantine: whatever the row's phase is by now. *)
Quarantine(s) ==
    /\ phase' = [phase EXCEPT ![s] = IF @ = "none" THEN @ ELSE "quarantined"]
    /\ migrating' = [migrating EXCEPT ![s] = FALSE]
    /\ projected' = [projected EXCEPT ![s] = "none"]
    /\ UNCHANGED <<evid, gen, op, oldproto>>

(* Mutant: the closed projection is marked and never deleted. *)
FinalizeKeepsTombstone(s) ==
    /\ projected' = [projected EXCEPT ![s] = "closed"]
    /\ IF phase[s] = "cleaning"
       THEN DeleteRow(s) /\ closed' = closed \cup {s}
       ELSE UNCHANGED <<phase, evid, gen, op, migrating, oldproto, closed>>

(* finalize_closed *)
FinalizeClosed(s) ==
    /\ projected' = [projected EXCEPT ![s] = "none"]
    /\ IF phase[s] = "cleaning"
       THEN DeleteRow(s) /\ closed' = closed \cup {s}
       ELSE UNCHANGED <<phase, evid, gen, op, migrating, oldproto, closed>>

----------------------------------------------------------------------------
(* The protocol thread: create *)

InsertPreparing(s) ==
    /\ main.pc = "idle"
    /\ s \notin used
    /\ used' = used \cup {s}
    /\ SetPhase(s, "preparing")
    /\ gen' = [gen EXCEPT ![s] = inc]
    /\ Goto("spawn", s)
    /\ UNCHANGED <<evid, op, migrating, oldproto, projected, procs, inc, todo, live,
                   index, recon, closed>>

(* launch_supervisor_with_grant fails before it has a child process: the   *)
(* runtime directory, the old socket or the exec.                          *)
SpawnFails(s) ==
    /\ Main("spawn", s)
    /\ MarkCleaning(s)
    /\ Goto("idle", NoSession)
    /\ UNCHANGED <<evid, gen, op, migrating, oldproto, projected, procs, inc, todo,
                   live, index, recon, used, closed>>

(* Mutant: the child gets its grant when it is spawned. *)
SpawnGranted(s) ==
    /\ Main("spawn", s)
    /\ sup' = [sup EXCEPT ![s] = "starting"]
    /\ pipe' = [pipe EXCEPT ![s] = "granted"]
    /\ sock' = [sock EXCEPT ![s] = FALSE]
    /\ Goto("evidence", s)
    /\ UNCHANGED <<ledger, confirmed, inc, todo, live, index, recon, used, closed>>

Spawn(s) ==
    /\ Main("spawn", s)
    /\ sup' = [sup EXCEPT ![s] = "starting"]
    /\ pipe' = [pipe EXCEPT ![s] = "open"]
    /\ sock' = [sock EXCEPT ![s] = FALSE]
    /\ Goto("evidence", s)
    /\ UNCHANGED <<ledger, confirmed, inc, todo, live, index, recon, used, closed>>

(* record_prepared: pid and socket are durable before the grant is sent.   *)
RecordPrepared(s) ==
    /\ Main("evidence", s)
    /\ phase[s] = "preparing"
    /\ SetPhase(s, "prepared")
    /\ evid' = [evid EXCEPT ![s] = TRUE]
    /\ Goto("grant", s)
    /\ UNCHANGED <<gen, op, migrating, oldproto, projected, procs, inc, todo, live,
                   index, recon, used, closed>>

(* The evidence cannot be stored: the grant pipe is dropped and the child  *)
(* waited for.                                                             *)
EvidenceFails(s) ==
    /\ Main("evidence", s)
    /\ pipe' = [pipe EXCEPT ![s] = "eof"]
    /\ Goto("reap", s)
    /\ UNCHANGED <<ledger, sup, sock, confirmed, inc, todo, live, index, recon, used, closed>>

Reap(s) ==
    /\ Main("reap", s)
    /\ sup[s] = "dead"
    /\ MarkCleaning(s)
    /\ Goto("idle", NoSession)
    /\ UNCHANGED <<evid, gen, op, migrating, oldproto, projected, procs, inc, todo,
                   live, index, recon, used, closed>>

(* The pipe of a dead child refuses the grant and the create fails; the    *)
(* session is published otherwise, connected or not.                       *)
SendGrant(s) ==
    /\ Main("grant", s)
    /\ IF sup[s] = "dead"
       THEN /\ MarkCleaning(s)
            /\ Goto("idle", NoSession)
            /\ UNCHANGED <<pipe, live>>
       ELSE /\ pipe' = [pipe EXCEPT ![s] = "granted"]
            /\ live' = live \cup {s}
            /\ Goto("prepare", s)
            /\ UNCHANGED phase
    /\ UNCHANGED <<evid, gen, op, migrating, oldproto, projected, sup, sock, confirmed,
                   inc, todo, index, recon, used, closed>>

PrepareSucceeds(s) ==
    /\ Main("prepare", s)
    /\ Goto("commit", s)
    /\ UNCHANGED <<ledger, procs, inc, todo, live, index, recon, used, closed>>

(* Mutant: the projection is left for a later save. *)
CommitActiveAlone(s) ==
    /\ Main("commit", s)
    /\ phase[s] = "prepared"
    /\ SetPhase(s, "active")
    /\ index' = index \cup {s}
    /\ Goto("idle", NoSession)
    /\ UNCHANGED <<evid, gen, op, migrating, oldproto, projected, procs, inc, todo,
                   live, recon, used, closed>>

(* commit_active: the row becomes active and the projection appears in one *)
(* transaction.                                                            *)
CommitActive(s) ==
    /\ Main("commit", s)
    /\ phase[s] = "prepared"
    /\ SetPhase(s, "active")
    /\ projected' = [projected EXCEPT ![s] = "running"]
    /\ index' = index \cup {s}
    /\ Goto("idle", NoSession)
    /\ UNCHANGED <<evid, gen, op, migrating, oldproto, procs, inc, todo, live, recon,
                   used, closed>>

(* fail_pre_active: prepare() or the commit failed. *)
FailPreActive(s) ==
    /\ Main("prepare", s) \/ Main("commit", s)
    /\ live' = live \ {s}
    /\ MarkCleaning(s)
    /\ Goto("idle", NoSession)
    /\ UNCHANGED <<evid, gen, op, migrating, oldproto, projected, procs, inc, todo,
                   index, recon, used, closed>>

(* close: the operation is durable before the handle is dropped, and the   *)
(* caller waits for the reconciler to delete the row.  A second close, of a *)
(* session whose first close timed out, finds the same operation.          *)
Close(s) ==
    /\ main.pc = "idle"
    /\ s \in index
    /\ phase[s] \in {"active", "cleaning"}
    /\ StableOperation(s)
    /\ live' = live \ {s}
    /\ Goto("closing", s)
    /\ UNCHANGED <<evid, gen, migrating, oldproto, projected, procs, inc, todo, index,
                   recon, used, closed>>

CloseReturns(s) ==
    /\ Main("closing", s)
    /\ phase[s] = "none"
    /\ index' = index \ {s}
    /\ Goto("idle", NoSession)
    /\ UNCHANGED <<ledger, procs, inc, todo, live, recon, used, closed>>

CloseTimesOut(s) ==
    /\ Main("closing", s)
    /\ phase[s] # "none"
    /\ Goto("idle", NoSession)
    /\ UNCHANGED <<ledger, procs, inc, todo, live, index, recon, used, closed>>

----------------------------------------------------------------------------
(* The protocol thread: the projection *)

(* StateStore::save upserts what snapshot_state finds open. *)
Saved(shown, open) ==
    [s \in Sessions |-> IF s \in shown \cap open THEN "running" ELSE projected[s]]

(* persist_state, after a pairing or a resize. *)
PersistState ==
    /\ main.pc = "idle"
    /\ projected' = Saved(index, live)
    /\ projected' # projected
    /\ UNCHANGED <<phase, evid, gen, op, migrating, oldproto, procs, inc, main, todo,
                   live, index, recon, used, closed>>

(* reconcile_persisted_closed_sessions, when sessions are listed or        *)
(* attached: what is no longer projected is hidden.                        *)
HideClosed ==
    /\ main.pc = "idle"
    /\ index' = {s \in index : projected[s] # "none"}
    /\ index' # index
    /\ UNCHANGED <<ledger, procs, inc, main, todo, live, recon, used, closed>>

(* observe_natural_exit: an attach or a write finds the supervisor gone.   *)
ObserveNaturalExit(s) ==
    /\ main.pc = "idle"
    /\ s \in live \cap index
    /\ sup[s] = "dead"
    /\ live' = live \ {s}
    /\ UNCHANGED <<ledger, procs, inc, main, todo, index, recon, used, closed>>

----------------------------------------------------------------------------
(* The protocol thread: start and recovery *)

(* The records are read before the reconciler runs, and used after. *)
Start ==
    /\ main.pc = "down"
    /\ inc < MaxInc
    /\ inc' = inc + 1
    /\ todo' = {s \in Sessions : projected[s] # "none"}
    /\ Goto("backfill", NoSession)
    /\ UNCHANGED <<ledger, procs, live, index, recon, used, closed>>

(* backfill_legacy_records: records without a ledger row get one. *)
Backfill ==
    /\ main.pc = "backfill"
    /\ LET missing == {s \in todo : phase[s] = "none"}
           usable  == {s \in missing : projected[s] # "invalid"}
       IN  /\ phase' = [s \in Sessions |-> IF s \in usable THEN "prepared"
                           ELSE IF s \in missing THEN "quarantined" ELSE phase[s]]
           /\ evid' = [s \in Sessions |-> s \in usable \/ evid[s]]
           /\ migrating' = [s \in Sessions |-> s \in usable \/ migrating[s]]
           /\ projected' = [s \in Sessions |->
                  IF s \in missing \ usable THEN "none" ELSE projected[s]]
    /\ Goto("recover", NoSession)
    /\ UNCHANGED <<gen, op, oldproto, procs, inc, todo, live, index, recon, used, closed>>

RecoverOne(s) ==
    /\ main.pc = "recover"
    /\ s \in todo
    /\ todo' = todo \ {s}
    /\ IF phase[s] = "active" THEN Goto("connect", s)
       ELSE IF phase[s] = "prepared" /\ migrating[s] THEN Goto("migrate", s)
       ELSE UNCHANGED main
    /\ UNCHANGED <<ledger, procs, inc, live, index, recon, used, closed>>

Serves(s) == sup[s] \in {"running", "exited", "killed"}

(* install_legacy_cleanup_capability and the update that follows it; an    *)
(* old supervisor does not know the request and drops the connection.      *)
Migrate(s) ==
    /\ Main("migrate", s)
    /\ Serves(s)
    /\ LET closing == projected[s] = "closing"
       IN  /\ IF phase[s] = "prepared"
              THEN /\ SetPhase(s, IF closing THEN "cleaning" ELSE "active")
                   /\ \E installed \in BOOLEAN :
                         oldproto' = [oldproto EXCEPT ![s] = ~installed]
                   /\ migrating' = [migrating EXCEPT ![s] = FALSE]
                   /\ \E proposed \in Ops :
                         op' = [op EXCEPT ![s] = IF closing /\ @ = NoOp
                                                 THEN proposed ELSE @]
              ELSE UNCHANGED <<phase, oldproto, migrating, op>>
           /\ IF closing THEN Goto("recover", NoSession) ELSE Goto("connect", s)
    /\ UNCHANGED <<evid, gen, projected, procs, inc, todo, live, index, recon, used,
                   closed>>

RecoverConnects(s) ==
    /\ Main("connect", s)
    /\ Serves(s)
    /\ live' = live \cup {s}
    /\ Goto("recover", NoSession)
    /\ UNCHANGED <<ledger, procs, inc, todo, index, recon, used, closed>>

(* The supervisor is gone, refuses or stays silent through every retry.    *)
RecoverFails(s) ==
    /\ Main("connect", s) \/ Main("migrate", s)
    /\ Quarantine(s)
    /\ Goto("recover", NoSession)
    /\ UNCHANGED <<procs, inc, todo, live, index, recon, used, closed>>

(* restore_runtime_sessions: show what was recovered and persist it. *)
RecoverDone ==
    /\ main.pc = "recover"
    /\ todo = {}
    /\ index' = live
    /\ projected' = Saved(live, live)
    /\ Goto("idle", NoSession)
    /\ UNCHANGED <<phase, evid, gen, op, migrating, oldproto, procs, inc, todo, live,
                   recon, used, closed>>

(* The daemon dies; the last incarnation is spared so that what must       *)
(* eventually happen has a daemon to happen in.                            *)
DaemonCrash ==
    /\ main.pc # "down"
    /\ inc < MaxInc
    /\ Goto("down", NoSession)
    /\ pipe' = [s \in Sessions |-> IF pipe[s] = "open" THEN "eof" ELSE pipe[s]]
    /\ todo' = {}
    /\ live' = {}
    /\ index' = {}
    /\ ReconRests
    /\ UNCHANGED <<ledger, sup, sock, confirmed, inc, used, closed>>

----------------------------------------------------------------------------
(* The supervisor process: run_session_supervisor *)

SupKeepsLedger == UNCHANGED <<ledger, inc, main, todo, live, index, recon, used, closed>>

BindSocket(s) ==
    /\ sup[s] = "starting"
    /\ sup' = [sup EXCEPT ![s] = "bound"]
    /\ sock' = [sock EXCEPT ![s] = TRUE]
    /\ UNCHANGED <<pipe, confirmed>>
    /\ SupKeepsLedger

(* read_and_validate_startup_grant, then the PTY starts or fails to. *)
ReadGrant(s) ==
    /\ sup[s] = "bound"
    /\ pipe[s] = "granted"
    /\ \/ sup' = [sup EXCEPT ![s] = "running"] /\ UNCHANGED sock
       \/ sup' = [sup EXCEPT ![s] = "dead"] /\ sock' = [sock EXCEPT ![s] = FALSE]
    /\ UNCHANGED <<pipe, confirmed>>
    /\ SupKeepsLedger

(* An end of file before the grant: sockets are removed, no PTY starts.    *)
ReadEof(s) ==
    /\ sup[s] = "bound"
    /\ pipe[s] = "eof"
    /\ sup' = [sup EXCEPT ![s] = "dead"]
    /\ sock' = [sock EXCEPT ![s] = FALSE]
    /\ UNCHANGED <<pipe, confirmed>>
    /\ SupKeepsLedger

PtyExits(s) ==
    /\ sup[s] = "running"
    /\ sup' = [sup EXCEPT ![s] = "exited"]
    /\ UNCHANGED <<pipe, sock, confirmed>>
    /\ SupKeepsLedger

(* A supervisor that is killed leaves its socket file. *)
SupKilled(s) ==
    /\ sup[s] \notin {"none", "dead"}
    /\ sup' = [sup EXCEPT ![s] = "dead"]
    /\ UNCHANGED <<pipe, sock, confirmed>>
    /\ SupKeepsLedger

(* The accept loop sees shutdown_tx, removes the sockets and returns. *)
ShutdownCompletes(s) ==
    /\ sup[s] = "closing"
    /\ sup' = [sup EXCEPT ![s] = "dead"]
    /\ sock' = [sock EXCEPT ![s] = FALSE]
    /\ UNCHANGED <<pipe, confirmed>>
    /\ SupKeepsLedger

----------------------------------------------------------------------------
(* The reconciler: reconcile_once, a row at a time *)

ReconKeeps == UNCHANGED <<inc, main, todo, live, index, used>>
ReconKeepsLedger == UNCHANGED <<ledger, closed>> /\ ReconKeeps

(* reconcile_interrupted_creates: rows another incarnation left behind.    *)
ReconcileInterrupted(s) ==
    /\ main.pc # "down"
    /\ recon.pc = "idle"
    /\ gen[s] # inc
    /\ \/ /\ phase[s] = "prepared"
          /\ ~migrating[s]
          /\ StableOperation(s)
          /\ UNCHANGED <<evid, gen, migrating, oldproto>>
       \/ /\ phase[s] = "preparing"
          /\ ~sock[s]
          /\ DeleteRow(s)
    /\ UNCHANGED <<projected, procs, recon, closed>>
    /\ ReconKeeps

(* Mutant: cleaning rows without an operation are not selected. *)
ReconPickOperated(s) ==
    /\ main.pc # "down"
    /\ recon.pc = "idle"
    /\ phase[s] = "active" \/ (phase[s] = "cleaning" /\ op[s] # NoOp)
    /\ evid[s]
    /\ recon' = [pc |-> IF phase[s] = "active" THEN "natural" ELSE "close",
                 s |-> s, op |-> op[s]]
    /\ UNCHANGED procs
    /\ ReconKeepsLedger

(* The row is read once; the steps below use what was read. *)
ReconPick(s) ==
    /\ main.pc # "down"
    /\ recon.pc = "idle"
    /\ phase[s] \in {"active", "cleaning"}
    /\ evid[s]
    /\ recon' = [pc |-> IF phase[s] = "active" THEN "natural"
                        ELSE IF op[s] = NoOp THEN "operation" ELSE "close",
                 s |-> s, op |-> op[s]]
    /\ UNCHANGED procs
    /\ ReconKeepsLedger

(* supervisor_natural_exit_status: NaturalExitStatus, FinalizeNaturalExit; *)
(* the shutdown it asks for races its own answer.                          *)
FinalizeNaturalExit(s) ==
    /\ Recon("natural", s)
    /\ sup[s] = "exited"
    /\ sup' = [sup EXCEPT ![s] = "closing"]
    /\ ReconGoto("mark") \/ ReconRests
    /\ UNCHANGED <<pipe, sock, confirmed>>
    /\ ReconKeepsLedger

(* Not exited, or any error, counts as still running. *)
StillRunning(s) ==
    /\ Recon("natural", s)
    /\ ReconRests
    /\ UNCHANGED procs
    /\ ReconKeepsLedger

MarkExited(s) ==
    /\ Recon("mark", s)
    /\ StableOperation(s)
    /\ ReconRests
    /\ UNCHANGED <<evid, gen, migrating, oldproto, projected, procs, closed>>
    /\ ReconKeeps

(* A row of a failed create gets its operation; a row that is gone, or     *)
(* quarantined without one, ends the pass.                                 *)
AssignOperation(s) ==
    /\ Recon("operation", s)
    /\ StableOperation(s)
    /\ IF op'[s] = NoOp THEN ReconRests
       ELSE recon' = [recon EXCEPT !.pc = "close", !.op = op'[s]]
    /\ UNCHANGED <<evid, gen, migrating, oldproto, projected, procs, closed>>
    /\ ReconKeeps

(* CloseStatus and CleanupClose: another confirmed operation is an error;  *)
(* otherwise the PTY is killed, now or by an earlier try.                  *)
CleanupClose(s) ==
    /\ Recon("close", s)
    /\ ~oldproto[s]
    /\ Serves(s)
    /\ IF confirmed[s] \in {NoOp, recon.op}
       THEN /\ sup' = [sup EXCEPT ![s] = "killed"]
            /\ confirmed' = [confirmed EXCEPT ![s] = recon.op]
            /\ ReconGoto("finalize") \/ ReconGoto("check")
       ELSE UNCHANGED <<sup, confirmed>> /\ ReconGoto("check")
    /\ UNCHANGED <<pipe, sock>>
    /\ ReconKeepsLedger

FinalizeClose(s) ==
    /\ Recon("finalize", s)
    /\ Serves(s)
    /\ confirmed[s] = recon.op
    /\ sup' = [sup EXCEPT ![s] = "closing"]
    /\ ReconGoto("check")
    /\ UNCHANGED <<pipe, sock, confirmed>>
    /\ ReconKeepsLedger

(* reconcile_legacy_owned_cleanup: Close over a controller connection. Its *)
(* answer, unlike FinalizeClose's, is taken for the end of the supervisor. *)
LegacyClose(s) ==
    /\ Recon("close", s)
    /\ oldproto[s]
    /\ Serves(s)
    /\ sup' = [sup EXCEPT ![s] = "closing"]
    /\ ReconGoto("done") \/ ReconGoto("check")
    /\ UNCHANGED <<pipe, sock, confirmed>>
    /\ ReconKeepsLedger

(* Refused, timed out or unreachable: nothing happened. *)
CleanupFails(s) ==
    /\ Recon("close", s) \/ Recon("finalize", s)
    /\ ReconGoto("check")
    /\ UNCHANGED procs
    /\ ReconKeepsLedger

(* Mutant: the row goes without looking for the process. *)
ConfirmUnchecked(s) ==
    /\ Recon("done", s) \/ Recon("check", s)
    /\ FinalizeClosed(s)
    /\ ReconRests
    /\ UNCHANGED procs
    /\ ReconKeeps

(* Whatever the exchange said, the row goes once the process is absent.    *)
ConfirmAbsent(s) ==
    /\ \/ Recon("done", s)
       \/ Recon("check", s) /\ sup[s] = "dead"
    /\ FinalizeClosed(s)
    /\ ReconRests
    /\ UNCHANGED procs
    /\ ReconKeeps

StillPresent(s) ==
    /\ Recon("check", s)
    /\ sup[s] # "dead"
    /\ ReconRests
    /\ UNCHANGED procs
    /\ ReconKeepsLedger

----------------------------------------------------------------------------
Create(s) ==
    \/ InsertPreparing(s) \/ SpawnFails(s) \/ Spawn(s) \/ RecordPrepared(s)
    \/ EvidenceFails(s) \/ Reap(s) \/ SendGrant(s) \/ PrepareSucceeds(s)
    \/ CommitActive(s) \/ FailPreActive(s)

Recover(s) ==
    \/ RecoverOne(s) \/ Migrate(s) \/ RecoverConnects(s) \/ RecoverFails(s)

Supervisor(s) ==
    \/ BindSocket(s) \/ ReadGrant(s) \/ ReadEof(s) \/ PtyExits(s) \/ SupKilled(s)
    \/ ShutdownCompletes(s)

Reconcile(s) ==
    \/ ReconcileInterrupted(s) \/ ReconPick(s) \/ FinalizeNaturalExit(s)
    \/ StillRunning(s) \/ MarkExited(s) \/ AssignOperation(s) \/ CleanupClose(s)
    \/ FinalizeClose(s) \/ LegacyClose(s) \/ CleanupFails(s) \/ ConfirmAbsent(s)
    \/ StillPresent(s)

Next ==
    \/ \E s \in Sessions :
          \/ Create(s)
          \/ Close(s) \/ CloseReturns(s) \/ CloseTimesOut(s)
          \/ ObserveNaturalExit(s)
          \/ Recover(s)
          \/ Supervisor(s)
          \/ Reconcile(s)
    \/ PersistState \/ HideClosed
    \/ Start \/ Backfill \/ RecoverDone \/ DaemonCrash

Spec == Init /\ [][Next]_vars

(* The daemon is started again, its threads and the supervisors keep       *)
(* running, a pass reaches every row, and an exchange that is tried again  *)
(* and again succeeds in the end.                                          *)
Fairness ==
    /\ WF_vars(Start)
    /\ WF_vars(Backfill)
    /\ WF_vars(RecoverDone)
    /\ \A s \in Sessions :
          /\ WF_vars(main.s = s /\ Create(s))
          /\ WF_vars(Recover(s))
          /\ WF_vars(CloseReturns(s) \/ CloseTimesOut(s))
          /\ WF_vars(BindSocket(s) \/ ReadGrant(s) \/ ReadEof(s) \/ ShutdownCompletes(s))
          /\ WF_vars(recon.s = s /\ Reconcile(s))
          /\ SF_vars(ReconcileInterrupted(s))
          /\ SF_vars(ReconPick(s))
          /\ SF_vars(CleanupClose(s) /\ recon'.pc = "finalize")
          /\ SF_vars(FinalizeClose(s))
          /\ SF_vars(LegacyClose(s))

FairSpec == Spec /\ Fairness

----------------------------------------------------------------------------
(* Properties *)

(* A supervisor that runs a shell is on record, with the pid and the       *)
(* socket by which it can be found: the grant that lets it start a PTY is  *)
(* written after record_prepared, and no daemon death, failed create or    *)
(* reconciler step lets go of the row before the shell is gone.            *)
NoOrphan ==
    \A s \in Sessions :
        pipe[s] # "none" /\ sup[s] \in {"running", "exited", "killed"}
            => phase[s] # "none" /\ evid[s]

(* A close that was interrupted can be taken up again: the operation a     *)
(* supervisor has confirmed is the one the ledger still names, so the      *)
(* supervisor never answers that a different close is confirmed.           *)
CloseCanResume ==
    \A s \in Sessions : sup[s] = "killed" => op[s] = confirmed[s]

(* A session is finalized only once its supervisor has ended or has been   *)
(* told to: finalize_closed never strands a shell.                         *)
ClosedIsOver ==
    \A s \in closed : sup[s] \in {"closing", "dead"}

(* An active session can be recovered: the ledger row and the projection   *)
(* a restarted daemon reads appear and disappear together.                 *)
ActiveIsProjected ==
    \A s \in Sessions : phase[s] = "active" => projected[s] = "running"

(* Owned cleanup converges: a cleaning row with evidence leaves the        *)
(* cleaning phase, through lost answers, failed exchanges and restarts.    *)
OwnedConverges ==
    \A s \in Sessions :
        (phase[s] = "cleaning" /\ evid[s]) ~> (phase[s] # "cleaning")

(* What a user or an operator sees of a session's shell, and whether the   *)
(* ledger leads to its supervisor.                                         *)
ShellOf(s) ==
    IF sup[s] \in {"none", "starting", "bound"} THEN "none"
    ELSE IF sup[s] \in {"closing", "dead"} THEN "gone" ELSE "alive"
RecordedAt(s) == phase[s] # "none" /\ evid[s]

Ledger == INSTANCE SessionLedger WITH
    Ids <- Sessions, LeftBehind <- Legacy,
    shell <- [s \in Sessions |-> ShellOf(s)],
    recorded <- [s \in Sessions |-> RecordedAt(s)]

(* The whole protocol implements the abstract ledger: through crashes,     *)
(* lost grants, retried closes and recoveries a shell starts on record,    *)
(* never a second time, and is forgotten only when it is over.             *)
KeepsLedger == Ledger!LedgerSpec

(* docs/deployment.md: while the ledger has preparing or cleaning rows,    *)
(* keep the daemon running and wait for them to converge.                  *)
Converges ==
    \A s \in Sessions :
        (phase[s] \in {"preparing", "cleaning"})
            ~> (phase[s] \notin {"preparing", "cleaning"})

(* A running snapshot cannot reopen a closed runtime session: what         *)
(* finalize_closed removed, persist_state does not bring back.             *)
ClosedStaysClosed ==
    \A s \in closed : projected[s] = "none"
=============================================================================
