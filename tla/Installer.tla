---------------------------- MODULE Installer ----------------------------
(***************************************************************************)
(* How a host gets, upgrades and loses termd: the install, upgrade and     *)
(* uninstall subcommands (terminstall/src/lib.rs), the embedded installer  *)
(* script they run (scripts/install-termd.sh) and the helper the script    *)
(* calls back for everything it does to the state database and to the      *)
(* session supervisors (termd/src/installer_helper.rs).                    *)
(*                                                                         *)
(* The daemon keeps running while an installation is under way, so its     *)
(* session operations interleave with the script's steps; it is reduced    *)
(* here to what the installer looks at.                                    *)
(***************************************************************************)
EXTENDS Naturals

CONSTANTS MaxCommand,   \* commands the operator may run one after the other
          MaxFault,     \* faults (failing tool, kill) there may be
          ExecOpenFile  \* what executing a file that is open for writing may do

ASSUME InstallerAssumption ==
    /\ MaxCommand \in Nat /\ MaxFault \in Nat
    /\ ExecOpenFile \in SUBSET {"runs", "busy"} \ {{}}

VARIABLES
  cmd,    \* the command being run
  disk,   \* the managed files: the binary, and the env, wrapper and unit
  saved,  \* their snapshot in the staging directory
  svc,    \* termd.service
  sessionDb,     \* daemon-state.sqlite as the helper reads it; a session is
          \* named by the compatibility of the supervisor it was given
  sups,   \* the compatibilities of the live session supervisors
  ran,    \* commands started
  ifaults \* faults so far

installVars == <<cmd, disk, saved, svc, sessionDb, sups, ran, ifaults>>

Versions == {"old", "new"}

NoFiles == [binary |-> "none", conf |-> "none"]

(* What a command line asks for. A relay setup token may come directly or   *)
(* from a file; "both" is the conflict the parser refuses. bin is the       *)
(* release of the binary the command comes from or downloads; the new       *)
(* release requires another supervisor compatibility than the old one.      *)
Options ==
    [kind: {"install", "uninstall", "upgrade"}, yes: BOOLEAN, dry: BOOLEAN,
     purge: BOOLEAN, loss: BOOLEAN, relay: BOOLEAN,
     token: {"none", "direct", "both"}, tty: BOOLEAN, root: BOOLEAN,
     bin: Versions]

NoOptions == [kind |-> "install", yes |-> FALSE, dry |-> FALSE, purge |-> FALSE,
              loss |-> FALSE, relay |-> FALSE, token |-> "none",
              tty |-> FALSE, root |-> FALSE, bin |-> "old"]

(* The parser refuses a flag of another subcommand; upgrade knows only      *)
(* --yes and --allow-session-loss.                                          *)
KnownFlags(o) ==
    CASE o.kind = "install"   -> ~o.purge
      [] o.kind = "uninstall" -> ~o.loss /\ ~o.relay /\ o.token = "none" /\ o.bin = "old"
      [] o.kind = "upgrade"   -> ~o.dry /\ ~o.purge /\ ~o.relay /\ o.token = "none"
                                 /\ o.bin = "new"

Requests == {o \in Options : KnownFlags(o)}

IdleCommand ==
    [at |-> "idle", opt |-> NoOptions, consent |-> FALSE, lossOk |-> FALSE,
     clear |-> FALSE, defer |-> FALSE, committed |-> FALSE,
     wasActive |-> FALSE, wasEnabled |-> FALSE, result |-> "none"]

At(p)       == cmd.at = p
Goto(p)     == cmd' = [cmd EXCEPT !.at = p]
Ends(how)   == cmd' = [IdleCommand EXCEPT !.result = how]
Fault       == ifaults < MaxFault /\ ifaults' = ifaults + 1
NoFault     == UNCHANGED ifaults
HostSame    == UNCHANGED <<disk, saved, svc, sessionDb, sups>>

-----------------------------------------------------------------------------
(* The command line                                                         *)

(* Options::from_subcommand and ParsedOptions::parse: a conflict of the two *)
(* token sources is an error before anything else.                          *)
Parse ==
    /\ At("idle") /\ ran < MaxCommand
    /\ ran' = ran + 1
    /\ \E o \in Requests :
          cmd' = IF o.token = "both"
                 THEN [IdleCommand EXCEPT !.result = "refused"]
                 ELSE [IdleCommand EXCEPT !.opt = o,
                       !.at = IF o.kind = "upgrade" THEN "check" ELSE "plan"]
    /\ HostSame /\ NoFault

(* apply_fresh_install_defaults: an interactive first installation that     *)
(* names no setting is asked whether to use a relay.                        *)
FreshDefaults(o) ==
    IF \/ o.kind # "install" \/ o.relay \/ o.token # "none"
       \/ disk.conf # "none" \/ o.dry \/ o.yes \/ ~o.tty
    THEN {o}
    ELSE {o, [o EXCEPT !.relay = TRUE]}

(* A relay without a token source is asked for its token, on a terminal.    *)
PromptsToken(o) == o.relay /\ o.token = "none"

(* run_with up to the confirmation. A dry run only verifies the helper.     *)
Plan ==
    /\ At("plan")
    /\ \E o \in FreshDefaults(cmd.opt) :
         \/ o.dry /\ Ends("done")
         \/ ~o.dry /\ PromptsToken(o) /\ ~o.tty /\ Ends("refused")
         \/ ~o.dry /\ ~o.yes /\ ~o.tty /\ Ends("refused")
         \/ ~o.dry /\ ~o.yes /\ o.tty /\ Ends("cancelled")
         \/ /\ ~o.dry /\ (o.yes \/ o.tty) /\ (PromptsToken(o) => o.tty)
            /\ cmd' = [cmd EXCEPT !.opt = o, !.consent = TRUE, !.at = "secret"]
    /\ HostSame /\ NoFault /\ UNCHANGED ran

(* read_secret: an empty answer is an error; then execute starts the script.*)
ReadSecret ==
    /\ At("secret")
    /\ \/ PromptsToken(cmd.opt) /\ Ends("refused")
       \/ Goto("script")
    /\ HostSame /\ NoFault /\ UNCHANGED ran

-----------------------------------------------------------------------------
(* upgrade                                                                  *)

(* run_upgrade_with: the platform, the repository, the latest release and   *)
(* its asset are checked before the operator is asked.                      *)
CheckRelease ==
    /\ At("check")
    /\ \/ Fault /\ Ends("failed")
       \/ NoFault /\ Ends("done")
       \/ NoFault /\ Goto("agree")
    /\ HostSame /\ UNCHANGED ran

Agree ==
    /\ At("agree")
    /\ \/ ~cmd.opt.yes /\ ~cmd.opt.tty /\ Ends("refused")
       \/ ~cmd.opt.yes /\ cmd.opt.tty /\ Ends("cancelled")
       \/ (cmd.opt.yes \/ cmd.opt.tty) /\ ~cmd.opt.root /\ Ends("refused")
       \/ /\ (cmd.opt.yes \/ cmd.opt.tty) /\ cmd.opt.root
          /\ cmd' = [cmd EXCEPT !.consent = TRUE, !.at = "download"]
    /\ HostSame /\ NoFault /\ UNCHANGED ran

(* What the server sends for the asset: the published bytes, other bytes,   *)
(* fewer or more of them, or nothing.                                       *)
Bodies == {"good", "corrupt", "short", "large", "broken"}

(* stage_candidate: only a body of the announced size and digest is kept.   *)
Staged(body) == body = "good"

Download ==
    /\ At("download")
    /\ \E body \in Bodies :
         IF Staged(body) THEN Goto("probe") /\ NoFault ELSE Ends("failed") /\ Fault
    /\ HostSame /\ UNCHANGED ran

(* candidate_version executes the staged file. The NamedTempFile that wrote *)
(* it is still open for writing in UpgradeCandidate.                        *)
CandidateVersion ==
    /\ At("probe")
    /\ \E exec \in ExecOpenFile :
         IF exec = "busy" THEN Ends("busy") ELSE Goto("handover")
    /\ HostSame /\ NoFault /\ UNCHANGED ran

(* install_candidate: the new binary runs its own "install --yes".          *)
InstallCandidate ==
    /\ At("handover")
    /\ cmd' = [cmd EXCEPT !.at = "script",
                          !.opt = [NoOptions EXCEPT !.yes = TRUE, !.root = TRUE,
                                      !.tty = cmd.opt.tty, !.loss = cmd.opt.loss,
                                      !.bin = "new"]]
    /\ HostSame /\ NoFault /\ UNCHANGED ran

-----------------------------------------------------------------------------
(* The helper's view of the database                                        *)

(* read_meta_value: the stored supervisor_version, if any.                  *)
StoredCompat == IF sessionDb.schema = "absent" THEN "none" ELSE sessionDb.compat

(* has_runtime_sessions: rows of any state, closed ones too.                *)
HasRuntimeSessions == sessionDb.schema # "absent" /\ sessionDb.sessions # {}

(* pending_ownership_count reads the ledger: rows preparing or cleaning.    *)
PendingOwnership == sessionDb.schema = "ready" /\ sessionDb.pending

(* clear_all_session_state: the session tables, not the ownership ledger.   *)
ClearAllSessionState == [sessionDb EXCEPT !.sessions = {}]

(* upsert_meta_value of supervisor_version.                                 *)
UpsertCompat(v) == [sessionDb EXCEPT !.compat = v]

(* repair_installer_state: only a database an earlier installer created,    *)
(* which holds nothing but supervisor_version, is emptied.                  *)
Repairable == sessionDb.schema = "poisoned" /\ sessionDb.sessions = {} /\ sups = {}
RepairInstallerState == [sessionDb EXCEPT !.schema = "absent", !.compat = "none"]

-----------------------------------------------------------------------------
(* The script, before it changes anything                                   *)

(* validate_relay_install_mode and require_root.                            *)
Validate ==
    /\ At("script")
    /\ IF ~cmd.opt.root THEN Ends("refused")
       ELSE Goto(IF cmd.opt.kind = "uninstall" THEN "uninstall" ELSE "resolve")
    /\ HostSame /\ NoFault /\ UNCHANGED ran

(* A change of the compatibility, or a first one over existing sessions,    *)
(* loses the sessions.                                                      *)
LosesSessions ==
    \/ StoredCompat \notin {"none", cmd.opt.bin}
    \/ StoredCompat = "none" /\ HasRuntimeSessions

(* resolve_supervisor_version; prompt_confirmation accepts the flag or an   *)
(* answer on the terminal, never --yes.                                     *)
ResolveSupervisorVersion ==
    /\ At("resolve")
    /\ \/ ~LosesSessions /\ Goto("precheck")
       \/ /\ LosesSessions /\ (cmd.opt.loss \/ cmd.opt.tty)
          /\ cmd' = [cmd EXCEPT !.lossOk = TRUE, !.clear = TRUE, !.at = "precheck"]
       \/ LosesSessions /\ ~cmd.opt.loss /\ Ends("cancelled")
    /\ HostSame /\ NoFault /\ UNCHANGED ran

(* assert_session_ownership_quiescent, then the candidate is staged.        *)
Precheck ==
    /\ At("precheck")
    /\ IF PendingOwnership THEN Ends("refused") ELSE Goto("snapshot")
    /\ HostSame /\ NoFault /\ UNCHANGED ran

-----------------------------------------------------------------------------
(* install_staged_candidate                                                 *)

(* prepare_install_rollback copies the managed files.                       *)
SnapshotHost ==
    /\ At("snapshot")
    /\ \/ /\ saved' = disk /\ NoFault
          /\ cmd' = [cmd EXCEPT !.at = "prepare", !.wasEnabled = svc.enabled]
       \/ Fault /\ Ends("failed") /\ UNCHANGED saved
    /\ UNCHANGED <<disk, svc, sessionDb, sups, ran>>

(* prepare_install_before_binary_commit writes env, wrapper and unit; when  *)
(* one fails the ones before it are written.                                *)
Prepare ==
    /\ At("prepare")
    /\ \/ disk' = [disk EXCEPT !.conf = "new"] /\ Goto("stop") /\ NoFault
       \/ /\ Fault /\ Goto("rollback")
          /\ \E c \in {disk.conf, "new"} : disk' = [disk EXCEPT !.conf = c]
    /\ UNCHANGED <<saved, svc, sessionDb, sups, ran>>

(* commit_staged_binary, its first half: the service is stopped.            *)
StopService ==
    /\ At("stop")
    /\ \/ /\ cmd' = [cmd EXCEPT !.at = "recheck", !.wasActive = svc.run # NoFiles]
          /\ svc' = [svc EXCEPT !.run = NoFiles] /\ NoFault
       \/ /\ svc.run # NoFiles /\ Fault /\ UNCHANGED svc
          /\ cmd' = [cmd EXCEPT !.at = "rollback", !.wasActive = TRUE]
    /\ UNCHANGED <<disk, saved, sessionDb, sups, ran>>

(* What systemctl start runs: the files as they are on disk now.            *)
Started == IF disk.binary = "none" THEN NoFiles ELSE disk

(* restore_service_after_failed_binary_commit                               *)
RestoreService == svc' = [svc EXCEPT !.run = IF cmd.wasActive THEN Started ELSE NoFiles]

(* Mutant: the check before the staging is taken as enough.                 *)
RecheckSkips ==
    /\ At("recheck")
    /\ Goto("replace")
    /\ NoFault /\ UNCHANGED <<disk, saved, svc, sessionDb, sups, ran>>

(* Its second half: with the daemon down the ledger is read again.          *)
Recheck ==
    /\ At("recheck")
    /\ \/ PendingOwnership /\ Goto("rollback") /\ RestoreService
       \/ ~PendingOwnership /\ Goto("replace") /\ UNCHANGED svc
    /\ NoFault /\ UNCHANGED <<disk, saved, sessionDb, sups, ran>>

(* mv over the target: the binary is the old one or the new one.            *)
ReplaceBinary ==
    /\ At("replace")
    /\ \/ /\ disk' = [disk EXCEPT !.binary = cmd.opt.bin]
          /\ cmd' = [cmd EXCEPT !.at = "terminate", !.committed = TRUE]
          /\ NoFault /\ UNCHANGED svc
       \/ Fault /\ Goto("rollback") /\ RestoreService /\ UNCHANGED disk
    /\ UNCHANGED <<saved, sessionDb, sups, ran>>

(* terminate_session_supervisors: SIGTERM, five seconds, SIGKILL, five      *)
(* seconds; one that survives is an error. (The unit's working directory is *)
(* the fixed state directory, so no other one's sessions are cleared.)      *)
TerminateSupervisors ==
    /\ At("terminate")
    /\ \/ ~cmd.clear /\ Goto("persist") /\ NoFault /\ UNCHANGED <<sups, sessionDb>>
       \/ /\ cmd.clear /\ Goto("persist") /\ NoFault
          /\ sups' = {} /\ sessionDb' = ClearAllSessionState
       \/ /\ cmd.clear /\ Fault /\ Goto("rollback")
          /\ \/ UNCHANGED <<sups, sessionDb>>
             \/ sups' = {} /\ UNCHANGED sessionDb
    /\ UNCHANGED <<disk, saved, svc, ran>>

(* persist_supervisor_version: deferred while the daemon has not made the   *)
(* schema.                                                                  *)
PersistSupervisorVersion ==
    /\ At("persist")
    /\ \/ /\ sessionDb.schema = "absent" /\ UNCHANGED sessionDb /\ NoFault
          /\ cmd' = [cmd EXCEPT !.at = "restart", !.defer = TRUE]
       \/ /\ sessionDb.schema = "poisoned" /\ Repairable /\ sessionDb' = RepairInstallerState /\ NoFault
          /\ cmd' = [cmd EXCEPT !.at = "restart", !.defer = TRUE]
       \/ /\ sessionDb.schema = "poisoned" /\ ~Repairable /\ UNCHANGED sessionDb /\ NoFault
          /\ Goto("rollback")
       \/ /\ sessionDb.schema = "ready" /\ sessionDb' = UpsertCompat(cmd.opt.bin) /\ NoFault
          /\ Goto("restart")
       \/ Fault /\ Goto("rollback") /\ UNCHANGED sessionDb
    /\ UNCHANGED <<disk, saved, svc, sups, ran>>

(* daemon-reload, enable, restart.                                          *)
Restart ==
    /\ At("restart")
    /\ \/ /\ svc' = [run |-> Started, enabled |-> TRUE] /\ NoFault
          /\ IF cmd.defer THEN Goto("deferred") ELSE Goto("verify")
       \/ /\ Fault /\ Goto("rollback")
          /\ \E e \in {svc.enabled, TRUE} : svc' = [svc EXCEPT !.enabled = e]
    /\ UNCHANGED <<disk, saved, sessionDb, sups, ran>>

(* persist_deferred_supervisor_version waits ten seconds for the schema;    *)
(* the wait, the write or the chown after it may fail.                      *)
PersistDeferred ==
    /\ At("deferred")
    /\ \/ /\ sessionDb.schema = "ready" /\ sessionDb' = UpsertCompat(cmd.opt.bin)
          /\ Goto("verify") /\ NoFault
       \/ /\ Fault /\ Goto("rollback")
          /\ sessionDb' \in {sessionDb} \cup
                IF sessionDb.schema = "ready" THEN {UpsertCompat(cmd.opt.bin)} ELSE {}
    /\ UNCHANGED <<disk, saved, svc, sups, ran>>

(* complete_post_install: the health answer, the registration with the      *)
(* relay, its status and the pairing. A failure leaves the installation.    *)
Verify ==
    /\ At("verify")
    /\ \/ NoFault /\ Ends("done")
       \/ Fault /\ Ends("unverified")
    /\ HostSame /\ UNCHANGED ran

(* restore_install_file of each file; one that fails does not stop the rest.*)
Partly(files, now) ==
    {f \in [binary: {files.binary, now.binary}, conf: {files.conf, now.conf}] : f # files}

(* rollback_failed_install: the files, and after a commit the service too.  *)
(* systemctl start leaves a running service as it is.                       *)
Rollback ==
    /\ At("rollback")
    /\ \/ disk' = saved /\ Ends("failed") /\ NoFault
       \/ disk' \in Partly(saved, disk) /\ Ends("incomplete") /\ Fault
    /\ svc' = IF ~cmd.committed THEN svc
              ELSE [enabled |-> cmd.wasEnabled,
                    run |-> CASE ~cmd.wasActive -> NoFiles
                              [] cmd.wasActive /\ svc.run # NoFiles -> svc.run
                              [] OTHER -> IF disk'.binary = "none" THEN NoFiles ELSE disk']
    /\ UNCHANGED <<saved, sessionDb, sups, ran>>

(* The installer is killed: nothing restores what it has changed.           *)
Killed ==
    /\ ~At("idle") /\ Fault /\ Ends("killed")
    /\ HostSame /\ UNCHANGED ran

-----------------------------------------------------------------------------
(* uninstall_component                                                      *)

Uninstall ==
    /\ At("uninstall")
    /\ disk' = NoFiles
    /\ svc' = [run |-> NoFiles, enabled |-> FALSE]
    /\ sessionDb' = IF cmd.opt.purge
             THEN [schema |-> "absent", compat |-> "none", sessions |-> {}, pending |-> FALSE]
             ELSE sessionDb
    /\ Ends("done")
    /\ NoFault /\ UNCHANGED <<saved, sups, ran>>

-----------------------------------------------------------------------------
(* The daemon, as the installer meets it                                    *)

Running == svc.run # NoFiles

(* StateStore creates the schema of a database that has none, and refuses a *)
(* database with tables and no schema version.                              *)
DaemonInitialises ==
    /\ Running /\ sessionDb.schema = "absent"
    /\ sessionDb' = [sessionDb EXCEPT !.schema = "ready"]
    /\ UNCHANGED <<cmd, disk, saved, svc, sups, ran, ifaults>>

(* A session operation writes its ownership row first ...                   *)
DaemonOpens ==
    /\ Running /\ sessionDb.schema = "ready" /\ ~sessionDb.pending
    /\ sessionDb' = [sessionDb EXCEPT !.pending = TRUE]
    /\ UNCHANGED <<cmd, disk, saved, svc, sups, ran, ifaults>>

(* ... and settles it with a session and its supervisor.                    *)
DaemonSettles ==
    /\ Running /\ sessionDb.pending
    /\ sessionDb' = [sessionDb EXCEPT !.pending = FALSE, !.sessions = @ \cup {svc.run.binary}]
    /\ sups' = sups \cup {svc.run.binary}
    /\ UNCHANGED <<cmd, disk, saved, svc, ran, ifaults>>

-----------------------------------------------------------------------------
InstallInit ==
    /\ cmd = IdleCommand /\ saved = NoFiles /\ ran = 0 /\ ifaults = 0
    /\ \/ /\ disk = NoFiles /\ sups = {}
          /\ svc = [run |-> NoFiles, enabled |-> FALSE]
          /\ sessionDb \in {[schema |-> "absent", compat |-> "none", sessions |-> {}, pending |-> FALSE],
                    [schema |-> "poisoned", compat |-> "old", sessions |-> {}, pending |-> FALSE]}
       \/ /\ disk = [binary |-> "old", conf |-> "old"] /\ sups = {}
          /\ svc = [run |-> disk, enabled |-> TRUE]
          /\ sessionDb = [schema |-> "ready", compat |-> "old", sessions |-> {}, pending |-> FALSE]

CommandStep ==
    \/ Parse \/ Plan \/ ReadSecret
    \/ CheckRelease \/ Agree \/ Download \/ CandidateVersion \/ InstallCandidate

ScriptStep ==
    \/ Validate \/ ResolveSupervisorVersion \/ Precheck
    \/ SnapshotHost \/ Prepare \/ StopService \/ Recheck \/ ReplaceBinary
    \/ TerminateSupervisors \/ PersistSupervisorVersion \/ Restart
    \/ PersistDeferred \/ Verify \/ Rollback \/ Uninstall \/ Killed

InstallNext ==
    \/ CommandStep \/ ScriptStep
    \/ DaemonInitialises \/ DaemonOpens \/ DaemonSettles

InstallSpec == InstallInit /\ [][InstallNext]_installVars

-----------------------------------------------------------------------------
InstalledFiles == [binary: Versions \cup {"none"}, conf: Versions \cup {"none"}]

InstallTypeOK ==
    /\ cmd.opt \in Options /\ disk \in InstalledFiles /\ saved \in InstalledFiles
    /\ svc.run \in InstalledFiles /\ svc.enabled \in BOOLEAN
    /\ sessionDb \in [schema: {"absent", "poisoned", "ready"}, compat: Versions \cup {"none"},
               sessions: SUBSET Versions, pending: BOOLEAN]
    /\ sups \subseteq Versions /\ ran \in 0..MaxCommand /\ ifaults \in 0..MaxFault

(* A binary is never put in another one's place while a session operation   *)
(* is preparing or cleaning: an older daemon would not know the ledger (the *)
(* second read of commit_staged_binary closes the window the first check    *)
(* leaves). The exception the script has is a rollback once the new daemon  *)
(* was started (rollback_failed_install neither stops it nor reads the      *)
(* ledger): what that daemon has begun by then is pending.                  *)
ReplacedWhenQuiet ==
    [][disk'.binary \notin {disk.binary, "none"} =>
         ~PendingOwnership \/ (At("rollback") /\ Running)]_installVars

(* Files change only after the operator agreed to the plan, and sessions or *)
(* supervisors are lost only to a purge or to the separate authorisation of *)
(* session loss: --yes alone does not give it, an upgrade does not add it.  *)
ChangesAreAuthorised ==
    [][/\ disk' # disk => cmd.consent
       /\ sups \ sups' # {} => cmd.lossOk
       /\ sessionDb.sessions \ sessionDb'.sessions # {} => cmd.lossOk \/ cmd.opt.purge]_installVars

(* "supervisor 兼容版本切换不能让旧 supervisor 被新 daemon 重新领养": a daemon *)
(* never runs with sessions whose supervisors are of another compatibility. *)
(* A rollback leaves the stored version of the failed installation.         *)
OthersAreNotAdopted == Running => sessionDb.sessions \cap sups \subseteq {svc.run.binary}

(* An upgrade that was agreed to and whose candidate has the published      *)
(* digest goes on to run the candidate's installer.                         *)
VerifiedCandidateRuns == cmd.result # "busy"

(* The installer is cautious: binaries are replaced only while nothing of  *)
(* the old daemon runs or is pending, and neither sessions nor a service   *)
(* is lost without the flag that authorises it.                            *)
InstallIsCautious == ReplacedWhenQuiet /\ ChangesAreAuthorised
=============================================================================
