------------------------------ MODULE CtlState ------------------------------
(***************************************************************************)
(* The state file of termctl and the commands that use it: pairing with a  *)
(* daemon (cli.rs, client.rs) and choosing the daemon to talk to           *)
(* (state.rs).  Several termctl processes share one file, nothing locks    *)
(* it, and the machine may crash between any two system calls: a rename    *)
(* that was not followed by a sync of the directory may or may not survive *)
(* and the contents of a file that was never synced are lost.              *)
(*                                                                         *)
(* A URL is abstracted to where it leads, keys to the device or server     *)
(* they belong to.  The daemons and the network are external: a request    *)
(* is handled late, or its answer is lost.                                 *)
(***************************************************************************)
EXTENDS Integers, Sequences, FiniteSets

CONSTANTS
  Ctls,        \* termctl processes of one user
  Hosts,       \* daemons (server ids)
  Urls,        \* the transport addresses of daemons
  Leads,       \* the daemons an address leads to (a relay leads to several)
  Folders,     \* the state directory a run starts with, and the one above it
  MaxDevice, MaxCtlRun, MaxCtlFault, MaxCrash   \* bounds

NoServer == "no server"
Directories == [owner : {"us", "root", "other", "nobody"}, writable : BOOLEAN, sticky : BOOLEAN]

ASSUME CtlAssumption ==
  /\ Hosts # {} /\ NoServer \notin Hosts /\ Urls # {} /\ "no url" \notin Urls
  /\ Leads \in [Urls -> SUBSET Hosts]
  /\ Folders \subseteq [above : Directories, own : Directories]
  /\ {MaxDevice, MaxCtlRun, MaxCtlFault, MaxCrash} \subseteq Nat

VARIABLES
  ctl,         \* per process: where it is, the state it loaded, its pairing
  folder,      \* owner and mode of the state directory and of its ancestor
  ctlFile,     \* the file the name state.json leads to
  ctlSafe,     \* the files a crash may leave under that name
  asked,       \* pairing requests on their way to a daemon
  trusting,    \* devices each daemon has accepted
  paired,      \* daemons the user was told to be paired with
  overlapped,  \* two processes were at work at the same time
  brokenOff,   \* a save ended between its rename and the sync of the directory
  devices,     \* device identities generated so far
  ctlRuns, ctlFaults, crashes   \* bounded counters

ctlVars == <<ctl, folder, ctlFile, ctlSafe, asked, trusting, paired,
             overlapped, brokenOff, devices, ctlRuns, ctlFaults, crashes>>

NoPath == [owner |-> "nobody", writable |-> FALSE, sticky |-> FALSE]
\* mkdirat_private and secure_created_directory
PrivateDir == [owner |-> "us", writable |-> FALSE, sticky |-> FALSE]

\* TermctlState::default
EmptyState == [device |-> 0, servers |-> <<>>, default |-> NoServer]

\* StateFile: who owns it, whether others may read it, what it holds and
\* whether its contents have reached the disk.
NoState == [owner |-> "nobody", private |-> FALSE, body |-> EmptyState, synced |-> TRUE]
Torn == [EmptyState EXCEPT !.device = -1]
NewFile(body) == [owner |-> "us", private |-> TRUE, body |-> body, synced |-> FALSE]
AfterCrash(f) == IF f.synced THEN f ELSE [f EXCEPT !.body = Torn, !.synced = TRUE]

\* A file written by a version that kept neither a default nor certificates.
OldState == [device |-> 0, servers |-> <<[id |-> CHOOSE s \in Hosts : TRUE,
                                          url |-> CHOOSE u \in Urls : TRUE,
                                          cert |-> 0]>>, default |-> NoServer]

IdleCtl == [at |-> "idle", mem |-> EmptyState, temp |-> NoState, stage |-> "device",
            server |-> NoServer, url |-> "no url"]

CtlTypeOK ==
  /\ \A p \in Ctls : /\ ctl[p].at \in {"idle", "opens", "creates", "writes", "syncs",
                                       "renames", "settles", "sends", "waits", "answered"}
                     /\ ctl[p].mem.device \in 0..MaxDevice
                     /\ ctl[p].stage \in {"device", "final"}
  /\ trusting \in [Hosts -> SUBSET (1..MaxDevice)]
  /\ asked \subseteq [server : Hosts, device : 1..MaxDevice, url : Urls]
  /\ paired \subseteq Hosts
  /\ ctlFile \in ctlSafe
  /\ overlapped \in BOOLEAN /\ brokenOff \in BOOLEAN

CtlInit ==
  /\ ctl = [p \in Ctls |-> IdleCtl]
  /\ folder \in Folders
  /\ ctlFile \in IF folder.own = NoPath THEN {NoState}
                 ELSE {NoState, [NewFile(OldState) EXCEPT !.synced = TRUE],
                       [NewFile(OldState) EXCEPT !.synced = TRUE, !.private = FALSE]}
  /\ ctlSafe = {ctlFile}
  /\ asked = {}
  /\ trusting = [s \in Hosts |-> {}]
  /\ paired = {}
  /\ overlapped = FALSE /\ brokenOff = FALSE
  /\ devices = 0 /\ ctlRuns = 0 /\ ctlFaults = 0 /\ crashes = 0

-----------------------------------------------------------------------------
(* Reading the file.                                                       *)

\* state_directory_is_trusted, for every ancestor of the state directory
StateDirectoryIsTrusted(d) ==
  d.owner \in {"us", "root"} /\ (d.writable => d.sticky)

\* validate_state_parent, for the directory itself
ValidateStateParent(d) == d.owner = "us" /\ ~d.writable

\* validate_state_ancestor and validate_state_parent, from the root downwards:
\* open_directory_path_nofollow checks each directory is checked before the next
OpensFolder ==
  /\ StateDirectoryIsTrusted(folder.above)
  /\ StateDirectoryIsTrusted(folder.own)
  /\ ValidateStateParent(folder.own)

\* validate_opened_state_file: a regular file of ours
ValidateOpened(f) == f.owner = "us"

\* validate_loadable_state_file
ValidateLoadable(f) == ValidateOpened(f) /\ f.private

\* load_state_file: no directory or no file is NoState, a refusal Unreadable
Unreadable == [NoState EXCEPT !.body = Torn]
LoadStateFile ==
  IF ~StateDirectoryIsTrusted(folder.above) THEN Unreadable
  ELSE IF folder.own = NoPath THEN NoState
  ELSE IF ~OpensFolder THEN Unreadable
  ELSE IF ctlFile = NoState \/ ValidateLoadable(ctlFile) THEN ctlFile
  ELSE Unreadable

\* TermctlState::load: a missing file is an empty state, a torn one an error
LoadState == LoadStateFile.body

-----------------------------------------------------------------------------
(* Choosing a daemon.                                                      *)

KnownServers(st) == {st.servers[i].id : i \in DOMAIN st.servers}

First(I) == CHOOSE i \in I : \A j \in I : i <= j
Entries(st, s) == {i \in DOMAIN st.servers : st.servers[i].id = s}

\* paired_server: the first entry of that daemon
PairedServer(st, s) == st.servers[First(Entries(st, s))]

\* selected_route_server_id: the default, or the only daemon there is
SelectedRoute(st) ==
  IF st.default # NoServer THEN st.default
  ELSE IF Cardinality(KnownServers(st)) = 1 THEN st.servers[1].id
  ELSE NoServer

\* selected_url_for_server
SelectedUrl(st, s, requested) ==
  IF requested # "no url" THEN requested ELSE PairedServer(st, s).url

\* selected_paired_target: an address the user names selects the default
\* daemon if it was paired under it, else the first that was.
SelectedTarget(st, requested) ==
  LET at == {i \in DOMAIN st.servers : st.servers[i].url = requested}
      route == SelectedRoute(st)
  IN  IF requested # "no url" /\ at # {}
      THEN {IF st.default \in KnownServers(st) /\ PairedServer(st, st.default).url = requested
            THEN PairedServer(st, st.default) ELSE st.servers[First(at)]}
      ELSE IF route \in KnownServers(st) THEN {PairedServer(st, route)} ELSE {}

\* record_pairing_with_certificate: replaces the daemon's entry in place
RecordPairing(st, s, u) ==
  LET entry == [id |-> s, url |-> u, cert |-> st.device]
  IN  [st EXCEPT !.servers = IF Entries(st, s) = {} THEN Append(@, entry)
                             ELSE [@ EXCEPT ![First(Entries(st, s))] = entry],
                 !.default = s]

-----------------------------------------------------------------------------
(* PairingInput: an invite names the daemon and, unless it is an old one,  *)
(* its key; a bare token is for the daemon that is selected already.       *)

\* from_invite with pairing_payload_url
FromInvite(s, u, requested) ==
  {[server |-> s, url |-> IF requested # "no url" THEN requested ELSE u]}

\* pairing_payload_daemon_public_key: without a key in the invite the
\* daemon must be known
FromOldInvite(st, s, u, requested) ==
  IF s \in KnownServers(st) THEN FromInvite(s, u, requested) ELSE {}

\* from_args_with_stdin with a token
FromToken(st, requested) ==
  LET s == SelectedRoute(st)
  IN  IF s \in KnownServers(st) THEN {[server |-> s, url |-> SelectedUrl(st, s, requested)]}
      ELSE {}

\* What the arguments come to: an invite for s at u, or a token, and perhaps
\* an address that the user names
Inputs(st, s, u, requested) ==
  FromInvite(s, u, requested) \cup FromOldInvite(st, s, u, requested)
    \cup FromToken(st, requested)

-----------------------------------------------------------------------------
(* termctl pair.                                                           *)

Keep == UNCHANGED <<folder, ctlFile, ctlSafe>>
NetworkIdle == UNCHANGED <<asked, trusting>>
CommandEnds(p) == ctl' = [ctl EXCEPT ![p] = IdleCtl]

Starts(p) ==
  /\ ctl[p].at = "idle"
  /\ ctlRuns < MaxCtlRun
  /\ ctlRuns' = ctlRuns + 1
  /\ overlapped' = (overlapped \/ \E q \in Ctls \ {p} : ctl[q].at # "idle")

\* ensure_device: generate_device_identity, once per state file
EnsureDevice(st) == IF st.device # 0 THEN st ELSE [st EXCEPT !.device = devices + 1]

EnsurePairingDeviceUnsaved(st) == [mem |-> EnsureDevice(st), at |-> "sends"]

\* ensure_pairing_device_persisted: a new identity is saved before the
\* daemon hears of it
EnsurePairingDevice(st) ==
  [mem |-> EnsureDevice(st), at |-> IF st.device # 0 THEN "sends" ELSE "opens"]

\* pair: load, read the invite, make sure there is a device
Pair(p) ==
  /\ Starts(p)
  /\ LoadState # Torn
  /\ \E s \in Hosts, u \in Urls, requested \in Urls \cup {"no url"} :
       \E input \in Inputs(LoadState, s, u, requested) :
         LET begun == EnsurePairingDevice(LoadState)
         IN  /\ begun.mem.device <= MaxDevice
             /\ devices' = IF begun.mem.device > devices THEN begun.mem.device ELSE devices
             /\ ctl' = [ctl EXCEPT ![p] = [IdleCtl EXCEPT !.at = begun.at, !.mem = begun.mem,
                                             !.server = input.server, !.url = input.url]]
  /\ Keep /\ NetworkIdle
  /\ UNCHANGED <<paired, brokenOff, ctlFaults, crashes>>

\* pair_device: the request leaves with the device's public key
PairDeviceSends(p) ==
  /\ ctl[p].at = "sends"
  /\ asked' = asked \cup {[server |-> ctl[p].server, device |-> ctl[p].mem.device,
                           url |-> ctl[p].url]}
  /\ ctl' = [ctl EXCEPT ![p].at = "waits"]
  /\ Keep
  /\ UNCHANGED <<trusting, paired, overlapped, brokenOff, devices, ctlRuns, ctlFaults, crashes>>

\* POST /api/auth/pair at the daemon (external): it accepts the device; the
\* processes that wait for this answer get it, unless it is lost
DaemonPairs(r) ==
  /\ asked' = asked \ {r}
  /\ trusting' = IF r.server \in Leads[r.url]
                 THEN [trusting EXCEPT ![r.server] = @ \cup {r.device}] ELSE trusting
  /\ \E lost \in BOOLEAN :
       ctl' = [p \in Ctls |->
                 IF /\ ctl[p].at = "waits" /\ ~lost /\ r.server \in Leads[r.url]
                    /\ ctl[p].server = r.server /\ ctl[p].mem.device = r.device
                    /\ ctl[p].url = r.url
                 THEN [ctl[p] EXCEPT !.at = "answered"] ELSE ctl[p]]
  /\ Keep
  /\ UNCHANGED <<paired, overlapped, brokenOff, devices, ctlRuns, ctlFaults, crashes>>

\* The request fails: a refusal, an error or the timeout of the request
PairDeviceFails(p) ==
  /\ ctl[p].at = "waits"
  /\ CommandEnds(p)
  /\ Keep /\ NetworkIdle
  /\ UNCHANGED <<paired, overlapped, brokenOff, devices, ctlRuns, ctlFaults, crashes>>

\* pair, once the daemon has accepted
PairRecords(p) ==
  /\ ctl[p].at = "answered"
  /\ ctl' = [ctl EXCEPT ![p].mem = RecordPairing(@, ctl[p].server, ctl[p].url),
                        ![p].at = "opens", ![p].stage = "final"]
  /\ Keep /\ NetworkIdle
  /\ UNCHANGED <<paired, overlapped, brokenOff, devices, ctlRuns, ctlFaults, crashes>>

-----------------------------------------------------------------------------
(* save_state_file_with_sync, one system call at a time.                   *)

\* open_state_parent: creates what is missing and syncs every directory on
\* the way, the state directory itself too
OpenStateParent(p) ==
  /\ ctl[p].at = "opens"
  /\ folder' = IF folder.own = NoPath THEN [folder EXCEPT !.own = PrivateDir] ELSE folder
  /\ ctlSafe' = {ctlFile}
  /\ ctl' = [ctl EXCEPT ![p].at = "creates"]
  /\ NetworkIdle
  /\ UNCHANGED <<ctlFile, paired, overlapped, brokenOff, devices, ctlRuns, ctlFaults, crashes>>

\* create_unique_temp_state_file
CreateTemp(p) ==
  /\ ctl[p].at = "creates"
  /\ ctl' = [ctl EXCEPT ![p].temp = NewFile(Torn), ![p].at = "writes"]
  /\ Keep /\ NetworkIdle
  /\ UNCHANGED <<paired, overlapped, brokenOff, devices, ctlRuns, ctlFaults, crashes>>

WriteTemp(p) ==
  /\ ctl[p].at = "writes"
  /\ ctl' = [ctl EXCEPT ![p].temp.body = ctl[p].mem, ![p].at = "syncs"]
  /\ Keep /\ NetworkIdle
  /\ UNCHANGED <<paired, overlapped, brokenOff, devices, ctlRuns, ctlFaults, crashes>>

\* sync(TempFile)
SyncTempFile(f) == [f EXCEPT !.synced = TRUE]

SyncTemp(p) ==
  /\ ctl[p].at = "syncs"
  /\ ctl' = [ctl EXCEPT ![p].temp = SyncTempFile(@), ![p].at = "renames"]
  /\ Keep /\ NetworkIdle
  /\ UNCHANGED <<paired, overlapped, brokenOff, devices, ctlRuns, ctlFaults, crashes>>

\* validate_existing_state_target: a file of ours, or none
ValidateStateTarget(f) == f = NoState \/ ValidateOpened(f)

\* validate_named_state_file: the name still leads to our private file
ValidateNamed(f) == ValidateOpened(f) /\ f.private

\* renameat_file, after the two checks
RenameTemp(p) ==
  /\ ctl[p].at = "renames"
  /\ ValidateNamed(ctl[p].temp)
  /\ ValidateStateTarget(ctlFile)
  /\ ctlFile' = ctl[p].temp
  /\ ctlSafe' = ctlSafe \cup {ctl[p].temp}
  /\ ctl' = [ctl EXCEPT ![p].temp = NoState, ![p].at = "settles"]
  /\ NetworkIdle
  /\ UNCHANGED <<folder, paired, overlapped, brokenOff, devices, ctlRuns, ctlFaults, crashes>>

\* sync(ParentAfterRename), and what the command does once it has saved
SyncParent(p) ==
  /\ ctl[p].at = "settles"
  /\ ctlSafe' = {ctlFile}
  /\ IF ctl[p].stage = "device"
     THEN ctl' = [ctl EXCEPT ![p].at = "sends"] /\ paired' = paired
     ELSE CommandEnds(p) /\ paired' = paired \cup {ctl[p].server}
  /\ NetworkIdle
  /\ UNCHANGED <<folder, ctlFile, overlapped, brokenOff, devices, ctlRuns, ctlFaults, crashes>>

\* cleanup_temp_if_unchanged finds no temporary file any more
RenamedUnsynced(p) == ctl[p].at = "settles" /\ ctl[p].temp = NoState

\* Any of these calls fails, or the process is killed: the temporary file is removed if it is still
\* there (cleanup_temp_if_unchanged) and the command ends with an error.  A
\* sync that fails after the rename leaves the new file in place.
SaveFails(p) ==
  /\ ctl[p].at \in {"opens", "creates", "writes", "syncs", "renames", "settles"}
  /\ ctlFaults < MaxCtlFault
  /\ ctlFaults' = ctlFaults + 1
  /\ brokenOff' = (brokenOff \/ RenamedUnsynced(p))
  /\ CommandEnds(p)
  /\ Keep /\ NetworkIdle
  /\ UNCHANGED <<paired, overlapped, devices, ctlRuns, crashes>>

-----------------------------------------------------------------------------
(* Other commands, and crashes.                                            *)

\* DirectClient::connect_authenticated: the device, a certificate for it and
\* a daemon behind the address that accepts them.
Accepted(st, e, url) ==
  /\ st.device # 0 /\ e.cert = st.device
  /\ st.device \in trusting[e.id]
  /\ e.id \in Leads[url]

\* connect_authenticated for the commands that talk to a daemon
Authenticates(st, requested) ==
  \E e \in SelectedTarget(st, requested) :
    Accepted(st, e, IF requested # "no url" THEN requested ELSE e.url)

\* The machine crashes: all processes end, and the file is one of those the
\* directory may hold on disk.
Crash ==
  /\ crashes < MaxCrash
  /\ crashes' = crashes + 1
  /\ \E f \in ctlSafe : ctlFile' = AfterCrash(f)
  /\ ctlSafe' = {ctlFile'}
  /\ ctl' = [p \in Ctls |-> IdleCtl]
  /\ NetworkIdle
  /\ UNCHANGED <<folder, paired, overlapped, brokenOff, devices, ctlRuns, ctlFaults>>

CtlNext ==
  \/ \E p \in Ctls : \/ Pair(p) \/ PairDeviceSends(p) \/ PairDeviceFails(p)
                     \/ PairRecords(p) \/ OpenStateParent(p) \/ CreateTemp(p)
                     \/ WriteTemp(p) \/ SyncTemp(p) \/ RenameTemp(p) \/ SyncParent(p)
                     \/ SaveFails(p)
  \/ \E r \in asked : DaemonPairs(r)
  \/ Crash

CtlSpec == CtlInit /\ [][CtlNext]_ctlVars

-----------------------------------------------------------------------------
\* cli.rs ensure_pairing_device_persisted saves a new identity before the
\* daemon hears of it: whatever crashes, fails or is lost afterwards, the
\* secret of a device that a daemon has accepted is in every file a crash
\* can leave, the entry of a daemon the user was told of is good for its
\* address, and a command without an address reaches a daemon.  Two
\* exceptions: commands at work at the same time overwrite each other's
\* identity, and a save that ends after its rename and before the sync of
\* the directory leaves an identity that the next command takes for saved.
PairedDeviceIsKept ==
  ~overlapped /\ ~brokenOff =>
     \A f \in ctlSafe, s \in Hosts :
        LET st == AfterCrash(f).body
        IN  /\ \A d \in trusting[s] : st.device = d
            /\ s \in paired => /\ s \in KnownServers(st)
                              /\ Accepted(st, PairedServer(st, s), PairedServer(st, s).url)
                              /\ Authenticates(st, "no url")

\* state.rs save_state_file_with_sync: even with several commands at once
\* and a crash between any two calls, the file is whole, and its
\* certificates are for its own device and from daemons that accepted it.
StateFileIsWhole ==
  \A f \in ctlSafe :
     LET st == AfterCrash(f).body
     IN  /\ st # Torn
         /\ \A i \in DOMAIN st.servers :
              st.servers[i].cert # 0 =>
                 /\ st.servers[i].cert = st.device
                 /\ st.device \in trusting[st.servers[i].id]

\* A pairing is kept: the two above.
PairingIsKept == PairedDeviceIsKept /\ StateFileIsWhole
=============================================================================
