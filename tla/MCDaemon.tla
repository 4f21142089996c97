------------------------------ MODULE MCDaemon ------------------------------
(***************************************************************************)
(* Model checking of what a daemon keeps and serves (trusted devices,      *)
(* uploads, clients, history, state files, notices, the files and git      *)
(* panels), of the installer that replaces it and of the termctl that      *)
(* pairs with it.  At the grain of their models these parts share no       *)
(* state, so one run explores their sum: part, chosen at the start, says   *)
(* which of them this behaviour runs; the others stay in one of their      *)
(* initial states.                                                         *)
(***************************************************************************)
EXTENDS DeviceAuth, FileUpload, UploadRanges, DaemonClients, Installer,
        SessionHistory, StateFiles, PushNotices, SessionFiles, GitCommand,
        CtlState

CONSTANT Parts      \* the parts a run chooses from

ASSUME PartsAssumption ==
  Parts \subseteq {"auth", "upload", "ranges", "clients", "installer", "history",
                   "files", "push", "panel", "git", "termctl"}

VARIABLE part

\* Both terminal connections are of one device; another device is known.
OwnerOfLink == [c \in Links |-> "d"]

\* A relay address leads to both daemons, a direct one to the first.
LeadsTo == [u \in Urls |-> IF u = "relay" THEN Hosts ELSE {"A"}]

Dir(owner, writable, sticky) ==
  [owner |-> owner, writable |-> writable, sticky |-> sticky]

\* A directory yet to be made, one below a sticky /tmp, one below a
\* directory others may write, and a shared one.
StateFolders ==
  {[above |-> Dir("root", FALSE, FALSE), own |-> NoPath],
   [above |-> Dir("root", TRUE, TRUE), own |-> PrivateDir],
   [above |-> Dir("us", TRUE, FALSE), own |-> PrivateDir],
   [above |-> PrivateDir, own |-> Dir("us", TRUE, TRUE)]}

-----------------------------------------------------------------------------
\* A part that is not chosen starts in one of its initial states.
DaemonInit ==
  /\ part \in Parts
  /\ AuthInit /\ UploadInit /\ RangesInit /\ ClientsInit
  /\ PushInit /\ PanelInit /\ GitInit
  /\ InstallInit
  /\ part # "installer" => sessionDb.schema = "ready"
  /\ HistoryInit
  /\ json \in {NoJson, [ver |-> 1, ident |-> 0],
               [ver |-> 2, ident |-> LegacyIdent - 1], [ver |-> 3, ident |-> LegacyIdent - 1]}
  /\ part # "history" => json = NoJson /\ db = FirstDb(2, LegacyIdent, TRUE)
  /\ FilesInit
  /\ part # "files" => /\ inode[Anc] = [kind |-> "dir", own |-> "us", wr |-> "private"]
                       /\ inode[Parent] = NoInode
  /\ CtlInit
  /\ part # "termctl" => folder.own = NoPath

\* Only the chosen part p takes steps.
OthersStay(p) ==
  /\ UNCHANGED part
  /\ IF p = "auth" THEN TRUE ELSE UNCHANGED authVars
  /\ IF p = "upload" THEN TRUE ELSE UNCHANGED uploadVars
  /\ IF p = "ranges" THEN TRUE ELSE UNCHANGED rangeVars
  /\ IF p = "clients" THEN TRUE ELSE UNCHANGED clientVars
  /\ IF p = "installer" THEN TRUE ELSE UNCHANGED installVars
  /\ IF p = "history" THEN TRUE ELSE UNCHANGED historyVars
  /\ IF p = "files" THEN TRUE ELSE UNCHANGED fileVars
  /\ IF p = "push" THEN TRUE ELSE UNCHANGED pushVars
  /\ IF p = "panel" THEN TRUE ELSE UNCHANGED panelVars
  /\ IF p = "git" THEN TRUE ELSE UNCHANGED gitVars
  /\ IF p = "termctl" THEN TRUE ELSE UNCHANGED ctlVars

DaemonNext ==
  \/ part = "auth" /\ AuthNext /\ OthersStay("auth")
  \/ part = "upload" /\ UploadNext /\ OthersStay("upload")
  \/ part = "ranges" /\ RangesNext /\ OthersStay("ranges")
  \/ part = "clients" /\ ClientsNext /\ OthersStay("clients")
  \/ part = "installer" /\ InstallNext /\ OthersStay("installer")
  \/ part = "history" /\ HistoryNext /\ OthersStay("history")
  \/ part = "files" /\ FilesNext /\ OthersStay("files")
  \/ part = "push" /\ PushNext /\ OthersStay("push")
  \/ part = "panel" /\ PanelNext /\ OthersStay("panel")
  \/ part = "git" /\ GitNext /\ OthersStay("git")
  \/ part = "termctl" /\ CtlNext /\ OthersStay("termctl")

daemonVars ==
  <<part, authVars, uploadVars, rangeVars, clientVars, installVars,
    historyVars, fileVars, pushVars, panelVars, gitVars, ctlVars>>

DaemonSpec == DaemonInit /\ [][DaemonNext]_daemonVars

\* Every variable of every part has its type; a part that is not chosen is in
\* one of the initial states it is checked in when it is.
DaemonTypeOK ==
  CASE part = "auth" -> AuthTypeOK
    [] part = "upload" -> UploadTypeOK
    [] part = "ranges" -> RangesTypeOK
    [] part = "clients" -> ClientsTypeOK
    [] part = "installer" -> InstallTypeOK
    [] part = "history" -> HistoryTypeOK
    [] part = "files" -> FilesTypeOK
    [] part = "push" -> PushTypeOK
    [] part = "panel" -> PanelTypeOK
    [] part = "git" -> GitTypeOK
    [] part = "termctl" -> CtlTypeOK
=============================================================================
