---------------------------- MODULE SessionFiles ----------------------------
(***************************************************************************)
(* The file and Git panels of a session beside an HTTP upload that is not  *)
(* finished (src/termd/src/net/protocol.rs).  Every request names a path   *)
(* under the session's root; symbolic links are followed, hard links share *)
(* an object, and the user's shell may make and remove both.               *)
(*                                                                         *)
(* The root holds two directories: d with a plain file, the upload's final *)
(* name and its hidden temporary, e with a name for a hard link and one    *)
(* for a symbolic link; "out" is a file outside the root.  A request runs   *)
(* under the daemon's lock; the shell acts between requests.               *)
(***************************************************************************)
EXTENDS Naturals, FiniteSets

CONSTANTS MaxUpload,   \* bound: uploads begun
          GrantMax,    \* SESSION_FILE_DOWNLOAD_GRANT_LIMIT
          MaxGrant     \* bound: download grants given

ASSUME SessionFilesBounds == {MaxUpload, GrantMax, MaxGrant} \subseteq Nat \ {0}

VARIABLES
  tree,      \* what each name is
  upload,    \* the active SessionFileHttpUploadState, if any
  uploads,   \* uploads begun so far: their objects are 1, 2, ...
  grants,    \* session_file_downloads
  granted,
  touched    \* the objects the last request read, listed, changed or unlinked

panelVars == <<tree, upload, uploads, grants, granted, touched>>

Final == "t"
Temp == "p"
Folder == [d |-> {"a", Final, Temp}, e |-> {"l", "s"}]
Names == Folder.d \cup Folder.e

\* Objects: uploads are numbered, the rest are the file outside the root, the
\* plain file and one that a request creates.
Outside == 0
PlainPath == MaxUpload + 1
New == MaxUpload + 2

Absent == [k |-> "none"]
FileOf(o) == [k |-> "file", obj |-> o]
LinkTo(n) == [k |-> "link", to |-> n]

NoUpload == [active |-> FALSE, late |-> FALSE]

\* canonicalize(): the name a path ends at, "none" when it does not exist.
Canonical(fs, n) ==
  CASE fs[n].k = "none" -> "none"
    [] fs[n].k = "file" -> n
    [] fs[n].k = "link" ->
         IF fs[n].to = "out" \/ fs[fs[n].to].k = "file" THEN fs[n].to ELSE "none"

\* The object a path leads to (metadata() follows links).
ObjectAt(fs, n) ==
  LET c == Canonical(fs, n)
  IN  CASE c = "none" -> {} [] c = "out" -> {Outside} [] OTHER -> {fs[c].obj}

\* is_same_filesystem_object: device and inode.
SameObject(fs, n, o) == o \in ObjectAt(fs, n)

(***************************************************************************)
(* prune_session_file_http_uploads, first in every handler: an upload past *)
(* its time is aborted and its temporary removed.                          *)
(***************************************************************************)

PrunedUpload == IF upload.late THEN NoUpload ELSE upload

PrunedTree ==
  IF upload.late THEN [tree EXCEPT ![Temp] = Absent] ELSE tree

(***************************************************************************)
(* The checks.                                                             *)
(***************************************************************************)

\* Only the two names of the upload are protected, not what they name.
PathMatchesName(fs, n) == PrunedUpload.active /\ n \in {Final, Temp}

\* path_matches_active_session_file_http_upload_target: by name, or the same
\* filesystem object under any other name.
PathMatches(fs, n) ==
  /\ PrunedUpload.active
  /\ n \in {Final, Temp} \/ SameObject(fs, n, uploads)

InsideRoot(c) == c # "out"

ResolveExisting(fs, n) ==
  /\ Canonical(fs, n) # "none"
  /\ InsideRoot(Canonical(fs, n))

\* An existing target must end inside the root too: writing follows links.
ResolveWritable(fs, n) ==
  fs[n].k = "none" \/ ResolveExisting(fs, n)

\* What every handler does to the uploads.
Begin(granting) ==
  /\ upload' = PrunedUpload
  /\ UNCHANGED uploads
  /\ granting \/ UNCHANGED <<grants, granted>>

(***************************************************************************)
(* The file panel.                                                         *)
(***************************************************************************)

\* session_files_result_after_refresh: the unfinished object is not listed.
ListFiles(dir) ==
  /\ Begin(FALSE)
  /\ tree' = PrunedTree
  /\ touched' = UNION {ObjectAt(PrunedTree, n) \ {Outside} :
                       n \in {x \in Folder[dir] : ~PathMatches(PrunedTree, x)}}

ReadFile(n) ==
  /\ ResolveExisting(tree, n)
  /\ Begin(FALSE)
  /\ tree' = PrunedTree
  /\ touched' = IF PathMatches(PrunedTree, Canonical(tree, n)) THEN {}
                ELSE ObjectAt(PrunedTree, Canonical(tree, n))

\* fs::write follows the link of an existing name; a new name is a new file.
WriteFile(n) ==
  /\ ResolveWritable(tree, n)
  /\ Begin(FALSE)
  /\ IF PathMatches(PrunedTree, n)
     THEN tree' = PrunedTree /\ touched' = {}
     ELSE /\ tree' = IF PrunedTree[n].k = "none"
                     THEN [PrunedTree EXCEPT ![n] = FileOf(New)] ELSE PrunedTree
          /\ touched' = ObjectAt(PrunedTree, n)

\* remove_file unlinks the name itself.
DeleteFile(n) ==
  /\ tree[n].k # "none" /\ ResolveWritable(tree, n)
  /\ Begin(FALSE)
  /\ IF PathMatches(PrunedTree, n)
     THEN tree' = PrunedTree /\ touched' = {}
     ELSE /\ tree' = [PrunedTree EXCEPT ![n] = Absent]
          /\ touched' = IF PrunedTree[n].k = "file" THEN {PrunedTree[n].obj} ELSE {}

\* expire_session_file_downloads.
FreshGrants == {g \in grants : ~g.late}

\* A mutant: one grant too many.
GrantsFullLate == Cardinality(FreshGrants) > GrantMax

GrantsFull == Cardinality(FreshGrants) >= GrantMax

\* prepare_v070_session_file_download: a token for the path, after the grants
\* whose time is over are dropped.
PrepareDownload(n) ==
  /\ granted < MaxGrant
  /\ ResolveExisting(tree, n)
  /\ Begin(TRUE)
  /\ tree' = PrunedTree
  /\ LET refused == \/ PathMatches(PrunedTree, Canonical(tree, n))
                     \/ GrantsFull
     IN  /\ grants' = IF refused THEN FreshGrants
                      ELSE FreshGrants \cup {[token |-> granted + 1, path |-> Canonical(tree, n),
                                        late |-> FALSE]}
         /\ granted' = IF refused THEN granted ELSE granted + 1
  /\ touched' = {}

\* consume_session_file_download: the token is spent; the path is opened
\* again without a look at the uploads.
ConsumeDownload(g) ==
  /\ g \in grants
  /\ grants' = FreshGrants \ {g}
  /\ touched' = {}
  /\ UNCHANGED <<tree, upload, uploads, granted>>

(***************************************************************************)
(* The Git panel.  A scope is a path or a directory of the work tree; git  *)
(* acts on the changed paths in it, and here every path is changed.        *)
(***************************************************************************)

Scope(s) == IF s \in DOMAIN Folder THEN Folder[s] ELSE {s}

\* git status of the scope.
Changed(fs, s) == {n \in Scope(s) : fs[n].k # "none"}

\* The upload is in the scope, or one of the changed paths is an alias of it.
GitScopeRefused(s) ==
  /\ PrunedUpload.active
  /\ \/ {Final, Temp} \cap Scope(s) # {}
     \/ \E n \in Changed(PrunedTree, s) : PathMatches(PrunedTree, n)

\* git reads and replaces names; a link is its own content.
Files(fs, names) == {fs[n].obj : n \in {x \in names : fs[x].k = "file"}}

\* add, restore --staged and diff read the scope.
GitReads(s) ==
  /\ Begin(FALSE)
  /\ tree' = PrunedTree
  /\ touched' = IF GitScopeRefused(s) THEN {}
                ELSE Files(PrunedTree, Changed(PrunedTree, s))

\* discard_git_file_change: clean, rm or restore.
GitDiscards(s) ==
  /\ Begin(FALSE)
  /\ IF GitScopeRefused(s)
     THEN tree' = PrunedTree /\ touched' = {}
     ELSE /\ tree' = [n \in Names |-> IF n \in Scope(s) THEN Absent ELSE PrunedTree[n]]
          /\ touched' = Files(PrunedTree, Changed(PrunedTree, s))

\* read_session_git_snapshot: the changes of the work tree without the upload.
GitSnapshot ==
  /\ Begin(FALSE)
  /\ tree' = PrunedTree
  /\ touched' = Files(PrunedTree, {n \in Names : ~PathMatches(PrunedTree, n)})

(***************************************************************************)
(* The upload (FileUpload has its own life) and the user's shell.          *)
(***************************************************************************)

UploadBegins ==
  /\ uploads < MaxUpload /\ ~upload.active
  /\ tree[Final] = Absent /\ tree[Temp] = Absent
  /\ uploads' = uploads + 1
  /\ upload' = [active |-> TRUE, late |-> FALSE]
  /\ tree' = [tree EXCEPT ![Temp] = FileOf(uploads + 1)]
  /\ touched' = {}
  /\ UNCHANGED <<grants, granted>>

UploadPublishes ==
  /\ upload.active /\ tree[Final] = Absent /\ tree[Temp] # Absent
  /\ upload' = NoUpload
  /\ tree' = [tree EXCEPT ![Final] = tree[Temp], ![Temp] = Absent]
  /\ touched' = {}
  /\ UNCHANGED <<uploads, grants, granted>>

\* A deadline passes: the upload's, or a grant's.
TimePasses ==
  /\ \/ /\ upload.active /\ ~upload.late
        /\ upload' = [upload EXCEPT !.late = TRUE]
        /\ UNCHANGED grants
     \/ /\ \E g \in grants : ~g.late
        /\ grants' = {[g EXCEPT !.late = TRUE] : g \in grants}
        /\ UNCHANGED upload
  /\ touched' = {}
  /\ UNCHANGED <<tree, uploads, granted>>

\* ln, ln -s, rm.
ShellLinks(n, entry) ==
  /\ n \in Folder.e /\ tree[n] = Absent
  /\ tree' = [tree EXCEPT ![n] = entry]
  /\ touched' = {}
  /\ UNCHANGED <<upload, uploads, grants, granted>>

ShellRemoves(n) ==
  /\ n \in Folder.e /\ tree[n] # Absent
  /\ tree' = [tree EXCEPT ![n] = Absent]
  /\ touched' = {}
  /\ UNCHANGED <<upload, uploads, grants, granted>>

PanelInit ==
  /\ tree = [n \in Names |-> IF n = "a" THEN FileOf(PlainPath) ELSE Absent]
  /\ upload = NoUpload /\ uploads = 0
  /\ grants = {} /\ granted = 0
  /\ touched = {}

PanelNext ==
  \/ \E n \in Names : \/ ReadFile(n) \/ WriteFile(n) \/ DeleteFile(n) \/ PrepareDownload(n)
  \/ \E dir \in DOMAIN Folder : ListFiles(dir)
  \/ \E g \in grants : ConsumeDownload(g)
  \/ \E s \in Names \cup DOMAIN Folder : GitReads(s) \/ GitDiscards(s)
  \/ GitSnapshot
  \/ UploadBegins
  \/ UploadPublishes
  \/ TimePasses
  \/ \E n \in {x \in Folder.d : tree[x].k = "file"} : ShellLinks("l", tree[n])
  \/ \E n \in Folder.d \cup {"out"} : ShellLinks("s", LinkTo(n))
  \/ \E n \in Folder.e : ShellRemoves(n)

PanelSpec == PanelInit /\ [][PanelNext]_panelVars

(***************************************************************************)
(* Properties.                                                             *)
(***************************************************************************)

PanelTypeOK ==
  /\ \A n \in Names : tree[n].k \in {"none", "file", "link"}
  /\ upload \in [active : BOOLEAN, late : BOOLEAN]
  /\ uploads \in 0 .. MaxUpload /\ granted \in 0 .. MaxGrant
  /\ Cardinality(grants) <= GrantMax

\* While an upload is unfinished no request of either panel reads, lists,
\* changes or unlinks its object, under the hidden name, the final name, a
\* hard link, a symbolic link, or a directory that holds one of them; and no
\* request that names a path under the root reaches a file outside it.
UnfinishedIsHidden ==
  /\ upload.active => uploads \notin touched
  /\ Outside \notin touched
=============================================================================
