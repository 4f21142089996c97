----------------------------- MODULE FileUpload -----------------------------
(***************************************************************************)
(* One HTTP file upload of the daemon (termd/src/net/protocol.rs and the   *)
(* handlers in net/server.rs): the recovery record in the state file, the  *)
(* hidden temporary object u the chunks are written to, its publication    *)
(* under the final name, abort, the idle timeout, and the clean-up at the  *)
(* next start.                                                             *)
(*                                                                         *)
(* The daemon's handlers exclude each other, so what interleaves is the    *)
(* user's shell (which may delete, replace or hard-link the object, or     *)
(* take the final name), failing calls, and a crash between any two system *)
(* calls: upc is the place in the handler that is running.  A path holds   *)
(* "none", the upload's object "u" or another file "x".                    *)
(***************************************************************************)
EXTENDS UploadRanges

CONSTANT Chunks     \* the chunks the client declared

VARIABLES
    temp, target,   \* what the temporary and the final path hold
    alias,          \* there is one more hard link to u
    bytes,          \* chunks whose bytes are in u
    urec,           \* recovery record: "none", "intent", "ident"
    up,             \* in-memory state: "none", "active", "complete", "aborted"
    published,      \* its published flag
    wrote,          \* its written_ranges
    upc,            \* "idle", "intent", "created", "sync", "rename",
                    \* "dirsync", "finish", "down"
    begun,          \* the upload id was handed out
    leaked          \* history: set_len failed, and so did the clean-up of it

uFiles  == <<temp, target, alias, bytes>>
uMemory == <<up, published, wrote>>
uploadVars == <<uFiles, urec, uMemory, upc, begun, leaked>>

UploadTypeOK ==
    /\ temp \in {"none", "u", "x"} /\ target \in {"none", "u", "x"}
    /\ alias \in BOOLEAN /\ bytes \subseteq Chunks
    /\ urec \in {"none", "intent", "ident"}
    /\ up \in {"none", "active", "complete", "aborted"}
    /\ published \in BOOLEAN /\ wrote \subseteq Chunks
    /\ upc \in {"idle", "intent", "created", "sync", "rename", "dirsync",
                "finish", "down"}
    /\ begun \in BOOLEAN /\ leaked \in BOOLEAN

UploadInit ==
    /\ temp = "none" /\ target = "none" /\ alias = FALSE /\ bytes = {}
    /\ urec = "none" /\ up = "none" /\ published = FALSE /\ wrote = {}
    /\ upc = "idle" /\ begun = FALSE /\ leaked = FALSE

----------------------------------------------------------------------------
(* ensure_session_file_http_upload_target_identity *)
IsObject(path) == path = "u"

(* session_file_http_upload_open_file_has_remaining_links: asked of the    *)
(* open handle when the temporary path no longer holds the object.         *)
RemainingLinks == alias \/ target = "u"

(* remove_session_file_http_upload_target_with_mode: what a clean-up with  *)
(* the open handle can come to.  Other links, or a failing unlink: an      *)
(* error, nothing removed.                                                 *)
RemoveObject ==
    IF IsObject(temp) THEN (IF alias THEN {"Error"} ELSE {"Removed", "Error"})
    ELSE {"Gone"}                                   \* AlreadyGone, TargetReplaced

TempAfter(outcome) == IF outcome = "Removed" THEN "none" ELSE temp

----------------------------------------------------------------------------
(* prepare_session_file_http_upload: the intent is recorded, ... *)
PrepareIntent ==
    /\ upc = "idle" /\ ~begun /\ up = "none" /\ target = "none"
    /\ begun' = TRUE
    /\ urec' = "intent" /\ upc' = "intent"
    /\ UNCHANGED <<uFiles, uMemory, leaked>>

(* ... the object created at a fresh name; on failure the intent is taken  *)
(* back, whether or not a half-made object could be removed ...            *)
PrepareCreate ==
    /\ upc = "intent"
    /\ \/ /\ temp' = "u" /\ upc' = "created"
          /\ UNCHANGED <<urec, leaked>>
       \/ /\ upc' = "idle" /\ urec' \in {"none", "intent"}
          /\ \/ UNCHANGED <<temp, leaked>>
             \/ temp' = "u" /\ leaked' = TRUE
    /\ UNCHANGED <<target, alias, bytes, uMemory, begun>>

(* ... and its identity recorded.  If that fails the object is removed, or *)
(* kept guarded in memory where that cannot be shown to have worked.       *)
PrepareIdentity ==
    /\ upc = "created"
    /\ upc' = "idle"
    /\ \/ /\ urec' = "ident" /\ up' = "active"
          /\ UNCHANGED temp
       \/ /\ \E outcome \in RemoveObject :
                /\ temp' = TempAfter(outcome)
                /\ up' = IF outcome = "Error" \/ (outcome = "Gone" /\ RemainingLinks)
                         THEN "active" ELSE up
          /\ UNCHANGED urec
    /\ UNCHANGED <<target, alias, bytes, published, wrote, begun, leaked>>

(* Mutant: the object counts as covered when any chunk is there. *)
CompleteCoverageAny(ranges) == ranges # {}

(* has_complete_coverage *)
CompleteCoverage(ranges) == ranges = Chunks

(* begin_session_file_http_upload_write: the path the plan writes to, the  *)
(* final one once published.                                               *)
StoragePath == IF published THEN target ELSE temp

(* write_session_file_http_upload_files: write through the handle (a chunk *)
(* that is there already is only compared), then check that the path still *)
(* holds the object.                                                       *)
WriteFiles(c, ok) ==
    IF ok THEN IsObject(StoragePath) /\ bytes' = bytes \cup {c}
    ELSE bytes' \in {bytes, bytes \cup {c}}

(* write_session_file_http_upload: begin, write, and record the range or   *)
(* cancel it.  Full coverage starts the commit.                            *)
WriteChunk(c) ==
    /\ upc = "idle" /\ up = "active"
    /\ \/ /\ WriteFiles(c, TRUE)
          /\ wrote' = wrote \cup {c}
          /\ upc' = IF CompleteCoverage(wrote') THEN "sync" ELSE "idle"
       \/ WriteFiles(c, FALSE) /\ UNCHANGED <<wrote, upc>>
    /\ UNCHANGED <<temp, target, alias, urec, up, published, begun, leaked>>

(* commit_session_file_http_upload_write: sync the file; a published one   *)
(* goes on to the directory, the other is checked and renamed.  Each error *)
(* leaves the upload active, for the client to send a chunk again.         *)
CommitSync ==
    /\ upc = "sync"
    /\ \/ upc' = "dirsync" /\ published
       \/ upc' = "rename" /\ ~published /\ IsObject(temp)
       \/ upc' = "idle"
    /\ UNCHANGED <<uFiles, urec, uMemory, begun, leaked>>

(* publish_session_file_http_upload_noreplace *)
CommitRename ==
    /\ upc = "rename"
    /\ \/ /\ target = "none" /\ temp # "none"
          /\ target' = temp /\ temp' = "none"
          /\ published' = TRUE /\ upc' = "dirsync"
       \/ upc' = "idle" /\ UNCHANGED <<temp, target, published>>
    /\ UNCHANGED <<alias, bytes, urec, up, wrote, begun, leaked>>

(* sync_session_file_http_upload_parent *)
CommitDirSync ==
    /\ upc = "dirsync"
    /\ upc' \in {"finish", "idle"}
    /\ UNCHANGED <<uFiles, urec, uMemory, begun, leaked>>

(* The record goes, the upload is complete. *)
CommitFinish ==
    /\ upc = "finish"
    /\ upc' = "idle"
    /\ \/ urec' = "none" /\ up' = "complete"
       \/ UNCHANGED <<urec, up>>
    /\ UNCHANGED <<uFiles, published, wrote, begun, leaked>>

(* abort_session_file_http_upload: a complete upload stays, a published    *)
(* one is refused; an object that is still linked keeps the upload active. *)
AbortUpload ==
    /\ upc = "idle" /\ up = "active" /\ ~published
    /\ \E outcome \in RemoveObject \ {"Error"} :
         /\ ~(outcome = "Gone" /\ RemainingLinks)
         /\ temp' = TempAfter(outcome)
         /\ \/ urec' = "none" /\ up' = "aborted"
            \/ UNCHANGED <<urec, up>>                \* the record cannot be removed
    /\ UNCHANGED <<target, alias, bytes, published, wrote, upc, begun, leaked>>

(* prune_session_file_http_uploads: an idle upload is removed like an      *)
(* aborted one and forgotten (its record too, if that works); a published  *)
(* one stays; tombstones go.                                               *)
PruneUpload ==
    /\ upc = "idle"
    /\ \/ /\ up = "active" /\ ~published
          /\ \E outcome \in RemoveObject \ {"Error"} :
               /\ ~(outcome = "Gone" /\ RemainingLinks)
               /\ temp' = TempAfter(outcome)
          /\ urec' \in {urec, "none"}
       \/ up \in {"complete", "aborted"} /\ UNCHANGED <<temp, urec>>
    /\ up' = "none" /\ wrote' = {} /\ published' = FALSE
    /\ UNCHANGED <<target, alias, bytes, upc, begun, leaked>>

(* The requests: POST creates, PUT sends a chunk (again, after an error or *)
(* a lost answer), DELETE aborts.                                          *)
UploadCreate == PrepareIntent
UploadChunk  == \E c \in Chunks : WriteChunk(c)
UploadAbort  == AbortUpload

----------------------------------------------------------------------------
UploadCrash ==
    /\ upc # "down"
    /\ upc' = "down"
    /\ up' = "none" /\ published' = FALSE /\ wrote' = {}
    /\ UNCHANGED <<uFiles, urec, begun, leaked>>

(* cleanup_persisted_session_file_http_uploads: without an open handle     *)
(* only an object that is at its path and has no other link is removed,    *)
(* and only then the record; every other record is kept.                   *)
UploadRecover ==
    /\ upc = "down"
    /\ \/ /\ urec = "ident" /\ IsObject(temp) /\ ~alias
          /\ temp' = "none"
          /\ \/ urec' = "none" /\ upc' = "idle"
             \/ UNCHANGED <<urec, upc>>              \* an error ends the start
       \/ /\ upc' = "idle"                           \* kept, or the unlink fails
          /\ UNCHANGED <<temp, urec>>
    /\ UNCHANGED <<target, alias, bytes, uMemory, begun, leaked>>

(* The user's shell, at any time. *)
UserTouches ==
    /\ begun
    /\ \/ temp = "u" /\ temp' \in {"none", "x"} /\ UNCHANGED <<target, alias>>
       \/ target # "none" /\ target' = "none" /\ UNCHANGED <<temp, alias>>
       \/ target = "none" /\ target' = "x" /\ UNCHANGED <<temp, alias>>
       \/ /\ IF alias THEN TRUE ELSE "u" \in {temp, target}
          /\ alias' = ~alias /\ UNCHANGED <<temp, target>>
    /\ UNCHANGED <<bytes, urec, uMemory, upc, begun, leaked>>

UploadNext ==
    \/ UploadCreate \/ PrepareCreate \/ PrepareIdentity \/ UploadChunk
    \/ CommitSync \/ CommitRename \/ CommitDirSync \/ CommitFinish
    \/ UploadAbort \/ PruneUpload
    \/ UploadCrash \/ UploadRecover \/ UserTouches

UploadSpec == UploadInit /\ [][UploadNext]_uploadVars

----------------------------------------------------------------------------
(* Properties *)

(* The final name never shows a partial file: whatever fails, crashes or   *)
(* is sent again, what is published has every chunk.                       *)
TargetIsWhole == target = "u" => bytes = Chunks

(* An unfinished object that can still be reached is never forgotten: it   *)
(* is guarded in memory, or its record waits for the next start, or its    *)
(* handler is still running.  (set_len failing together with its clean-up  *)
(* is the exception the code has.)                                         *)
UnfinishedIsRemembered ==
    (temp = "u" \/ alias) /\ bytes # Chunks /\ ~leaked =>
        up = "active" \/ urec # "none"

(* An upload answered as aborted leaves nothing behind under any name. *)
AbortedIsGone == up = "aborted" => temp # "u" /\ target # "u" /\ ~alias

(* An upload is exact: the target is published only as the whole file, an  *)
(* unfinished object is on record until it is gone, an aborted one is      *)
(* nowhere, and the ranges accepted cover each byte once (UploadRanges).   *)
UploadIsExact ==
    TargetIsWhole /\ UnfinishedIsRemembered /\ AbortedIsGone /\ RangesAreExact
=============================================================================
