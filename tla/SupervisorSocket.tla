--------------------------- MODULE SupervisorSocket ---------------------------
(***************************************************************************)
(* How a session supervisor keeps its Unix socket reachable                *)
(* (termd/src/pty/supervisor.rs).  The socket is bound under a random name *)
(* in a directory that was opened once, restricted, linked to the          *)
(* session's name without replacing anything, verified and only then       *)
(* served.  While it serves, the supervisor looks every few seconds        *)
(* whether the name still leads to its own socket and binds a new one when *)
(* the name is gone.  Other processes of the same user (a temporary file   *)
(* cleaner, the user, an older supervisor's leavings) may remove or        *)
(* replace the name, the directory or its mode between any two system      *)
(* calls.                                                                  *)
(*                                                                         *)
(* A socket is the number of its bind; comparing (device, inode) is        *)
(* comparing numbers.  The comparison and the unlink of unlink_if_identity *)
(* are one step.                                                           *)
(***************************************************************************)
EXTENDS Integers, FiniteSets

CONSTANTS
    \* directory inodes that may come to be at the path
    RuntimeDirs,
    \* bounds on binds, and on the steps of other processes
    MaxBind, MaxTamper

ASSUME SocketAssumption ==
    /\ RuntimeDirs # {} /\ RuntimeDirs \cap {"missing", "unsafe"} = {}
    /\ {MaxBind, MaxTamper} \subseteq Nat

VARIABLES
    place,      \* the directory at the runtime path, "missing" or "unsafe"
    private,    \* private[d]: owned by the user with mode 0700
    nameAt,     \* nameAt[d]: what the session's socket name holds in d
    tempAt,     \* tempAt[d]: sockets under temporary names in d
    sv,         \* the supervisor: program counter and its descriptors
    tampers     \* steps other processes have taken

socketVars == <<place, private, nameAt, tempAt, sv, tampers>>

-----------------------------------------------------------------------------
(* What a name in the directory can hold besides one of the sockets.       *)

Nothing == 0
Theirs == -1            \* another process's socket
NoSocket == -2          \* a file or a symbolic link

Bound == 1..MaxBind

SocketPcs == {"open", "checks", "clear", "unlink", "bind", "restrict",
              "publish", "verify", "untemp", "match", "serving", "exited"}

SocketTypeOK ==
    /\ place \in RuntimeDirs \cup {"missing", "unsafe"}
    /\ private \in [RuntimeDirs -> BOOLEAN]
    /\ nameAt \in [RuntimeDirs -> Bound \cup {Nothing, Theirs, NoSocket}]
    /\ tempAt \in [RuntimeDirs -> SUBSET Bound]
    /\ sv \in [pc : SocketPcs, dir : RuntimeDirs, first : BOOLEAN,
               old : Bound \cup {Nothing, Theirs},
               new : Bound \cup {Nothing}, served : Bound \cup {Nothing},
               binds : 0..MaxBind, ok : BOOLEAN, quiet : BOOLEAN]
    /\ tampers \in 0..MaxTamper

\* The path exists or not; an earlier supervisor may have left its socket, or
\* something else may be where the socket belongs.
SocketInit ==
    /\ place \in RuntimeDirs \cup {"missing", "unsafe"}
    /\ private \in [RuntimeDirs -> BOOLEAN]
    /\ nameAt \in [RuntimeDirs -> {Nothing, Theirs, NoSocket}]
    /\ tempAt = [d \in RuntimeDirs |-> {}]
    /\ sv = [pc |-> "open", dir |-> CHOOSE d \in RuntimeDirs : TRUE,
             first |-> TRUE, old |-> Nothing, new |-> Nothing,
             served |-> Nothing, binds |-> 0, ok |-> FALSE, quiet |-> TRUE]
    /\ tampers = 0

-----------------------------------------------------------------------------
(* The directory.                                                          *)

\* The walk to the directory refuses links, foreign owners and replaceable
\* ancestors: what is left is the directory the path leads to.
Opens(d) == place = d

\* Mutant: the held descriptor alone is trusted.
EnsurePathMatchesAlways(d) == TRUE

EnsurePathMatches(d) == Opens(d)

EnsurePrivate(d) == private[d]

\* SecureRuntimeDir::open creates what is missing and restricts what it
\* opened; a final component of another owner is left untouched.
OpenSecureRuntimeDir ==
    /\ sv.pc = "open"
    /\ \/ /\ place = "unsafe"
          /\ sv' = [sv EXCEPT !.pc = "exited"]
          /\ UNCHANGED <<place, private, nameAt>>
       \/ /\ place = "missing"
          /\ \E d \in RuntimeDirs :
                /\ place' = d
                /\ private' = [private EXCEPT ![d] = TRUE]
                /\ nameAt' = [nameAt EXCEPT ![d] = Nothing]
                /\ sv' = [sv EXCEPT !.pc = "checks", !.dir = d]
       \/ /\ place \in RuntimeDirs
          /\ private' = [private EXCEPT ![place] = TRUE]
          /\ sv' = [sv EXCEPT !.pc = "checks", !.dir = place]
          /\ UNCHANGED <<place, nameAt>>
    /\ UNCHANGED <<tempAt, tampers>>

-----------------------------------------------------------------------------
(* Binding.  Every error of a first bind ends the supervisor before its    *)
(* shell is started; an error of a repair is only logged, the old listener *)
(* stays.                                                                  *)

Failed == [sv EXCEPT !.pc = IF sv.first THEN "exited" ELSE "serving",
                     !.ok = FALSE]

\* The name x of d after unlink_if_identity(name, identity).
UnlinkIfIdentity(d, identity) ==
    [nameAt EXCEPT ![d] = IF EnsurePrivate(d) /\ @ = identity THEN Nothing ELSE @]

UnlinkTempIfIdentity(d, identity) ==
    [tempAt EXCEPT ![d] = IF EnsurePrivate(d) THEN @ \ {identity} ELSE @]

\* The checks before a bind; only a first bind clears the name.
BindChecks ==
    /\ sv.pc = "checks"
    /\ sv' = IF EnsurePrivate(sv.dir) /\ EnsurePathMatches(sv.dir)
             THEN [sv EXCEPT !.pc = IF sv.first THEN "clear" ELSE "bind"]
             ELSE Failed
    /\ UNCHANGED <<place, private, nameAt, tempAt, tampers>>

\* remove_existing_supervisor_socket opens the entry...
RemoveExistingOpens ==
    /\ sv.pc = "clear"
    /\ LET entry == nameAt[sv.dir] IN
       sv' = CASE entry = Nothing -> [sv EXCEPT !.pc = "bind"]
               [] entry = NoSocket -> Failed
               [] OTHER -> [sv EXCEPT !.pc = "unlink", !.old = entry]
    /\ UNCHANGED <<place, private, nameAt, tempAt, tampers>>

\* ... and unlinks it if it is still the same one.
RemoveExistingUnlinks ==
    /\ sv.pc = "unlink"
    /\ nameAt' = UnlinkIfIdentity(sv.dir, sv.old)
    /\ sv' = IF EnsurePrivate(sv.dir) /\ nameAt[sv.dir] = sv.old
             THEN [sv EXCEPT !.pc = "bind"]
             ELSE Failed
    /\ UNCHANGED <<place, private, tempAt, tampers>>

\* A child process changes to the directory's descriptor and binds there, so
\* the temporary socket is in the opened directory wherever the path leads.
BindUnixSocketAt(d, socket) == [tempAt EXCEPT ![d] = @ \cup {socket}]

BindTempListener ==
    /\ sv.pc = "bind"
    /\ sv.binds < MaxBind
    /\ sv' = [sv EXCEPT !.pc = "restrict", !.new = sv.binds + 1, !.binds = @ + 1]
    /\ tempAt' = BindUnixSocketAt(sv.dir, sv.binds + 1)
    /\ UNCHANGED <<place, private, nameAt, tampers>>

\* The name or the system's resources may be exhausted.
BindTempListenerFails ==
    /\ sv.pc = "bind"
    /\ sv.binds = MaxBind
    /\ sv' = Failed
    /\ UNCHANGED <<place, private, nameAt, tempAt, tampers>>

\* The error path after the temporary bind takes back both names if they are
\* still this socket's.
PublishFails ==
    /\ nameAt' = UnlinkIfIdentity(sv.dir, sv.new)
    /\ tempAt' = UnlinkTempIfIdentity(sv.dir, sv.new)
    /\ sv' = Failed

RestrictSocketPermissions ==
    /\ sv.pc = "restrict"
    /\ IF EnsurePrivate(sv.dir) /\ sv.new \in tempAt[sv.dir]
       THEN sv' = [sv EXCEPT !.pc = "publish"] /\ UNCHANGED <<nameAt, tempAt>>
       ELSE PublishFails
    /\ UNCHANGED <<place, private, tampers>>

\* linkat never replaces an existing entry.
LinkNoReplace ==
    /\ sv.pc = "publish"
    /\ IF sv.new \in tempAt[sv.dir] /\ nameAt[sv.dir] = Nothing
       THEN /\ nameAt' = [nameAt EXCEPT ![sv.dir] = sv.new]
            /\ sv' = [sv EXCEPT !.pc = "verify"]
            /\ UNCHANGED tempAt
       ELSE PublishFails
    /\ UNCHANGED <<place, private, tampers>>

VerifyPublished ==
    /\ sv.pc = "verify"
    /\ IF nameAt[sv.dir] = sv.new
       THEN sv' = [sv EXCEPT !.pc = "untemp"] /\ UNCHANGED <<nameAt, tempAt>>
       ELSE PublishFails
    /\ UNCHANGED <<place, private, tampers>>

UnlinkTemp ==
    /\ sv.pc = "untemp"
    /\ IF EnsurePrivate(sv.dir) /\ sv.new \in tempAt[sv.dir]
       THEN /\ tempAt' = UnlinkTempIfIdentity(sv.dir, sv.new)
            /\ sv' = [sv EXCEPT !.pc = "match"]
            /\ UNCHANGED nameAt
       ELSE PublishFails
    /\ UNCHANGED <<place, private, tampers>>

\* The path must still lead to the directory; if so the new listener
\* replaces the old one, if not its name is taken back.
BindMatches ==
    /\ sv.pc = "match"
    /\ IF EnsurePathMatches(sv.dir)
       THEN /\ sv' = [sv EXCEPT !.pc = "serving", !.served = sv.new,
                                !.first = FALSE, !.ok = TRUE]
            /\ UNCHANGED nameAt
       ELSE /\ nameAt' = UnlinkIfIdentity(sv.dir, sv.new)
            /\ sv' = Failed
    /\ UNCHANGED <<place, private, tempAt, tampers>>

-----------------------------------------------------------------------------
(* Serving.                                                                *)

\* ensure_supervisor_socket_bound, every round of the accept loop.
EnsureSocketBound ==
    /\ sv.pc = "serving"
    /\ LET entry == nameAt[sv.dir]
           looked == [sv EXCEPT !.quiet = TRUE]
       IN sv' = CASE ~(EnsurePathMatches(sv.dir) /\ EnsurePrivate(sv.dir)) ->
                        [looked EXCEPT !.ok = FALSE]
                  [] OTHER ->
                        CASE entry = sv.served -> [looked EXCEPT !.ok = TRUE]
                          [] entry = Nothing -> [looked EXCEPT !.pc = "checks"]
                          [] OTHER -> [looked EXCEPT !.ok = FALSE]
    /\ UNCHANGED <<place, private, nameAt, tempAt, tampers>>

\* The end of the supervisor removes its own name only.
RemoveSocketIfCurrent ==
    /\ sv.pc = "serving"
    /\ nameAt' = UnlinkIfIdentity(sv.dir, sv.served)
    /\ sv' = [sv EXCEPT !.pc = "exited"]
    /\ UNCHANGED <<place, private, tempAt, tampers>>

-----------------------------------------------------------------------------
(* Other processes of the same user.                                       *)

Tampers ==
    /\ tampers < MaxTamper
    /\ tampers' = tampers + 1
    /\ sv' = [sv EXCEPT !.quiet = FALSE]

TamperName ==
    /\ Tampers
    /\ \E d \in RuntimeDirs, entry \in {Nothing, Theirs, NoSocket} :
          nameAt' = [nameAt EXCEPT ![d] = entry]
    /\ UNCHANGED <<place, private, tempAt>>

TamperTemp ==
    /\ Tampers
    /\ \E d \in RuntimeDirs : tempAt' = [tempAt EXCEPT ![d] = {}]
    /\ UNCHANGED <<place, private, nameAt>>

TamperPlace ==
    /\ Tampers
    /\ place' \in RuntimeDirs \cup {"missing", "unsafe"}
    /\ UNCHANGED <<private, nameAt, tempAt>>

TamperMode ==
    /\ Tampers
    /\ \E d \in RuntimeDirs : private' = [private EXCEPT ![d] = ~@]
    /\ UNCHANGED <<place, nameAt, tempAt>>

-----------------------------------------------------------------------------
SocketNext ==
    \/ OpenSecureRuntimeDir
    \/ BindChecks \/ RemoveExistingOpens \/ RemoveExistingUnlinks
    \/ BindTempListener \/ BindTempListenerFails
    \/ RestrictSocketPermissions \/ LinkNoReplace \/ VerifyPublished
    \/ UnlinkTemp \/ BindMatches
    \/ EnsureSocketBound \/ RemoveSocketIfCurrent
    \/ TamperName \/ TamperTemp \/ TamperPlace \/ TamperMode

SocketSpec == SocketInit /\ [][SocketNext]_socketVars

-----------------------------------------------------------------------------
(* A repair that no other process disturbed tells the truth: when it       *)
(* reports success, the path leads to a private directory whose name is    *)
(* the socket being served, and the temporary name of that socket is gone; *)
(* when it reports failure, the path or the mode is wrong or somebody      *)
(* else's entry is at the name, which a repair must not replace            *)
(* (ensure_supervisor_socket_bound and                                     *)
(* bind_supervisor_listener_in_runtime_dir_with_publish).  A repair that   *)
(* found the directory open to others may leave its temporary name.        *)
SocketIsRepaired ==
    sv.pc = "serving" /\ sv.quiet =>
        /\ sv.ok <=> /\ place = sv.dir
                     /\ private[sv.dir]
                     /\ nameAt[sv.dir] = sv.served
        /\ ~sv.ok /\ place = sv.dir /\ private[sv.dir] /\ sv.binds < MaxBind =>
              nameAt[sv.dir] # Nothing
        /\ sv.ok => tempAt[sv.dir] \cap {sv.new, sv.served} = {}

=============================================================================
