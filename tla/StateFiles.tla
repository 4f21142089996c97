----------------------------- MODULE StateFiles -----------------------------
(***************************************************************************)
(* How a daemon gets hold of its state directory: the advisory lock of     *)
(* process_lock.rs, then the checks of state/mod.rs on the way to opening  *)
(* the SQLite file.  Every check is a system call of its own; between any  *)
(* two of them a second daemon may start, and a neighbour (a process of    *)
(* another user) may change any directory entry its permissions let it.    *)
(* The daemon's own user and root are trusted, as the code says.           *)
(*                                                                         *)
(* The path is /anc/parent/{lock, db, wal}: one ancestor stands for all.   *)
(***************************************************************************)
EXTENDS Integers, FiniteSets

CONSTANTS
    Daemons,        \* processes that want the state directory
    MaxMeddle       \* bound: what the neighbour does

ASSUME StateFilesAssumption ==
    MaxMeddle \in Nat /\ IsFiniteSet(Daemons) /\ "free" \notin Daemons

VARIABLES
    inode,      \* sequence-like table: inode number -> what it is
    entry,      \* directory inode -> name -> inode number, 0 for none
    meddled,    \* the neighbour's actions so far
    fpc,        \* each daemon's next step
    fd,         \* each daemon's descriptors: [parent, lock]
    seen,       \* each daemon's recorded device and inode of the database
    opened,     \* each daemon's SQLite file
    flocked     \* lock inode -> the daemon that holds it, or "free"

fileVars == <<inode, entry, meddled, fpc, fd, seen, opened, flocked>>

Anc == 1
Parent == 2
Inodes == 1..(4 + 3 * Cardinality(Daemons) + MaxMeddle)
EntryNames == {"parent", "lock", "db", "wal"}
NoInode == [kind |-> "none", own |-> "us", wr |-> "private"]
Used == {i \in Inodes : inode[i].kind # "none"}
Fresh == CHOOSE i \in Inodes \ Used : \A j \in Inodes \ Used : i <= j

Kinds == {"dir", "file", "link"}
Users == {"us", "root", "them"}
Writes == {"private", "open", "sticky"}    \* mode & 0o022, and the sticky bit

(* Any ancestor; a state directory that is there (the lock is taken first, *)
(* and does not create it) or not; nothing in it yet, or files of a        *)
(* previous run, or a link its owner has put in the lock's place.          *)
FilesInit ==
    /\ \E a \in [own : Users, wr : Writes], p \in [own : Users, wr : {"private", "open"}],
          there \in BOOLEAN, old \in BOOLEAN, k \in {"file", "link"} :
         /\ old => there /\ p.own = "us"
         /\ inode = [i \in Inodes |->
               CASE i = Anc -> [kind |-> "dir", own |-> a.own, wr |-> a.wr]
                 [] i = Parent /\ there -> [kind |-> "dir", own |-> p.own, wr |-> p.wr]
                 [] i = 3 /\ old -> [kind |-> "file", own |-> "us", wr |-> "open"]
                 [] i = 4 /\ old -> [kind |-> k, own |-> "us", wr |-> "open"]
                 [] OTHER -> NoInode]
         /\ entry = [i \in Inodes |-> [n \in EntryNames |->
               CASE i = Anc /\ n = "parent" /\ there -> Parent
                 [] i = Parent /\ n = "db" /\ old -> 3
                 [] i = Parent /\ n = "lock" /\ old -> 4
                 [] OTHER -> 0]]
    /\ meddled = 0
    /\ fpc = [d \in Daemons |-> "start"]
    /\ fd = [d \in Daemons |-> [parent |-> 0, lock |-> 0]]
    /\ seen = [d \in Daemons |-> 0] /\ opened = [d \in Daemons |-> 0]
    /\ flocked = [i \in Inodes |-> "free"]

FilesTypeOK ==
    /\ \A i \in Inodes : inode[i].kind \in Kinds \cup {"none"} /\ inode[i].own \in Users
    /\ \A i \in Inodes, n \in EntryNames : entry[i][n] \in Inodes \cup {0}
    /\ \A d \in Daemons : {fd[d].parent, fd[d].lock, seen[d], opened[d]}
                            \subseteq Inodes \cup {0}

----------------------------------------------------------------------------
(* The neighbour *)

(* It may change an entry of a directory it may write, unless the sticky   *)
(* bit keeps it from what is not its own.                                  *)
MayChange(dir, n) ==
    LET is == entry[dir][n]
    IN  \/ inode[dir].own = "them"
        \/ inode[dir].wr = "open"
        \/ inode[dir].wr = "sticky" /\ (is # 0 => inode[is].own = "them")

Meddle ==
    /\ meddled < MaxMeddle /\ meddled' = meddled + 1
    /\ \E dir \in {i \in Inodes : inode[i].kind = "dir"}, n \in EntryNames :
         /\ (dir = Anc) = (n = "parent")
         /\ MayChange(dir, n)
         /\ \/ /\ entry[dir][n] # 0
               /\ entry' = [entry EXCEPT ![dir][n] = 0]
               /\ UNCHANGED inode
            \/ \E k \in Kinds :
                 /\ entry' = [entry EXCEPT ![dir][n] = Fresh]
                 /\ inode' = [inode EXCEPT ![Fresh] =
                                [kind |-> k, own |-> "them", wr |-> "open"]]
    /\ UNCHANGED <<fpc, fd, seen, opened, flocked>>

----------------------------------------------------------------------------
(* The checks *)

(* validate_ancestor, validate_sqlite_ancestor *)
TrustedAncestor(i) ==
    /\ inode[i].kind = "dir"
    /\ inode[i].own \in {"us", "root"}
    /\ inode[i].wr # "open"

(* open_private_parent, open_private_sqlite_parent: ours, and not writable *)
(* by others.                                                              *)
PrivateParent(i) ==
    inode[i].kind = "dir" /\ inode[i].own = "us" /\ inode[i].wr = "private"

(* secure_lock_file, secure_opened_sqlite_file, and the first half of      *)
(* secure_existing_sqlite_path.                                            *)
OwnFile(i) == inode[i].kind = "file" /\ inode[i].own = "us"

(* verify_path_identity_values, of a path that must be the inode given *)
PathIs(dir, n, i) == entry[dir][n] = i /\ i # 0

(* The path the daemon names resolves through the ancestor every time, and *)
(* a link is not followed.                                                 *)
ParentNow == entry[Anc]["parent"]
InParent(n) == IF ParentNow = 0 THEN 0 ELSE entry[ParentNow][n]

To(d, pc) == fpc' = [fpc EXCEPT ![d] = pc]
Refuses(d) ==
    /\ To(d, "refused")
    /\ flocked' = [i \in Inodes |-> IF flocked[i] = d THEN "free" ELSE flocked[i]]
    /\ UNCHANGED <<inode, entry, fd, seen, opened>>

(* openat of a directory, without following a link *)
DirAt(dir, n) == entry[dir][n] # 0 /\ inode[entry[dir][n]].kind = "dir"

Made(k) == [inode EXCEPT ![Fresh] = [kind |-> k, own |-> "us", wr |-> "private"]]

----------------------------------------------------------------------------
(* DaemonStateLock::acquire *)

(* open_private_parent *)
LockOpensParent(d) ==
    /\ fpc[d] = "start"
    /\ IF TrustedAncestor(Anc) /\ DirAt(Anc, "parent") /\ PrivateParent(ParentNow)
       THEN /\ To(d, "lockfile")
            /\ fd' = [fd EXCEPT ![d].parent = ParentNow]
            /\ UNCHANGED <<inode, entry, seen, opened, flocked>>
       ELSE Refuses(d)
    /\ UNCHANGED meddled

(* A bug to compare with: a lock file that is there is taken for a stale   *)
(* one and replaced.                                                       *)
LockOpensFileFresh(d) ==
    /\ fpc[d] = "lockfile"
    /\ inode' = Made("file")
    /\ entry' = [entry EXCEPT ![fd[d].parent]["lock"] = Fresh]
    /\ fd' = [fd EXCEPT ![d].lock = Fresh]
    /\ To(d, "locksecure")
    /\ UNCHANGED <<seen, opened, flocked, meddled>>

(* open_or_create_lock_file: O_EXCL first, then the one that is there *)
LockOpensFile(d) ==
    /\ fpc[d] = "lockfile"
    /\ LET is == entry[fd[d].parent]["lock"]
       IN  \/ /\ is = 0
              /\ inode' = Made("file")
              /\ entry' = [entry EXCEPT ![fd[d].parent]["lock"] = Fresh]
              /\ fd' = [fd EXCEPT ![d].lock = Fresh]
              /\ To(d, "locksecure")
              /\ UNCHANGED <<seen, opened, flocked>>
           \/ /\ is # 0 /\ inode[is].kind = "file"
              /\ fd' = [fd EXCEPT ![d].lock = is]
              /\ To(d, "locksecure")
              /\ UNCHANGED <<inode, entry, seen, opened, flocked>>
           \/ is # 0 /\ inode[is].kind # "file" /\ Refuses(d)
    /\ UNCHANGED meddled

(* secure_lock_file, on the descriptor *)
LockSecures(d) ==
    /\ fpc[d] = "locksecure"
    /\ IF OwnFile(fd[d].lock)
       THEN /\ inode' = [inode EXCEPT ![fd[d].lock].wr = "private"]
            /\ To(d, "flock")
            /\ UNCHANGED <<entry, fd, seen, opened, flocked>>
       ELSE Refuses(d)
    /\ UNCHANGED meddled

(* flock(LOCK_EX | LOCK_NB) *)
LockTakes(d) ==
    /\ fpc[d] = "flock"
    /\ IF flocked[fd[d].lock] = "free"
       THEN /\ flocked' = [flocked EXCEPT ![fd[d].lock] = d]
            /\ To(d, "dbparent")
            /\ UNCHANGED <<inode, entry, fd, seen, opened>>
       ELSE Refuses(d)
    /\ UNCHANGED meddled

----------------------------------------------------------------------------
(* open_state_connection *)

(* open_or_create_directory_path_nofollow, open_private_sqlite_parent: the *)
(* lock has found the directory, so it is never created here.              *)
DbOpensParent(d) ==
    /\ fpc[d] = "dbparent"
    /\ IF TrustedAncestor(Anc) /\ DirAt(Anc, "parent") /\ PrivateParent(ParentNow)
       THEN /\ To(d, "dbfile")
            /\ fd' = [fd EXCEPT ![d].parent = ParentNow]
            /\ UNCHANGED <<inode, entry, seen, opened, flocked>>
       ELSE Refuses(d)
    /\ UNCHANGED meddled

(* create_secure_sqlite_file, secure_opened_sqlite_file: a new file, on    *)
(* the descriptor of the parent.                                           *)
DbCreates(d) ==
    /\ fpc[d] = "dbfile"
    /\ entry[fd[d].parent]["db"] = 0
    /\ inode' = Made("file")
    /\ entry' = [entry EXCEPT ![fd[d].parent]["db"] = Fresh]
    /\ seen' = [seen EXCEPT ![d] = Fresh]
    /\ To(d, "dbcreated")
    /\ UNCHANGED <<fd, opened, flocked, meddled>>

(* verify_path_identity, of the file just created *)
DbCreatedIsThere(d) ==
    /\ fpc[d] = "dbcreated"
    /\ IF InParent("db") = seen[d]
       THEN To(d, "sidecars") /\ UNCHANGED <<inode, entry, fd, seen, opened, flocked>>
       ELSE Refuses(d)
    /\ UNCHANGED meddled

(* secure_existing_sqlite_path: symlink_metadata, by path *)
DbExists(d) ==
    /\ fpc[d] = "dbfile"
    /\ entry[fd[d].parent]["db"] # 0
    /\ LET i == InParent("db")
       IN  IF i # 0 /\ OwnFile(i)
           THEN /\ seen' = [seen EXCEPT ![d] = i]
                /\ To(d, "dbchmod")
                /\ UNCHANGED <<inode, entry, fd, opened, flocked>>
           ELSE Refuses(d)
    /\ UNCHANGED meddled

(* set_permissions, by path, and the second symlink_metadata *)
DbRestricts(d) ==
    /\ fpc[d] = "dbchmod"
    /\ LET i == InParent("db")
       IN  IF i # 0 /\ i = seen[d]
           THEN /\ inode' = [inode EXCEPT ![i].wr = "private"]
                /\ To(d, "sidecars")
                /\ UNCHANGED <<entry, fd, seen, opened, flocked>>
           ELSE Refuses(d)
    /\ UNCHANGED meddled

(* secure_existing_sqlite_sidecars *)
DbSidecars(d) ==
    /\ fpc[d] = "sidecars"
    /\ LET i == InParent("wal")
       IN  IF i = 0 \/ OwnFile(i)
           THEN /\ inode' = IF i = 0 THEN inode
                            ELSE [inode EXCEPT ![i].wr = "private"]
                /\ To(d, "verify")
                /\ UNCHANGED <<entry, fd, seen, opened, flocked>>
           ELSE Refuses(d)
    /\ UNCHANGED meddled

(* verify_secure_sqlite_open: the file, and its directory *)
DbVerifies(d) ==
    /\ fpc[d] = "verify"
    /\ IF InParent("db") = seen[d] /\ PathIs(Anc, "parent", fd[d].parent)
       THEN To(d, "sqlite") /\ UNCHANGED <<inode, entry, fd, seen, opened, flocked>>
       ELSE Refuses(d)
    /\ UNCHANGED meddled

(* open_sqlite_connection: by path, not creating and not following a link *)
DbOpens(d) ==
    /\ fpc[d] = "sqlite"
    /\ LET i == InParent("db")
       IN  IF i # 0 /\ inode[i].kind = "file"
           THEN /\ opened' = [opened EXCEPT ![d] = i]
                /\ To(d, "open")
                /\ UNCHANGED <<inode, entry, fd, seen, flocked>>
           ELSE Refuses(d)
    /\ UNCHANGED meddled

(* The daemon exits; the kernel releases its lock. *)
DaemonExits(d) ==
    /\ fpc[d] = "open"
    /\ To(d, "refused")
    /\ opened' = [opened EXCEPT ![d] = 0]
    /\ flocked' = [i \in Inodes |-> IF flocked[i] = d THEN "free" ELSE flocked[i]]
    /\ UNCHANGED <<inode, entry, fd, seen, meddled>>

FilesNext ==
    \/ Meddle
    \/ \E d \in Daemons :
         \/ LockOpensParent(d) \/ LockOpensFile(d) \/ LockSecures(d) \/ LockTakes(d)
         \/ DbOpensParent(d)
         \/ DbCreates(d) \/ DbCreatedIsThere(d) \/ DbExists(d) \/ DbRestricts(d)
         \/ DbSidecars(d) \/ DbVerifies(d) \/ DbOpens(d) \/ DaemonExits(d)

FilesSpec == FilesInit /\ [][FilesNext]_fileVars

----------------------------------------------------------------------------
(* Properties *)

(* Whatever a neighbour does between two checks, SQLite opens the daemon's *)
(* own regular file, the one that was checked (open_state_connection).     *)
DatabaseIsOurs ==
    \A d \in Daemons : opened[d] # 0 =>
        OwnFile(opened[d]) /\ inode[opened[d]].wr = "private" /\ opened[d] = seen[d]

(* Two daemons never have the state open at once: their locks are on one   *)
(* file (DaemonStateLock::acquire).                                        *)
OneDaemon ==
    \A c, d \in Daemons : fpc[c] = "open" /\ fpc[d] = "open" => c = d

(* The state is ours: whatever a neighbour does to the directories while a *)
(* daemon starts, it opens a database only we can replace, and two daemons *)
(* that hold the lock of one directory are one (process_lock, state/mod).  *)
StateIsOurs == DatabaseIsOurs /\ OneDaemon
=============================================================================
