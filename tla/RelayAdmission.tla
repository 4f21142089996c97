-------------------------- MODULE RelayAdmission --------------------------
(***************************************************************************)
(* The relay's admission of one daemon (termrelay/src/ws.rs): the registry *)
(* of daemon tokens and public keys in memory and on disk, the concurrent  *)
(* registrations that change it, and the control sockets it admits         *)
(* (route_binder.rs).  A registration r brings token r and, when r is in   *)
(* Identities, public key r; 0 is "none".                                  *)
(*                                                                         *)
(* register_daemon holds the write lock over the file write and the swap,  *)
(* so that part is one step; closing the server's sockets and storing the  *)
(* public key are later steps under other locks.  A socket's admission     *)
(* check and its registration in the room are two steps.  atomic_write may *)
(* fail before its rename or after it.                                     *)
(***************************************************************************)
EXTENDS Integers, FiniteSets

CONSTANTS
    Registrars,  \* registration requests, 1..n
    Identities,  \* those that carry a public key
    Sockets,     \* control sockets the daemon opens
    MaxRestart   \* bound: restarts of the relay

ASSUME AdmissionAssumption ==
    /\ Registrars \subseteq Nat \ {0}
    /\ Identities \subseteq Registrars
    /\ MaxRestart \in Nat

VARIABLES
    mem,       \* RelayAdmissionState: [tok, key]
    disk,      \* the registry file: [tok, key]
    req,       \* registration: "idle", "close", "key", "ok", "failed", "lost"
    old,       \* sockets that were registered when a registration replaced the token
    sock,      \* socket: "idle", "admitted", "live", "closed"
    stok,      \* the token the socket presents
    restarts

admVars == <<mem, disk, req, old, sock, stok, restarts>>

Entries == [tok : {0} \cup Registrars, key : {0} \cup Identities]

AdmTypeOK ==
    /\ mem \in Entries /\ disk \in Entries
    /\ req \in [Registrars -> {"idle", "close", "key", "ok", "failed", "lost"}]
    /\ old \in [Registrars -> SUBSET Sockets]
    /\ sock \in [Sockets -> {"idle", "admitted", "live", "closed"}]
    /\ stok \in [Sockets -> {0} \cup Registrars]
    /\ restarts \in 0..MaxRestart

AdmInit ==
    /\ mem = [tok |-> 0, key |-> 0] /\ disk = mem
    /\ req = [r \in Registrars |-> "idle"]
    /\ old = [r \in Registrars |-> {}]
    /\ sock = [s \in Sockets |-> "idle"] /\ stok = [s \in Sockets |-> 0]
    /\ restarts = 0

(* persist_daemon_registry_values: a public key is written only beside a   *)
(* token, so an entry never has a key alone.                               *)
Persisted(e) == [e EXCEPT !.key = IF e.tok = 0 THEN 0 ELSE @]

----------------------------------------------------------------------------

(* register_daemon: write the file, then swap the memory. *)
RegisterDaemon(r) ==
    /\ req[r] = "idle"
    /\ disk' = Persisted([mem EXCEPT !.tok = r])
    /\ mem' = [mem EXCEPT !.tok = r]
    /\ old' = [old EXCEPT ![r] = {s \in Sockets : sock[s] = "live"}]
    /\ req' = [req EXCEPT ![r] = IF mem.tok # 0 THEN "close"
                                 ELSE IF r \in Identities THEN "key" ELSE "ok"]
    /\ UNCHANGED <<sock, stok, restarts>>

(* Mutant: the memory is swapped before the file is written. *)
RegisterFailsSwapped(r) ==
    /\ req[r] = "idle"
    /\ req' = [req EXCEPT ![r] = "failed"]
    /\ mem' = [mem EXCEPT !.tok = r]
    /\ UNCHANGED <<disk, old, sock, stok, restarts>>

(* The write fails: atomic_write returns an error with the old file in     *)
(* place or, when the chmod or the directory sync fails, with the new one. *)
RegisterFails(r) ==
    /\ req[r] = "idle"
    /\ req' = [req EXCEPT ![r] = "failed"]
    /\ disk' \in {disk, Persisted([mem EXCEPT !.tok = r])}
    /\ UNCHANGED <<mem, old, sock, stok, restarts>>

(* close_server: every socket of the server's room is closed. *)
CloseServer(r) ==
    /\ req[r] = "close"
    /\ sock' = [s \in Sockets |-> IF sock[s] = "live" THEN "closed" ELSE sock[s]]
    /\ req' = [req EXCEPT ![r] = IF r \in Identities THEN "key" ELSE "ok"]
    /\ UNCHANGED <<mem, disk, old, stok, restarts>>

(* register_daemon_identity's second half, under a lock of its own: memory *)
(* first, then the file.                                                   *)
StoreKey(r) ==
    /\ req[r] = "key"
    /\ mem' = [mem EXCEPT !.key = r]
    /\ \/ disk' = Persisted(mem') /\ req' = [req EXCEPT ![r] = "ok"]
       \/ /\ disk' \in {disk, Persisted(mem')}
          /\ req' = [req EXCEPT ![r] = "failed"]
    /\ UNCHANGED <<old, sock, stok, restarts>>

(* bind_socket_route: authorize_route_admission, then register_route.  A   *)
(* new control of a server replaces the room's previous one.               *)
Admit(s) ==
    /\ sock[s] = "idle"
    /\ \E t \in Registrars :
         /\ stok' = [stok EXCEPT ![s] = t]
         /\ sock' = [sock EXCEPT ![s] = IF t = mem.tok THEN "admitted" ELSE "closed"]
    /\ UNCHANGED <<mem, disk, req, old, restarts>>

RegisterRoute(s) ==
    /\ sock[s] = "admitted"
    /\ sock' = [x \in Sockets |-> IF x = s THEN "live"
                                  ELSE IF sock[x] = "live" THEN "closed" ELSE sock[x]]
    /\ UNCHANGED <<mem, disk, req, old, stok, restarts>>

SocketEnds(s) ==
    /\ sock[s] \in {"admitted", "live"}
    /\ sock' = [sock EXCEPT ![s] = "closed"]
    /\ UNCHANGED <<mem, disk, req, old, stok, restarts>>

(* The relay is restarted: new_trusted_with_registry loads the file and    *)
(* writes it back; requests in progress get no answer.                     *)
RelayRestarts ==
    /\ restarts < MaxRestart
    /\ restarts' = restarts + 1
    /\ mem' = disk /\ disk' = Persisted(disk)
    /\ req' = [r \in Registrars |-> IF req[r] \in {"close", "key"} THEN "lost" ELSE req[r]]
    /\ sock' = [s \in Sockets |-> IF sock[s] = "idle" THEN "idle" ELSE "closed"]
    /\ UNCHANGED <<old, stok>>

AdmNext ==
    \/ \E r \in Registrars :
         RegisterDaemon(r) \/ RegisterFails(r) \/ CloseServer(r) \/ StoreKey(r)
    \/ \E s \in Sockets : Admit(s) \/ RegisterRoute(s) \/ SocketEnds(s)
    \/ RelayRestarts

AdmSpec == AdmInit /\ [][AdmNext]_admVars

----------------------------------------------------------------------------
(* Properties *)

(* The token the running relay accepts is the one a restart would load,    *)
(* unless the file holds that of a registration that was answered with an  *)
(* error: memory never runs ahead of the registry file.                    *)
TokenIsDurable == mem.tok # disk.tok => disk.tok # 0 /\ req[disk.tok] = "failed"

(* Once a registration is answered, no control socket that was in the room *)
(* when it replaced the token is still there: the close comes after the    *)
(* swap, whoever registers in between.                                     *)
ReplacedAreClosed ==
    \A r \in Registrars : req[r] \in {"key", "ok"} => \A s \in old[r] : sock[s] = "closed"

(* The identity of a daemon is kept: a token the relay has answered with   *)
(* is on disk, and the connections of a replaced one are closed.           *)
IdentityIsKept == TokenIsDurable /\ ReplacedAreClosed
=============================================================================
