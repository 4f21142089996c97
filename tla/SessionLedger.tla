--------------------------- MODULE SessionLedger ---------------------------
(***************************************************************************)
(* What the session ownership ledger promises, without the threads, the    *)
(* grant pipe and the close protocol that keep the promise: a shell starts *)
(* only once it can be found in the ledger, a session has at most one      *)
(* shell in its life, and it is forgotten only when that shell is over.    *)
(* Shells an older daemon left behind are on record later, or never.       *)
(***************************************************************************)
CONSTANTS Ids, LeftBehind

VARIABLES
    shell,      \* "none" (not started), "alive" or "gone" for good
    recorded    \* the ledger names the session's supervisor and its socket

ledgerVars == <<shell, recorded>>

LedgerInit ==
    /\ \E left \in SUBSET LeftBehind :
          shell = [s \in Ids |-> IF s \in left THEN "alive" ELSE "none"]
    /\ recorded = [s \in Ids |-> FALSE]

(* A restarted daemon puts all the sessions it finds on record at once. *)
Record(found) ==
    /\ recorded' = [s \in Ids |-> s \in found \/ recorded[s]]
    /\ UNCHANGED shell

StartShell(s) ==
    /\ shell[s] = "none"
    /\ recorded[s]
    /\ shell' = [shell EXCEPT ![s] = "alive"]
    /\ UNCHANGED recorded

EndShell(s) ==
    /\ shell' = [shell EXCEPT ![s] = "gone"]
    /\ UNCHANGED recorded

Forget(s) ==
    /\ shell[s] = "gone"
    /\ recorded' = [recorded EXCEPT ![s] = FALSE]
    /\ UNCHANGED shell

LedgerNext ==
    \/ \E found \in SUBSET Ids : Record(found)
    \/ \E s \in Ids : StartShell(s) \/ EndShell(s) \/ Forget(s)

LedgerSpec == LedgerInit /\ [][LedgerNext]_ledgerVars
=============================================================================
