------------------------------ MODULE MCRelay ------------------------------
(***************************************************************************)
(* Model checking of the relay's three parts in one run.  They share no    *)
(* state: part, chosen at the start, says which of them this behaviour     *)
(* runs, and the others stay as they began.                                *)
(***************************************************************************)
EXTENDS RelayRoom, HttpTunnel, RelayAdmission, TLC

VARIABLE part

Load(u, d) == [up |-> u, down |-> d]

(* A client that sends while the control line is replaced, one that is     *)
(* sent to, and two that compete for one pending place.                    *)
RelayLoads ==
    {[ctls |-> 2, frames |-> (1 :> Load(2, 0))],
     [ctls |-> 2, frames |-> (1 :> Load(0, 2))],
     [ctls |-> 1, frames |-> (1 :> Load(0, 0) @@ 2 :> Load(0, 0))]}
FifoLoads == {[ctls |-> 1, frames |-> (1 :> Load(2, 0))]}

mcVars == <<part, relayVars, httpVars, admVars>>

MCInit ==
    /\ RelayInit /\ HttpInit /\ AdmInit
    /\ \/ part = "room" /\ hasDeadline = (CHOOSE d \in Deadlines : TRUE)
       \/ part = "http" /\ rload = (CHOOSE load \in Loads : TRUE)
       \/ /\ part = "admission"
          /\ rload = (CHOOSE load \in Loads : TRUE)
          /\ hasDeadline = (CHOOSE d \in Deadlines : TRUE)

MCNext ==
    \/ part = "room" /\ RelayNext /\ UNCHANGED <<part, httpVars, admVars>>
    \/ part = "http" /\ HttpNext /\ UNCHANGED <<part, relayVars, admVars>>
    \/ part = "admission" /\ AdmNext /\ UNCHANGED <<part, relayVars, httpVars>>

(* A part that is not chosen has nothing to do that fairness asks for. *)
Spec ==
    /\ MCInit /\ [][MCNext]_mcVars
    /\ RelayFair
    /\ HttpFair

(* Every variable of the relay's modules has its type. *)
TypeOK == RelayTypeOK /\ HttpTypeOK /\ AdmTypeOK
=============================================================================
