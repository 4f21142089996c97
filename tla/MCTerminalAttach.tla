------------------------- MODULE MCTerminalAttach -------------------------
(***************************************************************************)
(* Instances of TerminalAttach for TLC.                                    *)
(***************************************************************************)
EXTENDS TerminalAttach

\* One client of each kind, one at a time: the proofs cover any number.
AloneInit ==
    /\ Init
    /\ Cardinality({c \in Clients : client[c] = "down"}) = 1

AloneSpec ==
    AloneInit /\ [][Next]_vars /\ \A c \in Clients : WF_vars(Progress(c))
=============================================================================
