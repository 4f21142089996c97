------------------------ MODULE MCSessionOwnership ------------------------
(* SessionOwnership for TLC. *)
EXTENDS SessionOwnership
=============================================================================
