----------------------- MODULE MCSupervisorControl -----------------------
(* TLC instances of SupervisorControl: the constants come from the cfgs.   *)
EXTENDS SupervisorControl
==========================================================================
