---------------------- MODULE SessionOwnershipProofs ----------------------
(***************************************************************************)
(* SessionOwnership: its type invariant, and that no running shell is ever *)
(* without a ledger row, a close can always be resumed and a finalized     *)
(* session is over; and that it implements SessionLedger.                  *)
(***************************************************************************)
EXTENDS SessionOwnership, TLAPS

(* The row by which a supervisor can be found again. *)
Owned(s) == evid[s] /\ phase[s] \in {"prepared", "active", "cleaning", "quarantined"}

(* What holds of one session at every step.  The grant is the hinge: once  *)
(* it is in the pipe the shell may start at any moment, so the row must be *)
(* there before, and stay until the supervisor is past serving.            *)
OwnAt(s) ==
    /\ s \notin used => sup[s] = "none" /\ pipe[s] = "none"
    /\ Main("spawn", s) => sup[s] = "none" /\ s \in used
    /\ Main("evidence", s) \/ Main("grant", s) => pipe[s] = "open"
    /\ phase[s] = "preparing" => sup[s] = "none" \/ pipe[s] # "none"
    /\ sup[s] \in {"running", "exited", "killed", "closing"}
          => pipe[s] = "granted" \/ (s \in Legacy /\ pipe[s] = "none")
    /\ pipe[s] = "granted" /\ sup[s] \notin {"dead", "closing"} => Owned(s)
    /\ Main("grant", s) /\ sup[s] # "dead" => Owned(s)
    /\ Recon("done", s) => sup[s] \in {"closing", "dead"}
    /\ Recon("close", s) \/ Recon("finalize", s) => op[s] = recon.op /\ recon.op # NoOp
    /\ sup[s] = "killed" => op[s] = confirmed[s] /\ confirmed[s] # NoOp
    /\ s \in closed => sup[s] \in {"closing", "dead"}

OwnInv == \A s \in Sessions : OwnAt(s)

USE DEF NoOp, NoSession

(* Every step keeps the type invariant. *)
LEMMA TypeStep == TypeOK /\ [Next]_vars => TypeOK'
<1> SUFFICES ASSUME TypeOK, [Next]_vars PROVE TypeOK'
  OBVIOUS
<1> USE DEF TypeOK, ledger, procs, Phases, Sups, Pipes, Records, MainPc, ReconPc
<1>1. ASSUME NEW s \in Sessions, InsertPreparing(s) PROVE TypeOK'
  BY <1>1, SessionOwnershipAssumption DEF InsertPreparing, SetPhase, Goto
<1>2. ASSUME NEW s \in Sessions, SpawnFails(s) PROVE TypeOK'
  BY <1>2, SessionOwnershipAssumption DEF SpawnFails, MarkCleaning, Goto, Main
<1>3. ASSUME NEW s \in Sessions, Spawn(s) PROVE TypeOK'
  BY <1>3, SessionOwnershipAssumption DEF Spawn, Goto, Main
<1>4. ASSUME NEW s \in Sessions, RecordPrepared(s) PROVE TypeOK'
  BY <1>4, SessionOwnershipAssumption DEF RecordPrepared, SetPhase, Goto, Main
<1>5. ASSUME NEW s \in Sessions, EvidenceFails(s) PROVE TypeOK'
  BY <1>5, SessionOwnershipAssumption DEF EvidenceFails, Goto, Main
<1>6. ASSUME NEW s \in Sessions, Reap(s) PROVE TypeOK'
  BY <1>6, SessionOwnershipAssumption DEF Reap, MarkCleaning, Goto, Main
<1>7. ASSUME NEW s \in Sessions, SendGrant(s) PROVE TypeOK'
  BY <1>7, SessionOwnershipAssumption DEF SendGrant, MarkCleaning, Goto, Main
<1>8. ASSUME NEW s \in Sessions, PrepareSucceeds(s) PROVE TypeOK'
  BY <1>8, SessionOwnershipAssumption DEF PrepareSucceeds, Goto, Main
<1>9. ASSUME NEW s \in Sessions, CommitActive(s) PROVE TypeOK'
  BY <1>9, SessionOwnershipAssumption DEF CommitActive, SetPhase, Goto, Main
<1>10. ASSUME NEW s \in Sessions, FailPreActive(s) PROVE TypeOK'
  BY <1>10, SessionOwnershipAssumption DEF FailPreActive, MarkCleaning, Goto, Main
<1>11. ASSUME NEW s \in Sessions, Close(s) PROVE TypeOK'
  BY <1>11, SessionOwnershipAssumption DEF Close, StableOperation, Goto
<1>12. ASSUME NEW s \in Sessions, CloseReturns(s) PROVE TypeOK'
  BY <1>12, SessionOwnershipAssumption DEF CloseReturns, Goto, Main
<1>13. ASSUME NEW s \in Sessions, CloseTimesOut(s) PROVE TypeOK'
  BY <1>13, SessionOwnershipAssumption DEF CloseTimesOut, Goto, Main
<1>14. ASSUME NEW s \in Sessions, ObserveNaturalExit(s) PROVE TypeOK'
  BY <1>14, SessionOwnershipAssumption DEF ObserveNaturalExit
<1>15. ASSUME NEW s \in Sessions, RecoverOne(s) PROVE TypeOK'
  BY <1>15, SessionOwnershipAssumption DEF RecoverOne, Goto
<1>16. ASSUME NEW s \in Sessions, Migrate(s) PROVE TypeOK'
  <2>1. phase' \in [Sessions -> Phases] /\ migrating' \in [Sessions -> BOOLEAN]
    BY <1>16 DEF Migrate, SetPhase
  <2>2. oldproto' \in [Sessions -> BOOLEAN] /\ op' \in [Sessions -> Ops \cup {NoOp}]
    <3>1. CASE phase[s] = "prepared"
      <4>1. PICK installed \in BOOLEAN : oldproto' = [oldproto EXCEPT ![s] = ~installed]
        BY <1>16, <3>1 DEF Migrate
      <4>2. PICK proposed \in Ops :
               op' = [op EXCEPT ![s] = IF projected[s] = "closing" /\ @ = NoOp
                                       THEN proposed ELSE @]
        BY <1>16, <3>1 DEF Migrate
      <4>3. oldproto' \in [Sessions -> BOOLEAN] BY <4>1
      <4> QED BY <4>2, <4>3
    <3>2. CASE phase[s] # "prepared"
      BY <1>16, <3>2 DEF Migrate
    <3> QED BY <3>1, <3>2
  <2>3. main' \in [pc : MainPc, s : Sessions \cup {NoSession}]
    BY <1>16 DEF Migrate, Goto
  <2> QED BY <1>16, <2>1, <2>2, <2>3 DEF Migrate
<1>17. ASSUME NEW s \in Sessions, RecoverConnects(s) PROVE TypeOK'
  BY <1>17, SessionOwnershipAssumption DEF RecoverConnects, Goto, Main, Serves
<1>18. ASSUME NEW s \in Sessions, RecoverFails(s) PROVE TypeOK'
  BY <1>18, SessionOwnershipAssumption DEF RecoverFails, Quarantine, Goto, Main
<1>19. ASSUME NEW s \in Sessions, BindSocket(s) PROVE TypeOK'
  BY <1>19, SessionOwnershipAssumption DEF BindSocket, SupKeepsLedger
<1>20. ASSUME NEW s \in Sessions, ReadGrant(s) PROVE TypeOK'
  <2>1. CASE sup' = [sup EXCEPT ![s] = "running"] /\ UNCHANGED sock
    BY <1>20, <2>1 DEF ReadGrant, SupKeepsLedger
  <2>2. CASE sup' = [sup EXCEPT ![s] = "dead"] /\ sock' = [sock EXCEPT ![s] = FALSE]
    BY <1>20, <2>2 DEF ReadGrant, SupKeepsLedger
  <2> QED BY <1>20, <2>1, <2>2 DEF ReadGrant
<1>21. ASSUME NEW s \in Sessions, ReadEof(s) PROVE TypeOK'
  BY <1>21, SessionOwnershipAssumption DEF ReadEof, SupKeepsLedger
<1>22. ASSUME NEW s \in Sessions, PtyExits(s) PROVE TypeOK'
  BY <1>22, SessionOwnershipAssumption DEF PtyExits, SupKeepsLedger
<1>23. ASSUME NEW s \in Sessions, SupKilled(s) PROVE TypeOK'
  BY <1>23, SessionOwnershipAssumption DEF SupKilled, SupKeepsLedger
<1>24. ASSUME NEW s \in Sessions, ShutdownCompletes(s) PROVE TypeOK'
  BY <1>24, SessionOwnershipAssumption DEF ShutdownCompletes, SupKeepsLedger
<1>25. ASSUME NEW s \in Sessions, ReconcileInterrupted(s) PROVE TypeOK'
  <2>1. CASE StableOperation(s) /\ UNCHANGED <<evid, gen, migrating, oldproto>>
    BY <1>25, <2>1 DEF ReconcileInterrupted, StableOperation, ReconKeeps
  <2>2. CASE DeleteRow(s)
    BY <1>25, <2>2 DEF ReconcileInterrupted, DeleteRow, ReconKeeps
  <2> QED BY <1>25, <2>1, <2>2 DEF ReconcileInterrupted
<1>26. ASSUME NEW s \in Sessions, ReconPick(s) PROVE TypeOK'
  BY <1>26, SessionOwnershipAssumption DEF ReconPick, ReconKeeps, ReconKeepsLedger
<1>27. ASSUME NEW s \in Sessions, FinalizeNaturalExit(s) PROVE TypeOK'
  BY <1>27, SessionOwnershipAssumption DEF FinalizeNaturalExit, Recon, ReconGoto, ReconRests, ReconKeeps, ReconKeepsLedger
<1>28. ASSUME NEW s \in Sessions, StillRunning(s) PROVE TypeOK'
  BY <1>28, SessionOwnershipAssumption DEF StillRunning, Recon, ReconRests, ReconKeeps, ReconKeepsLedger
<1>29. ASSUME NEW s \in Sessions, MarkExited(s) PROVE TypeOK'
  BY <1>29, SessionOwnershipAssumption DEF MarkExited, StableOperation, Recon, ReconRests, ReconKeeps
<1>30. ASSUME NEW s \in Sessions, AssignOperation(s) PROVE TypeOK'
  <2>1. phase' \in [Sessions -> Phases] /\ op' \in [Sessions -> Ops \cup {NoOp}]
    BY <1>30 DEF AssignOperation, StableOperation
  <2>2. recon' \in [pc : ReconPc, s : Sessions \cup {NoSession}, op : Ops \cup {NoOp}]
    <3>1. op'[s] \in Ops \cup {NoOp} BY <2>1
    <3>2. CASE op'[s] = NoOp
      BY <1>30, <3>2 DEF AssignOperation, ReconRests
    <3>3. CASE op'[s] # NoOp
      BY ZenonT(30), <1>30, <3>1, <3>3 DEF AssignOperation
    <3> QED BY <3>2, <3>3
  <2> QED BY <1>30, <2>1, <2>2 DEF AssignOperation, ReconKeeps
<1>31. ASSUME NEW s \in Sessions, CleanupClose(s) PROVE TypeOK'
  BY <1>31, SessionOwnershipAssumption DEF CleanupClose, Recon, ReconGoto, ReconKeeps, ReconKeepsLedger, Serves
<1>32. ASSUME NEW s \in Sessions, FinalizeClose(s) PROVE TypeOK'
  BY <1>32, SessionOwnershipAssumption DEF FinalizeClose, Recon, ReconGoto, ReconKeeps, ReconKeepsLedger, Serves
<1>33. ASSUME NEW s \in Sessions, LegacyClose(s) PROVE TypeOK'
  BY <1>33, SessionOwnershipAssumption DEF LegacyClose, Recon, ReconGoto, ReconKeeps, ReconKeepsLedger, Serves
<1>34. ASSUME NEW s \in Sessions, CleanupFails(s) PROVE TypeOK'
  BY <1>34, SessionOwnershipAssumption DEF CleanupFails, Recon, ReconGoto, ReconKeeps, ReconKeepsLedger
<1>35. ASSUME NEW s \in Sessions, ConfirmAbsent(s) PROVE TypeOK'
  <2>1. CASE phase[s] = "cleaning"
    <3>0. /\ DeleteRow(s) /\ closed' = closed \cup {s}
          /\ projected' = [projected EXCEPT ![s] = "none"]
      BY <1>35, <2>1 DEF ConfirmAbsent, FinalizeClosed
    <3>1. /\ phase' \in [Sessions -> Phases]
          /\ evid' \in [Sessions -> BOOLEAN]
          /\ gen' \in [Sessions -> Nat]
          /\ op' \in [Sessions -> Ops \cup {NoOp}]
      BY <3>0 DEF DeleteRow
    <3>2. /\ migrating' \in [Sessions -> BOOLEAN]
          /\ oldproto' \in [Sessions -> BOOLEAN]
          /\ projected' \in [Sessions -> Records]
          /\ closed' \in SUBSET Sessions
      BY <3>0 DEF DeleteRow
    <3> QED BY <1>35, <3>1, <3>2 DEF ConfirmAbsent, ReconRests, ReconKeeps
  <2>2. CASE phase[s] # "cleaning"
    BY <1>35, <2>2 DEF ConfirmAbsent, FinalizeClosed, ReconRests, ReconKeeps
  <2> QED BY <2>1, <2>2
<1>36. ASSUME NEW s \in Sessions, StillPresent(s) PROVE TypeOK'
  BY <1>36, SessionOwnershipAssumption DEF StillPresent, Recon, ReconRests, ReconKeeps, ReconKeepsLedger
<1>37. CASE PersistState
  BY <1>37, SessionOwnershipAssumption DEF PersistState, Saved
<1>38. CASE HideClosed
  BY <1>38, SessionOwnershipAssumption DEF HideClosed
<1>39. CASE Start
  BY <1>39, SessionOwnershipAssumption DEF Start, Goto
<1>40. CASE Backfill
  BY <1>40, SessionOwnershipAssumption DEF Backfill, Goto
<1>41. CASE RecoverDone
  BY <1>41, SessionOwnershipAssumption DEF RecoverDone, Saved, Goto
<1>42. CASE DaemonCrash
  BY <1>42, SessionOwnershipAssumption DEF DaemonCrash, Goto, ReconRests
<1>43. CASE UNCHANGED vars
  BY <1>43 DEF vars
<1> QED
  BY <1>1, <1>2, <1>3, <1>4, <1>5, <1>6, <1>7, <1>8, <1>9, <1>10,
     <1>11, <1>12, <1>13, <1>14, <1>15, <1>16, <1>17, <1>18, <1>19, <1>20,
     <1>21, <1>22, <1>23, <1>24, <1>25, <1>26, <1>27, <1>28, <1>29, <1>30,
     <1>31, <1>32, <1>33, <1>34, <1>35, <1>36, <1>37, <1>38, <1>39, <1>40,
     <1>41, <1>42, <1>43
  DEF Next, Create, Recover, Supervisor, Reconcile

(* Every step keeps the invariant of each session. *)
LEMMA OwnStep == TypeOK /\ OwnInv /\ [Next]_vars => OwnInv'
<1> SUFFICES ASSUME TypeOK, OwnInv, [Next]_vars, NEW t \in Sessions PROVE OwnAt(t)'
  BY DEF OwnInv
<1>t. /\ phase \in [Sessions -> Phases] /\ evid \in [Sessions -> BOOLEAN]
      /\ op \in [Sessions -> Ops \cup {NoOp}] /\ sup \in [Sessions -> Sups]
      /\ pipe \in [Sessions -> Pipes] /\ confirmed \in [Sessions -> Ops \cup {NoOp}]
      /\ main \in [pc : MainPc, s : Sessions \cup {NoSession}]
      /\ recon \in [pc : ReconPc, s : Sessions \cup {NoSession}, op : Ops \cup {NoOp}]
  BY DEF TypeOK
<1>o. OwnAt(t)
  BY DEF OwnInv
<1> USE <1>t, <1>o, SessionOwnershipAssumption
    DEF OwnAt, Owned, Main, Recon, ledger, procs
<1>1. ASSUME NEW s \in Sessions, InsertPreparing(s) PROVE OwnAt(t)'
  BY <1>1 DEF InsertPreparing, SetPhase, Goto
<1>2. ASSUME NEW s \in Sessions, SpawnFails(s) PROVE OwnAt(t)'
  BY <1>2 DEF SpawnFails, MarkCleaning, Goto
<1>3. ASSUME NEW s \in Sessions, Spawn(s) PROVE OwnAt(t)'
  BY <1>3 DEF Spawn, Goto
<1>4. ASSUME NEW s \in Sessions, RecordPrepared(s) PROVE OwnAt(t)'
  BY <1>4 DEF RecordPrepared, SetPhase, Goto
<1>5. ASSUME NEW s \in Sessions, EvidenceFails(s) PROVE OwnAt(t)'
  BY <1>5 DEF EvidenceFails, Goto
<1>6. ASSUME NEW s \in Sessions, Reap(s) PROVE OwnAt(t)'
  BY <1>6 DEF Reap, MarkCleaning, Goto
<1>7. ASSUME NEW s \in Sessions, SendGrant(s) PROVE OwnAt(t)'
  BY <1>7 DEF SendGrant, MarkCleaning, Goto
<1>8. ASSUME NEW s \in Sessions, PrepareSucceeds(s) PROVE OwnAt(t)'
  BY <1>8 DEF PrepareSucceeds, Goto
<1>9. ASSUME NEW s \in Sessions, CommitActive(s) PROVE OwnAt(t)'
  BY <1>9 DEF CommitActive, SetPhase, Goto
<1>10. ASSUME NEW s \in Sessions, FailPreActive(s) PROVE OwnAt(t)'
  BY <1>10 DEF FailPreActive, MarkCleaning, Goto
<1>11. ASSUME NEW s \in Sessions, Close(s) PROVE OwnAt(t)'
  BY <1>11 DEF Close, StableOperation, Goto
<1>12. ASSUME NEW s \in Sessions, CloseReturns(s) PROVE OwnAt(t)'
  BY <1>12 DEF CloseReturns, Goto
<1>13. ASSUME NEW s \in Sessions, CloseTimesOut(s) PROVE OwnAt(t)'
  BY <1>13 DEF CloseTimesOut, Goto
<1>14. ASSUME NEW s \in Sessions, ObserveNaturalExit(s) PROVE OwnAt(t)'
  BY <1>14 DEF ObserveNaturalExit
<1>15. ASSUME NEW s \in Sessions, RecoverOne(s) PROVE OwnAt(t)'
  BY <1>15 DEF RecoverOne, Goto
<1>16. ASSUME NEW s \in Sessions, Migrate(s) PROVE OwnAt(t)'
  BY <1>16 DEF Migrate, SetPhase, Goto, Serves
<1>17. ASSUME NEW s \in Sessions, RecoverConnects(s) PROVE OwnAt(t)'
  BY <1>17 DEF RecoverConnects, Goto, Serves
<1>18. ASSUME NEW s \in Sessions, RecoverFails(s) PROVE OwnAt(t)'
  BY <1>18 DEF RecoverFails, Quarantine, Goto
<1>19. ASSUME NEW s \in Sessions, BindSocket(s) PROVE OwnAt(t)'
  BY <1>19 DEF BindSocket, SupKeepsLedger
<1>20. ASSUME NEW s \in Sessions, ReadGrant(s) PROVE OwnAt(t)'
  BY <1>20 DEF ReadGrant, SupKeepsLedger
<1>21. ASSUME NEW s \in Sessions, ReadEof(s) PROVE OwnAt(t)'
  BY <1>21 DEF ReadEof, SupKeepsLedger
<1>22. ASSUME NEW s \in Sessions, PtyExits(s) PROVE OwnAt(t)'
  BY <1>22 DEF PtyExits, SupKeepsLedger
<1>23. ASSUME NEW s \in Sessions, SupKilled(s) PROVE OwnAt(t)'
  BY <1>23 DEF SupKilled, SupKeepsLedger
<1>24. ASSUME NEW s \in Sessions, ShutdownCompletes(s) PROVE OwnAt(t)'
  BY <1>24 DEF ShutdownCompletes, SupKeepsLedger
<1>25. ASSUME NEW s \in Sessions, ReconcileInterrupted(s) PROVE OwnAt(t)'
  BY <1>25 DEF ReconcileInterrupted, StableOperation, DeleteRow, ReconKeeps
<1>26. ASSUME NEW s \in Sessions, ReconPick(s) PROVE OwnAt(t)'
  BY <1>26 DEF ReconPick, ReconKeeps, ReconKeepsLedger
<1>27. ASSUME NEW s \in Sessions, FinalizeNaturalExit(s) PROVE OwnAt(t)'
  BY <1>27 DEF FinalizeNaturalExit, ReconGoto, ReconRests, ReconKeeps,
      ReconKeepsLedger
<1>28. ASSUME NEW s \in Sessions, StillRunning(s) PROVE OwnAt(t)'
  BY <1>28 DEF StillRunning, ReconRests, ReconKeeps, ReconKeepsLedger
<1>29. ASSUME NEW s \in Sessions, MarkExited(s) PROVE OwnAt(t)'
  BY <1>29 DEF MarkExited, StableOperation, ReconRests, ReconKeeps
<1>30. ASSUME NEW s \in Sessions, AssignOperation(s) PROVE OwnAt(t)'
  <2>1. /\ op'[t] = op[t] \/ op[t] = NoOp
        /\ Owned(t) => Owned(t)'
        /\ phase'[t] = "preparing" => phase[t] = "preparing"
    BY <1>30 DEF AssignOperation, StableOperation
  <2>2. \/ recon'.pc = "idle"
        \/ recon'.pc = "close" /\ recon'.s = s /\ recon'.op = op'[s] /\ op'[s] # NoOp
    <3>1. CASE op'[s] = NoOp
      BY <1>30, <3>1 DEF AssignOperation, ReconRests
    <3>2. CASE op'[s] # NoOp
      <4>1. recon' = [recon EXCEPT !.pc = "close", !.op = op'[s]] /\ recon.s = s
        BY <1>30, <3>2 DEF AssignOperation
      <4> QED BY <3>2, <4>1
    <3> QED BY <3>1, <3>2
  <2> QED BY <1>30, <2>1, <2>2 DEF AssignOperation, ReconKeeps
<1>31. ASSUME NEW s \in Sessions, CleanupClose(s) PROVE OwnAt(t)'
  BY <1>31 DEF CleanupClose, ReconGoto, ReconKeeps, ReconKeepsLedger, Serves
<1>32. ASSUME NEW s \in Sessions, FinalizeClose(s) PROVE OwnAt(t)'
  BY <1>32 DEF FinalizeClose, ReconGoto, ReconKeeps, ReconKeepsLedger, Serves
<1>33. ASSUME NEW s \in Sessions, LegacyClose(s) PROVE OwnAt(t)'
  BY <1>33 DEF LegacyClose, ReconGoto, ReconKeeps, ReconKeepsLedger, Serves
<1>34. ASSUME NEW s \in Sessions, CleanupFails(s) PROVE OwnAt(t)'
  BY <1>34 DEF CleanupFails, ReconGoto, ReconKeeps, ReconKeepsLedger
<1>35. ASSUME NEW s \in Sessions, ConfirmAbsent(s) PROVE OwnAt(t)'
  BY <1>35 DEF ConfirmAbsent, DeleteRow, FinalizeClosed, ReconRests, ReconKeeps
<1>36. ASSUME NEW s \in Sessions, StillPresent(s) PROVE OwnAt(t)'
  BY <1>36 DEF StillPresent, ReconRests, ReconKeeps, ReconKeepsLedger
<1>37. CASE PersistState
  BY <1>37 DEF PersistState
<1>38. CASE HideClosed
  BY <1>38 DEF HideClosed
<1>39. CASE Start
  BY <1>39 DEF Start, Goto
<1>40. CASE Backfill
  BY <1>40 DEF Backfill, Goto
<1>41. CASE RecoverDone
  BY <1>41 DEF RecoverDone, Goto
<1>42. CASE DaemonCrash
  BY <1>42 DEF DaemonCrash, Goto, ReconRests
<1>43. CASE UNCHANGED vars
  BY <1>43 DEF vars
<1> QED
  BY <1>1, <1>2, <1>3, <1>4, <1>5, <1>6, <1>7, <1>8, <1>9, <1>10,
     <1>11, <1>12, <1>13, <1>14, <1>15, <1>16, <1>17, <1>18, <1>19, <1>20,
     <1>21, <1>22, <1>23, <1>24, <1>25, <1>26, <1>27, <1>28, <1>29, <1>30,
     <1>31, <1>32, <1>33, <1>34, <1>35, <1>36, <1>37, <1>38, <1>39, <1>40,
     <1>41, <1>42, <1>43
  DEF Next, Create, Recover, Supervisor, Reconcile

(* The invariant holds initially. *)
LEMMA OwnInit == Init => TypeOK /\ OwnInv
<1> SUFFICES ASSUME Init PROVE TypeOK /\ OwnInv
  OBVIOUS
<1> USE SessionOwnershipAssumption DEF Init
<1>1. TypeOK
  BY DEF TypeOK, Phases, Sups, Pipes, Records, MainPc, ReconPc
<1>2. OwnInv
  BY DEF OwnInv, OwnAt, Owned, Main, Recon
<1> QED BY <1>1, <1>2

(* The inductive invariant holds throughout. *)
LEMMA OwnCorrect == Spec => [](TypeOK /\ OwnInv)
<1>1. Init => TypeOK /\ OwnInv
  BY OwnInit
<1>2. TypeOK /\ OwnInv /\ [Next]_vars => (TypeOK /\ OwnInv)'
  BY TypeStep, OwnStep
<1> QED BY <1>1, <1>2, PTL DEF Spec

(* The ledger, the processes and both threads stay within their types. *)
THEOREM OwnershipTypes == Spec => []TypeOK
BY OwnCorrect, PTL

(* The startup grant protocol leaves no orphan: whatever the daemon, the   *)
(* reconciler and the supervisors do, and wherever a daemon dies, a shell  *)
(* runs only while its ledger row and evidence exist.                      *)
THEOREM NoOrphanCorrect == Spec => []NoOrphan
<1>1. TypeOK /\ OwnInv => NoOrphan
  BY DEF OwnInv, OwnAt, Owned, NoOrphan
<1> QED BY <1>1, OwnCorrect, PTL

(* mark_cleaning_with_stable_operation and the supervisor's confirmed      *)
(* operation never disagree: an interrupted close is always resumable.     *)
THEOREM CloseResumable == Spec => []CloseCanResume
<1>1. TypeOK /\ OwnInv => CloseCanResume
  BY DEF OwnInv, OwnAt, CloseCanResume
<1> QED BY <1>1, OwnCorrect, PTL

(* finalize_closed only ever removes sessions whose supervisor is shutting *)
(* down or gone.                                                           *)
THEOREM ClosedIsOverCorrect == Spec => []ClosedIsOver
<1>1. TypeOK /\ OwnInv => ClosedIsOver
  BY DEF OwnInv, OwnAt, ClosedIsOver, TypeOK
<1> QED BY <1>1, OwnCorrect, PTL

(* Why an active row is projected.  The records of a starting daemon may   *)
(* be stale by the time they are used: the reconciler can finalize a       *)
(* session in between.  It never does so to a supervisor that still        *)
(* serves, so a migration that reaches its supervisor is of a live record. *)
ProjectedAt(s) ==
    /\ phase[s] = "active" => projected[s] = "running"
    /\ Recon("operation", s) \/ Recon("close", s) \/ Recon("finalize", s)
          \/ Recon("check", s) \/ Recon("done", s)
          => phase[s] \in {"cleaning", "quarantined"}
    /\ phase[s] = "prepared" /\ migrating[s]
          => projected[s] \in {"running", "closing"} \/ sup[s] \in {"closing", "dead"}
    /\ Main("migrate", s) /\ phase[s] = "prepared" => migrating[s]
    /\ Main("evidence", s) \/ Main("spawn", s) => ~migrating[s] /\ phase[s] # "prepared"
    /\ main.pc = "backfill" /\ s \in todo /\ projected[s] = "none"
          => phase[s] = "quarantined" \/ sup[s] \in {"closing", "dead"}
    /\ s \notin used => /\ phase[s] = "none" /\ ~migrating[s] /\ projected[s] = "none"
                        /\ s \notin todo \cup live \cup index /\ main.s # s

ProjectedInv == \A s \in Sessions : ProjectedAt(s)

(* Every step keeps it. *)
LEMMA ProjectedStep ==
  TypeOK /\ OwnInv /\ ProjectedInv /\ [Next]_vars => ProjectedInv'
<1> SUFFICES ASSUME TypeOK, OwnInv, ProjectedInv, [Next]_vars, NEW t \in Sessions
             PROVE  ProjectedAt(t)'
  BY DEF ProjectedInv
<1>t. /\ phase \in [Sessions -> Phases] /\ migrating \in [Sessions -> BOOLEAN]
      /\ projected \in [Sessions -> Records] /\ sup \in [Sessions -> Sups]
      /\ op \in [Sessions -> Ops \cup {NoOp}]
      /\ main \in [pc : MainPc, s : Sessions \cup {NoSession}]
      /\ recon \in [pc : ReconPc, s : Sessions \cup {NoSession}, op : Ops \cup {NoOp}]
  BY DEF TypeOK
<1>o. ProjectedAt(t) /\ (Main("spawn", t) => sup[t] = "none")
      /\ (Recon("done", t) => sup[t] \in {"closing", "dead"})
  BY DEF OwnInv, ProjectedInv, OwnAt
<1> USE <1>t, <1>o, SessionOwnershipAssumption
    DEF ProjectedAt, Main, Recon, ledger, procs, Records
<1>1. ASSUME NEW s \in Sessions, InsertPreparing(s) PROVE ProjectedAt(t)'
  BY <1>1 DEF InsertPreparing, SetPhase, Goto
<1>2. ASSUME NEW s \in Sessions, SpawnFails(s) PROVE ProjectedAt(t)'
  BY <1>2 DEF SpawnFails, MarkCleaning, Goto
<1>3. ASSUME NEW s \in Sessions, Spawn(s) PROVE ProjectedAt(t)'
  BY <1>3 DEF Spawn, Goto
<1>4. ASSUME NEW s \in Sessions, RecordPrepared(s) PROVE ProjectedAt(t)'
  BY <1>4 DEF RecordPrepared, SetPhase, Goto
<1>5. ASSUME NEW s \in Sessions, EvidenceFails(s) PROVE ProjectedAt(t)'
  BY <1>5 DEF EvidenceFails, Goto
<1>6. ASSUME NEW s \in Sessions, Reap(s) PROVE ProjectedAt(t)'
  BY <1>6 DEF Reap, MarkCleaning, Goto
<1>7. ASSUME NEW s \in Sessions, SendGrant(s) PROVE ProjectedAt(t)'
  BY <1>7 DEF SendGrant, MarkCleaning, Goto
<1>8. ASSUME NEW s \in Sessions, PrepareSucceeds(s) PROVE ProjectedAt(t)'
  BY <1>8 DEF PrepareSucceeds, Goto
<1>9. ASSUME NEW s \in Sessions, CommitActive(s) PROVE ProjectedAt(t)'
  BY <1>9 DEF CommitActive, SetPhase, Goto
<1>10. ASSUME NEW s \in Sessions, FailPreActive(s) PROVE ProjectedAt(t)'
  BY <1>10 DEF FailPreActive, MarkCleaning, Goto
<1>11. ASSUME NEW s \in Sessions, Close(s) PROVE ProjectedAt(t)'
  BY <1>11 DEF Close, StableOperation, Goto
<1>12. ASSUME NEW s \in Sessions, CloseReturns(s) PROVE ProjectedAt(t)'
  BY <1>12 DEF CloseReturns, Goto
<1>13. ASSUME NEW s \in Sessions, CloseTimesOut(s) PROVE ProjectedAt(t)'
  BY <1>13 DEF CloseTimesOut, Goto
<1>14. ASSUME NEW s \in Sessions, ObserveNaturalExit(s) PROVE ProjectedAt(t)'
  BY <1>14 DEF ObserveNaturalExit
<1>15. ASSUME NEW s \in Sessions, RecoverOne(s) PROVE ProjectedAt(t)'
  BY <1>15 DEF RecoverOne, Goto
<1>16. ASSUME NEW s \in Sessions, Migrate(s) PROVE ProjectedAt(t)'
  BY <1>16 DEF Migrate, SetPhase, Goto, Serves
<1>17. ASSUME NEW s \in Sessions, RecoverConnects(s) PROVE ProjectedAt(t)'
  BY <1>17 DEF RecoverConnects, Goto, Serves
<1>18. ASSUME NEW s \in Sessions, RecoverFails(s) PROVE ProjectedAt(t)'
  BY <1>18 DEF RecoverFails, Quarantine, Goto
<1>19. ASSUME NEW s \in Sessions, BindSocket(s) PROVE ProjectedAt(t)'
  BY <1>19 DEF BindSocket, SupKeepsLedger
<1>20. ASSUME NEW s \in Sessions, ReadGrant(s) PROVE ProjectedAt(t)'
  BY <1>20 DEF ReadGrant, SupKeepsLedger
<1>21. ASSUME NEW s \in Sessions, ReadEof(s) PROVE ProjectedAt(t)'
  BY <1>21 DEF ReadEof, SupKeepsLedger
<1>22. ASSUME NEW s \in Sessions, PtyExits(s) PROVE ProjectedAt(t)'
  BY <1>22 DEF PtyExits, SupKeepsLedger
<1>23. ASSUME NEW s \in Sessions, SupKilled(s) PROVE ProjectedAt(t)'
  BY <1>23 DEF SupKilled, SupKeepsLedger
<1>24. ASSUME NEW s \in Sessions, ShutdownCompletes(s) PROVE ProjectedAt(t)'
  BY <1>24 DEF ShutdownCompletes, SupKeepsLedger
<1>25. ASSUME NEW s \in Sessions, ReconcileInterrupted(s) PROVE ProjectedAt(t)'
  BY <1>25 DEF ReconcileInterrupted, StableOperation, DeleteRow, ReconKeeps
<1>26. ASSUME NEW s \in Sessions, ReconPick(s) PROVE ProjectedAt(t)'
  BY <1>26 DEF ReconPick, ReconKeeps, ReconKeepsLedger
<1>27. ASSUME NEW s \in Sessions, FinalizeNaturalExit(s) PROVE ProjectedAt(t)'
  BY <1>27 DEF FinalizeNaturalExit, ReconGoto, ReconRests, ReconKeeps,
      ReconKeepsLedger
<1>28. ASSUME NEW s \in Sessions, StillRunning(s) PROVE ProjectedAt(t)'
  BY <1>28 DEF StillRunning, ReconRests, ReconKeeps, ReconKeepsLedger
<1>29. ASSUME NEW s \in Sessions, MarkExited(s) PROVE ProjectedAt(t)'
  BY <1>29 DEF MarkExited, StableOperation, ReconRests, ReconKeeps
<1>30. ASSUME NEW s \in Sessions, AssignOperation(s) PROVE ProjectedAt(t)'
  <2>1. /\ phase[t] \notin {"prepared", "active"} => phase'[t] = phase[t]
        /\ phase'[t] = phase[t] \/ phase'[t] = "cleaning"
    BY <1>30 DEF AssignOperation, StableOperation
  <2>2. recon'.pc = "idle" \/ (recon'.pc = "close" /\ recon'.s = s)
    <3>1. CASE op'[s] = NoOp
      BY <1>30, <3>1 DEF AssignOperation, ReconRests
    <3>2. CASE op'[s] # NoOp
      <4>1. recon' = [recon EXCEPT !.pc = "close", !.op = op'[s]] /\ recon.s = s
        BY <1>30, <3>2 DEF AssignOperation
      <4> QED BY <4>1
    <3> QED BY <3>1, <3>2
  <2> QED BY <1>30, <2>1, <2>2 DEF AssignOperation, ReconKeeps
<1>31. ASSUME NEW s \in Sessions, CleanupClose(s) PROVE ProjectedAt(t)'
  BY <1>31 DEF CleanupClose, ReconGoto, ReconKeeps, ReconKeepsLedger, Serves
<1>32. ASSUME NEW s \in Sessions, FinalizeClose(s) PROVE ProjectedAt(t)'
  BY <1>32 DEF FinalizeClose, ReconGoto, ReconKeeps, ReconKeepsLedger, Serves
<1>33. ASSUME NEW s \in Sessions, LegacyClose(s) PROVE ProjectedAt(t)'
  BY <1>33 DEF LegacyClose, ReconGoto, ReconKeeps, ReconKeepsLedger, Serves
<1>34. ASSUME NEW s \in Sessions, CleanupFails(s) PROVE ProjectedAt(t)'
  BY <1>34 DEF CleanupFails, ReconGoto, ReconKeeps, ReconKeepsLedger
<1>35. ASSUME NEW s \in Sessions, ConfirmAbsent(s) PROVE ProjectedAt(t)'
  BY <1>35 DEF ConfirmAbsent, DeleteRow, FinalizeClosed, ReconRests, ReconKeeps
<1>36. ASSUME NEW s \in Sessions, StillPresent(s) PROVE ProjectedAt(t)'
  BY <1>36 DEF StillPresent, ReconRests, ReconKeeps, ReconKeepsLedger
<1>37. CASE PersistState
  BY <1>37 DEF PersistState, Saved
<1>38. CASE HideClosed
  BY <1>38 DEF HideClosed
<1>39. CASE Start
  BY <1>39 DEF Start, Goto
<1>40. CASE Backfill
  <2>1. CASE t \in todo /\ phase[t] = "none" /\ projected[t] # "invalid"
    <3>1. phase'[t] = "prepared" /\ migrating'[t] /\ projected'[t] = projected[t]
      BY <1>40, <2>1 DEF Backfill
    <3> QED BY <1>40, <2>1, <3>1 DEF Backfill, Goto
  <2>2. CASE t \in todo /\ phase[t] = "none" /\ projected[t] = "invalid"
    <3>1. phase'[t] = "quarantined" /\ migrating'[t] = migrating[t]
      BY <1>40, <2>2 DEF Backfill
    <3> QED BY <1>40, <2>2, <3>1 DEF Backfill, Goto
  <2>3. CASE ~(t \in todo /\ phase[t] = "none")
    <3>1. phase'[t] = phase[t] /\ migrating'[t] = migrating[t] /\ projected'[t] = projected[t]
      BY <1>40, <2>3 DEF Backfill
    <3> QED BY <1>40, <3>1 DEF Backfill, Goto
  <2> QED BY <2>1, <2>2, <2>3
<1>41. CASE RecoverDone
  BY <1>41 DEF RecoverDone, Goto, Saved
<1>42. CASE DaemonCrash
  BY <1>42 DEF DaemonCrash, Goto, ReconRests
<1>43. CASE UNCHANGED vars
  BY <1>43 DEF vars
<1> QED
  BY <1>1, <1>2, <1>3, <1>4, <1>5, <1>6, <1>7, <1>8, <1>9, <1>10,
     <1>11, <1>12, <1>13, <1>14, <1>15, <1>16, <1>17, <1>18, <1>19, <1>20,
     <1>21, <1>22, <1>23, <1>24, <1>25, <1>26, <1>27, <1>28, <1>29, <1>30,
     <1>31, <1>32, <1>33, <1>34, <1>35, <1>36, <1>37, <1>38, <1>39, <1>40,
     <1>41, <1>42, <1>43
  DEF Next, Create, Recover, Supervisor, Reconcile

(* Ledger and projection agree: a session the ledger calls active is       *)
(* always one a restarted daemon would find and reconnect to.              *)
THEOREM ActiveProjected == Spec => []ActiveIsProjected
<1>1. Init => ProjectedInv
  BY SessionOwnershipAssumption DEF Init, ProjectedInv, ProjectedAt, Main, Recon
<1>2. ProjectedInv => ActiveIsProjected
  BY DEF ProjectedInv, ProjectedAt, ActiveIsProjected
<1> QED BY <1>1, <1>2, OwnCorrect, ProjectedStep, PTL DEF Spec

----------------------------------------------------------------------------
(* SessionOwnership implements SessionLedger: whatever the threads of the  *)
(* daemon, the reconciler and the supervisors do is, seen from the ledger, *)
(* one of its four steps or nothing.                                       *)

(* A row without a pid and a socket has none since it was inserted. *)
EvidenceInv ==
    \A s \in Sessions : phase[s] \in {"none", "preparing"} => ~evid[s]

(* Every step keeps it: only record_prepared and the backfill of a legacy  *)
(* record add evidence, and both leave the preparing phase.                *)
LEMMA EvidenceStep ==
  TypeOK /\ ProjectedInv /\ EvidenceInv /\ [Next]_vars => EvidenceInv'
<1> SUFFICES ASSUME TypeOK, ProjectedInv, EvidenceInv, [Next]_vars, NEW t \in Sessions,
                    phase'[t] \in {"none", "preparing"}
             PROVE  ~evid'[t]
  BY DEF EvidenceInv
<1>t. /\ phase \in [Sessions -> Phases] /\ evid \in [Sessions -> BOOLEAN]
      /\ (t \notin used => phase[t] = "none")
      /\ (phase[t] \in {"none", "preparing"} => ~evid[t])
  BY DEF TypeOK, ProjectedInv, ProjectedAt, EvidenceInv
<1> USE <1>t DEF ledger, procs
<1>1. ASSUME NEW s \in Sessions, InsertPreparing(s) PROVE ~evid'[t]
  BY <1>1 DEF InsertPreparing, SetPhase, Goto
<1>2. ASSUME NEW s \in Sessions, SpawnFails(s) PROVE ~evid'[t]
  BY <1>2 DEF SpawnFails, MarkCleaning, Goto
<1>3. ASSUME NEW s \in Sessions, Spawn(s) PROVE ~evid'[t]
  BY <1>3 DEF Spawn, Goto
<1>4. ASSUME NEW s \in Sessions, RecordPrepared(s) PROVE ~evid'[t]
  BY <1>4 DEF RecordPrepared, SetPhase, Goto
<1>5. ASSUME NEW s \in Sessions, EvidenceFails(s) PROVE ~evid'[t]
  BY <1>5 DEF EvidenceFails, Goto
<1>6. ASSUME NEW s \in Sessions, Reap(s) PROVE ~evid'[t]
  BY <1>6 DEF Reap, MarkCleaning, Goto
<1>7. ASSUME NEW s \in Sessions, SendGrant(s) PROVE ~evid'[t]
  BY <1>7 DEF SendGrant, MarkCleaning, Goto
<1>8. ASSUME NEW s \in Sessions, PrepareSucceeds(s) PROVE ~evid'[t]
  BY <1>8 DEF PrepareSucceeds, Goto
<1>9. ASSUME NEW s \in Sessions, CommitActive(s) PROVE ~evid'[t]
  BY <1>9 DEF CommitActive, SetPhase, Goto
<1>10. ASSUME NEW s \in Sessions, FailPreActive(s) PROVE ~evid'[t]
  BY <1>10 DEF FailPreActive, MarkCleaning, Goto
<1>11. ASSUME NEW s \in Sessions, Close(s) PROVE ~evid'[t]
  BY <1>11 DEF Close, StableOperation, Goto
<1>12. ASSUME NEW s \in Sessions, CloseReturns(s) PROVE ~evid'[t]
  BY <1>12 DEF CloseReturns, Goto
<1>13. ASSUME NEW s \in Sessions, CloseTimesOut(s) PROVE ~evid'[t]
  BY <1>13 DEF CloseTimesOut, Goto
<1>14. ASSUME NEW s \in Sessions, ObserveNaturalExit(s) PROVE ~evid'[t]
  BY <1>14 DEF ObserveNaturalExit
<1>15. ASSUME NEW s \in Sessions, RecoverOne(s) PROVE ~evid'[t]
  BY <1>15 DEF RecoverOne, Goto
<1>16. ASSUME NEW s \in Sessions, Migrate(s) PROVE ~evid'[t]
  BY <1>16 DEF Migrate, SetPhase, Goto, Serves
<1>17. ASSUME NEW s \in Sessions, RecoverConnects(s) PROVE ~evid'[t]
  BY <1>17 DEF RecoverConnects, Goto, Serves
<1>18. ASSUME NEW s \in Sessions, RecoverFails(s) PROVE ~evid'[t]
  BY <1>18 DEF RecoverFails, Quarantine, Goto
<1>19. ASSUME NEW s \in Sessions, BindSocket(s) PROVE ~evid'[t]
  BY <1>19 DEF BindSocket, SupKeepsLedger
<1>20. ASSUME NEW s \in Sessions, ReadGrant(s) PROVE ~evid'[t]
  BY <1>20 DEF ReadGrant, SupKeepsLedger
<1>21. ASSUME NEW s \in Sessions, ReadEof(s) PROVE ~evid'[t]
  BY <1>21 DEF ReadEof, SupKeepsLedger
<1>22. ASSUME NEW s \in Sessions, PtyExits(s) PROVE ~evid'[t]
  BY <1>22 DEF PtyExits, SupKeepsLedger
<1>23. ASSUME NEW s \in Sessions, SupKilled(s) PROVE ~evid'[t]
  BY <1>23 DEF SupKilled, SupKeepsLedger
<1>24. ASSUME NEW s \in Sessions, ShutdownCompletes(s) PROVE ~evid'[t]
  BY <1>24 DEF ShutdownCompletes, SupKeepsLedger
<1>25. ASSUME NEW s \in Sessions, ReconcileInterrupted(s) PROVE ~evid'[t]
  BY <1>25 DEF ReconcileInterrupted, StableOperation, DeleteRow, ReconKeeps
<1>26. ASSUME NEW s \in Sessions, ReconPick(s) PROVE ~evid'[t]
  BY <1>26 DEF ReconPick, ReconKeeps, ReconKeepsLedger
<1>27. ASSUME NEW s \in Sessions, FinalizeNaturalExit(s) PROVE ~evid'[t]
  BY <1>27 DEF FinalizeNaturalExit, ReconGoto, ReconRests, ReconKeeps,
     ReconKeepsLedger
<1>28. ASSUME NEW s \in Sessions, StillRunning(s) PROVE ~evid'[t]
  BY <1>28 DEF StillRunning, ReconRests, ReconKeeps, ReconKeepsLedger
<1>29. ASSUME NEW s \in Sessions, MarkExited(s) PROVE ~evid'[t]
  BY <1>29 DEF MarkExited, StableOperation, ReconRests, ReconKeeps
<1>30. ASSUME NEW s \in Sessions, AssignOperation(s) PROVE ~evid'[t]
  BY <1>30 DEF AssignOperation, StableOperation, ReconRests, ReconKeeps
<1>31. ASSUME NEW s \in Sessions, CleanupClose(s) PROVE ~evid'[t]
  BY <1>31 DEF CleanupClose, ReconGoto, ReconKeeps, ReconKeepsLedger, Serves
<1>32. ASSUME NEW s \in Sessions, FinalizeClose(s) PROVE ~evid'[t]
  BY <1>32 DEF FinalizeClose, ReconGoto, ReconKeeps, ReconKeepsLedger, Serves
<1>33. ASSUME NEW s \in Sessions, LegacyClose(s) PROVE ~evid'[t]
  BY <1>33 DEF LegacyClose, ReconGoto, ReconKeeps, ReconKeepsLedger, Serves
<1>34. ASSUME NEW s \in Sessions, CleanupFails(s) PROVE ~evid'[t]
  BY <1>34 DEF CleanupFails, ReconGoto, ReconKeeps, ReconKeepsLedger
<1>35. ASSUME NEW s \in Sessions, ConfirmAbsent(s) PROVE ~evid'[t]
  BY <1>35 DEF ConfirmAbsent, DeleteRow, FinalizeClosed, ReconRests, ReconKeeps
<1>36. ASSUME NEW s \in Sessions, StillPresent(s) PROVE ~evid'[t]
  BY <1>36 DEF StillPresent, ReconRests, ReconKeeps, ReconKeepsLedger
<1>37. CASE PersistState
  BY <1>37 DEF PersistState
<1>38. CASE HideClosed
  BY <1>38 DEF HideClosed
<1>39. CASE Start
  BY <1>39 DEF Start, Goto
<1>40. CASE Backfill
  BY <1>40 DEF Backfill, Goto
<1>41. CASE RecoverDone
  BY <1>41 DEF RecoverDone, Goto
<1>42. CASE DaemonCrash
  BY <1>42 DEF DaemonCrash, Goto, ReconRests
<1>43. CASE UNCHANGED vars
  BY <1>43 DEF vars
<1> QED
  BY <1>1, <1>2, <1>3, <1>4, <1>5, <1>6, <1>7, <1>8, <1>9, <1>10, <1>11,
     <1>12, <1>13, <1>14, <1>15, <1>16, <1>17, <1>18, <1>19, <1>20,
     <1>21, <1>22, <1>23, <1>24, <1>25, <1>26, <1>27, <1>28, <1>29,
     <1>30, <1>31, <1>32, <1>33, <1>34, <1>35, <1>36, <1>37, <1>38,
     <1>39, <1>40, <1>41, <1>42, <1>43
  DEF Next, Create, Recover, Supervisor, Reconcile

(* Every step is a step of the ledger, or none. *)
LEMMA LedgerStep ==
  TypeOK /\ OwnInv /\ ProjectedInv /\ EvidenceInv /\ [Next]_vars
     => [Ledger!LedgerNext]_(Ledger!ledgerVars)
<1> SUFFICES ASSUME TypeOK, OwnInv, ProjectedInv, EvidenceInv, [Next]_vars
             PROVE  [Ledger!LedgerNext]_(Ledger!ledgerVars)
  OBVIOUS
<1>t. /\ phase \in [Sessions -> Phases] /\ evid \in [Sessions -> BOOLEAN]
      /\ sup \in [Sessions -> Sups]
      /\ \A s \in Sessions : phase[s] \in {"none", "preparing"} => ~evid[s]
  BY DEF TypeOK, EvidenceInv
<1> DEFINE Same(s) == ShellOf(s)' = ShellOf(s) /\ RecordedAt(s)' = RecordedAt(s)
           Steps == [Ledger!LedgerNext]_(Ledger!ledgerVars)
<1>q. (\A s \in Sessions : Same(s)) => Steps
  BY DEF Ledger!ledgerVars, ShellOf, RecordedAt
<1>g. ASSUME NEW s \in Sessions, UNCHANGED <<phase, evid>>,
             \A t \in Sessions : sup'[t] = sup[t] \/ (t = s /\ sup'[t] \in {"closing", "dead"}),
             sup'[s] \in {"closing", "dead"}
      PROVE  Steps
  <2>1. Ledger!EndShell(s)
    BY <1>g DEF Ledger!EndShell, ShellOf, RecordedAt
  <2> QED BY <2>1 DEF Ledger!LedgerNext
<1> USE <1>t DEF ledger, procs, ShellOf, RecordedAt
<1>1. ASSUME NEW s \in Sessions, InsertPreparing(s) PROVE Steps
  <2>1. \A t \in Sessions : Same(t)
    BY <1>1 DEF InsertPreparing, SetPhase, Goto
  <2> QED BY <1>q, <2>1
<1>2. ASSUME NEW s \in Sessions, SpawnFails(s) PROVE Steps
  <2>1. \A t \in Sessions : Same(t)
    BY <1>2 DEF SpawnFails, MarkCleaning, Goto
  <2> QED BY <1>q, <2>1
<1>3. ASSUME NEW s \in Sessions, Spawn(s) PROVE Steps
  <2>1. \A t \in Sessions : Same(t)
    BY <1>3 DEF Spawn, Goto, OwnInv, OwnAt
  <2> QED BY <1>q, <2>1
<1>4. ASSUME NEW s \in Sessions, RecordPrepared(s) PROVE Steps
  <2>1. /\ phase' = [phase EXCEPT ![s] = "prepared"]
        /\ evid' = [evid EXCEPT ![s] = TRUE]
        /\ phase[s] = "preparing" /\ sup' = sup
    BY <1>4 DEF RecordPrepared, SetPhase
  <2>2. Ledger!Record({s})
    BY <2>1 DEF Ledger!Record
  <2> QED BY <2>2 DEF Ledger!LedgerNext
<1>5. ASSUME NEW s \in Sessions, EvidenceFails(s) PROVE Steps
  <2>1. \A t \in Sessions : Same(t)
    BY <1>5 DEF EvidenceFails, Goto
  <2> QED BY <1>q, <2>1
<1>6. ASSUME NEW s \in Sessions, Reap(s) PROVE Steps
  <2>1. \A t \in Sessions : Same(t)
    BY <1>6 DEF Reap, MarkCleaning, Goto
  <2> QED BY <1>q, <2>1
<1>7. ASSUME NEW s \in Sessions, SendGrant(s) PROVE Steps
  <2>1. \A t \in Sessions : Same(t)
    BY <1>7 DEF SendGrant, MarkCleaning, Goto
  <2> QED BY <1>q, <2>1
<1>8. ASSUME NEW s \in Sessions, PrepareSucceeds(s) PROVE Steps
  <2>1. \A t \in Sessions : Same(t)
    BY <1>8 DEF PrepareSucceeds, Goto
  <2> QED BY <1>q, <2>1
<1>9. ASSUME NEW s \in Sessions, CommitActive(s) PROVE Steps
  <2>1. \A t \in Sessions : Same(t)
    BY <1>9 DEF CommitActive, SetPhase, Goto
  <2> QED BY <1>q, <2>1
<1>10. ASSUME NEW s \in Sessions, FailPreActive(s) PROVE Steps
  <2>1. \A t \in Sessions : Same(t)
    BY <1>10 DEF FailPreActive, MarkCleaning, Goto
  <2> QED BY <1>q, <2>1
<1>11. ASSUME NEW s \in Sessions, Close(s) PROVE Steps
  <2>1. \A t \in Sessions : Same(t)
    BY <1>11 DEF Close, StableOperation, Goto
  <2> QED BY <1>q, <2>1
<1>12. ASSUME NEW s \in Sessions, CloseReturns(s) PROVE Steps
  <2>1. \A t \in Sessions : Same(t)
    BY <1>12 DEF CloseReturns, Goto
  <2> QED BY <1>q, <2>1
<1>13. ASSUME NEW s \in Sessions, CloseTimesOut(s) PROVE Steps
  <2>1. \A t \in Sessions : Same(t)
    BY <1>13 DEF CloseTimesOut, Goto
  <2> QED BY <1>q, <2>1
<1>14. ASSUME NEW s \in Sessions, ObserveNaturalExit(s) PROVE Steps
  <2>1. \A t \in Sessions : Same(t)
    BY <1>14 DEF ObserveNaturalExit
  <2> QED BY <1>q, <2>1
<1>15. ASSUME NEW s \in Sessions, RecoverOne(s) PROVE Steps
  <2>1. \A t \in Sessions : Same(t)
    BY <1>15 DEF RecoverOne, Goto
  <2> QED BY <1>q, <2>1
<1>16. ASSUME NEW s \in Sessions, Migrate(s) PROVE Steps
  <2>1. \A t \in Sessions : Same(t)
    BY <1>16 DEF Migrate, SetPhase, Goto, Serves
  <2> QED BY <1>q, <2>1
<1>17. ASSUME NEW s \in Sessions, RecoverConnects(s) PROVE Steps
  <2>1. \A t \in Sessions : Same(t)
    BY <1>17 DEF RecoverConnects, Goto, Serves
  <2> QED BY <1>q, <2>1
<1>18. ASSUME NEW s \in Sessions, RecoverFails(s) PROVE Steps
  <2>1. \A t \in Sessions : Same(t)
    BY <1>18 DEF RecoverFails, Quarantine, Goto
  <2> QED BY <1>q, <2>1
<1>19. ASSUME NEW s \in Sessions, BindSocket(s) PROVE Steps
  <2>1. \A t \in Sessions : Same(t)
    BY <1>19 DEF BindSocket, SupKeepsLedger
  <2> QED BY <1>q, <2>1
<1>20. ASSUME NEW s \in Sessions, ReadGrant(s) PROVE Steps
  <2>1. CASE sup' = [sup EXCEPT ![s] = "running"]
    <3>1. sup[s] = "bound" /\ UNCHANGED <<phase, evid>> /\ RecordedAt(s)
      BY <1>20 DEF ReadGrant, SupKeepsLedger, OwnInv, OwnAt, Owned
    <3>2. Ledger!StartShell(s)
      BY <2>1, <3>1 DEF Ledger!StartShell
    <3> QED BY <3>2 DEF Ledger!LedgerNext
  <2>2. CASE sup' = [sup EXCEPT ![s] = "dead"]
    BY <1>20, <1>g, <2>2 DEF ReadGrant, SupKeepsLedger
  <2> QED BY <1>20, <2>1, <2>2 DEF ReadGrant
<1>21. ASSUME NEW s \in Sessions, ReadEof(s) PROVE Steps
  BY <1>21, <1>g DEF ReadEof, SupKeepsLedger
<1>22. ASSUME NEW s \in Sessions, PtyExits(s) PROVE Steps
  <2>1. \A t \in Sessions : Same(t)
    BY <1>22 DEF PtyExits, SupKeepsLedger
  <2> QED BY <1>q, <2>1
<1>23. ASSUME NEW s \in Sessions, SupKilled(s) PROVE Steps
  BY <1>23, <1>g DEF SupKilled, SupKeepsLedger
<1>24. ASSUME NEW s \in Sessions, ShutdownCompletes(s) PROVE Steps
  <2>1. \A t \in Sessions : Same(t)
    BY <1>24 DEF ShutdownCompletes, SupKeepsLedger
  <2> QED BY <1>q, <2>1
<1>25. ASSUME NEW s \in Sessions, ReconcileInterrupted(s) PROVE Steps
  <2>1. \A t \in Sessions : Same(t)
    BY <1>25 DEF ReconcileInterrupted, StableOperation, DeleteRow, ReconKeeps
  <2> QED BY <1>q, <2>1
<1>26. ASSUME NEW s \in Sessions, ReconPick(s) PROVE Steps
  <2>1. \A t \in Sessions : Same(t)
    BY <1>26 DEF ReconPick, ReconKeeps, ReconKeepsLedger
  <2> QED BY <1>q, <2>1
<1>27. ASSUME NEW s \in Sessions, FinalizeNaturalExit(s) PROVE Steps
  BY <1>27, <1>g DEF FinalizeNaturalExit, ReconKeepsLedger
<1>28. ASSUME NEW s \in Sessions, StillRunning(s) PROVE Steps
  <2>1. \A t \in Sessions : Same(t)
    BY <1>28 DEF StillRunning, ReconRests, ReconKeeps, ReconKeepsLedger
  <2> QED BY <1>q, <2>1
<1>29. ASSUME NEW s \in Sessions, MarkExited(s) PROVE Steps
  <2>1. \A t \in Sessions : Same(t)
    BY <1>29 DEF MarkExited, StableOperation, ReconRests, ReconKeeps
  <2> QED BY <1>q, <2>1
<1>30. ASSUME NEW s \in Sessions, AssignOperation(s) PROVE Steps
  <2>1. \A t \in Sessions : Same(t)
    BY <1>30 DEF AssignOperation, StableOperation, ReconRests, ReconKeeps
  <2> QED BY <1>q, <2>1
<1>31. ASSUME NEW s \in Sessions, CleanupClose(s) PROVE Steps
  <2>1. \A t \in Sessions : Same(t)
    BY <1>31 DEF CleanupClose, ReconGoto, ReconKeeps, ReconKeepsLedger, Serves
  <2> QED BY <1>q, <2>1
<1>32. ASSUME NEW s \in Sessions, FinalizeClose(s) PROVE Steps
  BY <1>32, <1>g DEF FinalizeClose, ReconKeepsLedger
<1>33. ASSUME NEW s \in Sessions, LegacyClose(s) PROVE Steps
  BY <1>33, <1>g DEF LegacyClose, ReconKeepsLedger
<1>34. ASSUME NEW s \in Sessions, CleanupFails(s) PROVE Steps
  <2>1. \A t \in Sessions : Same(t)
    BY <1>34 DEF CleanupFails, ReconGoto, ReconKeeps, ReconKeepsLedger
  <2> QED BY <1>q, <2>1
<1>35. ASSUME NEW s \in Sessions, ConfirmAbsent(s) PROVE Steps
  <2>1. sup[s] \in {"closing", "dead"} /\ sup' = sup
    BY <1>35 DEF ConfirmAbsent, OwnInv, OwnAt
  <2>2. CASE phase[s] = "cleaning"
    <3>1. phase' = [phase EXCEPT ![s] = "none"] /\ evid' = [evid EXCEPT ![s] = FALSE]
      BY <1>35, <2>2 DEF ConfirmAbsent, FinalizeClosed, DeleteRow
    <3>2. Ledger!Forget(s)
      BY <2>1, <3>1 DEF Ledger!Forget
    <3> QED BY <3>2 DEF Ledger!LedgerNext
  <2>3. CASE phase[s] # "cleaning"
    <3>1. \A t \in Sessions : Same(t)
      BY <1>35, <2>1, <2>3 DEF ConfirmAbsent, FinalizeClosed
    <3> QED BY <1>q, <3>1
  <2> QED BY <2>2, <2>3
<1>36. ASSUME NEW s \in Sessions, StillPresent(s) PROVE Steps
  <2>1. \A t \in Sessions : Same(t)
    BY <1>36 DEF StillPresent, ReconRests, ReconKeeps, ReconKeepsLedger
  <2> QED BY <1>q, <2>1
<1>37. CASE PersistState
  <2>1. \A t \in Sessions : Same(t)
    BY <1>37 DEF PersistState
  <2> QED BY <1>q, <2>1
<1>38. CASE HideClosed
  <2>1. \A t \in Sessions : Same(t)
    BY <1>38 DEF HideClosed
  <2> QED BY <1>q, <2>1
<1>39. CASE Start
  <2>1. \A t \in Sessions : Same(t)
    BY <1>39 DEF Start, Goto
  <2> QED BY <1>q, <2>1
<1>40. CASE Backfill
  <2> DEFINE usable == {s \in todo : phase[s] = "none" /\ projected[s] # "invalid"}
  <2>1. sup' = sup /\ usable \in SUBSET Sessions
    BY <1>40 DEF Backfill, TypeOK
  <2>2. \A s \in Sessions : RecordedAt(s)' <=> s \in usable \/ RecordedAt(s)
    <3> TAKE s \in Sessions
    <3>1. CASE s \in usable
      BY <1>40, <3>1 DEF Backfill
    <3>2. CASE s \notin usable /\ phase[s] = "none"
      BY <1>40, <3>2 DEF Backfill
    <3>3. CASE s \notin usable /\ phase[s] # "none"
      BY <1>40, <3>3 DEF Backfill
    <3> QED BY <3>1, <3>2, <3>3
  <2>3. PICK found : found = usable
    OBVIOUS
  <2>4. [s \in Sessions |-> RecordedAt(s)]'
           = [s \in Sessions |-> s \in found \/ [t \in Sessions |-> RecordedAt(t)][s]]
    <3>1. \A s \in Sessions : RecordedAt(s)' \in BOOLEAN /\ RecordedAt(s) \in BOOLEAN
      BY <1>t DEF RecordedAt
    <3> QED BY <2>2, <2>3, <3>1, Zenon
  <2>5. [s \in Sessions |-> ShellOf(s)]' = [s \in Sessions |-> ShellOf(s)]
    BY <2>1
  <2>6. found \in SUBSET Sessions /\ Ledger!Record(found)
    BY <2>1, <2>3, <2>4, <2>5 DEF Ledger!Record
  <2> QED BY <2>6 DEF Ledger!LedgerNext
<1>41. CASE RecoverDone
  <2>1. \A t \in Sessions : Same(t)
    BY <1>41 DEF RecoverDone, Goto
  <2> QED BY <1>q, <2>1
<1>42. CASE DaemonCrash
  <2>1. \A t \in Sessions : Same(t)
    BY <1>42 DEF DaemonCrash, Goto, ReconRests
  <2> QED BY <1>q, <2>1
<1>43. CASE UNCHANGED vars
  <2>1. \A t \in Sessions : Same(t)
    BY <1>43 DEF vars
  <2> QED BY <1>q, <2>1
<1> QED
  BY <1>1, <1>2, <1>3, <1>4, <1>5, <1>6, <1>7, <1>8, <1>9, <1>10, <1>11,
     <1>12, <1>13, <1>14, <1>15, <1>16, <1>17, <1>18, <1>19, <1>20,
     <1>21, <1>22, <1>23, <1>24, <1>25, <1>26, <1>27, <1>28, <1>29,
     <1>30, <1>31, <1>32, <1>33, <1>34, <1>35, <1>36, <1>37, <1>38,
     <1>39, <1>40, <1>41, <1>42, <1>43
  DEF Next, Create, Recover, Supervisor, Reconcile

(* The states a daemon can find at its first start. *)
LEMMA LedgerStart == Init => EvidenceInv /\ Ledger!LedgerInit
<1> SUFFICES ASSUME Init PROVE EvidenceInv /\ Ledger!LedgerInit
  OBVIOUS
<1>1. EvidenceInv
  BY DEF Init, EvidenceInv
<1>2. used \in SUBSET Legacy
  BY DEF Init
<1>3. [s \in Sessions |-> ShellOf(s)]
         = [s \in Sessions |-> IF s \in used THEN "alive" ELSE "none"]
  BY DEF Init, ShellOf
<1>4. [s \in Sessions |-> RecordedAt(s)] = [s \in Sessions |-> FALSE]
  BY DEF Init, RecordedAt
<1> QED BY <1>1, <1>2, <1>3, <1>4 DEF Ledger!LedgerInit

(* The ledger protocol implements its abstract specification: for any      *)
(* number of sessions, close operations and daemon restarts, a shell       *)
(* starts only on record, never again once it is over, and is forgotten    *)
(* only then.                                                              *)
THEOREM LedgerRefined == Spec => KeepsLedger
<1>1. Init => ProjectedInv
  BY SessionOwnershipAssumption DEF Init, ProjectedInv, ProjectedAt, Main, Recon
<1> QED
  BY <1>1, OwnCorrect, ProjectedStep, LedgerStart, EvidenceStep, LedgerStep, PTL
  DEF Spec, KeepsLedger, Ledger!LedgerSpec
=============================================================================
