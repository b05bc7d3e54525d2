------------------------- MODULE ClusterClientProofs -------------------------
(***************************************************************************)
(* Proofs about ClusterClient for any temperature limit and any number of  *)
(* package updates, faults and bad verdicts. That no job runs on a machine *)
(* that has to be measured first does not follow from the client's last    *)
(* step: it rests on where the need is remembered while the client is busy *)
(* with something else, in the database column, in the local copy, or in   *)
(* the age of the last control measurement, and the invariants below say   *)
(* which of the three holds it at each point.                              *)
(***************************************************************************)
EXTENDS ClusterClient, TLAPS

(* Since the last control workload started, no package changes unnoticed:  *)
(* until the client gets to the UPDATE or through the sleep of a failed    *)
(* maintenance, a control measurement is due, by the column or by age.     *)
ChangeIsRemembered ==
  /\ changed /\ "update" \notin forgotten =>
       flag \/ ~fresh \/ pc \in {"failed", "flagging"}
  /\ pc \in {"judging", "condemned", "clearing"} => ~changed

(* A measurement that is not known to be good makes another one due, unless *)
(* the client is about to judge it or is sitting it out.                   *)
VerdictIsRemembered ==
  /\ verdict # "ok" /\ "verdict" \notin forgotten =>
       flag \/ ~fresh \/ pc \in {"judging", "condemned"}
  /\ pc = "clearing" => verdict = "ok" \/ ~fresh

(* The local copy misses the column only where that cannot lead to a job:  *)
(* the client is gone, about to go, or at the measurement already, or one  *)
(* is due by age.                                                          *)
CopyIsCurrent ==
  flag => \/ wanted
          \/ ~fresh
          \/ pc \in {"down", "rebooting", "judging", "condemned", "clearing"}

(* A client that has not run maintenance since the last job is about to.   *)
MaintenanceIsDue ==
  maintained \/ pc \in {"down", "maintaining"} \/ (pc = "top" /\ due)

-----------------------------------------------------------------------------
(* Every step keeps the counters within their bounds.                      *)
LEMMA CountersStep == CountersOK /\ [Next]_vars => CountersOK'
<1>. USE BoundsAssumption DEF CountersOK, Event
<1>. SUFFICES ASSUME CountersOK, [Next]_vars
             PROVE  CountersOK'
  OBVIOUS
<1>1. CASE Maintenance
  BY <1>1 DEF Maintenance, MaintenanceUneventful, PackagesUpdated,
      MaintenanceFails, MaintenanceFailureSleptOff, FlagForRevalidation,
      Reboots, RebootIgnored
<1>2. CASE Control
  BY <1>2 DEF Control, StartControl, ControlFails, ControlCompletes,
      ControlPasses, ControlCondemns, CondemnationSleptOff, ClearFlag
<1>3. CASE Job
  BY <1>3 DEF Job, StartJob, JobEnds, TemperatureRetry, TemperatureGivesUp,
      JobError, JobEscapes
<1>4. CASE Start \/ ForcedMaintenance \/ Poll \/ BusySleptOff \/ Idle
  BY <1>4 DEF Start, ForcedMaintenance, Poll, BusySleptOff, Idle, NoJob,
      UptimeExceeded, IdleSleptOff
<1>5. CASE Elapse \/ Die \/ UNCHANGED vars
  BY <1>5 DEF Elapse, Die, vars
<1>. QED
  BY <1>1, <1>2, <1>3, <1>4, <1>5 DEF Next, Client

(* Every step keeps the other types.                                       *)
LEMMA TypeStep == TypeOK /\ [Next]_vars => TypeOK'
<1>. SUFFICES ASSUME TypeOK, [Next]_vars
             PROVE  TypeOK'
  OBVIOUS
<1>. CountersOK'
  BY CountersStep DEF TypeOK
<1>. USE DEF TypeOK, PCs, Statuses
<1>1. CASE Start
  BY <1>1 DEF Start, Goto
<1>2. CASE ForcedMaintenance
  BY <1>2 DEF ForcedMaintenance, SetStatus
<1>3. CASE Maintenance
  <2>1. CASE MaintenanceUneventful
    BY <2>1 DEF MaintenanceUneventful, SetStatus
  <2>2. CASE PackagesUpdated
    BY <2>2 DEF PackagesUpdated, Goto, SetStatus
  <2>3. CASE MaintenanceFails
    BY <2>3 DEF MaintenanceFails, Goto, SetStatus
  <2>4. CASE MaintenanceFailureSleptOff
    BY <2>4 DEF MaintenanceFailureSleptOff, SetStatusAndSleep
  <2>5. CASE FlagForRevalidation
    BY <2>5 DEF FlagForRevalidation, Goto, SetStatus
  <2>6. CASE Reboots
    BY <2>6 DEF Reboots, Goto
  <2>7. CASE RebootIgnored
    BY <2>7, ZenonT(60) DEF RebootIgnored
  <2>. QED
    BY <1>3, <2>1, <2>2, <2>3, <2>4, <2>5, <2>6, <2>7 DEF Maintenance
<1>4. CASE Poll
  BY <1>4 DEF Poll
<1>5. CASE BusySleptOff
  BY <1>5 DEF BusySleptOff, Goto
<1>6. CASE Control
  <2>1. CASE StartControl
    BY <2>1 DEF StartControl, SetStatus
  <2>2. CASE ControlFails
    BY <2>2 DEF ControlFails, Goto
  <2>3. CASE ControlCompletes
    BY <2>3 DEF ControlCompletes, Goto, SetStatus
  <2>4. CASE ControlPasses
    BY <2>4 DEF ControlPasses, Goto
  <2>5. CASE ControlCondemns
    BY <2>5 DEF ControlCondemns, Goto, SetStatus
  <2>6. CASE CondemnationSleptOff
    BY <2>6, ZenonT(60) DEF CondemnationSleptOff, Goto
  <2>7. CASE ClearFlag
    BY <2>7, ZenonT(60) DEF ClearFlag, Goto
  <2>. QED
    BY <1>6, <2>1, <2>2, <2>3, <2>4, <2>5, <2>6, <2>7 DEF Control
<1>7. CASE Job
  <2>1. CASE StartJob
    BY <2>1 DEF StartJob, Goto, SetStatus
  <2>2. CASE JobEnds
    BY <2>2 DEF JobEnds, Goto, SetStatus, FinallyMaintain
  <2>3. CASE TemperatureRetry
    BY <2>3 DEF TemperatureRetry, Goto, SetStatus, FinallyMaintain
  <2>4. CASE TemperatureGivesUp
    BY <2>4 DEF TemperatureGivesUp, Goto, SetStatus, FinallyMaintain
  <2>5. CASE JobError
    BY <2>5 DEF JobError, Goto, SetStatus, SetStatusAndSleep, FinallyMaintain
  <2>6. CASE JobEscapes
    BY <2>6 DEF JobEscapes, Goto, SetStatus, FinallyMaintain
  <2>. QED
    BY <1>7, <2>1, <2>2, <2>3, <2>4, <2>5, <2>6 DEF Job
<1>8. CASE Idle
  <2>1. CASE NoJob
    BY <2>1 DEF NoJob, Goto, SetStatus
  <2>2. CASE UptimeExceeded
    BY <2>2 DEF UptimeExceeded, Goto, SetStatus
  <2>3. CASE IdleSleptOff
    BY <2>3 DEF IdleSleptOff, Goto
  <2>. QED
    BY <1>8, <2>1, <2>2, <2>3 DEF Idle
<1>9. CASE Elapse
  <2>1. fresh' \in BOOLEAN /\ due' \in BOOLEAN /\ aptDue' \in BOOLEAN
    BY <1>9 DEF Elapse
  <2>. QED
    BY <1>9, <2>1 DEF Elapse
<1>10. CASE Die
  <2>1. forgotten' \subseteq {"update", "verdict"}
    BY <1>10 DEF Die, Forgets
  <2>2. aptDue' \in BOOLEAN /\ changed' \in BOOLEAN /\ maintained' \in BOOLEAN
    BY <1>10 DEF Die
  <2>. QED
    BY <1>10, <2>1, <2>2 DEF Die
<1>11. CASE UNCHANGED vars
  BY <1>11 DEF vars
<1>. QED
BY <1>1, <1>2, <1>3, <1>4, <1>5, <1>6, <1>7, <1>8, <1>9, <1>10, <1>11 DEF Next,
    Client

(* The client's state has its type in every reachable state.               *)
THEOREM TypeCorrect == Spec => []TypeOK
<1>1. Init => CountersOK
  BY BoundsAssumption DEF Init, CountersOK
<1>2. Init => TypeOK
  BY <1>1 DEF Init, TypeOK, PCs
<1>. QED
  BY <1>2, TypeStep, PTL DEF Spec

-----------------------------------------------------------------------------

(* No step loses sight of a package change.                                *)
LEMMA ChangeStep == TypeOK /\ ChangeIsRemembered /\ [Next]_vars => ChangeIsRemembered'
<1>. SUFFICES ASSUME TypeOK, ChangeIsRemembered, [Next]_vars
             PROVE  ChangeIsRemembered'
  OBVIOUS
<1>. USE DEF TypeOK, ChangeIsRemembered
<1>1. CASE Start
  BY <1>1 DEF Start, Goto
<1>2. CASE ForcedMaintenance
  BY <1>2 DEF ForcedMaintenance, SetStatus
<1>3. CASE Maintenance
  <2>1. CASE MaintenanceUneventful
    BY <2>1 DEF MaintenanceUneventful, SetStatus
  <2>2. CASE PackagesUpdated
    BY <2>2 DEF PackagesUpdated, Goto, SetStatus
  <2>3. CASE MaintenanceFails
    BY <2>3 DEF MaintenanceFails, Goto, SetStatus
  <2>4. CASE MaintenanceFailureSleptOff
    BY <2>4 DEF MaintenanceFailureSleptOff, SetStatusAndSleep
  <2>5. CASE FlagForRevalidation
    BY <2>5 DEF FlagForRevalidation, Goto, SetStatus
  <2>6. CASE Reboots
    BY <2>6 DEF Reboots, Goto
  <2>7. CASE RebootIgnored
    BY <2>7 DEF RebootIgnored
  <2>. QED
    BY <1>3, <2>1, <2>2, <2>3, <2>4, <2>5, <2>6, <2>7 DEF Maintenance
<1>4. CASE Poll
  BY <1>4 DEF Poll
<1>5. CASE BusySleptOff
  BY <1>5 DEF BusySleptOff, Goto
<1>6. CASE Control
  <2>1. CASE StartControl
    BY <2>1 DEF StartControl, SetStatus
  <2>2. CASE ControlFails
    BY <2>2 DEF ControlFails, Goto
  <2>3. CASE ControlCompletes
    BY <2>3 DEF ControlCompletes, Goto, SetStatus
  <2>4. CASE ControlPasses
    BY <2>4 DEF ControlPasses, Goto
  <2>5. CASE ControlCondemns
    BY <2>5 DEF ControlCondemns, Goto, SetStatus
  <2>6. CASE CondemnationSleptOff
    BY <2>6 DEF CondemnationSleptOff, Goto
  <2>7. CASE ClearFlag
    BY <2>7 DEF ClearFlag, Goto
  <2>. QED
    BY <1>6, <2>1, <2>2, <2>3, <2>4, <2>5, <2>6, <2>7 DEF Control
<1>7. CASE Job
  <2>1. CASE StartJob
    BY <2>1 DEF StartJob, Goto, SetStatus
  <2>2. CASE JobEnds
    BY <2>2 DEF JobEnds, Goto, SetStatus, FinallyMaintain
  <2>3. CASE TemperatureRetry
    BY <2>3 DEF TemperatureRetry, Goto, SetStatus, FinallyMaintain
  <2>4. CASE TemperatureGivesUp
    BY <2>4 DEF TemperatureGivesUp, Goto, SetStatus, FinallyMaintain
  <2>5. CASE JobError
    BY <2>5 DEF JobError, Goto, SetStatus, SetStatusAndSleep, FinallyMaintain
  <2>6. CASE JobEscapes
    BY <2>6 DEF JobEscapes, Goto, SetStatus, FinallyMaintain
  <2>. QED
    BY <1>7, <2>1, <2>2, <2>3, <2>4, <2>5, <2>6 DEF Job
<1>8. CASE Idle
  <2>1. CASE NoJob
    BY <2>1 DEF NoJob, Goto, SetStatus
  <2>2. CASE UptimeExceeded
    BY <2>2 DEF UptimeExceeded, Goto, SetStatus
  <2>3. CASE IdleSleptOff
    BY <2>3 DEF IdleSleptOff, Goto
  <2>. QED
    BY <1>8, <2>1, <2>2, <2>3 DEF Idle
<1>9. CASE Elapse
  BY <1>9 DEF Elapse
<1>10. CASE Die
  BY <1>10 DEF Die, Forgets
<1>11. CASE UNCHANGED vars
  BY <1>11 DEF vars
<1>. QED
BY <1>1, <1>2, <1>3, <1>4, <1>5, <1>6, <1>7, <1>8, <1>9, <1>10, <1>11 DEF Next,
    Client

(* No step loses sight of a measurement that was not found in order.       *)
LEMMA VerdictStep == TypeOK /\ VerdictIsRemembered /\ [Next]_vars => VerdictIsRemembered'
<1>. SUFFICES ASSUME TypeOK, VerdictIsRemembered, [Next]_vars
             PROVE  VerdictIsRemembered'
  OBVIOUS
<1>. USE DEF TypeOK, VerdictIsRemembered
<1>1. CASE Start
  BY <1>1 DEF Start, Goto
<1>2. CASE ForcedMaintenance
  BY <1>2 DEF ForcedMaintenance, SetStatus
<1>3. CASE Maintenance
  <2>1. CASE MaintenanceUneventful
    BY <2>1 DEF MaintenanceUneventful, SetStatus
  <2>2. CASE PackagesUpdated
    BY <2>2 DEF PackagesUpdated, Goto, SetStatus
  <2>3. CASE MaintenanceFails
    BY <2>3 DEF MaintenanceFails, Goto, SetStatus
  <2>4. CASE MaintenanceFailureSleptOff
    BY <2>4 DEF MaintenanceFailureSleptOff, SetStatusAndSleep
  <2>5. CASE FlagForRevalidation
    BY <2>5 DEF FlagForRevalidation, Goto, SetStatus
  <2>6. CASE Reboots
    BY <2>6 DEF Reboots, Goto
  <2>7. CASE RebootIgnored
    BY <2>7 DEF RebootIgnored
  <2>. QED
    BY <1>3, <2>1, <2>2, <2>3, <2>4, <2>5, <2>6, <2>7 DEF Maintenance
<1>4. CASE Poll
  BY <1>4 DEF Poll
<1>5. CASE BusySleptOff
  BY <1>5 DEF BusySleptOff, Goto
<1>6. CASE Control
  <2>1. CASE StartControl
    BY <2>1 DEF StartControl, SetStatus
  <2>2. CASE ControlFails
    BY <2>2 DEF ControlFails, Goto
  <2>3. CASE ControlCompletes
    BY <2>3 DEF ControlCompletes, Goto, SetStatus
  <2>4. CASE ControlPasses
    BY <2>4 DEF ControlPasses, Goto
  <2>5. CASE ControlCondemns
    BY <2>5 DEF ControlCondemns, Goto, SetStatus
  <2>6. CASE CondemnationSleptOff
    BY <2>6 DEF CondemnationSleptOff, Goto
  <2>7. CASE ClearFlag
    BY <2>7 DEF ClearFlag, Goto
  <2>. QED
    BY <1>6, <2>1, <2>2, <2>3, <2>4, <2>5, <2>6, <2>7 DEF Control
<1>7. CASE Job
  <2>1. CASE StartJob
    BY <2>1 DEF StartJob, Goto, SetStatus
  <2>2. CASE JobEnds
    BY <2>2 DEF JobEnds, Goto, SetStatus, FinallyMaintain
  <2>3. CASE TemperatureRetry
    BY <2>3 DEF TemperatureRetry, Goto, SetStatus, FinallyMaintain
  <2>4. CASE TemperatureGivesUp
    BY <2>4 DEF TemperatureGivesUp, Goto, SetStatus, FinallyMaintain
  <2>5. CASE JobError
    BY <2>5 DEF JobError, Goto, SetStatus, SetStatusAndSleep, FinallyMaintain
  <2>6. CASE JobEscapes
    BY <2>6 DEF JobEscapes, Goto, SetStatus, FinallyMaintain
  <2>. QED
    BY <1>7, <2>1, <2>2, <2>3, <2>4, <2>5, <2>6 DEF Job
<1>8. CASE Idle
  <2>1. CASE NoJob
    BY <2>1 DEF NoJob, Goto, SetStatus
  <2>2. CASE UptimeExceeded
    BY <2>2 DEF UptimeExceeded, Goto, SetStatus
  <2>3. CASE IdleSleptOff
    BY <2>3 DEF IdleSleptOff, Goto
  <2>. QED
    BY <1>8, <2>1, <2>2, <2>3 DEF Idle
<1>9. CASE Elapse
  BY <1>9 DEF Elapse
<1>10. CASE Die
  BY <1>10 DEF Die, Forgets
<1>11. CASE UNCHANGED vars
  BY <1>11 DEF vars
<1>. QED
BY <1>1, <1>2, <1>3, <1>4, <1>5, <1>6, <1>7, <1>8, <1>9, <1>10, <1>11 DEF Next,
    Client

(* The local copy stays as current as it has to be.                        *)
LEMMA CopyStep == TypeOK /\ CopyIsCurrent /\ [Next]_vars => CopyIsCurrent'
<1>. SUFFICES ASSUME TypeOK, CopyIsCurrent, [Next]_vars
             PROVE  CopyIsCurrent'
  OBVIOUS
<1>. USE DEF TypeOK, CopyIsCurrent
<1>1. CASE Start
  BY <1>1 DEF Start, Goto
<1>2. CASE ForcedMaintenance
  BY <1>2 DEF ForcedMaintenance, SetStatus
<1>3. CASE Maintenance
  <2>1. CASE MaintenanceUneventful
    BY <2>1 DEF MaintenanceUneventful, SetStatus
  <2>2. CASE PackagesUpdated
    BY <2>2 DEF PackagesUpdated, Goto, SetStatus
  <2>3. CASE MaintenanceFails
    BY <2>3 DEF MaintenanceFails, Goto, SetStatus
  <2>4. CASE MaintenanceFailureSleptOff
    BY <2>4 DEF MaintenanceFailureSleptOff, SetStatusAndSleep
  <2>5. CASE FlagForRevalidation
    BY <2>5 DEF FlagForRevalidation, Goto, SetStatus
  <2>6. CASE Reboots
    BY <2>6 DEF Reboots, Goto
  <2>7. CASE RebootIgnored
    BY <2>7 DEF RebootIgnored
  <2>. QED
    BY <1>3, <2>1, <2>2, <2>3, <2>4, <2>5, <2>6, <2>7 DEF Maintenance
<1>4. CASE Poll
  BY <1>4 DEF Poll
<1>5. CASE BusySleptOff
  BY <1>5 DEF BusySleptOff, Goto
<1>6. CASE Control
  <2>1. CASE StartControl
    BY <2>1 DEF StartControl, SetStatus, ControlNeeded
  <2>2. CASE ControlFails
    BY <2>2 DEF ControlFails, Goto
  <2>3. CASE ControlCompletes
    BY <2>3 DEF ControlCompletes, Goto, SetStatus
  <2>4. CASE ControlPasses
    BY <2>4 DEF ControlPasses, Goto
  <2>5. CASE ControlCondemns
    BY <2>5 DEF ControlCondemns, Goto, SetStatus
  <2>6. CASE CondemnationSleptOff
    BY <2>6 DEF CondemnationSleptOff, Goto
  <2>7. CASE ClearFlag
    BY <2>7 DEF ClearFlag, Goto
  <2>. QED
    BY <1>6, <2>1, <2>2, <2>3, <2>4, <2>5, <2>6, <2>7 DEF Control
<1>7. CASE Job
  <2>1. CASE StartJob
    BY <2>1 DEF StartJob, Goto, SetStatus
  <2>2. CASE JobEnds
    BY <2>2 DEF JobEnds, Goto, SetStatus, FinallyMaintain
  <2>3. CASE TemperatureRetry
    BY <2>3 DEF TemperatureRetry, Goto, SetStatus, FinallyMaintain
  <2>4. CASE TemperatureGivesUp
    BY <2>4 DEF TemperatureGivesUp, Goto, SetStatus, FinallyMaintain
  <2>5. CASE JobError
    BY <2>5 DEF JobError, Goto, SetStatus, SetStatusAndSleep, FinallyMaintain
  <2>6. CASE JobEscapes
    BY <2>6 DEF JobEscapes, Goto, SetStatus, FinallyMaintain
  <2>. QED
    BY <1>7, <2>1, <2>2, <2>3, <2>4, <2>5, <2>6 DEF Job
<1>8. CASE Idle
  <2>1. CASE NoJob
    BY <2>1 DEF NoJob, Goto, SetStatus
  <2>2. CASE UptimeExceeded
    BY <2>2 DEF UptimeExceeded, Goto, SetStatus
  <2>3. CASE IdleSleptOff
    BY <2>3 DEF IdleSleptOff, Goto
  <2>. QED
    BY <1>8, <2>1, <2>2, <2>3 DEF Idle
<1>9. CASE Elapse
  BY <1>9 DEF Elapse
<1>10. CASE Die
  BY <1>10 DEF Die
<1>11. CASE UNCHANGED vars
  BY <1>11 DEF vars
<1>. QED
BY <1>1, <1>2, <1>3, <1>4, <1>5, <1>6, <1>7, <1>8, <1>9, <1>10, <1>11 DEF Next,
    Client

(* Maintenance stays due until it has run.                                 *)
LEMMA MaintenanceStep == TypeOK /\ MaintenanceIsDue /\ [Next]_vars => MaintenanceIsDue'
<1>. SUFFICES ASSUME TypeOK, MaintenanceIsDue, [Next]_vars
             PROVE  MaintenanceIsDue'
  OBVIOUS
<1>. USE DEF TypeOK, MaintenanceIsDue
<1>1. CASE Start
  BY <1>1 DEF Start, Goto
<1>2. CASE ForcedMaintenance
  BY <1>2 DEF ForcedMaintenance, SetStatus
<1>3. CASE Maintenance
  <2>1. CASE MaintenanceUneventful
    BY <2>1 DEF MaintenanceUneventful, SetStatus
  <2>2. CASE PackagesUpdated
    BY <2>2 DEF PackagesUpdated, Goto, SetStatus
  <2>3. CASE MaintenanceFails
    BY <2>3 DEF MaintenanceFails, Goto, SetStatus
  <2>4. CASE MaintenanceFailureSleptOff
    BY <2>4 DEF MaintenanceFailureSleptOff, SetStatusAndSleep
  <2>5. CASE FlagForRevalidation
    BY <2>5 DEF FlagForRevalidation, Goto, SetStatus
  <2>6. CASE Reboots
    BY <2>6 DEF Reboots, Goto
  <2>7. CASE RebootIgnored
    BY <2>7 DEF RebootIgnored
  <2>. QED
    BY <1>3, <2>1, <2>2, <2>3, <2>4, <2>5, <2>6, <2>7 DEF Maintenance
<1>4. CASE Poll
  BY <1>4 DEF Poll
<1>5. CASE BusySleptOff
  BY <1>5 DEF BusySleptOff, Goto
<1>6. CASE Control
  <2>1. CASE StartControl
    BY <2>1 DEF StartControl, SetStatus
  <2>2. CASE ControlFails
    BY <2>2 DEF ControlFails, Goto
  <2>3. CASE ControlCompletes
    BY <2>3 DEF ControlCompletes, Goto, SetStatus
  <2>4. CASE ControlPasses
    BY <2>4 DEF ControlPasses, Goto
  <2>5. CASE ControlCondemns
    BY <2>5 DEF ControlCondemns, Goto, SetStatus
  <2>6. CASE CondemnationSleptOff
    BY <2>6 DEF CondemnationSleptOff, Goto
  <2>7. CASE ClearFlag
    BY <2>7 DEF ClearFlag, Goto
  <2>. QED
    BY <1>6, <2>1, <2>2, <2>3, <2>4, <2>5, <2>6, <2>7 DEF Control
<1>7. CASE Job
  <2>1. CASE StartJob
    BY <2>1 DEF StartJob, Goto, SetStatus
  <2>2. CASE JobEnds
    BY <2>2 DEF JobEnds, Goto, SetStatus, FinallyMaintain
  <2>3. CASE TemperatureRetry
    BY <2>3 DEF TemperatureRetry, Goto, SetStatus, FinallyMaintain
  <2>4. CASE TemperatureGivesUp
    BY <2>4 DEF TemperatureGivesUp, Goto, SetStatus, FinallyMaintain
  <2>5. CASE JobError
    BY <2>5 DEF JobError, Goto, SetStatus, SetStatusAndSleep, FinallyMaintain
  <2>6. CASE JobEscapes
    BY <2>6 DEF JobEscapes, Goto, SetStatus, FinallyMaintain
  <2>. QED
    BY <1>7, <2>1, <2>2, <2>3, <2>4, <2>5, <2>6 DEF Job
<1>8. CASE Idle
  <2>1. CASE NoJob
    BY <2>1 DEF NoJob, Goto, SetStatus
  <2>2. CASE UptimeExceeded
    BY <2>2 DEF UptimeExceeded, Goto, SetStatus
  <2>3. CASE IdleSleptOff
    BY <2>3 DEF IdleSleptOff, Goto
  <2>. QED
    BY <1>8, <2>1, <2>2, <2>3 DEF Idle
<1>9. CASE Elapse
  BY <1>9 DEF Elapse
<1>10. CASE Die
  BY <1>10 DEF Die
<1>11. CASE UNCHANGED vars
  BY <1>11 DEF vars
<1>. QED
BY <1>1, <1>2, <1>3, <1>4, <1>5, <1>6, <1>7, <1>8, <1>9, <1>10, <1>11 DEF Next,
    Client

(* Only StartJob lets a job run; while one runs, nothing is measured,      *)
(* updated or forgotten.                                                   *)
LEMMA JobStays ==
  ASSUME TypeOK, [Next]_vars, ~StartJob, pc' = "job"
  PROVE  pc = "job" /\ UNCHANGED <<changed, verdict, forgotten>>
<1>1. CASE Maintenance
  BY <1>1 DEF TypeOK, Maintenance, MaintenanceUneventful, PackagesUpdated,
      MaintenanceFails, MaintenanceFailureSleptOff, FlagForRevalidation,
      Reboots, RebootIgnored, Goto
<1>2. CASE Control
  BY <1>2 DEF Control, StartControl, ControlFails, ControlCompletes,
      ControlPasses, ControlCondemns, CondemnationSleptOff, ClearFlag, Goto
<1>3. CASE Job
  BY <1>3 DEF Job, JobEnds, TemperatureRetry, TemperatureGivesUp, JobError,
      JobEscapes, FinallyMaintain, Goto
<1>4. CASE Start \/ ForcedMaintenance \/ Poll \/ BusySleptOff \/ Idle
  BY <1>4 DEF Start, ForcedMaintenance, Poll, BusySleptOff, Idle, NoJob,
      UptimeExceeded, IdleSleptOff, Goto
<1>5. CASE Elapse \/ Die \/ UNCHANGED vars
  BY <1>5 DEF Elapse, Die, vars
<1>. QED
  BY <1>1, <1>2, <1>3, <1>4, <1>5 DEF Next, Client

-----------------------------------------------------------------------------
(* No job runs on packages no control workload has run on, unless a client *)
(* that knew of the change died.                                           *)
THEOREM JobsSeeRevalidatedMachines == Spec => []JobOnRevalidatedMachine
<1>. DEFINE Inv == ChangeIsRemembered /\ CopyIsCurrent /\ JobOnRevalidatedMachine
<1>1. Init => Inv
  BY DEF Init, ChangeIsRemembered, CopyIsCurrent, JobOnRevalidatedMachine
<1>2. TypeOK /\ Inv /\ [Next]_vars => Inv'
  <2>. SUFFICES ASSUME TypeOK, Inv, [Next]_vars
               PROVE  JobOnRevalidatedMachine'
    BY ChangeStep, CopyStep
  <2>1. CASE StartJob
    BY <2>1 DEF StartJob, Goto, ControlNeeded, CopyIsCurrent,
        ChangeIsRemembered, JobOnRevalidatedMachine
  <2>2. CASE ~StartJob /\ pc' = "job"
    BY <2>2, JobStays DEF JobOnRevalidatedMachine
  <2>3. CASE pc' # "job"
    BY <2>3 DEF JobOnRevalidatedMachine
  <2>. QED
    BY <2>1, <2>2, <2>3
<1>. QED
  BY <1>1, <1>2, TypeCorrect, PTL DEF Spec

(* No job runs unless the last control measurement was found in order, or  *)
(* a client died that was about to judge it or was sitting out a bad one.  *)
THEOREM JobsSeeValidatedMachines == Spec => []JobOnValidatedMachine
<1>. DEFINE Inv == VerdictIsRemembered /\ CopyIsCurrent /\ JobOnValidatedMachine
<1>1. Init => Inv
  BY DEF Init, VerdictIsRemembered, CopyIsCurrent, JobOnValidatedMachine
<1>2. TypeOK /\ Inv /\ [Next]_vars => Inv'
  <2>. SUFFICES ASSUME TypeOK, Inv, [Next]_vars
               PROVE  JobOnValidatedMachine'
    BY VerdictStep, CopyStep
  <2>1. CASE StartJob
    BY <2>1 DEF StartJob, Goto, ControlNeeded, CopyIsCurrent,
        VerdictIsRemembered, JobOnValidatedMachine
  <2>2. CASE ~StartJob /\ pc' = "job"
    BY <2>2, JobStays DEF JobOnValidatedMachine
  <2>3. CASE pc' # "job"
    BY <2>3 DEF JobOnValidatedMachine
  <2>. QED
    BY <2>1, <2>2, <2>3
<1>. QED
  BY <1>1, <1>2, TypeCorrect, PTL DEF Spec

(* Maintenance has run between any two jobs.                               *)
THEOREM JobsSeeMaintainedMachines == Spec => []MaintenanceBetweenJobs
<1>1. Init => MaintenanceIsDue
  BY DEF Init, MaintenanceIsDue
<1>2. MaintenanceIsDue => MaintenanceBetweenJobs
  BY DEF MaintenanceIsDue, MaintenanceBetweenJobs
<1>. QED
  BY <1>1, <1>2, MaintenanceStep, TypeCorrect, PTL DEF Spec

(* A job runs on a machine that was measured since it changed, found in    *)
(* order and maintained.                                                   *)
THEOREM JobsSeeSoundMachines == Spec => []JobOnSoundMachine
<1>1. JobOnRevalidatedMachine /\ JobOnValidatedMachine /\ MaintenanceBetweenJobs
        => JobOnSoundMachine
  BY DEF JobOnSoundMachine
<1> QED BY <1>1, JobsSeeRevalidatedMachines, JobsSeeValidatedMachines,
          JobsSeeMaintainedMachines, PTL

=============================================================================
