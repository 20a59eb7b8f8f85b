------------------------ MODULE EnableManager_proofs ------------------------
(***************************************************************************)
(* Proofs about EnableManager, for every set of axes, every division into  *)
(* batches and any number of calls, faults and failed switches.            *)
(*                                                                         *)
(* The type invariant is not inductive by itself: the batch index is only  *)
(* bounded because an inter-batch delay is never entered after the last    *)
(* batch (BatchLeft).                                                      *)
(***************************************************************************)
EXTENDS EnableManager, SequenceTheorems, TLAPS

BatchLeft == phase = "InterBatchDelay" => currentBatch < Len(Batches)

\* What every cycle of update() leaves alone.
UpdateFrame ==
  UNCHANGED <<active, restartRequired, switchInProgress, jtcDeactivateFailed,
              threadVars, status, cmVars, budget>>

-----------------------------------------------------------------------------
(* Results, words and moves of a thread.                                   *)

\* publishResult() fills a slot with a value of its type.
LEMMA PublishedType ==
  ASSUME NEW ok \in BOOLEAN, NEW stage \in Stage
  PROVE  Published(ok, stage) \in ResultSlot
BY DEF Published, ResultSlot

\* Writing one result slot keeps the slots well typed.
LEMMA ResultUpdate ==
  ASSUME TypeOK, NEW s \in Service, NEW r \in ResultSlot
  PROVE  [result EXCEPT ![s] = r] \in [Service -> ResultSlot]
BY DEF TypeOK

\* Clearing the ready flag of a slot keeps the slots well typed.
LEMMA ResultCleared ==
  ASSUME TypeOK, NEW s \in Service
  PROVE  [result EXCEPT ![s].ready = FALSE] \in [Service -> ResultSlot]
BY DEF TypeOK, ResultSlot

\* Setting or clearing a request flag keeps the flags Boolean.
LEMMA RequestUpdate ==
  ASSUME TypeOK, NEW s \in Service, NEW v \in BOOLEAN
  PROVE  [request EXCEPT ![s] = v] \in [Service -> BOOLEAN]
BY DEF TypeOK

\* Using up one environment event leaves a natural number of them.
LEMMA SpendType ==
  ASSUME TypeOK, NEW e \in Event, Spend(e)
  PROVE  budget' \in [Event -> Nat]
BY DEF TypeOK, Spend

\* A thread moves from control point to control point.
LEMMA GotoType ==
  ASSUME TypeOK, NEW t \in Thread, NEW from, NEW to \in Point, Goto(t, from, to)
  PROVE  pc' \in [Thread -> Point]
BY DEF TypeOK, Goto

\* Every word the cycles compute is a control word.
LEMMA WordTypes ==
  /\ \A s : QuickStopWord(s) \in ControlWord
  /\ \A s : DownwardWord(s) \in ControlWord
  /\ \A s : UpwardWord(s) \in ControlWord
  /\ \A a : EnablingWord(a) \in ControlWord
  /\ \A a : ResetWord(a) \in ControlWord
  /\ DisableVoltage \in ControlWord /\ EnableOperation \in ControlWord
BY DEF QuickStopWord, DownwardWord, UpwardWord, EnablingWord, ResetWord, ControlWord

-----------------------------------------------------------------------------
(* Types: the cycles of update().                                          *)

\* The cycles of the emergency keep the types.
LEMMA QuickStopTypes ==
  ASSUME TypeOK, BatchLeft, UpdateFrame
  PROVE  UpdateGroupStop \/ UpdateEmergencyQuickStop => TypeOK' /\ BatchLeft'
<1>1. ASSUME UpdateGroupStop PROVE TypeOK' /\ BatchLeft'
  BY <1>1 DEF TypeOK, BatchLeft, UpdateFrame, threadVars, cmVars, UpdateGroupStop, Phase,
     startEmergency, QuickStopWord, Owner, Stage, Deadline, ControlWord
<1>2. ASSUME UpdateEmergencyQuickStop PROVE TypeOK' /\ BatchLeft'
  BY <1>2 DEF TypeOK, BatchLeft, UpdateFrame, threadVars, cmVars,
     UpdateEmergencyQuickStop, Phase, QuickStopWord, startDownward, Deadline, ControlWord
<1> QED BY <1>1, <1>2

\* The start of a fault reset.
LEMMA BeginResetTypes ==
  ASSUME TypeOK, BeginReset
  PROVE  /\ request' \in [Service -> BOOLEAN] /\ resetTargets' \in SUBSET Axes
         /\ lastFailure' \in Stage /\ result' \in [Service -> ResultSlot]
         /\ phase' \in {"Idle", "ResetLow"} /\ owner' \in Owner
<1>1. request' \in [Service -> BOOLEAN]
  BY RequestUpdate DEF BeginReset, Service
<1>2. result' \in [Service -> ResultSlot]
  <2>1. Published(TRUE, "already_clear") \in ResultSlot
    BY PublishedType DEF Stage
  <2>2. [result EXCEPT !["reset"] = Published(TRUE, "already_clear")]
          \in [Service -> ResultSlot]
    BY <2>1, ResultUpdate DEF Service
  <2> QED BY <2>2 DEF BeginReset, TypeOK
<1>3. lastFailure' \in Stage /\ phase' \in {"Idle", "ResetLow"} /\ owner' \in Owner
  BY DEF BeginReset, TypeOK, Stage, Owner
<1>4. resetTargets' \in SUBSET Axes
  BY DEF BeginReset, FaultAxes
<1> QED BY <1>1, <1>2, <1>3, <1>4

\* The cycles of Idle and Failed keep the types.
LEMMA RestTypes ==
  ASSUME TypeOK, BatchLeft, UpdateFrame
  PROVE  \/ UpdateIdleEnable \/ UpdateIdleReset \/ UpdateIdleDisable
         \/ UpdateFailedDisable \/ UpdateFailedReset \/ UpdateRest
         => TypeOK' /\ BatchLeft'
<1>0. RestingCycle => controlWord' \in [Axes -> ControlWord]
  BY DEF RestingCycle, SetAllControlWords, ControlWord
<1>1. ASSUME UpdateIdleEnable PROVE TypeOK' /\ BatchLeft'
  <2>1. request' \in [Service -> BOOLEAN]
    BY <1>1, RequestUpdate DEF UpdateIdleEnable, Service
  <2>2. currentBatch' \in 1..Len(Batches)
    BY <1>1, BatchAssumption DEF UpdateIdleEnable
  <2>3. phase' = "Enabling" /\ phase' \in Phase /\ primaryFailure' \in Stage
    BY <1>1 DEF UpdateIdleEnable, Phase, Stage
  <2>4. /\ enablePreemptRequested' = FALSE /\ enableHardwareReady' = FALSE
        /\ deadline' \in Deadline
        /\ UNCHANGED <<owner, result, lastFailure, downwardStage, resetTargets,
                       jtcActivateFailedRequest, emergencyJtcDeactivateRequest,
                       interruptedOwner>>
    BY <1>1 DEF UpdateIdleEnable, RestingCycle, Deadline
  <2>5. controlWord' \in [Axes -> ControlWord]
    BY <1>0, <1>1 DEF UpdateIdleEnable
  <2> QED BY <2>1, <2>2, <2>3, <2>4, <2>5 DEF TypeOK, BatchLeft, UpdateFrame, threadVars,
          cmVars
<1>2. ASSUME UpdateIdleReset \/ UpdateFailedReset PROVE TypeOK' /\ BatchLeft'
  <2>1. BeginReset
    BY <1>2 DEF UpdateIdleReset, UpdateFailedReset
  <2> QED BY <1>0, <1>2, <2>1, BeginResetTypes DEF TypeOK, BatchLeft, UpdateFrame,
          threadVars, cmVars, UpdateIdleReset, UpdateFailedReset, RestingCycle, Phase
<1>3. ASSUME UpdateIdleDisable PROVE TypeOK' /\ BatchLeft'
  <2>1. request' \in [Service -> BOOLEAN]
    BY <1>3, RequestUpdate DEF UpdateIdleDisable, Service
  <2>2. result' \in [Service -> ResultSlot]
    <3>1. Published(TRUE, "already_disabled") \in ResultSlot
      BY PublishedType DEF Stage
    <3> QED BY <1>3, <3>1, ResultUpdate DEF UpdateIdleDisable, Service
  <2>3. lastFailure' \in Stage /\ owner' \in Owner
    BY <1>3 DEF UpdateIdleDisable, Stage, Owner
  <2>4. /\ controlWord' \in [Axes -> ControlWord] /\ phase' = phase
        /\ UNCHANGED <<enableHardwareReady, jtcActivateFailedRequest,
                       emergencyJtcDeactivateRequest, interruptedOwner, currentBatch,
                       downwardStage, deadline, enablePreemptRequested, primaryFailure,
                       resetTargets>>
    BY <1>0, <1>3 DEF UpdateIdleDisable, RestingCycle
  <2>5. BatchLeft'
    BY <2>4 DEF BatchLeft
  <2> QED BY ZenonT(60), <2>1, <2>2, <2>3, <2>4, <2>5 DEF TypeOK, UpdateFrame, threadVars,
          cmVars
<1>4. ASSUME UpdateFailedDisable PROVE TypeOK' /\ BatchLeft'
  <2>1. request' \in [Service -> BOOLEAN]
    BY <1>4, RequestUpdate DEF UpdateFailedDisable, Service
  <2> QED BY <1>0, <1>4, <2>1 DEF TypeOK, BatchLeft, UpdateFrame, threadVars, cmVars,
          UpdateFailedDisable, RestingCycle, startDownward, Phase, Deadline
<1>5. ASSUME UpdateRest PROVE TypeOK' /\ BatchLeft'
  BY <1>0, <1>5 DEF TypeOK, BatchLeft, UpdateFrame, threadVars, cmVars, UpdateRest,
     RestingCycle
<1> QED BY <1>1, <1>2, <1>3, <1>4, <1>5

-----------------------------------------------------------------------------
\* finishDownward() ends in Idle or Failed with well typed results.
LEMMA FinishTypes ==
  ASSUME TypeOK, NEW failure \in Stage,
         \/ FinishStartup(failure) \/ FinishDisabling(failure)
         \/ FinishRollback(failure) \/ FinishEmergency(failure)
  PROVE  phase' \in {"Idle", "Failed"} /\ result' \in [Service -> ResultSlot]
<1>1. CASE FinishStartup(failure)
  BY <1>1 DEF FinishStartup, TypeOK
<1>2. CASE FinishDisabling(failure)
  <2>1. DisableOutcome(failure) \in ResultSlot
    BY PublishedType DEF DisableOutcome, TypeOK, Stage
  <2> QED BY <1>2, <2>1, ResultUpdate DEF FinishDisabling, Service
<1>3. CASE FinishRollback(failure)
  <2>1. Published(FALSE, failure) \in ResultSlot
    BY PublishedType
  <2> QED BY <1>3, <2>1, ResultUpdate DEF FinishRollback, Service
<1>4. CASE FinishEmergency(failure)
  <2>1. Published(FALSE, failure) \in ResultSlot
    BY PublishedType
  <2>2. /\ [result EXCEPT !["enable"] = Published(FALSE, failure)]
             \in [Service -> ResultSlot]
        /\ [result EXCEPT !["disable"] = Published(FALSE, failure)]
             \in [Service -> ResultSlot]
    BY <2>1, ResultUpdate DEF Service
  <2>3. AnswerInterrupted(failure) \in [Service -> ResultSlot]
    BY <2>2 DEF AnswerInterrupted, TypeOK
  <2> QED BY <1>4, <2>3 DEF FinishEmergency
<1> QED BY <1>1, <1>2, <1>3, <1>4

\* The cycles of updateDownward() keep the types.
LEMMA DownwardTypes ==
  ASSUME TypeOK, BatchLeft, UpdateFrame
  PROVE  \/ UpdateDownwardAdvance \/ UpdateDownwardFinish
         \/ UpdateDownwardTimeout \/ UpdateDownwardHold
         => TypeOK' /\ BatchLeft'
<1>0. DownwardCycle => controlWord' \in [Axes -> ControlWord]
  BY WordTypes DEF DownwardCycle
<1>1. ASSUME UpdateDownwardAdvance PROVE TypeOK' /\ BatchLeft'
  BY <1>0, <1>1 DEF TypeOK, BatchLeft, UpdateFrame, threadVars, cmVars,
     UpdateDownwardAdvance, DownwardCycle, StageConfirmed, Deadline
<1>2. ASSUME UpdateDownwardFinish PROVE TypeOK' /\ BatchLeft'
  <2>1. phase' \in {"Idle", "Failed"} /\ result' \in [Service -> ResultSlot]
    BY <1>2, FinishTypes DEF UpdateDownwardFinish, TypeOK
  <2>2. lastFailure' \in Stage /\ owner' \in Owner
    BY <1>2 DEF UpdateDownwardFinish, FinishStartup, FinishDisabling, FinishRollback,
       TypeOK, Stage, Owner
  <2> QED BY <1>0, <1>2, <2>1, <2>2 DEF TypeOK, BatchLeft, UpdateFrame, threadVars,
          cmVars, UpdateDownwardFinish, DownwardCycle, Phase
<1>3. ASSUME UpdateDownwardTimeout PROVE TypeOK' /\ BatchLeft'
  <2>1. primaryFailure' \in Stage /\ lastFailure' \in Stage
    BY <1>3 DEF UpdateDownwardTimeout, TypeOK, Stage
  <2>2. \/ /\ phase' = "EmergencyQuickStop" /\ UNCHANGED <<owner, result>>
           /\ interruptedOwner' = owner /\ deadline' = "running"
           /\ emergencyJtcDeactivateRequest' = TRUE
        \/ /\ FinishEmergency(primaryFailure') /\ owner' = "None"
           /\ UNCHANGED <<emergencyJtcDeactivateRequest, deadline, interruptedOwner>>
    BY <1>3 DEF UpdateDownwardTimeout
  <2>3. phase' \in Phase /\ phase' # "InterBatchDelay" /\ owner' \in Owner
    BY <2>1, <2>2, FinishTypes DEF TypeOK, Phase, Owner
  <2>4. result' \in [Service -> ResultSlot]
    BY <2>1, <2>2, FinishTypes DEF TypeOK
  <2>5. /\ deadline' \in Deadline /\ interruptedOwner' \in Owner
        /\ emergencyJtcDeactivateRequest' \in BOOLEAN
    BY <2>2 DEF TypeOK, Deadline
  <2> QED BY <1>0, <1>3, <2>1, <2>3, <2>4, <2>5 DEF TypeOK, BatchLeft, UpdateFrame,
          threadVars, cmVars, UpdateDownwardTimeout, DownwardCycle
<1>4. ASSUME UpdateDownwardHold PROVE TypeOK' /\ BatchLeft'
  BY <1>0, <1>4 DEF TypeOK, BatchLeft, UpdateFrame, threadVars, cmVars,
     UpdateDownwardHold, DownwardCycle, Deadline
<1> QED BY <1>1, <1>2, <1>3, <1>4

-----------------------------------------------------------------------------
\* A disable that takes an enable over starts a descent with a well typed answer.
LEMMA HandOverTypes ==
  ASSUME TypeOK, NEW stage \in Stage, HandOverToDisable(stage)
  PROVE  /\ request' \in [Service -> BOOLEAN] /\ result' \in [Service -> ResultSlot]
         /\ owner' \in Owner /\ downwardStage' = 0 /\ deadline' \in Deadline
         /\ phase' = "Disabling"
<1>1. request' \in [Service -> BOOLEAN]
  BY RequestUpdate DEF HandOverToDisable, Service
<1>2. result' \in [Service -> ResultSlot]
  <2>1. Published(FALSE, stage) \in ResultSlot
    BY PublishedType
  <2> QED BY <2>1, ResultUpdate DEF HandOverToDisable, Service
<1> QED BY <1>1, <1>2 DEF HandOverToDisable, startDownward, Owner, Deadline

\* A failed batch starts a descent, for the enable or for the disable caller.
LEMMA FailBatchTypes ==
  ASSUME TypeOK, NEW stage \in Stage, FailBatch(stage)
  PROVE  /\ request' \in [Service -> BOOLEAN] /\ result' \in [Service -> ResultSlot]
         /\ owner' \in Owner /\ downwardStage' = 0 /\ deadline' \in Deadline
         /\ phase' \in {"Disabling", "Rollback"} /\ lastFailure' \in Stage
         /\ UNCHANGED enableHardwareReady
<1>1. CASE Preempting
  <2>1. HandOverToDisable(stage)
    BY <1>1 DEF FailBatch
  <2> QED BY <2>1, HandOverTypes DEF FailBatch
<1>2. CASE ~Preempting
  BY <1>2 DEF FailBatch, startDownward, TypeOK, Deadline
<1> QED BY <1>1, <1>2

\* What the cycles of updateEnable() share.
LEMMA EnableCycleTypes ==
  ASSUME TypeOK, EnableCycle
  PROVE  /\ enablePreemptRequested' \in BOOLEAN
         /\ UNCHANGED <<jtcActivateFailedRequest, resetTargets>>
BY DEF EnableCycle, Preempting, TypeOK, Service

\* What the cycles of the Enabling phase share.
LEMMA EnablingCycleTypes ==
  ASSUME TypeOK, EnablingCycle
  PROVE  /\ enablePreemptRequested' \in BOOLEAN /\ controlWord' \in [Axes -> ControlWord]
         /\ UNCHANGED <<jtcActivateFailedRequest, resetTargets, currentBatch,
                        emergencyJtcDeactivateRequest, interruptedOwner>>
BY EnableCycleTypes, WordTypes DEF EnablingCycle, NoEmergency

\* The cycles of updateEnable() keep the types: the batch index moves only when left.
LEMMA EnableTypes ==
  ASSUME TypeOK, BatchLeft, UpdateFrame
  PROVE  \/ UpdateEnableFault \/ UpdateInterBatchDelay
         \/ UpdateEnablingInvalid \/ UpdateEnablingTimeout
         \/ UpdateEnablingComplete \/ UpdateEnablingHold
         => TypeOK' /\ BatchLeft'
<1>1. ASSUME UpdateEnableFault PROVE TypeOK' /\ BatchLeft'
  <2>1. request' \in [Service -> BOOLEAN]
    BY <1>1, RequestUpdate DEF UpdateEnableFault, Service
  <2>2. /\ enablePreemptRequested' \in BOOLEAN
        /\ UNCHANGED <<jtcActivateFailedRequest, resetTargets>>
    BY <1>1, EnableCycleTypes DEF UpdateEnableFault
  <2>3. /\ primaryFailure' \in Stage /\ lastFailure' \in Stage /\ owner' \in Owner
        /\ interruptedOwner' \in Owner /\ emergencyJtcDeactivateRequest' \in BOOLEAN
    BY <1>1 DEF UpdateEnableFault, startEmergency, TypeOK, Stage, Owner
  <2>4. phase' = "EmergencyQuickStop" /\ phase' \in Phase /\ deadline' \in Deadline
    BY <1>1 DEF UpdateEnableFault, Phase, Deadline
  <2> QED BY <1>1, <2>1, <2>2, <2>3, <2>4 DEF TypeOK, BatchLeft, UpdateFrame, threadVars,
          cmVars, UpdateEnableFault
<1>2. ASSUME UpdateInterBatchDelay PROVE TypeOK' /\ BatchLeft'
  <2>0. /\ enablePreemptRequested' \in BOOLEAN
        /\ UNCHANGED <<jtcActivateFailedRequest, resetTargets>>
        /\ controlWord' \in [Axes -> ControlWord]
        /\ UNCHANGED <<emergencyJtcDeactivateRequest, interruptedOwner>>
        /\ UNCHANGED <<lastFailure, enableHardwareReady>>
    BY <1>2, EnableCycleTypes, WordTypes DEF UpdateInterBatchDelay, NoEmergency
  <2>1. CASE /\ HandOverToDisable("preempted_by_disable")
             /\ primaryFailure' = "success" /\ UNCHANGED currentBatch
    <3>1. "preempted_by_disable" \in Stage /\ primaryFailure' \in Stage
      BY <2>1 DEF Stage
    <3>2. /\ request' \in [Service -> BOOLEAN] /\ result' \in [Service -> ResultSlot]
          /\ owner' \in Owner /\ downwardStage' = 0 /\ deadline' \in Deadline
          /\ phase' = "Disabling"
      BY <2>1, <3>1, HandOverTypes
    <3> QED BY <2>0, <2>1, <3>1, <3>2 DEF TypeOK, BatchLeft, UpdateFrame, threadVars,
            cmVars, Phase
  <2>2. CASE /\ currentBatch' = currentBatch + 1 /\ deadline' = "running"
             /\ phase' = "Enabling"
             /\ UNCHANGED <<owner, request, result, downwardStage, primaryFailure>>
    <3>1. currentBatch' \in 1..Len(Batches)
      BY <1>2, <2>2, BatchAssumption DEF UpdateInterBatchDelay, TypeOK, BatchLeft
    <3> QED BY <2>0, <2>2, <3>1 DEF TypeOK, BatchLeft, UpdateFrame, threadVars, cmVars,
            Phase, Deadline
  <2>3. CASE UNCHANGED <<phase, owner, request, result, currentBatch, downwardStage,
                         deadline, primaryFailure>>
    BY <2>0, <2>3 DEF TypeOK, BatchLeft, UpdateFrame, threadVars, cmVars
  <2> QED BY <1>2, <2>1, <2>2, <2>3 DEF UpdateInterBatchDelay
<1>3. ASSUME UpdateEnablingInvalid \/ UpdateEnablingTimeout
      PROVE  TypeOK' /\ BatchLeft'
  <2>1. PICK stage \in Stage : FailBatch(stage)
    BY <1>3 DEF UpdateEnablingInvalid, UpdateEnablingTimeout, Stage
  <2>2. primaryFailure' \in Stage
    BY <1>3 DEF UpdateEnablingInvalid, UpdateEnablingTimeout, Stage
  <2>3. EnablingCycle
    BY <1>3 DEF UpdateEnablingInvalid, UpdateEnablingTimeout
  <2> QED BY <2>1, <2>2, <2>3, FailBatchTypes, EnablingCycleTypes DEF TypeOK, BatchLeft,
          UpdateFrame, threadVars, cmVars, Phase
<1>4. ASSUME UpdateEnablingComplete PROVE TypeOK' /\ BatchLeft'
  <2>0. EnablingCycle /\ UNCHANGED lastFailure
    BY <1>4 DEF UpdateEnablingComplete
  <2>1. CASE /\ HandOverToDisable("preempted_by_disable")
             /\ primaryFailure' = "success" /\ UNCHANGED enableHardwareReady
    <3>1. "preempted_by_disable" \in Stage /\ primaryFailure' \in Stage
      BY <2>1 DEF Stage
    <3>2. /\ request' \in [Service -> BOOLEAN] /\ result' \in [Service -> ResultSlot]
          /\ owner' \in Owner /\ downwardStage' = 0 /\ deadline' \in Deadline
          /\ phase' = "Disabling"
      BY <2>1, <3>1, HandOverTypes
    <3> QED BY <2>0, <2>1, <3>1, <3>2, EnablingCycleTypes DEF TypeOK, BatchLeft,
            UpdateFrame, threadVars, cmVars, Phase
  <2>2. CASE /\ enableHardwareReady' = TRUE /\ phase' = "JtcActivating"
             /\ UNCHANGED <<owner, request, result, downwardStage, deadline,
                            primaryFailure>>
    BY <2>0, <2>2, EnablingCycleTypes DEF TypeOK, BatchLeft, UpdateFrame, threadVars,
       cmVars, Phase
  <2>3. CASE /\ ~LastBatch /\ deadline' = "running" /\ phase' = "InterBatchDelay"
             /\ UNCHANGED <<owner, request, result, enableHardwareReady, downwardStage,
                            primaryFailure>>
    <3>1. currentBatch < Len(Batches)
      BY <2>3, BatchAssumption DEF LastBatch, TypeOK
    <3> QED BY <2>0, <2>3, <3>1, EnablingCycleTypes DEF TypeOK, BatchLeft, UpdateFrame,
            threadVars, cmVars, Phase, Deadline
  <2> QED BY <1>4, <2>1, <2>2, <2>3 DEF UpdateEnablingComplete
<1>5. ASSUME UpdateEnablingHold PROVE TypeOK' /\ BatchLeft'
  BY <1>5, EnablingCycleTypes DEF TypeOK, BatchLeft, UpdateFrame, threadVars, cmVars,
     UpdateEnablingHold
<1> QED BY <1>1, <1>2, <1>3, <1>4, <1>5

-----------------------------------------------------------------------------
\* The cycles with every axis on keep the types.
LEMMA PoweredTypes ==
  ASSUME TypeOK, BatchLeft, UpdateFrame
  PROVE  UpdateJtcActivateFailed \/ UpdatePoweredDisable \/ UpdatePoweredHold
         => TypeOK' /\ BatchLeft'
<1>1. ASSUME UpdateJtcActivateFailed PROVE TypeOK' /\ BatchLeft'
  <2>1. /\ phase' = "Rollback" /\ phase' \in Phase /\ deadline' \in Deadline
        /\ downwardStage' = 0
    BY <1>1 DEF UpdateJtcActivateFailed, startDownward, Phase, Deadline
  <2>2. primaryFailure' \in Stage /\ lastFailure' \in Stage
    BY <1>1 DEF UpdateJtcActivateFailed, Stage
  <2> QED BY <1>1, <2>1, <2>2 DEF TypeOK, BatchLeft, UpdateFrame, threadVars, cmVars,
          UpdateJtcActivateFailed, PoweredCycle
<1>2. ASSUME UpdatePoweredDisable PROVE TypeOK' /\ BatchLeft'
  <2>1. /\ phase' = "Disabling" /\ phase' \in Phase /\ deadline' \in Deadline
        /\ downwardStage' = 0
    BY <1>2 DEF UpdatePoweredDisable, startDownward, Phase, Deadline
  <2>2. request' \in [Service -> BOOLEAN]
    BY <1>2, RequestUpdate DEF UpdatePoweredDisable, Service
  <2>3. controlWord' \in [Axes -> ControlWord]
    BY <1>2, WordTypes DEF UpdatePoweredDisable, SetAllControlWords
  <2> QED BY <1>2, <2>1, <2>2, <2>3 DEF TypeOK, BatchLeft, UpdateFrame, threadVars,
          cmVars, UpdatePoweredDisable, PoweredCycle
<1>3. ASSUME UpdatePoweredHold PROVE TypeOK' /\ BatchLeft'
  <2>1. controlWord' \in [Axes -> ControlWord]
    BY <1>3, WordTypes DEF UpdatePoweredHold, SetAllControlWords
  <2> QED BY <1>3, <2>1 DEF TypeOK, BatchLeft, UpdateFrame, threadVars, cmVars,
          UpdatePoweredHold, PoweredCycle
<1> QED BY <1>1, <1>2, <1>3

\* The cycles of updateReset() keep the types.
LEMMA ResetTypes ==
  ASSUME TypeOK, BatchLeft, UpdateFrame
  PROVE  UpdateResetPreempted \/ UpdateResetLow \/ UpdateResetHigh
         => TypeOK' /\ BatchLeft'
<1>1. ASSUME UpdateResetPreempted PROVE TypeOK' /\ BatchLeft'
  <2>1. /\ phase' = "Disabling" /\ phase' \in Phase /\ deadline' \in Deadline
        /\ downwardStage' = 0
    BY <1>1 DEF UpdateResetPreempted, startDownward, Phase, Deadline
  <2>2. request' \in [Service -> BOOLEAN]
    BY <1>1, RequestUpdate DEF UpdateResetPreempted, Service
  <2>3. result' \in [Service -> ResultSlot]
    <3>1. Published(FALSE, "preempted_by_disable") \in ResultSlot
      BY PublishedType DEF Stage
    <3> QED BY <1>1, <3>1, ResultUpdate DEF UpdateResetPreempted, Service
  <2>4. /\ controlWord' \in [Axes -> ControlWord]
        /\ owner' \in Owner /\ primaryFailure' \in Stage
    BY <1>1, WordTypes DEF UpdateResetPreempted, SetAllControlWords, Owner, Stage
  <2>5. UNCHANGED <<enableHardwareReady, jtcActivateFailedRequest,
                    emergencyJtcDeactivateRequest, currentBatch, enablePreemptRequested,
                    interruptedOwner, resetTargets, lastFailure>>
    BY <1>1 DEF UpdateResetPreempted, ResetCycle
  <2> QED BY <2>1, <2>2, <2>3, <2>4, <2>5 DEF TypeOK, BatchLeft, UpdateFrame, threadVars,
          cmVars
<1>2. ASSUME UpdateResetLow PROVE TypeOK' /\ BatchLeft'
  <2>1. /\ controlWord' \in [Axes -> ControlWord]
        /\ phase' = "ResetHigh" /\ phase' \in Phase /\ deadline' \in Deadline
    BY <1>2, WordTypes DEF UpdateResetLow, SetAllControlWords, Phase, Deadline
  <2> QED BY <1>2, <2>1 DEF TypeOK, BatchLeft, UpdateFrame, threadVars, cmVars,
          UpdateResetLow, ResetCycle
<1>3. ASSUME UpdateResetHigh PROVE TypeOK' /\ BatchLeft'
  <2>1. controlWord' \in [Axes -> ControlWord]
    BY <1>3, WordTypes DEF UpdateResetHigh
  <2>2. ASSUME NEW ok \in BOOLEAN, NEW stage \in Stage, NEW p \in {"Idle", "Failed"},
               EndReset(ok, stage, p)
        PROVE  /\ result' \in [Service -> ResultSlot] /\ lastFailure' \in Stage
               /\ phase' \in {"Idle", "Failed"} /\ owner' \in Owner
    <3>1. Published(ok, stage) \in ResultSlot
      BY PublishedType
    <3>2. result' \in [Service -> ResultSlot]
      BY <2>2, <3>1, ResultUpdate DEF EndReset, Service
    <3> QED BY <2>2, <3>2 DEF EndReset, Owner
  <2>3. /\ result' \in [Service -> ResultSlot] /\ lastFailure' \in Stage
        /\ phase' \in {"Idle", "Failed", "ResetHigh"} /\ owner' \in Owner
    BY <1>3, <2>2 DEF UpdateResetHigh, TypeOK, Stage
  <2> QED BY <1>3, <2>1, <2>3 DEF TypeOK, BatchLeft, UpdateFrame, threadVars, cmVars,
          UpdateResetHigh, ResetCycle, Phase
<1> QED BY <1>1, <1>2, <1>3

\* One cycle of update() keeps the types.
LEMMA UpdateTypes ==
  ASSUME TypeOK, BatchLeft, Update
  PROVE  TypeOK' /\ BatchLeft'
<1>1. UpdateFrame
  BY DEF Update, UpdateFrame
<1> QED BY <1>1, QuickStopTypes, RestTypes, DownwardTypes, EnableTypes, PoweredTypes,
        ResetTypes DEF Update

\* Activation and deactivation keep the types.
LEMMA LifecycleTypes ==
  ASSUME TypeOK, BatchLeft
  PROVE  OnActivate \/ OnDeactivate => TypeOK' /\ BatchLeft'
<1>1. ASSUME OnActivate PROVE TypeOK' /\ BatchLeft'
  <2>1. /\ request' \in [Service -> BOOLEAN] /\ controlWord' \in [Axes -> ControlWord]
        /\ currentBatch' \in 1..Len(Batches)
    BY <1>1, WordTypes, BatchAssumption DEF OnActivate, SetAllControlWords
  <2>2. /\ phase' = "StartupSanitizing" /\ phase' \in Phase /\ deadline' \in Deadline
        /\ owner' \in Owner /\ primaryFailure' \in Stage /\ lastFailure' \in Stage
    BY <1>1 DEF OnActivate, Phase, Deadline, Owner, Stage
  <2>3. /\ enableHardwareReady' = FALSE /\ jtcActivateFailedRequest' = FALSE
        /\ emergencyJtcDeactivateRequest' = FALSE /\ restartRequired' = FALSE
        /\ jtcDeactivateFailed' = FALSE /\ enablePreemptRequested' = FALSE
        /\ active' = TRUE /\ downwardStage' = 0
        /\ UNCHANGED <<result, switchInProgress, interruptedOwner, resetTargets, threadVars,
                       status, cmVars, budget>>
    BY <1>1 DEF OnActivate
  <2> QED BY <2>1, <2>2, <2>3 DEF TypeOK, BatchLeft, threadVars, cmVars
<1>2. ASSUME OnDeactivate PROVE TypeOK' /\ BatchLeft'
  <2>1. controlWord' \in [Axes -> ControlWord] /\ budget' \in [Event -> Nat]
    BY <1>2, WordTypes, SpendType DEF OnDeactivate, SetAllControlWords, Event
  <2>2. phase' = "Inactive" /\ phase' \in Phase /\ owner' \in Owner
    BY <1>2 DEF OnDeactivate, Phase, Owner
  <2> QED BY ZenonT(60), <1>2, <2>1, <2>2 DEF TypeOK, BatchLeft, OnDeactivate,
          flagVars, rtVars, threadVars, cmVars
<1> QED BY <1>1, <1>2

-----------------------------------------------------------------------------
(* Types: the callbacks, the controller manager, the drives and the clock. *)

\* A step that moves one thread and leaves everything else to itself.
LEMMA MoveTypes ==
  ASSUME TypeOK, BatchLeft, pc' \in [Thread -> Point], budget' \in [Event -> Nat],
         UNCHANGED <<rtView, serverVars, flagVars, seenPhase, cmVars>>
  PROVE  TypeOK' /\ BatchLeft'
BY DEF TypeOK, BatchLeft, rtView, rtVars, serverVars, flagVars, cmVars

\* A service call keeps the types.
LEMMA CallTypes ==
  ASSUME TypeOK, BatchLeft
  PROVE  Calls => TypeOK' /\ BatchLeft'
<1>1. ASSUME EnableCall \/ ResetCall PROVE TypeOK' /\ BatchLeft'
  <2>1. budget' \in [Event -> Nat]
    BY <1>1, SpendType DEF EnableCall, ResetCall, Event, Service
  <2>2. pc' \in [Thread -> Point]
    BY <1>1 DEF EnableCall, ResetCall, Goto, TypeOK, Point
  <2> QED BY <1>1, <2>1, <2>2, MoveTypes DEF EnableCall, ResetCall
<1>2. ASSUME DisableCall PROVE TypeOK' /\ BatchLeft'
  <2>1. budget' \in [Event -> Nat]
    BY <1>2, SpendType DEF DisableCall, Event, Service
  <2>2. pc' \in [Thread -> Point] /\ seenPhase' \in Phase
    BY <1>2 DEF DisableCall, Goto, TypeOK, Point
  <2> QED BY <1>2, <2>1, <2>2 DEF TypeOK, BatchLeft, DisableCall, rtView, rtVars,
          serverVars, flagVars, cmVars
<1> QED BY <1>1, <1>2 DEF Calls

\* The steps of handleEnable() outside switchJtc() keep the types.
LEMMA EnableStepTypes ==
  ASSUME TypeOK, BatchLeft
  PROVE  \/ EnableAdmit \/ EnableAcquire \/ EnableArm \/ EnableWait
         \/ EnableSwitchOk \/ EnableCommit \/ EnablePublish \/ EnableRelease
         \/ EnableSwitchAmbiguous \/ EnableFailCheck \/ EnableFailSet
         => TypeOK' /\ BatchLeft'
<1>1. ASSUME EnableAdmit \/ EnableWait \/ EnableSwitchOk \/ EnableFailCheck
      PROVE  TypeOK' /\ BatchLeft'
  <2>1. pc' \in [Thread -> Point]
    BY <1>1 DEF EnableAdmit, EnableWait, EnableSwitchOk, EnableFailCheck, Goto, TypeOK,
       Point, SwitchPoint
  <2>2. budget' \in [Event -> Nat]
    BY <1>1 DEF EnableAdmit, EnableWait, EnableSwitchOk, EnableFailCheck, TypeOK
  <2> QED BY <1>1, <2>1, <2>2, MoveTypes
          DEF EnableAdmit, EnableWait, EnableSwitchOk, EnableFailCheck
<1>2. ASSUME EnableAcquire \/ EnableRelease PROVE TypeOK' /\ BatchLeft'
  <2>1. pc' \in [Thread -> Point] /\ owner' \in Owner
    BY <1>2 DEF EnableAcquire, EnableRelease, Goto, TypeOK, Point, Owner
  <2> QED BY <1>2, <2>1 DEF TypeOK, BatchLeft, EnableAcquire, EnableRelease, rtView,
          rtVars, flagVars, cmVars
<1>3. ASSUME EnableArm PROVE TypeOK' /\ BatchLeft'
  <2>1. pc' \in [Thread -> Point]
    BY <1>3 DEF EnableArm, Goto, TypeOK, Point
  <2>2. result' \in [Service -> ResultSlot] /\ request' \in [Service -> BOOLEAN]
    BY <1>3, ResultCleared, RequestUpdate DEF EnableArm, Service
  <2>3. /\ enableHardwareReady' = FALSE
        /\ UNCHANGED <<rtView, phase, owner, lastFailure, jtcActivateFailedRequest,
                       emergencyJtcDeactivateRequest, restartRequired, switchInProgress,
                       jtcDeactivateFailed, seenPhase, cmVars, budget>>
    BY <1>3 DEF EnableArm
  <2> QED BY ZenonT(60), <2>1, <2>2, <2>3 DEF TypeOK, BatchLeft, rtView, rtVars, cmVars
<1>4. ASSUME EnableCommit PROVE TypeOK' /\ BatchLeft'
  <2>1. pc' \in [Thread -> Point]
    BY <1>4 DEF EnableCommit, Goto, TypeOK, Point
  <2>2. phase' = "Enabled" /\ phase' \in Phase /\ lastFailure' \in Stage
    BY <1>4 DEF EnableCommit, Phase, Stage
  <2> QED BY <1>4, <2>1, <2>2 DEF TypeOK, BatchLeft, EnableCommit, rtView, rtVars,
          flagVars, cmVars
<1>5. ASSUME EnablePublish PROVE TypeOK' /\ BatchLeft'
  <2>1. pc' \in [Thread -> Point]
    BY <1>5 DEF EnablePublish, Goto, TypeOK, Point
  <2>2. result' \in [Service -> ResultSlot]
    <3>1. Published(TRUE, "success") \in ResultSlot
      BY PublishedType DEF Stage
    <3> QED BY <1>5, <3>1, ResultUpdate DEF EnablePublish, Service
  <2>3. UNCHANGED <<rtView, phase, owner, request, lastFailure, flagVars, seenPhase,
                    cmVars, budget>>
    BY <1>5 DEF EnablePublish
  <2> QED BY <2>1, <2>2, <2>3 DEF TypeOK, BatchLeft, rtView, rtVars, flagVars, cmVars
<1>6. ASSUME EnableSwitchAmbiguous PROVE TypeOK' /\ BatchLeft'
  <2>1. pc' \in [Thread -> Point]
    BY <1>6 DEF EnableSwitchAmbiguous, Goto, TypeOK, Point
  <2> QED BY <1>6, <2>1 DEF TypeOK, BatchLeft, EnableSwitchAmbiguous, rtView, rtVars,
          serverVars, cmVars
<1>7. ASSUME EnableFailSet PROVE TypeOK' /\ BatchLeft'
  <2>1. pc' \in [Thread -> Point]
    BY <1>7 DEF EnableFailSet, Goto, TypeOK, Point
  <2> QED BY <1>7, <2>1 DEF TypeOK, BatchLeft, EnableFailSet, rtView, rtVars,
          serverVars, cmVars
<1> QED BY <1>1, <1>2, <1>3, <1>4, <1>5, <1>6, <1>7

\* The steps of handleDisable() outside switchJtc() keep the types.
LEMMA DisableStepTypes ==
  ASSUME TypeOK, BatchLeft
  PROVE  DisableAcquire \/ DisableArm \/ DisableSwitchFailed \/ DisableRequest
         => TypeOK' /\ BatchLeft'
<1>1. ASSUME DisableAcquire PROVE TypeOK' /\ BatchLeft'
  <2>1. pc' \in [Thread -> Point] /\ owner' \in Owner
    BY <1>1 DEF DisableAcquire, Goto, TypeOK, Point, Owner
  <2>2. seenPhase' \in Phase
    BY <1>1 DEF DisableAcquire, TypeOK, Phase
  <2> QED BY <1>1, <2>1, <2>2 DEF TypeOK, BatchLeft, DisableAcquire, rtView, rtVars,
          flagVars, cmVars
<1>2. ASSUME DisableArm PROVE TypeOK' /\ BatchLeft'
  <2>1. pc' \in [Thread -> Point]
    BY <1>2 DEF DisableArm, Goto, TypeOK, Point, SwitchPoint
  <2>2. result' \in [Service -> ResultSlot] /\ request' \in [Service -> BOOLEAN]
    BY <1>2, ResultCleared, RequestUpdate DEF DisableArm, Service, TypeOK
  <2>3. /\ phase' \in {phase, "JtcDeactivating"} /\ phase' \in Phase
        /\ seenPhase' \in Phase
    BY <1>2 DEF DisableArm, TypeOK, Phase
  <2>4. /\ jtcDeactivateFailed' = FALSE
        /\ UNCHANGED <<rtView, owner, lastFailure, enableHardwareReady,
                       jtcActivateFailedRequest, emergencyJtcDeactivateRequest,
                       restartRequired, switchInProgress, cmVars, budget>>
    BY <1>2 DEF DisableArm
  <2>5. BatchLeft'
    BY <2>3, <2>4 DEF BatchLeft, rtView, rtVars
  <2> QED BY ZenonT(60), <2>1, <2>2, <2>3, <2>4, <2>5 DEF TypeOK, rtView, rtVars, cmVars
<1>3. ASSUME DisableSwitchFailed PROVE TypeOK' /\ BatchLeft'
  <2>1. pc' \in [Thread -> Point] /\ lastFailure' \in Stage
    BY <1>3 DEF DisableSwitchFailed, Goto, TypeOK, Point, Stage
  <2> QED BY <1>3, <2>1 DEF TypeOK, BatchLeft, DisableSwitchFailed, rtView, rtVars,
          cmVars
<1>4. ASSUME DisableRequest PROVE TypeOK' /\ BatchLeft'
  <2>1. pc' \in [Thread -> Point]
    BY <1>4 DEF DisableRequest, Goto, TypeOK, Point
  <2>2. request' \in [Service -> BOOLEAN]
    BY <1>4, RequestUpdate DEF DisableRequest, Service
  <2> QED BY <1>4, <2>1, <2>2 DEF TypeOK, BatchLeft, DisableRequest, rtView, rtVars,
          flagVars, cmVars
<1> QED BY <1>1, <1>2, <1>3, <1>4

\* The steps of handleResetFault() keep the types.
LEMMA ResetStepTypes ==
  ASSUME TypeOK, BatchLeft
  PROVE  ResetAcquire \/ ResetArm => TypeOK' /\ BatchLeft'
<1>1. ASSUME ResetAcquire PROVE TypeOK' /\ BatchLeft'
  <2>1. pc' \in [Thread -> Point] /\ owner' \in Owner
    BY <1>1 DEF ResetAcquire, Goto, TypeOK, Point, Owner
  <2> QED BY <1>1, <2>1 DEF TypeOK, BatchLeft, ResetAcquire, rtView, rtVars, flagVars,
          cmVars
<1>2. ASSUME ResetArm PROVE TypeOK' /\ BatchLeft'
  <2>1. pc' \in [Thread -> Point]
    BY <1>2 DEF ResetArm, Goto, TypeOK, Point
  <2>2. result' \in [Service -> ResultSlot] /\ request' \in [Service -> BOOLEAN]
    BY <1>2, ResultCleared, RequestUpdate DEF ResetArm, Service
  <2> QED BY <1>2, <2>1, <2>2 DEF TypeOK, BatchLeft, ResetArm, rtView, rtVars, flagVars,
          cmVars
<1> QED BY <1>1, <1>2

\* waitForResult() keeps the types.
LEMMA WaitTypes ==
  ASSUME TypeOK, BatchLeft, NEW s \in Service
  PROVE  WaitForResult(s) \/ ServiceTimeout(s) => TypeOK' /\ BatchLeft'
<1>1. ASSUME WaitForResult(s) \/ ServiceTimeout(s) PROVE TypeOK' /\ BatchLeft'
  <2>1. pc' \in [Thread -> Point]
    BY <1>1 DEF WaitForResult, ServiceTimeout, Goto, TypeOK, Point, Thread
  <2>2. budget' \in [Event -> Nat]
    BY <1>1, SpendType DEF WaitForResult, ServiceTimeout, TypeOK, Event
  <2>3. UNCHANGED <<rtView, serverVars, flagVars, seenPhase, cmVars>>
    BY <1>1 DEF WaitForResult, ServiceTimeout
  <2> QED BY <2>1, <2>2, <2>3, MoveTypes
<1> QED BY <1>1

\* The worker timer keeps the types.
LEMMA WorkerStepTypes ==
  ASSUME TypeOK, BatchLeft
  PROVE  WorkerTake \/ WorkerOverlap \/ WorkerDone => TypeOK' /\ BatchLeft'
<1>1. ASSUME WorkerTake PROVE TypeOK' /\ BatchLeft'
  <2>1. pc' \in [Thread -> Point]
    BY <1>1 DEF WorkerTake, Goto, TypeOK, Point, SwitchPoint
  <2> QED BY ZenonT(60), <1>1, <2>1 DEF TypeOK, BatchLeft, WorkerTake, rtView,
          rtVars, serverVars, cmVars
<1>2. ASSUME WorkerOverlap PROVE TypeOK' /\ BatchLeft'
  BY <1>2 DEF TypeOK, BatchLeft, WorkerOverlap, rtView, rtVars, serverVars, threadVars,
     cmVars
<1>3. ASSUME WorkerDone PROVE TypeOK' /\ BatchLeft'
  <2>1. pc' \in [Thread -> Point]
    BY <1>3 DEF WorkerDone, Goto, TypeOK, Point
  <2>2. restartRequired' \in BOOLEAN
    BY <1>3 DEF WorkerDone
  <2> QED BY <1>3, <2>1, <2>2 DEF TypeOK, BatchLeft, WorkerDone, rtView, rtVars,
          serverVars, cmVars
<1> QED BY <1>1, <1>2, <1>3

-----------------------------------------------------------------------------
\* A thread's switch request, and one whose caller has given up.
LEMMA SwitchRequestType ==
  /\ \A t \in Thread :
       [by |-> t, activate |-> (t = "enable"), live |-> TRUE] \in SwitchRequest
  /\ \A r \in SwitchRequest : [r EXCEPT !.live = FALSE] \in SwitchRequest
BY DEF SwitchRequest

\* The queue of switch requests after a timeout.
LEMMA TimedOutQueue ==
  ASSUME TypeOK
  PROVE  [i \in DOMAIN cmQueue |-> [cmQueue[i] EXCEPT !.live = FALSE]]
           \in Seq(SwitchRequest)
<1>1. DOMAIN cmQueue = 1..Len(cmQueue) /\ Len(cmQueue) \in Nat
  BY DEF TypeOK
<1>2. \A i \in 1..Len(cmQueue) : [cmQueue[i] EXCEPT !.live = FALSE] \in SwitchRequest
  BY ElementOfSeq, SwitchRequestType DEF TypeOK
<1> QED BY <1>1, <1>2

\* switchJtc() keeps the types.
LEMMA SwitchTypes ==
  ASSUME TypeOK, BatchLeft, NEW t \in Thread
  PROVE  SwitchBegin(t) \/ SwitchAbsent(t) \/ SwitchTimeout(t) => TypeOK' /\ BatchLeft'
<1>1. ASSUME SwitchBegin(t) PROVE TypeOK' /\ BatchLeft'
  <2>1. pc' \in [Thread -> Point]
    BY <1>1 DEF SwitchBegin, Goto, TypeOK, Point, SwitchPoint
  <2>2. cmQueue' \in Seq(SwitchRequest)
    <3> DEFINE r == [by |-> t, activate |-> (t = "enable"), live |-> TRUE]
    <3>1. r \in SwitchRequest
      BY SwitchRequestType
    <3>2. cmQueue' = cmQueue \/ cmQueue' = Append(cmQueue, r)
      BY <1>1 DEF SwitchBegin
    <3>3. cmQueue \in Seq(SwitchRequest)
      BY DEF TypeOK
    <3> HIDE DEF r
    <3>4. Append(cmQueue, r) \in Seq(SwitchRequest)
      BY <3>1, <3>3, AppendProperties
    <3> QED BY <3>2, <3>3, <3>4
  <2>3. switchInProgress' \in BOOLEAN
    BY <1>1 DEF SwitchBegin, TypeOK
  <2>4. UNCHANGED <<rtView, serverVars, enableHardwareReady, jtcActivateFailedRequest,
                    emergencyJtcDeactivateRequest, restartRequired, jtcDeactivateFailed,
                    seenPhase, jtc, budget>>
    BY <1>1 DEF SwitchBegin
  <2> QED BY <2>1, <2>2, <2>3, <2>4 DEF TypeOK, BatchLeft, rtView, rtVars, serverVars
<1>2. ASSUME SwitchAbsent(t) PROVE TypeOK' /\ BatchLeft'
  <2>1. pc' \in [Thread -> Point]
    BY <1>2 DEF SwitchAbsent, Goto, TypeOK, Point, SwitchPoint
  <2>2. budget' \in [Event -> Nat]
    BY <1>2, SpendType DEF SwitchAbsent, Event
  <2> QED BY <1>2, <2>1, <2>2, MoveTypes DEF SwitchAbsent
<1>3. ASSUME SwitchTimeout(t) PROVE TypeOK' /\ BatchLeft'
  <2>1. pc' \in [Thread -> Point]
    BY <1>3 DEF SwitchTimeout, Goto, TypeOK, Point, SwitchPoint
  <2>2. budget' \in [Event -> Nat]
    BY <1>3, SpendType DEF SwitchTimeout, Event
  <2>3. cmQueue' \in Seq(SwitchRequest) /\ switchInProgress' \in BOOLEAN
    BY <1>3, TimedOutQueue DEF SwitchTimeout
  <2>4. UNCHANGED <<rtView, serverVars, enableHardwareReady, jtcActivateFailedRequest,
                    emergencyJtcDeactivateRequest, restartRequired, jtcDeactivateFailed,
                    seenPhase, jtc>>
    BY <1>3 DEF SwitchTimeout
  <2> QED BY <2>1, <2>2, <2>3, <2>4 DEF TypeOK, BatchLeft, rtView, rtVars, serverVars
<1> QED BY <1>1, <1>2, <1>3

\* The controller manager keeps the types.
LEMMA CmSwitchTypes ==
  ASSUME TypeOK, BatchLeft, NEW ok \in BOOLEAN, CmSwitch(ok)
  PROVE  TypeOK' /\ BatchLeft'
<1>1. pc' \in [Thread -> Point] /\ switchInProgress' \in BOOLEAN
  BY DEF CmSwitch, TypeOK, Point, SwitchPoint
<1>2. cmQueue' \in Seq(SwitchRequest) /\ jtc' \in {"inactive", "active"}
  BY DEF CmSwitch, TypeOK
<1>3. budget' \in [Event -> Nat]
  BY SpendType DEF CmSwitch, Event, TypeOK
<1>4. UNCHANGED <<rtView, serverVars, enableHardwareReady, jtcActivateFailedRequest,
                  emergencyJtcDeactivateRequest, restartRequired, jtcDeactivateFailed,
                  seenPhase>>
  BY DEF CmSwitch
<1> QED BY <1>1, <1>2, <1>3, <1>4 DEF TypeOK, BatchLeft, rtView, rtVars, serverVars

\* The drives and the clock keep the types.
LEMMA EnvironmentTypes ==
  ASSUME TypeOK, BatchLeft
  PROVE  Drives \/ DeadlineExpires => TypeOK' /\ BatchLeft'
<1>1. ASSUME NEW a \in Axes, DriveStep(a) PROVE TypeOK' /\ BatchLeft'
  <2>1. DriveNext(a, status[a], controlWord[a]) \in DriveState
    BY DEF DriveNext, RestState, DriveState, TypeOK
  <2> QED BY <1>1, <2>1 DEF TypeOK, BatchLeft, DriveStep, serverVars, flagVars, rtVars,
          threadVars, cmVars
<1>2. ASSUME NEW a \in Axes, DriveUpset(a) PROVE TypeOK' /\ BatchLeft'
  <2>1. status' \in [Axes -> DriveState]
    BY <1>2, StatusAssumption DEF DriveUpset, TypeOK
  <2>2. budget' \in [Event -> Nat]
    BY <1>2, SpendType DEF DriveUpset, Event
  <2> QED BY <1>2, <2>1, <2>2 DEF TypeOK, BatchLeft, DriveUpset, serverVars, flagVars,
          rtVars, threadVars, cmVars
<1>3. ASSUME DeadlineExpires PROVE TypeOK' /\ BatchLeft'
  BY <1>3 DEF TypeOK, BatchLeft, DeadlineExpires, serverVars, flagVars, threadVars,
     cmVars, Deadline
<1> QED BY <1>1, <1>2, <1>3 DEF Drives

-----------------------------------------------------------------------------
\* The types and the bound on the batch index are an inductive invariant.
LEMMA TypesInductive ==
  TypeOK /\ BatchLeft /\ [Next]_vars => TypeOK' /\ BatchLeft'
<1> SUFFICES ASSUME TypeOK, BatchLeft, [Next]_vars PROVE TypeOK' /\ BatchLeft'
  OBVIOUS
<1>1. CASE Update
  BY <1>1, UpdateTypes
<1>2. CASE OnActivate \/ OnDeactivate
  BY <1>2, LifecycleTypes
<1>3. CASE EnableStep
  BY <1>3, EnableStepTypes, SwitchTypes, WaitTypes DEF EnableStep, Thread, Service
<1>4. CASE DisableStep
  BY <1>4, DisableStepTypes, SwitchTypes, WaitTypes DEF DisableStep, Thread, Service
<1>5. CASE ResetStep
  BY <1>5, ResetStepTypes, WaitTypes DEF ResetStep, Service
<1>6. CASE WorkerStep
  BY <1>6, WorkerStepTypes, SwitchTypes DEF WorkerStep, Thread
<1>7. CASE Calls
  BY <1>7, CallTypes
<1>8. CASE CmAnswer
  BY <1>8, CmSwitchTypes DEF CmAnswer
<1>9. CASE Mishap
  BY <1>9, SwitchTypes, WaitTypes DEF Mishap
<1>10. CASE Drives \/ DeadlineExpires
  BY <1>10, EnvironmentTypes
<1>11. CASE UNCHANGED vars
  BY <1>11 DEF TypeOK, BatchLeft, vars, serverVars, flagVars, rtVars, threadVars, cmVars
<1> QED BY <1>1, <1>2, <1>3, <1>4, <1>5, <1>6, <1>7, <1>8, <1>9, <1>10, <1>11 DEF Next

\* The types hold at the start.
LEMMA InitTypes == Init => TypeOK /\ BatchLeft
<1> SUFFICES ASSUME Init PROVE TypeOK /\ BatchLeft
  OBVIOUS
<1>1. result \in [Service -> ResultSlot]
  BY DEF Init, ResultSlot, Stage
<1>2. status \in [Axes -> DriveState] /\ controlWord \in [Axes -> ControlWord]
  BY StatusAssumption DEF Init, ControlWord
<1>3. currentBatch \in 1..Len(Batches) /\ budget \in [Event -> Nat]
  BY BatchAssumption, LimitAssumption DEF Init
<1>4. /\ phase \in Phase /\ phase # "InterBatchDelay" /\ seenPhase \in Phase
      /\ owner \in Owner /\ interruptedOwner \in Owner /\ deadline \in Deadline
  BY DEF Init, Phase, Owner, Deadline
<1>5. lastFailure \in Stage /\ primaryFailure \in Stage
  BY DEF Init, Stage
<1>6. pc \in [Thread -> Point] /\ cmQueue \in Seq(SwitchRequest)
  BY DEF Init, Point
<1> QED BY <1>1, <1>2, <1>3, <1>4, <1>5, <1>6 DEF Init, TypeOK, BatchLeft

\* The inductive invariant behind TypeCorrect, for the proofs that build on it.
LEMMA TypeInvariant == Spec => [](TypeOK /\ BatchLeft)
BY InitTypes, TypesInductive, PTL DEF Spec

\* Types: whatever the callers, the drives and the controller manager do, every atomic
\* of the manager keeps its range, the batch index and the descent stage included.
THEOREM TypeCorrect == Spec => []TypeOK
BY TypeInvariant, PTL

=============================================================================
