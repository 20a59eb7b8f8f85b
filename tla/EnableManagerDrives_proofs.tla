--------------------- MODULE EnableManagerDrives_proofs ---------------------
(***************************************************************************)
(* What the enable manager may command the drives: proofs of               *)
(* ReadyMeansPowered, IdleAfterConfirmation, IdleIsVoltageFree,            *)
(* FaultResetDiscipline, LaterBatchesHeldOff and EmergencyRunsOut.         *)
(*                                                                         *)
(* Control words are written by update() and the lifecycle callbacks only, *)
(* while a service callback may store a phase at any moment: so the        *)
(* argument splits into what a callback can do to the phase                *)
(* (CallbackFrame) and one case per cycle of update().                     *)
(***************************************************************************)
EXTENDS EnableManager_proofs

\* Steps of the callbacks, the controller manager, the drives and the clock.
OtherStep ==
  \/ EnableStep \/ DisableStep \/ ResetStep \/ WorkerStep
  \/ Calls \/ CmAnswer \/ Mishap \/ Drives \/ DeadlineExpires

\* They write no control word, leave the batch index and the lifecycle alone, and the only
\* phases they store are Enabled and JtcDeactivating.
QuietStep ==
  /\ UNCHANGED <<active, controlWord, currentBatch>>
  /\ phase' \in {phase, "Enabled", "JtcDeactivating"}

\* No callback, switch, drive or clock step is more than a quiet step.
LEMMA CallbackFrame == OtherStep => QuietStep
<1>1. Calls => QuietStep
  BY DEF Calls, EnableCall, DisableCall, ResetCall, QuietStep, rtView, rtVars, serverVars
<1>2. EnableStep => QuietStep
  <2>1. EnableAdmit \/ EnableAcquire \/ EnableArm \/ EnableWait => QuietStep
    BY DEF EnableAdmit, EnableAcquire, EnableArm, EnableWait, QuietStep, rtView,
       rtVars, serverVars
  <2>2. EnableSwitchOk \/ EnableCommit \/ EnablePublish \/ EnableRelease => QuietStep
    BY DEF EnableSwitchOk, EnableCommit, EnablePublish, EnableRelease, QuietStep, rtView,
       rtVars, serverVars
  <2>3. EnableSwitchAmbiguous \/ EnableFailCheck \/ EnableFailSet => QuietStep
    BY DEF EnableSwitchAmbiguous, EnableFailCheck, EnableFailSet, QuietStep, rtView,
       rtVars, serverVars
  <2>4. SwitchBegin("enable") \/ WaitForResult("enable") => QuietStep
    BY DEF SwitchBegin, WaitForResult, QuietStep, rtView, rtVars, serverVars
  <2> QED BY <2>1, <2>2, <2>3, <2>4 DEF EnableStep
<1>3. DisableStep => QuietStep
  BY DEF DisableStep, DisableAcquire, DisableArm, DisableSwitchFailed, DisableRequest,
     SwitchBegin, WaitForResult, QuietStep, rtView, rtVars, serverVars
<1>4. ResetStep => QuietStep
  BY DEF ResetStep, ResetAcquire, ResetArm, WaitForResult, QuietStep, rtView, rtVars, serverVars
<1>5. WorkerStep => QuietStep
  BY DEF WorkerStep, WorkerTake, WorkerOverlap, WorkerDone, SwitchBegin, QuietStep,
     rtView, rtVars, serverVars
<1>6. CmAnswer => QuietStep
  BY DEF CmAnswer, CmSwitch, QuietStep, rtView, rtVars, serverVars
<1>7. Mishap => QuietStep
  BY DEF Mishap, ServiceTimeout, SwitchAbsent, SwitchTimeout, QuietStep, rtView,
     rtVars, serverVars
<1>8. Drives \/ DeadlineExpires => QuietStep
  BY DEF Drives, DriveStep, DriveUpset, DeadlineExpires, QuietStep, rtVars, serverVars
<1> QED BY <1>1, <1>2, <1>3, <1>4, <1>5, <1>6, <1>7, <1>8 DEF OtherStep

\* The cases of a step.
LEMMA StepCases ==
  [Next]_vars => Update \/ OnActivate \/ OnDeactivate \/ QuietStep
<1>1. UNCHANGED vars => QuietStep
  BY DEF vars, rtVars, serverVars, QuietStep
<1> QED BY <1>1, CallbackFrame DEF Next, OtherStep

-----------------------------------------------------------------------------
(* The JTC is asked for once every axis is on.                             *)

\* Batches cover the axes: at the last one nothing is left over.
LEMMA LastBatchCovers ==
  ASSUME TypeOK, LastBatch
  PROVE  Axes = PreviousAxes \cup CurrentAxes
<1>1. currentBatch = Len(Batches) /\ Len(Batches) \in Nat /\ Len(Batches) > 0
  BY BatchAssumption DEF LastBatch
<1>2. 1..Len(Batches) = 1..(currentBatch - 1) \cup {currentBatch}
  BY <1>1
<1> QED BY <1>1, <1>2, BatchAssumption DEF PreviousAxes, CurrentAxes

\* A cycle that enters JtcActivating completes the last batch.
LEMMA ReadyStep ==
  ASSUME Update, phase # "JtcActivating", phase' = "JtcActivating"
  PROVE  InvalidAxes = {} /\ BatchComplete /\ LastBatch
<1>1. UpdateEnablingComplete
  <2>1. ~UpdateGroupStop /\ ~UpdateEmergencyQuickStop
    BY DEF UpdateGroupStop, UpdateEmergencyQuickStop, startDownward
  <2>2. /\ ~UpdateDownwardAdvance /\ ~UpdateDownwardFinish
        /\ ~UpdateDownwardTimeout /\ ~UpdateDownwardHold
    BY DEF UpdateDownwardAdvance, UpdateDownwardFinish, UpdateDownwardTimeout,
       UpdateDownwardHold, FinishStartup, FinishDisabling, FinishRollback,
       FinishEmergency
  <2>3. /\ ~UpdateIdleEnable /\ ~UpdateIdleReset /\ ~UpdateIdleDisable
        /\ ~UpdateFailedDisable /\ ~UpdateFailedReset /\ ~UpdateRest
    BY DEF UpdateIdleEnable, UpdateIdleReset, UpdateIdleDisable, UpdateFailedDisable,
       UpdateFailedReset, UpdateRest, BeginReset, startDownward
  <2>4. /\ ~UpdateEnableFault /\ ~UpdateInterBatchDelay /\ ~UpdateEnablingInvalid
        /\ ~UpdateEnablingTimeout /\ ~UpdateEnablingHold
    BY DEF UpdateEnableFault, UpdateInterBatchDelay, UpdateEnablingInvalid,
       UpdateEnablingTimeout, UpdateEnablingHold, FailBatch, HandOverToDisable,
       startDownward
  <2>5. ~UpdateJtcActivateFailed /\ ~UpdatePoweredDisable /\ ~UpdatePoweredHold
    BY DEF UpdateJtcActivateFailed, UpdatePoweredDisable, UpdatePoweredHold,
       startDownward
  <2>6. ~UpdateResetPreempted /\ ~UpdateResetLow /\ ~UpdateResetHigh
    BY DEF UpdateResetPreempted, UpdateResetLow, UpdateResetHigh, EndReset,
       startDownward
  <2> QED BY <2>1, <2>2, <2>3, <2>4, <2>5, <2>6 DEF Update
<1> QED BY <1>1 DEF UpdateEnablingComplete, HandOverToDisable, startDownward

\* ReadyMeansPowered: with any number of batches, overlapping ones included, the JTC is
\* only asked for when every axis of every batch reports Operation Enabled.
THEOREM JtcWaitsForAllAxes == Spec => ReadyMeansPowered
<1>1. ASSUME TypeOK, [Next]_vars
      PROVE  [(phase # "JtcActivating" /\ phase' = "JtcActivating") =>
               \A a \in Axes : status[a] = "OperationEnabled"]_vars
  <2> SUFFICES ASSUME phase # "JtcActivating", phase' = "JtcActivating"
               PROVE  \A a \in Axes : status[a] = "OperationEnabled"
    OBVIOUS
  <2>1. Update
    BY <1>1, StepCases DEF OnActivate, OnDeactivate, QuietStep
  <2>2. InvalidAxes = {} /\ BatchComplete /\ LastBatch
    BY <2>1, ReadyStep
  <2>3. Axes = PreviousAxes \cup CurrentAxes
    BY <1>1, <2>2, LastBatchCovers
  <2> QED BY <2>2, <2>3 DEF InvalidAxes, BatchComplete
<1> QED BY <1>1, TypeInvariant, PTL DEF Spec, ReadyMeansPowered

-----------------------------------------------------------------------------
(* Idle is only entered from confirmed drives, and with Disable Voltage.   *)

\* Without faulted axes, TerminalOrFault is the full confirmation.
LEMMA NoFaultConfirmed == FaultAxes = {} /\ TerminalOrFault => AllConfirmed
BY DEF FaultAxes, TerminalOrFault, AllConfirmed

\* The three kinds of cycle that end in Idle.
IdleEntry ==
  \/ phase \in {"Idle", "Failed"} /\ RestingCycle
  \/ DownwardCycle /\ AllConfirmed
  \/ UpdateResetHigh /\ ResetPending = {}

\* A cycle of update() that ends in Idle is one of the three.
LEMMA CyclesToIdle ==
  ASSUME Update, phase' = "Idle"
  PROVE  IdleEntry
<1>1. ~UpdateGroupStop /\ ~UpdateEmergencyQuickStop
  BY DEF UpdateGroupStop, UpdateEmergencyQuickStop, startDownward
<1>2. ~UpdateDownwardAdvance /\ ~UpdateDownwardHold
  BY DEF UpdateDownwardAdvance, UpdateDownwardHold, DownwardCycle, DownwardPhase
<1>3. ASSUME UpdateDownwardFinish PROVE IdleEntry
  <2>1. TerminalOrFault
    BY <1>3 DEF UpdateDownwardFinish, DescentComplete
  <2>2. FaultAxes = {}
    <3>1. CASE FinishStartup(primaryFailure)
      BY <3>1 DEF FinishStartup
    <3>2. CASE FinishDisabling(primaryFailure)
      <4>1. DisableOutcome(primaryFailure).ok
        BY <3>2 DEF FinishDisabling
      <4>2. FaultAxes # {} => ~DisableOutcome(primaryFailure).ok
        BY DEF DisableOutcome, Published
      <4> QED BY <4>1, <4>2
    <3>3. CASE FinishRollback(primaryFailure)
      BY <3>3 DEF FinishRollback
    <3>4. CASE FinishEmergency(primaryFailure)
      BY <3>4 DEF FinishEmergency
    <3> QED BY <1>3, <3>1, <3>2, <3>3, <3>4 DEF UpdateDownwardFinish
  <2> QED BY <1>3, <2>1, <2>2, NoFaultConfirmed DEF UpdateDownwardFinish, IdleEntry
<1>4. ASSUME UpdateDownwardTimeout PROVE IdleEntry
  <2>1. FaultAxes = {} /\ TerminalOrFault /\ DownwardCycle
    BY <1>4 DEF UpdateDownwardTimeout, FinishEmergency
  <2> QED BY <2>1, NoFaultConfirmed DEF IdleEntry
<1>5. ASSUME \/ UpdateIdleEnable \/ UpdateIdleReset \/ UpdateIdleDisable
             \/ UpdateFailedDisable \/ UpdateFailedReset \/ UpdateRest
      PROVE  IdleEntry
  BY <1>5 DEF UpdateIdleEnable, UpdateIdleReset, UpdateIdleDisable, UpdateFailedDisable,
     UpdateFailedReset, UpdateRest, IdleEntry
<1>6. /\ ~UpdateEnableFault /\ ~UpdateInterBatchDelay /\ ~UpdateEnablingInvalid
      /\ ~UpdateEnablingTimeout /\ ~UpdateEnablingComplete /\ ~UpdateEnablingHold
  BY DEF UpdateEnableFault, UpdateInterBatchDelay, UpdateEnablingInvalid,
     UpdateEnablingTimeout, UpdateEnablingComplete, UpdateEnablingHold, FailBatch,
     HandOverToDisable, startDownward, EnablingCycle
<1>7. ~UpdateJtcActivateFailed /\ ~UpdatePoweredDisable /\ ~UpdatePoweredHold
  BY DEF UpdateJtcActivateFailed, UpdatePoweredDisable, UpdatePoweredHold,
     startDownward, PoweredCycle, Powered
<1>8. ~UpdateResetPreempted /\ ~UpdateResetLow
  BY DEF UpdateResetPreempted, UpdateResetLow, startDownward
<1>9. ASSUME UpdateResetHigh PROVE IdleEntry
  BY <1>9 DEF UpdateResetHigh, EndReset, IdleEntry
<1> QED BY <1>1, <1>2, <1>3, <1>4, <1>5, <1>6, <1>7, <1>8, <1>9 DEF Update

\* IdleAfterConfirmation: for any number of axes and any failure on the way, an
\* operation that ends in Idle has seen every axis in its disabled terminal state.
THEOREM IdleIsConfirmed == Spec => IdleAfterConfirmation
<1>1. ASSUME [Next]_vars
      PROVE  [(phase \notin {"Idle", "Failed"} /\ phase' = "Idle") => AllConfirmed]_vars
  <2> SUFFICES ASSUME phase \notin {"Idle", "Failed"}, phase' = "Idle"
               PROVE  AllConfirmed
    OBVIOUS
  <2>1. Update
    BY <1>1, StepCases DEF OnActivate, OnDeactivate, QuietStep
  <2>2. AllConfirmed \/ ResetPending = {}
    BY <2>1, CyclesToIdle DEF IdleEntry
  <2> QED BY <2>2 DEF ResetPending, AllConfirmed
<1> QED BY <1>1, PTL DEF Spec, IdleAfterConfirmation

\* update() never stores Inactive.
LEMMA UpdateNotInactive == Update => phase' # "Inactive"
<1>1. UpdateGroupStop \/ UpdateEmergencyQuickStop => phase' # "Inactive"
  BY DEF UpdateGroupStop, UpdateEmergencyQuickStop, startDownward
<1>2. \/ UpdateDownwardAdvance \/ UpdateDownwardFinish
      \/ UpdateDownwardTimeout \/ UpdateDownwardHold
      => phase' # "Inactive"
  BY DEF UpdateDownwardAdvance, UpdateDownwardFinish, UpdateDownwardTimeout,
     UpdateDownwardHold, FinishStartup, FinishDisabling, FinishRollback,
     FinishEmergency, DownwardCycle, DownwardPhase
<1>3. \/ UpdateIdleEnable \/ UpdateIdleReset \/ UpdateIdleDisable
      \/ UpdateFailedDisable \/ UpdateFailedReset \/ UpdateRest
      => phase' # "Inactive"
  BY DEF UpdateIdleEnable, UpdateIdleReset, UpdateIdleDisable, UpdateFailedDisable,
     UpdateFailedReset, UpdateRest, BeginReset, startDownward
<1>4. \/ UpdateEnableFault \/ UpdateInterBatchDelay \/ UpdateEnablingInvalid
      \/ UpdateEnablingTimeout \/ UpdateEnablingComplete \/ UpdateEnablingHold
      => phase' # "Inactive"
  BY DEF UpdateEnableFault, UpdateInterBatchDelay, UpdateEnablingInvalid,
     UpdateEnablingTimeout, UpdateEnablingComplete, UpdateEnablingHold, FailBatch,
     HandOverToDisable, startDownward, EnablingCycle
<1>5. UpdateJtcActivateFailed \/ UpdatePoweredDisable \/ UpdatePoweredHold
      => phase' # "Inactive"
  BY DEF UpdateJtcActivateFailed, UpdatePoweredDisable, UpdatePoweredHold,
     startDownward, PoweredCycle, Powered
<1>6. UpdateResetPreempted \/ UpdateResetLow \/ UpdateResetHigh => phase' # "Inactive"
  BY DEF UpdateResetPreempted, UpdateResetLow, UpdateResetHigh, EndReset, startDownward
<1> QED BY <1>1, <1>2, <1>3, <1>4, <1>5, <1>6 DEF Update

\* A confirmed axis is given Disable Voltage by the cycle that confirms it.
LEMMA ConfirmedWord ==
  ASSUME NEW a, NEW s, isConfirmedDisableTerminal(a, s)
  PROVE  DownwardWord(s) = DisableVoltage /\ s # "Fault"
BY DEF isConfirmedDisableTerminal, DownwardWord

\* Each of the three leaves every axis at Disable Voltage.
LEMMA IdleWords ==
  ASSUME IdleEntry
  PROVE  \A a \in Axes : controlWord'[a] = DisableVoltage
<1>1. CASE RestingCycle
  BY <1>1 DEF RestingCycle, SetAllControlWords
<1>2. CASE DownwardCycle /\ AllConfirmed
  BY <1>2, ConfirmedWord DEF DownwardCycle, AllConfirmed
<1>3. CASE UpdateResetHigh /\ ResetPending = {}
  <2>1. \A a \in Axes : status[a] # "Fault"
    BY <1>3, ConfirmedWord DEF ResetPending
  <2> QED BY <1>3, <2>1 DEF UpdateResetHigh, ResetWord
<1> QED BY <1>1, <1>2, <1>3 DEF IdleEntry

\* IdleIsVoltageFree: in Idle and Inactive every drive holds Disable Voltage.
THEOREM IdleHoldsNoVoltage == Spec => []IdleIsVoltageFree
<1>1. Init => IdleIsVoltageFree
  BY DEF Init, IdleIsVoltageFree
<1>2. IdleIsVoltageFree /\ [Next]_vars => IdleIsVoltageFree'
  <2> SUFFICES ASSUME IdleIsVoltageFree, [Next]_vars, phase' \in {"Idle", "Inactive"}
               PROVE  \A a \in Axes : controlWord'[a] = DisableVoltage
    BY DEF IdleIsVoltageFree
  <2>1. CASE Update
    BY <2>1, CyclesToIdle, IdleWords, UpdateNotInactive
  <2>2. CASE OnActivate \/ OnDeactivate
    BY <2>2 DEF OnActivate, OnDeactivate, SetAllControlWords
  <2>3. CASE QuietStep
    BY <2>3 DEF QuietStep, IdleIsVoltageFree
  <2> QED BY <2>1, <2>2, <2>3, StepCases
<1> QED BY <1>1, <1>2, PTL DEF Spec

-----------------------------------------------------------------------------
(* Bit 7 is a pulse: the proof of FaultResetDiscipline.                    *)

\* The strengthening it needs: the pulse starts from the low cycle, so nothing but
\* Disable Voltage and Fault Reset is on the axes while it lasts.
ResetWords ==
  phase = "ResetHigh" => \A a \in Axes : controlWord[a] \in {DisableVoltage, FaultReset}

\* What a cycle may write an axis.
SafeWord(a) ==
  /\ isFaultState(status[a]) => controlWord'[a] \in {DisableVoltage, FaultReset}
  /\ controlWord'[a] = FaultReset =>
       status[a] = "Fault" /\ controlWord[a] \in {DisableVoltage, FaultReset}

\* A faulted axis is given Disable Voltage by the stopping and the descending cycles.
LEMMA FaultedWords ==
  ASSUME NEW s, isFaultState(s)
  PROVE  QuickStopWord(s) = DisableVoltage /\ DownwardWord(s) = DisableVoltage
BY DEF isFaultState, QuickStopWord, DownwardWord

\* No cycle but the pulse computes Fault Reset.
LEMMA NoPulse ==
  /\ \A s : QuickStopWord(s) # FaultReset /\ DownwardWord(s) # FaultReset
  /\ \A s : UpwardWord(s) # FaultReset
  /\ \A a : EnablingWord(a) # FaultReset
  /\ DisableVoltage # FaultReset /\ EnableOperation # FaultReset
BY DEF QuickStopWord, DownwardWord, UpwardWord, EnablingWord, DisableVoltage, QuickStop,
   Shutdown, SwitchOn, EnableOperation, FaultReset

\* One cycle of update(): it leaves the words alone or writes safe ones.
LEMMA CycleWords ==
  ASSUME Update, ResetWords
  PROVE  UNCHANGED controlWord \/ \A a \in Axes : SafeWord(a)
<1> DEFINE Goal == UNCHANGED controlWord \/ \A a \in Axes : SafeWord(a)
<1>1. ASSUME UpdateGroupStop \/ UpdateEmergencyQuickStop PROVE Goal
  <2>1. controlWord' = [a \in Axes |-> QuickStopWord(status[a])]
    BY <1>1 DEF UpdateGroupStop, UpdateEmergencyQuickStop
  <2> QED BY <2>1, FaultedWords, NoPulse DEF SafeWord
<1>2. ASSUME DownwardCycle PROVE Goal
  <2>1. controlWord' = [a \in Axes |-> DownwardWord(status[a])]
    BY <1>2 DEF DownwardCycle
  <2> QED BY <2>1, FaultedWords, NoPulse DEF SafeWord
<1>3. ASSUME SetAllControlWords(DisableVoltage) PROVE Goal
  BY <1>3, NoPulse DEF SetAllControlWords, SafeWord
<1>4. ASSUME UpdateInterBatchDelay \/ EnablingCycle PROVE Goal
  <2>1. \A a \in Axes : ~isFaultState(status[a])
    BY <1>4 DEF UpdateInterBatchDelay, EnablingCycle, FaultAxes
  <2>2. \A a \in Axes : controlWord'[a] # FaultReset
    BY <1>4, NoPulse DEF UpdateInterBatchDelay, EnablingCycle
  <2> QED BY <2>1, <2>2 DEF SafeWord
<1>5. ASSUME PoweredCycle, SetAllControlWords(EnableOperation) PROVE Goal
  <2>1. \A a \in Axes : ~isFaultState(status[a])
    BY <1>5 DEF PoweredCycle, LostAxes
  <2> QED BY <1>5, <2>1, NoPulse DEF SetAllControlWords, SafeWord
<1>6. ASSUME UpdateResetHigh PROVE Goal
  <2>1. \A a \in Axes : controlWord'[a] = ResetWord(a)
    BY <1>6 DEF UpdateResetHigh
  <2>2. \A a \in Axes : controlWord[a] \in {DisableVoltage, FaultReset}
    BY <1>6 DEF UpdateResetHigh, ResetWords
  <2> QED BY <2>1, <2>2, NoPulse DEF ResetWord, SafeWord
<1>7. CASE UpdateGroupStop \/ UpdateEmergencyQuickStop
  BY <1>1, <1>7
<1>8. CASE \/ UpdateDownwardAdvance \/ UpdateDownwardFinish
           \/ UpdateDownwardTimeout \/ UpdateDownwardHold
  BY <1>2, <1>8 DEF UpdateDownwardAdvance, UpdateDownwardFinish, UpdateDownwardTimeout,
     UpdateDownwardHold
<1>9. CASE \/ UpdateIdleEnable \/ UpdateIdleReset \/ UpdateIdleDisable
           \/ UpdateFailedDisable \/ UpdateFailedReset \/ UpdateRest
  BY <1>3, <1>9 DEF UpdateIdleEnable, UpdateIdleReset, UpdateIdleDisable,
     UpdateFailedDisable, UpdateFailedReset, UpdateRest, RestingCycle
<1>10. CASE UpdateEnableFault \/ UpdateJtcActivateFailed
  BY <1>10 DEF UpdateEnableFault, UpdateJtcActivateFailed
<1>11. CASE \/ UpdateInterBatchDelay \/ UpdateEnablingInvalid \/ UpdateEnablingTimeout
            \/ UpdateEnablingComplete \/ UpdateEnablingHold
  BY <1>4, <1>11 DEF UpdateEnablingInvalid, UpdateEnablingTimeout,
     UpdateEnablingComplete, UpdateEnablingHold
<1>12. CASE UpdatePoweredDisable \/ UpdatePoweredHold
  BY <1>5, <1>12 DEF UpdatePoweredDisable, UpdatePoweredHold
<1>13. CASE UpdateResetPreempted \/ UpdateResetLow
  BY <1>3, <1>13 DEF UpdateResetPreempted, UpdateResetLow
<1>14. CASE UpdateResetHigh
  BY <1>6, <1>14
<1> QED BY <1>7, <1>8, <1>9, <1>10, <1>11, <1>12, <1>13, <1>14 DEF Update

\* The cycles that end in ResetHigh write nothing but the two words of the pulse.
LEMMA CyclesToResetHigh ==
  ASSUME Update, phase' = "ResetHigh"
  PROVE  UpdateResetLow \/ UpdateResetHigh
<1>1. ~UpdateGroupStop /\ ~UpdateEmergencyQuickStop
  BY DEF UpdateGroupStop, UpdateEmergencyQuickStop, startDownward
<1>2. /\ ~UpdateDownwardAdvance /\ ~UpdateDownwardFinish
      /\ ~UpdateDownwardTimeout /\ ~UpdateDownwardHold
  BY DEF UpdateDownwardAdvance, UpdateDownwardFinish, UpdateDownwardTimeout,
     UpdateDownwardHold, FinishStartup, FinishDisabling, FinishRollback,
     FinishEmergency, DownwardCycle, DownwardPhase
<1>3. /\ ~UpdateIdleEnable /\ ~UpdateIdleReset /\ ~UpdateIdleDisable
      /\ ~UpdateFailedDisable /\ ~UpdateFailedReset /\ ~UpdateRest
  BY DEF UpdateIdleEnable, UpdateIdleReset, UpdateIdleDisable, UpdateFailedDisable,
     UpdateFailedReset, UpdateRest, BeginReset, startDownward
<1>4. /\ ~UpdateEnableFault /\ ~UpdateInterBatchDelay /\ ~UpdateEnablingInvalid
      /\ ~UpdateEnablingTimeout /\ ~UpdateEnablingComplete /\ ~UpdateEnablingHold
  BY DEF UpdateEnableFault, UpdateInterBatchDelay, UpdateEnablingInvalid,
     UpdateEnablingTimeout, UpdateEnablingComplete, UpdateEnablingHold, FailBatch,
     HandOverToDisable, startDownward, EnablingCycle
<1>5. ~UpdateJtcActivateFailed /\ ~UpdatePoweredDisable /\ ~UpdatePoweredHold
  BY DEF UpdateJtcActivateFailed, UpdatePoweredDisable, UpdatePoweredHold,
     startDownward, PoweredCycle, Powered
<1>6. ~UpdateResetPreempted
  BY DEF UpdateResetPreempted, startDownward
<1> QED BY <1>1, <1>2, <1>3, <1>4, <1>5, <1>6 DEF Update

\* The words of the pulse are kept by every step.
LEMMA ResetWordsInductive ==
  ResetWords /\ [Next]_vars => ResetWords'
<1> SUFFICES ASSUME ResetWords, [Next]_vars, phase' = "ResetHigh"
             PROVE  \A a \in Axes : controlWord'[a] \in {DisableVoltage, FaultReset}
  BY DEF ResetWords
<1>1. CASE Update
  BY <1>1, CyclesToResetHigh
     DEF UpdateResetLow, UpdateResetHigh, SetAllControlWords, ResetWord
<1>2. CASE OnActivate \/ OnDeactivate
  BY <1>2 DEF OnActivate, OnDeactivate, SetAllControlWords
<1>3. CASE QuietStep
  BY <1>3 DEF QuietStep, ResetWords
<1> QED BY <1>1, <1>2, <1>3, StepCases

\* FaultResetDiscipline: no cycle moves a faulted axis, and Fault Reset is only given to
\* an axis in Fault, from Disable Voltage, whatever preempts or interrupts the reset.
THEOREM FaultResetIsPulse == Spec => FaultResetDiscipline
<1>1. Init => ResetWords
  BY DEF Init, ResetWords
<1>2. ASSUME ResetWords, [Next]_vars
      PROVE  [controlWord' # controlWord =>
               \A a \in Axes :
                 /\ isFaultState(status[a]) =>
                      controlWord'[a] \in {DisableVoltage, FaultReset}
                 /\ controlWord'[a] = FaultReset =>
                      /\ status[a] = "Fault"
                      /\ controlWord[a] \in {DisableVoltage, FaultReset}]_vars
  <2> SUFFICES ASSUME controlWord' # controlWord PROVE \A a \in Axes : SafeWord(a)
    BY DEF SafeWord
  <2>1. CASE Update
    BY <1>2, <2>1, CycleWords
  <2>2. CASE OnActivate \/ OnDeactivate
    BY <2>2, NoPulse DEF OnActivate, OnDeactivate, SetAllControlWords, SafeWord
  <2>3. CASE QuietStep
    BY <2>3 DEF QuietStep
  <2> QED BY <1>2, <2>1, <2>2, <2>3, StepCases
<1> QED BY <1>1, <1>2, ResetWordsInductive, PTL DEF Spec, FaultResetDiscipline

-----------------------------------------------------------------------------
(* Later batches are held off: the proof of LaterBatchesHeldOff.           *)

\* The cycles that leave the manager in the batch sequence.
LEMMA CyclesToEnable ==
  ASSUME Update, phase' \in EnablePhase
  PROVE  \/ UpdateIdleEnable \/ UpdateInterBatchDelay
         \/ EnablingCycle
<1> USE DEF EnablePhase
<1>1. ~UpdateGroupStop /\ ~UpdateEmergencyQuickStop
  BY DEF UpdateGroupStop, UpdateEmergencyQuickStop, startDownward
<1>2. /\ ~UpdateDownwardAdvance /\ ~UpdateDownwardFinish
      /\ ~UpdateDownwardTimeout /\ ~UpdateDownwardHold
  BY DEF UpdateDownwardAdvance, UpdateDownwardFinish, UpdateDownwardTimeout,
     UpdateDownwardHold, FinishStartup, FinishDisabling, FinishRollback,
     FinishEmergency, DownwardCycle, DownwardPhase
<1>3. /\ ~UpdateIdleReset /\ ~UpdateIdleDisable
      /\ ~UpdateFailedDisable /\ ~UpdateFailedReset /\ ~UpdateRest
  BY DEF UpdateIdleReset, UpdateIdleDisable, UpdateFailedDisable,
     UpdateFailedReset, UpdateRest, BeginReset, startDownward
<1>4. ~UpdateEnableFault
  BY DEF UpdateEnableFault
<1>5. ~UpdateJtcActivateFailed /\ ~UpdatePoweredDisable /\ ~UpdatePoweredHold
  BY DEF UpdateJtcActivateFailed, UpdatePoweredDisable, UpdatePoweredHold,
     startDownward, PoweredCycle, Powered
<1>6. ~UpdateResetPreempted /\ ~UpdateResetLow /\ ~UpdateResetHigh
  BY DEF UpdateResetPreempted, UpdateResetLow, UpdateResetHigh, ResetCycle, EndReset,
     startDownward
<1> QED BY <1>1, <1>2, <1>3, <1>4, <1>5, <1>6
        DEF Update, UpdateEnablingInvalid, UpdateEnablingTimeout, UpdateEnablingComplete,
            UpdateEnablingHold

\* What such a cycle writes an axis of a batch that is still to come.
LEMMA LaterWords ==
  ASSUME Update, phase' \in EnablePhase, NEW a \in LaterAxes'
  PROVE  \/ controlWord'[a] = DisableVoltage
         \/ controlWord'[a] = EnableOperation /\ status[a] = "OperationEnabled"
<1>0. a \in Axes
  BY DEF LaterAxes
<1>1. CASE UpdateIdleEnable
  BY <1>0, <1>1 DEF UpdateIdleEnable, RestingCycle, SetAllControlWords
<1>2. CASE UpdateInterBatchDelay
  BY <1>0, <1>2 DEF UpdateInterBatchDelay
<1>3. CASE EnablingCycle
  <2>1. a \notin PreviousAxes /\ a \notin CurrentAxes
    BY <1>3 DEF EnablingCycle, LaterAxes, PreviousAxes, CurrentAxes
  <2>2. EnablingWord(a) = DisableVoltage
    BY <2>1 DEF EnablingWord
  <2> QED BY <1>0, <1>3, <2>2 DEF EnablingCycle
<1> QED BY <1>1, <1>2, <1>3, CyclesToEnable

\* The strengthening: a later axis has one of two words.
LaterWord ==
  phase \in EnablePhase =>
    \A a \in LaterAxes : controlWord[a] \in {DisableVoltage, EnableOperation}

\* Steps other than update() leave the sequence, or leave its words alone.
LEMMA QuietLater ==
  ASSUME OnActivate \/ OnDeactivate \/ QuietStep, phase' \in EnablePhase
  PROVE  phase \in EnablePhase /\ LaterAxes' = LaterAxes /\ controlWord' = controlWord
BY DEF OnActivate, OnDeactivate, QuietStep, EnablePhase, LaterAxes, PreviousAxes,
   CurrentAxes

\* LaterBatchesHeldOff: for any division into batches, overlapping ones included, no axis
\* is raised before its batch has come; one that is on already is at most held.
THEOREM LaterBatchesWait == Spec => LaterBatchesHeldOff
<1>1. Init => LaterWord
  BY DEF Init, LaterWord, EnablePhase
<1>2. LaterWord /\ [Next]_vars => LaterWord'
  <2> SUFFICES ASSUME LaterWord, [Next]_vars, phase' \in EnablePhase
               PROVE  \A a \in LaterAxes' : controlWord'[a] \in {DisableVoltage, EnableOperation}
    BY DEF LaterWord
  <2>1. CASE Update
    BY <2>1, LaterWords
  <2>2. CASE OnActivate \/ OnDeactivate \/ QuietStep
    BY <2>2, QuietLater DEF LaterWord
  <2> QED BY <2>1, <2>2, StepCases
<1>3. ASSUME LaterWord, [Next]_vars
      PROVE  [phase' \in EnablePhase =>
               \A a \in LaterAxes' : controlWord'[a] # DisableVoltage =>
                 /\ controlWord'[a] = EnableOperation
                 /\ \/ status[a] = "OperationEnabled"
                    \/ phase \in EnablePhase /\ a \in LaterAxes
                         /\ controlWord[a] = EnableOperation]_vars
  <2> SUFFICES ASSUME phase' \in EnablePhase, NEW a \in LaterAxes',
                      controlWord'[a] # DisableVoltage
               PROVE  /\ controlWord'[a] = EnableOperation
                      /\ \/ status[a] = "OperationEnabled"
                         \/ /\ phase \in EnablePhase /\ a \in LaterAxes
                            /\ controlWord[a] = EnableOperation
    OBVIOUS
  <2>1. CASE Update
    BY <2>1, LaterWords
  <2>2. CASE OnActivate \/ OnDeactivate \/ QuietStep
    BY <1>3, <2>2, QuietLater DEF LaterWord
  <2> QED BY <1>3, <2>1, <2>2, StepCases
<1> QED BY <1>1, <1>2, <1>3, PTL DEF Spec, LaterBatchesHeldOff

-----------------------------------------------------------------------------
(* An emergency stop runs its course.                                      *)

\* update() only leaves an emergency phase forward or to the end of the operation.
LEMMA EmergencyCycle ==
  ASSUME Update, phase \in Emergency, phase' # phase
  PROVE  EmergencyLeft
<1>1. UpdateGroupStop \/ UpdateEmergencyQuickStop => EmergencyLeft
  BY DEF UpdateGroupStop, UpdateEmergencyQuickStop, startDownward, Powered, Emergency,
     EmergencyLeft
<1>2. \/ UpdateDownwardAdvance \/ UpdateDownwardFinish
      \/ UpdateDownwardTimeout \/ UpdateDownwardHold
      => EmergencyLeft
  BY DEF UpdateDownwardAdvance, UpdateDownwardFinish, UpdateDownwardTimeout,
     UpdateDownwardHold, FinishStartup, FinishDisabling, FinishRollback,
     FinishEmergency, DownwardCycle, DownwardPhase, Emergency, EmergencyLeft
<1>3. /\ ~UpdateIdleEnable /\ ~UpdateIdleReset /\ ~UpdateIdleDisable
      /\ ~UpdateFailedDisable /\ ~UpdateFailedReset /\ ~UpdateRest
  BY DEF UpdateIdleEnable, UpdateIdleReset, UpdateIdleDisable, UpdateFailedDisable,
     UpdateFailedReset, UpdateRest, RestingCycle, Emergency
<1>4. /\ ~UpdateEnableFault /\ ~UpdateInterBatchDelay /\ ~UpdateEnablingInvalid
      /\ ~UpdateEnablingTimeout /\ ~UpdateEnablingComplete /\ ~UpdateEnablingHold
  BY DEF UpdateEnableFault, UpdateInterBatchDelay, UpdateEnablingInvalid,
     UpdateEnablingTimeout, UpdateEnablingComplete, UpdateEnablingHold, EnablingCycle,
     EnableCycle, EnablePhase, Emergency
<1>5. ~UpdateJtcActivateFailed /\ ~UpdatePoweredDisable /\ ~UpdatePoweredHold
  BY DEF UpdateJtcActivateFailed, UpdatePoweredDisable, UpdatePoweredHold, PoweredCycle,
     Powered, Emergency
<1>6. ~UpdateResetPreempted /\ ~UpdateResetLow /\ ~UpdateResetHigh
  BY DEF UpdateResetPreempted, UpdateResetLow, UpdateResetHigh, ResetCycle, Emergency
<1> QED BY <1>1, <1>2, <1>3, <1>4, <1>5, <1>6 DEF Update

\* Two steps of the callbacks store a phase, each behind its own earlier test.
LEMMA CallbackStores ==
  ASSUME OtherStep, phase' # phase
  PROVE  EmergencyLeft
<1>1. EnableStep => EnableCommit
  BY DEF EnableStep, EnableAdmit, EnableAcquire, EnableArm, EnableWait, EnableSwitchOk,
     EnablePublish, EnableRelease, EnableSwitchAmbiguous, EnableFailCheck, EnableFailSet,
     SwitchBegin, WaitForResult, serverVars
<1>2. DisableStep => DisableArm
  BY DEF DisableStep, DisableAcquire, DisableSwitchFailed, DisableRequest, SwitchBegin,
     WaitForResult, serverVars
<1>3. ~ResetStep /\ ~WorkerStep /\ ~Calls /\ ~CmAnswer
  BY DEF ResetStep, ResetAcquire, ResetArm, WorkerStep, WorkerTake, WorkerOverlap,
     WorkerDone, SwitchBegin, WaitForResult, Calls, EnableCall, DisableCall, ResetCall,
     CmAnswer, CmSwitch, serverVars
<1>4. ~Mishap /\ ~Drives /\ ~DeadlineExpires
  BY DEF Mishap, ServiceTimeout, SwitchAbsent, SwitchTimeout, Drives, DriveStep,
     DriveUpset, DeadlineExpires, serverVars
<1>5. EnableCommit => EmergencyLeft
  BY DEF EnableCommit, Goto, EmergencyLeft
<1>6. DisableArm => EmergencyLeft
  BY DEF DisableArm, SeenEnabled, Goto, EmergencyLeft
<1> QED BY <1>1, <1>2, <1>3, <1>4, <1>5, <1>6 DEF OtherStep

\* The strengthening: an inactive controller is in no emergency, so activation ends none.
EmergencyActive == phase \in Emergency => active

\* EmergencyRunsOut: for any axes, calls, faults and timeouts an emergency stop is neither
\* cancelled nor restarted, except by the store of a callback that had tested the phase
\* before it began.
THEOREM EmergencyTakesItsCourse == Spec => EmergencyRunsOut
<1>1. Init => EmergencyActive
  BY DEF Init, EmergencyActive, Emergency
<1>2. EmergencyActive /\ [Next]_vars => EmergencyActive'
  <2> SUFFICES ASSUME EmergencyActive, [Next]_vars
               PROVE  EmergencyActive'
    OBVIOUS
  <2>1. CASE Update
    BY <2>1 DEF Update, EmergencyActive
  <2>2. CASE OnActivate \/ OnDeactivate \/ QuietStep
    BY <2>2 DEF OnActivate, OnDeactivate, QuietStep, EmergencyActive, Emergency
  <2> QED BY <2>1, <2>2, StepCases
<1>3. ASSUME EmergencyActive, [Next]_vars
      PROVE  [(phase \in Emergency /\ phase' # phase) => EmergencyLeft]_vars
  <2> SUFFICES ASSUME phase \in Emergency, phase' # phase
               PROVE  EmergencyLeft
    OBVIOUS
  <2>1. Next
    BY <1>3 DEF vars, serverVars
  <2>2. CASE Update
    BY <2>2, EmergencyCycle
  <2>3. CASE OnActivate \/ OnDeactivate
    BY <1>3, <2>3 DEF OnActivate, OnDeactivate, EmergencyActive, EmergencyLeft
  <2>4. CASE OtherStep
    BY <2>4, CallbackStores
  <2> QED BY <2>1, <2>2, <2>3, <2>4 DEF Next, OtherStep
<1> QED BY <1>1, <1>2, <1>3, PTL DEF Spec, EmergencyRunsOut

=============================================================================
