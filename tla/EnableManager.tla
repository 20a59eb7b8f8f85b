--------------------------- MODULE EnableManager ---------------------------
(***************************************************************************)
(* The enable manager of the rt-control domain: the ros2_control           *)
(* controller that powers the EtherCAT axes up batch by batch, hands them  *)
(* to the joint trajectory controller (JTC), and takes them down again on  *)
(* request, on a failed stage or on a drive fault.                         *)
(*                                                                         *)
(* Threads:                                                                *)
(*   - the 250 Hz real-time thread runs update(), one step per cycle;      *)
(*   - the three service callbacks /rt/enable, /rt/disable and             *)
(*     /rt/reset_fault run in Reentrant groups of a multi-threaded         *)
(*     executor and synchronise with update() through atomics only, so     *)
(*     they take one step per load, compare-exchange or store that the     *)
(*     others can observe (a run of stores to a slot nobody reads before   *)
(*     the request flag is set is one step);                               *)
(*   - the 20 ms worker timer deactivates the JTC after an emergency.      *)
(* Environment: the CiA 402 drives, the controller manager that executes   *)
(* controller switches, the callers and the clock.  What the environment   *)
(* may do a bounded number of times draws on "budget".                     *)
(*                                                                         *)
(* An operator that stands just before another one and is used nowhere is  *)
(* a mutated form of it: a bug the properties are shown to catch.          *)
(***************************************************************************)
EXTENDS Naturals, Sequences

CONSTANTS
  Axes,        \* axis numbers: the code's order of axes is the order of numbers
  Ti5,         \* the axes whose drives rest in Ready To Switch On
  Batches,     \* the sets of axes enabled together, in order
  InitStatus,  \* drive states the manager may find when it is activated
  Upsets,      \* drive states a drive may fall into on its own
  Limits       \* the scenarios: how often each environment event may happen

Service == {"enable", "disable", "reset"}
Thread  == Service \cup {"worker"}
Event   == Service \cup {"upset", "switchFail", "switchTimeout", "switchAbsent",
                         "serviceTimeout", "deactivate"}

ASSUME AxesAssumption  == Axes \subseteq Nat /\ Axes # {} /\ Ti5 \subseteq Axes
ASSUME BatchAssumption == /\ Batches \in Seq(SUBSET Axes)
                          /\ Len(Batches) > 0
                          /\ Axes = UNION {Batches[b] : b \in 1..Len(Batches)}
ASSUME LimitAssumption == Limits \subseteq [Event -> Nat]

-----------------------------------------------------------------------------
(* Phases, owners, drive states, stages and control words.                 *)

Phase == {"Inactive", "StartupSanitizing", "Idle", "Enabling", "InterBatchDelay",
          "JtcActivating", "Enabled", "JtcDeactivating", "Disabling", "Rollback",
          "ResetLow", "ResetHigh", "EmergencyQuickStop", "EmergencyDisable", "Failed"}

Owner == {"None", "Enable", "Disable", "Reset", "Internal"}

DriveState == {"NotReady", "SwitchOnDisabled", "ReadyToSwitchOn", "SwitchedOn",
               "OperationEnabled", "QuickStopActive", "FaultReactionActive", "Fault",
               "Unknown"}

ASSUME StatusAssumption == InitStatus \subseteq DriveState /\ Upsets \subseteq DriveState

\* The stages a result slot or the failure record can hold.
Stage == {"success", "already_disabled", "already_clear", "operation_in_progress",
          "preempted_by_disable", "enable_batch_timeout", "enable_invalid_state",
          "fault_detected", "unexpected_drive_state", "disable_timeout",
          "fault_requires_reset", "fault_reset_timeout", "jtc_activate_failed",
          "jtc_deactivate_failed"}

DisableVoltage  == "0x0000"
QuickStop       == "0x0002"
Shutdown        == "0x0006"
SwitchOn        == "0x0007"
EnableOperation == "0x000F"
FaultReset      == "0x0080"
ControlWord == {DisableVoltage, QuickStop, Shutdown, SwitchOn, EnableOperation, FaultReset}

\* stage_deadline_ns_ against the clock: 0, in the future, or reached.
Deadline == {"unset", "running", "expired"}

ResultSlot == [ready : BOOLEAN, ok : BOOLEAN, stage : Stage]

-----------------------------------------------------------------------------
VARIABLES
  \* Shared atomics.
  active, phase, owner, request, result, enableHardwareReady,
  jtcActivateFailedRequest, emergencyJtcDeactivateRequest, restartRequired,
  switchInProgress, jtcDeactivateFailed, lastFailure,
  \* State private to update().
  currentBatch, downwardStage, deadline, enablePreemptRequested, interruptedOwner,
  primaryFailure, resetTargets,
  \* Control state of the callbacks, and the phase handleDisable loaded.
  pc, seenPhase,
  \* Command and state interfaces of the axes.
  controlWord, status,
  \* Controller manager: the JTC's lifecycle state and the switch requests sent.
  jtc, cmQueue,
  \* What the environment may still do.
  budget

rtVars     == <<currentBatch, downwardStage, deadline, enablePreemptRequested,
                interruptedOwner, primaryFailure, resetTargets>>
flagVars   == <<enableHardwareReady, jtcActivateFailedRequest,
                emergencyJtcDeactivateRequest, restartRequired, switchInProgress,
                jtcDeactivateFailed>>
serverVars == <<phase, owner, request, result, lastFailure>>
threadVars == <<pc, seenPhase>>
cmVars     == <<jtc, cmQueue>>
vars == <<active, serverVars, flagVars, rtVars, threadVars, controlWord, status, cmVars,
          budget>>

\* Control points: where a callback stands between two accesses to shared state.
SwitchPoint == {"begin", "switching", "switchOk", "switchFailed", "switchAmbiguous"}
Point == {"idle", "admit", "acquire", "arm", "wait", "commit", "publish", "release",
          "failCheck", "failSet", "finalWait", "request"} \cup SwitchPoint

SwitchRequest == [by : Thread, activate : BOOLEAN, live : BOOLEAN]

TypeOK ==
  /\ active \in BOOLEAN
  /\ phase \in Phase
  /\ owner \in Owner
  /\ request \in [Service -> BOOLEAN]
  /\ result \in [Service -> ResultSlot]
  /\ enableHardwareReady \in BOOLEAN
  /\ jtcActivateFailedRequest \in BOOLEAN
  /\ emergencyJtcDeactivateRequest \in BOOLEAN
  /\ restartRequired \in BOOLEAN
  /\ switchInProgress \in BOOLEAN
  /\ jtcDeactivateFailed \in BOOLEAN
  /\ lastFailure \in Stage
  /\ currentBatch \in 1..Len(Batches)
  /\ downwardStage \in {0, 1, 2}
  /\ deadline \in Deadline
  /\ enablePreemptRequested \in BOOLEAN
  /\ interruptedOwner \in Owner
  /\ primaryFailure \in Stage
  /\ resetTargets \in SUBSET Axes
  /\ pc \in [Thread -> Point]
  /\ seenPhase \in Phase
  /\ controlWord \in [Axes -> ControlWord]
  /\ status \in [Axes -> DriveState]
  /\ jtc \in {"inactive", "active"}
  /\ cmQueue \in Seq(SwitchRequest)
  /\ budget \in [Event -> Nat]

\* Construction and on_configure: nothing runs until the controller is activated.
Init ==
  /\ active = FALSE /\ phase = "Inactive" /\ owner = "Internal"
  /\ request = [s \in Service |-> FALSE]
  /\ result = [s \in Service |->
                 [ready |-> FALSE, ok |-> FALSE, stage |-> "operation_in_progress"]]
  /\ enableHardwareReady = FALSE /\ jtcActivateFailedRequest = FALSE
  /\ emergencyJtcDeactivateRequest = FALSE /\ restartRequired = FALSE
  /\ switchInProgress = FALSE /\ jtcDeactivateFailed = FALSE /\ lastFailure = "success"
  /\ currentBatch = 1 /\ downwardStage = 0 /\ deadline = "unset"
  /\ enablePreemptRequested = FALSE /\ interruptedOwner = "None"
  /\ primaryFailure = "success" /\ resetTargets = {}
  /\ pc = [t \in Thread |-> "idle"] /\ seenPhase = "Idle"
  /\ controlWord = [a \in Axes |-> DisableVoltage]
  /\ status \in [Axes -> InitStatus]
  /\ jtc = "inactive" /\ cmQueue = <<>>
  /\ budget \in Limits

-----------------------------------------------------------------------------
(* Readings of the drives.                                                 *)

isFaultState(s) == s \in {"Fault", "FaultReactionActive"}

isConfirmedDisableTerminal(a, s) ==
  s = "SwitchOnDisabled" \/ (a \in Ti5 /\ s = "ReadyToSwitchOn")

FaultAxes    == {a \in Axes : isFaultState(status[a])}
AnyIn(s)     == \E a \in Axes : status[a] = s
TerminalOrFault ==
  \A a \in Axes : isFaultState(status[a]) \/ isConfirmedDisableTerminal(a, status[a])

SetAllControlWords(w) == controlWord' = [a \in Axes |-> w]

Published(ok, stage) == [ready |-> TRUE, ok |-> ok, stage |-> stage]

-----------------------------------------------------------------------------
(* update(): one real-time cycle.  It reads every status word once, reacts *)
(* to the phase it finds and rewrites the control words.                   *)

\* startDownward(): begin the state-aware descent under the given phase.
startDownward(p) ==
  /\ downwardStage' = 0
  /\ deadline' = "running"
  /\ phase' = p

\* startEmergency() up to its store of the phase, which the caller continues from.
startEmergency(stage) ==
  /\ interruptedOwner' = owner
  /\ primaryFailure' = stage
  /\ lastFailure' = stage
  /\ owner' = "Internal"
  /\ emergencyJtcDeactivateRequest' = TRUE

QuickStopWord(s) ==
  CASE s \in {"OperationEnabled", "QuickStopActive"} -> QuickStop
    [] s = "SwitchedOn" -> Shutdown
    [] OTHER -> DisableVoltage

\* The axes that stop the group in the phases where the drives are meant to be on.
LostAxes ==
  {a \in Axes : \/ isFaultState(status[a])
                \/ phase = "Enabled" /\ status[a] # "OperationEnabled"}
FirstLost == CHOOSE a \in LostAxes : \A b \in LostAxes : a <= b
Powered   == phase \in {"Enabled", "JtcActivating", "JtcDeactivating"}

\* A lost axis starts the emergency; the same cycle runs updateEmergencyQuickStop().
UpdateGroupStop ==
  /\ Powered /\ LostAxes # {}
  /\ startEmergency(IF isFaultState(status[FirstLost]) THEN "fault_detected"
                                                      ELSE "unexpected_drive_state")
  /\ controlWord' = [a \in Axes |-> QuickStopWord(status[a])]
  /\ deadline' = "running"
  /\ IF AnyIn("OperationEnabled")
       THEN phase' = "EmergencyQuickStop" /\ UNCHANGED downwardStage
       ELSE phase' = "EmergencyDisable" /\ downwardStage' = 0
  /\ UNCHANGED <<request, result, enableHardwareReady, jtcActivateFailedRequest,
                 currentBatch, enablePreemptRequested, resetTargets>>

\* Quick Stop is over once no axis is enabled, or when its time is up.
QuickStopUnbounded == ~AnyIn("OperationEnabled")
QuickStopOver      == ~AnyIn("OperationEnabled") \/ deadline = "expired"

\* updateEmergencyQuickStop(): hold Quick Stop until it is over, then disable voltage.
UpdateEmergencyQuickStop ==
  /\ phase = "EmergencyQuickStop"
  /\ controlWord' = [a \in Axes |-> QuickStopWord(status[a])]
  /\ IF QuickStopOver
       THEN startDownward("EmergencyDisable")
       ELSE UNCHANGED <<phase, downwardStage, deadline>>
  /\ UNCHANGED <<owner, request, result, lastFailure, enableHardwareReady,
                 jtcActivateFailedRequest, emergencyJtcDeactivateRequest, currentBatch,
                 enablePreemptRequested, interruptedOwner, primaryFailure, resetTargets>>

-----------------------------------------------------------------------------
(* updateDownward() and finishDownward().                                  *)

DownwardPhase == {"StartupSanitizing", "Disabling", "Rollback", "EmergencyDisable"}

DownwardWordHeld(s) ==
  CASE s = "OperationEnabled" -> SwitchOn
    [] OTHER -> Shutdown
DownwardWord(s) ==
  CASE s = "OperationEnabled" -> SwitchOn
    [] s = "SwitchedOn" -> Shutdown
    [] OTHER -> DisableVoltage

StageConfirmedWithoutStage == ~AnyIn("OperationEnabled")
StageConfirmed ==
  \/ downwardStage = 0 /\ ~AnyIn("OperationEnabled")
  \/ downwardStage = 1 /\ ~AnyIn("OperationEnabled") /\ ~AnyIn("SwitchedOn")
DescentCompleteUnconfirmed == downwardStage = 2
DescentComplete == downwardStage = 2 /\ TerminalOrFault

\* finishDownward() for each phase that can complete; "failure" is the primary one.
FinishStartup(failure) ==
  /\ phase = "StartupSanitizing"
  /\ phase' = IF failure # "success" \/ FaultAxes # {} THEN "Failed" ELSE "Idle"
  /\ lastFailure' = IF failure = "success" /\ FaultAxes # {} THEN "fault_requires_reset"
                                                            ELSE lastFailure
  /\ UNCHANGED result

DisableOutcome(failure) ==
  CASE FaultAxes # {} -> Published(FALSE, "fault_requires_reset")
    [] FaultAxes = {} /\ jtcDeactivateFailed -> Published(FALSE, "jtc_deactivate_failed")
    [] OTHER -> Published(failure = "success", failure)

FinishDisabling(failure) ==
  LET outcome == DisableOutcome(failure)
  IN  /\ phase = "Disabling"
      /\ result' = [result EXCEPT !["disable"] = outcome]
      /\ phase' = IF outcome.ok THEN "Idle" ELSE "Failed"
      /\ lastFailure' = CASE outcome.ok -> "success"
                          [] FaultAxes # {} -> "fault_requires_reset"
                          [] OTHER -> lastFailure

FinishRollback(failure) ==
  /\ phase = "Rollback"
  /\ result' = [result EXCEPT !["enable"] = Published(FALSE, failure)]
  /\ phase' = IF FaultAxes # {} \/ restartRequired THEN "Failed" ELSE "Idle"
  /\ UNCHANGED lastFailure

\* The caller whose operation the emergency interrupted gets its failure.
AnswerOnlyDisable(failure) ==
  IF interruptedOwner = "Disable"
    THEN [result EXCEPT !["disable"] = Published(FALSE, failure)] ELSE result
AnswerInterrupted(failure) ==
  CASE interruptedOwner = "Enable" ->
         [result EXCEPT !["enable"] = Published(FALSE, failure)]
    [] interruptedOwner = "Disable" ->
         [result EXCEPT !["disable"] = Published(FALSE, failure)]
    [] OTHER -> result

FinishEmergency(failure) ==
  /\ phase = "EmergencyDisable"
  /\ result' = AnswerInterrupted(failure)
  /\ phase' = IF FaultAxes # {} \/ ~TerminalOrFault \/ restartRequired
                THEN "Failed" ELSE "Idle"

DownwardCycle ==
  /\ phase \in DownwardPhase
  /\ controlWord' = [a \in Axes |-> DownwardWord(status[a])]
  /\ UNCHANGED <<request, enableHardwareReady, jtcActivateFailedRequest, currentBatch,
                 enablePreemptRequested, resetTargets>>

UpdateDownwardAdvance ==
  /\ DownwardCycle
  /\ StageConfirmed
  /\ downwardStage' = downwardStage + 1
  /\ deadline' = "running"
  /\ UNCHANGED <<phase, owner, result, lastFailure, emergencyJtcDeactivateRequest,
                 interruptedOwner, primaryFailure>>

UpdateDownwardFinish ==
  /\ DownwardCycle
  /\ DescentComplete
  /\ \/ FinishStartup(primaryFailure)
     \/ FinishDisabling(primaryFailure)
     \/ FinishRollback(primaryFailure)
     \/ FinishEmergency(primaryFailure) /\ UNCHANGED lastFailure
  /\ owner' = "None"
  /\ UNCHANGED <<emergencyJtcDeactivateRequest, downwardStage, deadline,
                 interruptedOwner, primaryFailure>>

\* A stage that is not confirmed in time escalates once to Quick Stop; inside the
\* emergency descent it ends the operation as it stands.
UpdateDownwardTimeout ==
  LET failure == IF primaryFailure # "success" THEN primaryFailure
                 ELSE IF FaultAxes # {} THEN "fault_requires_reset"
                 ELSE "disable_timeout"
  IN  /\ DownwardCycle
      /\ ~StageConfirmed /\ ~DescentComplete
      /\ deadline = "expired"
      /\ primaryFailure' = failure
      /\ lastFailure' = IF primaryFailure = "success" THEN failure ELSE lastFailure
      /\ UNCHANGED downwardStage
      /\ \/ /\ phase # "EmergencyDisable"
            /\ interruptedOwner' = owner
            /\ deadline' = "running"
            /\ emergencyJtcDeactivateRequest' = TRUE
            /\ phase' = "EmergencyQuickStop"
            /\ UNCHANGED <<owner, result>>
         \/ /\ FinishEmergency(failure)
            /\ owner' = "None"
            /\ UNCHANGED <<emergencyJtcDeactivateRequest, deadline, interruptedOwner>>

UpdateDownwardHold ==
  /\ DownwardCycle
  /\ ~StageConfirmed /\ ~DescentComplete
  /\ deadline # "expired"
  /\ deadline' = "running"
  /\ UNCHANGED <<phase, owner, result, lastFailure, emergencyJtcDeactivateRequest,
                 downwardStage, interruptedOwner, primaryFailure>>

-----------------------------------------------------------------------------
(* Idle and Failed: the requests that start an operation.                  *)

\* A reset with no faulted axis succeeds at once; otherwise it starts the pulse.
BeginReset ==
  /\ request' = [request EXCEPT !["reset"] = FALSE]
  /\ resetTargets' = FaultAxes
  /\ IF FaultAxes = {}
       THEN /\ lastFailure' = "success"
            /\ result' = [result EXCEPT !["reset"] = Published(TRUE, "already_clear")]
            /\ phase' = "Idle"
            /\ owner' = "None"
       ELSE /\ phase' = "ResetLow"
            /\ UNCHANGED <<owner, result, lastFailure>>

RestingCycle ==
  /\ SetAllControlWords(DisableVoltage)
  /\ UNCHANGED <<jtcActivateFailedRequest, emergencyJtcDeactivateRequest,
                 interruptedOwner>>

UpdateIdleEnable ==
  /\ phase = "Idle" /\ request["enable"]
  /\ RestingCycle
  /\ request' = [request EXCEPT !["enable"] = FALSE]
  /\ currentBatch' = 1
  /\ enablePreemptRequested' = FALSE
  /\ primaryFailure' = "success"
  /\ enableHardwareReady' = FALSE
  /\ deadline' = "running"
  /\ phase' = "Enabling"
  /\ UNCHANGED <<owner, result, lastFailure, downwardStage, resetTargets>>

UpdateIdleReset ==
  /\ phase = "Idle" /\ ~request["enable"] /\ request["reset"]
  /\ RestingCycle
  /\ BeginReset
  /\ UNCHANGED <<enableHardwareReady, currentBatch, downwardStage, deadline,
                 enablePreemptRequested, primaryFailure>>

UpdateIdleDisable ==
  /\ phase = "Idle" /\ ~request["enable"] /\ ~request["reset"] /\ request["disable"]
  /\ RestingCycle
  /\ request' = [request EXCEPT !["disable"] = FALSE]
  /\ lastFailure' = "success"
  /\ result' = [result EXCEPT !["disable"] = Published(TRUE, "already_disabled")]
  /\ owner' = "None"
  /\ UNCHANGED <<phase, enableHardwareReady, currentBatch, downwardStage, deadline,
                 enablePreemptRequested, primaryFailure, resetTargets>>

UpdateFailedDisable ==
  /\ phase = "Failed" /\ request["disable"]
  /\ RestingCycle
  /\ request' = [request EXCEPT !["disable"] = FALSE]
  /\ startDownward("Disabling")
  /\ UNCHANGED <<owner, result, lastFailure, enableHardwareReady, currentBatch,
                 enablePreemptRequested, primaryFailure, resetTargets>>

UpdateFailedReset ==
  /\ phase = "Failed" /\ ~request["disable"] /\ request["reset"]
  /\ RestingCycle
  /\ BeginReset
  /\ UNCHANGED <<enableHardwareReady, currentBatch, downwardStage, deadline,
                 enablePreemptRequested, primaryFailure>>

\* A cycle in Idle or Failed with nothing to start.
UpdateRest ==
  /\ \/ phase = "Idle" /\ \A s \in Service : ~request[s]
     \/ phase = "Failed" /\ ~request["disable"] /\ ~request["reset"]
  /\ RestingCycle
  /\ UNCHANGED <<phase, owner, request, result, lastFailure, enableHardwareReady,
                 currentBatch, downwardStage, deadline, enablePreemptRequested,
                 primaryFailure, resetTargets>>

-----------------------------------------------------------------------------
(* updateEnable(): Enabling and InterBatchDelay.                           *)

EnablePhase     == {"Enabling", "InterBatchDelay"}
Preempting      == enablePreemptRequested \/ request["disable"]
PreviousAxes    == UNION {Batches[b] : b \in 1..(currentBatch - 1)}
CurrentAxes     == Batches[currentBatch]

\* Control words of an Enabling cycle: earlier batches held, the current one raised.
UpwardWord(s) ==
  CASE s = "SwitchOnDisabled" -> Shutdown
    [] s = "ReadyToSwitchOn" -> SwitchOn
    [] s \in {"SwitchedOn", "OperationEnabled"} -> EnableOperation
    [] OTHER -> DisableVoltage
EnablingWordAllBatches(a) == UpwardWord(status[a])
EnablingWord(a) ==
  CASE a \in CurrentAxes -> UpwardWord(status[a])
    [] a \in PreviousAxes \ CurrentAxes -> EnableOperation
    [] OTHER -> DisableVoltage

\* Axes whose state has no place in the sequence, and a batch that is all on.
InvalidAxes ==
  {a \in PreviousAxes \ CurrentAxes : status[a] # "OperationEnabled"} \cup
  {a \in CurrentAxes : status[a] \notin {"SwitchOnDisabled", "ReadyToSwitchOn",
                                         "SwitchedOn", "OperationEnabled"}}
BatchComplete == \A a \in CurrentAxes : status[a] = "OperationEnabled"

BatchNeverTimesOut == FALSE
BatchTimedOut      == ~BatchComplete /\ deadline = "expired"

LastBatchEarly == currentBatch + 1 = Len(Batches)
LastBatch      == currentBatch = Len(Batches)

EnableCycle ==
  /\ phase \in EnablePhase
  /\ enablePreemptRequested' = Preempting
  /\ UNCHANGED <<jtcActivateFailedRequest, resetTargets>>

\* A fault drops a pending disable request and leaves the words of the last cycle.
UpdateEnableFault ==
  /\ EnableCycle
  /\ FaultAxes # {}
  /\ request' = [request EXCEPT !["disable"] = FALSE]
  /\ startEmergency("fault_detected")
  /\ deadline' = "running"
  /\ phase' = "EmergencyQuickStop"
  /\ UNCHANGED <<result, enableHardwareReady, currentBatch, downwardStage, controlWord>>

\* A pending disable takes the operation over: enable is answered, disable owns it.
HandOverToDisable(stage) ==
  /\ request' = [request EXCEPT !["disable"] = FALSE]
  /\ result' = [result EXCEPT !["enable"] = Published(FALSE, stage)]
  /\ owner' = "Disable"
  /\ startDownward("Disabling")

NoEmergency == UNCHANGED <<emergencyJtcDeactivateRequest, interruptedOwner>>

UpdateInterBatchDelay ==
  /\ EnableCycle /\ FaultAxes = {}
  /\ phase = "InterBatchDelay"
  /\ controlWord' = [a \in Axes |-> IF status[a] = "OperationEnabled"
                                      THEN EnableOperation ELSE DisableVoltage]
  /\ NoEmergency
  /\ UNCHANGED <<lastFailure, enableHardwareReady>>
  /\ \/ /\ Preempting
        /\ HandOverToDisable("preempted_by_disable")
        /\ primaryFailure' = "success"
        /\ UNCHANGED currentBatch
     \/ /\ ~Preempting /\ deadline = "expired"
        /\ currentBatch' = currentBatch + 1
        /\ deadline' = "running"
        /\ phase' = "Enabling"
        /\ UNCHANGED <<owner, request, result, downwardStage, primaryFailure>>
     \/ /\ ~Preempting /\ deadline # "expired"
        /\ UNCHANGED <<phase, owner, request, result, currentBatch, downwardStage,
                       deadline, primaryFailure>>

EnablingCycle ==
  /\ EnableCycle /\ FaultAxes = {}
  /\ phase = "Enabling"
  /\ controlWord' = [a \in Axes |-> EnablingWord(a)]
  /\ NoEmergency
  /\ UNCHANGED currentBatch

\* A failed batch: rolled back for the enable caller, or handed to the disable caller.
FailBatch(stage) ==
  /\ lastFailure' = stage
  /\ IF Preempting
       THEN HandOverToDisable(stage)
       ELSE /\ startDownward("Rollback")
            /\ UNCHANGED <<owner, request, result>>
  /\ UNCHANGED enableHardwareReady

UpdateEnablingInvalid ==
  /\ EnablingCycle
  /\ InvalidAxes # {}
  /\ FailBatch("enable_invalid_state")
  /\ primaryFailure' = "enable_invalid_state"

UpdateEnablingTimeout ==
  /\ EnablingCycle
  /\ InvalidAxes = {} /\ BatchTimedOut
  /\ FailBatch("enable_batch_timeout")
  /\ primaryFailure' = IF Preempting THEN "success" ELSE "enable_batch_timeout"

UpdateEnablingComplete ==
  /\ EnablingCycle
  /\ InvalidAxes = {} /\ BatchComplete
  /\ UNCHANGED lastFailure
  /\ \/ /\ Preempting
        /\ HandOverToDisable("preempted_by_disable")
        /\ primaryFailure' = "success"
        /\ UNCHANGED enableHardwareReady
     \/ /\ ~Preempting /\ LastBatch
        /\ enableHardwareReady' = TRUE
        /\ phase' = "JtcActivating"
        /\ UNCHANGED <<owner, request, result, downwardStage, deadline, primaryFailure>>
     \/ /\ ~Preempting /\ ~LastBatch
        /\ deadline' = "running"
        /\ phase' = "InterBatchDelay"
        /\ UNCHANGED <<owner, request, result, enableHardwareReady, downwardStage,
                       primaryFailure>>

UpdateEnablingHold ==
  /\ EnablingCycle
  /\ InvalidAxes = {} /\ ~BatchComplete /\ ~BatchTimedOut
  /\ UNCHANGED <<phase, owner, request, result, lastFailure, enableHardwareReady,
                 downwardStage, deadline, primaryFailure>>

-----------------------------------------------------------------------------
(* JtcActivating, Enabled and JtcDeactivating with every axis in order.    *)

PoweredCycle ==
  /\ Powered /\ LostAxes = {}
  /\ UNCHANGED <<owner, result, enableHardwareReady, emergencyJtcDeactivateRequest,
                 currentBatch, enablePreemptRequested, interruptedOwner, resetTargets>>

UpdateJtcActivateFailed ==
  /\ PoweredCycle
  /\ phase = "JtcActivating" /\ jtcActivateFailedRequest
  /\ jtcActivateFailedRequest' = FALSE
  /\ primaryFailure' = "jtc_activate_failed"
  /\ lastFailure' = "jtc_activate_failed"
  /\ startDownward("Rollback")
  /\ UNCHANGED <<request, controlWord>>

UpdatePoweredDisableUnlessDeactivating ==
  /\ PoweredCycle
  /\ phase # "JtcActivating" /\ request["disable"]
  /\ SetAllControlWords(EnableOperation)
  /\ request' = [request EXCEPT !["disable"] = FALSE]
  /\ IF phase = "Enabled" THEN startDownward("Disabling")
                          ELSE UNCHANGED <<phase, downwardStage, deadline>>
  /\ UNCHANGED <<lastFailure, jtcActivateFailedRequest, primaryFailure>>
UpdatePoweredDisable ==
  /\ PoweredCycle
  /\ phase # "JtcActivating" /\ request["disable"]
  /\ SetAllControlWords(EnableOperation)
  /\ request' = [request EXCEPT !["disable"] = FALSE]
  /\ startDownward("Disabling")
  /\ UNCHANGED <<lastFailure, jtcActivateFailedRequest, primaryFailure>>

UpdatePoweredHold ==
  /\ PoweredCycle
  /\ IF phase = "JtcActivating" THEN ~jtcActivateFailedRequest ELSE ~request["disable"]
  /\ SetAllControlWords(EnableOperation)
  /\ UNCHANGED <<phase, request, lastFailure, jtcActivateFailedRequest, downwardStage,
                 deadline, primaryFailure>>

-----------------------------------------------------------------------------
(* updateReset(): a low cycle, then bit 7 on the targets still in Fault.   *)

ResetCycle ==
  /\ phase \in {"ResetLow", "ResetHigh"}
  /\ UNCHANGED <<enableHardwareReady, jtcActivateFailedRequest,
                 emergencyJtcDeactivateRequest, currentBatch, enablePreemptRequested,
                 interruptedOwner, resetTargets>>

ResetPending == {a \in Axes : ~isConfirmedDisableTerminal(a, status[a])}

UpdateResetPreempted ==
  /\ ResetCycle
  /\ request["disable"]
  /\ SetAllControlWords(DisableVoltage)
  /\ request' = [request EXCEPT !["disable"] = FALSE]
  /\ result' = [result EXCEPT !["reset"] = Published(FALSE, "preempted_by_disable")]
  /\ owner' = "Disable"
  /\ primaryFailure' = "success"
  /\ startDownward("Disabling")
  /\ UNCHANGED lastFailure

UpdateResetLow ==
  /\ ResetCycle
  /\ ~request["disable"] /\ phase = "ResetLow"
  /\ SetAllControlWords(DisableVoltage)
  /\ deadline' = "running"
  /\ phase' = "ResetHigh"
  /\ UNCHANGED <<owner, request, result, lastFailure, downwardStage, primaryFailure>>

EndReset(ok, stage, p) ==
  /\ result' = [result EXCEPT !["reset"] = Published(ok, stage)]
  /\ lastFailure' = stage
  /\ phase' = p
  /\ owner' = "None"

\* The pulse: bit 7 for the targets that are still in Fault, unless time is up.
ResetWordHeld(a) == IF a \in resetTargets THEN FaultReset ELSE DisableVoltage
ResetWord(a) ==
  IF a \in resetTargets /\ status[a] = "Fault"
       /\ ~(ResetPending # {} /\ deadline = "expired")
    THEN FaultReset ELSE DisableVoltage

UpdateResetHigh ==
  /\ ResetCycle
  /\ ~request["disable"] /\ phase = "ResetHigh"
  /\ controlWord' = [a \in Axes |-> ResetWord(a)]
  /\ \/ ResetPending = {} /\ EndReset(TRUE, "success", "Idle")
     \/ /\ ResetPending # {} /\ deadline = "expired"
        /\ EndReset(FALSE, "fault_reset_timeout", "Failed")
     \/ /\ ResetPending # {} /\ deadline # "expired"
        /\ UNCHANGED <<phase, owner, result, lastFailure>>
  /\ UNCHANGED <<request, downwardStage, deadline, primaryFailure>>

-----------------------------------------------------------------------------
Update ==
  /\ active
  /\ \/ UpdateGroupStop \/ UpdateEmergencyQuickStop
     \/ UpdateDownwardAdvance \/ UpdateDownwardFinish
     \/ UpdateDownwardTimeout \/ UpdateDownwardHold
     \/ UpdateIdleEnable \/ UpdateIdleReset \/ UpdateIdleDisable
     \/ UpdateFailedDisable \/ UpdateFailedReset \/ UpdateRest
     \/ UpdateEnableFault \/ UpdateInterBatchDelay
     \/ UpdateEnablingInvalid \/ UpdateEnablingTimeout
     \/ UpdateEnablingComplete \/ UpdateEnablingHold
     \/ UpdateJtcActivateFailed \/ UpdatePoweredDisable \/ UpdatePoweredHold
     \/ UpdateResetPreempted \/ UpdateResetLow \/ UpdateResetHigh
  /\ UNCHANGED <<active, restartRequired, switchInProgress, jtcDeactivateFailed,
                 threadVars, status, cmVars, budget>>

(***************************************************************************)
(* Lifecycle callbacks: the controller manager runs them in the real-time  *)
(* thread, between two cycles.                                             *)
(***************************************************************************)
Spend(e) == budget[e] > 0 /\ budget' = [budget EXCEPT ![e] = @ - 1]

OnActivate ==
  /\ ~active
  /\ SetAllControlWords(DisableVoltage)
  /\ request' = [s \in Service |-> FALSE]
  /\ enableHardwareReady' = FALSE /\ jtcActivateFailedRequest' = FALSE
  /\ emergencyJtcDeactivateRequest' = FALSE /\ restartRequired' = FALSE
  /\ jtcDeactivateFailed' = FALSE /\ lastFailure' = "success"
  /\ currentBatch' = 1 /\ downwardStage' = 0 /\ deadline' = "unset"
  /\ enablePreemptRequested' = FALSE /\ primaryFailure' = "success"
  /\ owner' = "Internal" /\ phase' = "StartupSanitizing" /\ active' = TRUE
  /\ UNCHANGED <<result, switchInProgress, interruptedOwner, resetTargets, threadVars,
                 status, cmVars, budget>>

OnDeactivate ==
  /\ active
  /\ Spend("deactivate")
  /\ active' = FALSE
  /\ SetAllControlWords(DisableVoltage)
  /\ phase' = "Inactive"
  /\ owner' = "Internal"
  /\ UNCHANGED <<request, result, lastFailure, flagVars, rtVars, threadVars, status,
                 cmVars>>

-----------------------------------------------------------------------------
(* Steps of the callbacks.  Goto moves a thread; rtView is what a callback *)
(* never touches.                                                          *)

Goto(t, from, to) == pc[t] = from /\ pc' = [pc EXCEPT ![t] = to]
rtView == <<active, rtVars, controlWord, status>>

\* A call: early returns leave everything as it was and only use up the call.
EnableCall ==
  /\ Spend("enable")
  /\ Goto("enable", "idle",
          IF active /\ ~restartRequired /\ phase # "Enabled" THEN "admit" ELSE "idle")
  /\ UNCHANGED <<rtView, serverVars, flagVars, seenPhase, cmVars>>

\* The second load of the phase ...
EnableAdmit ==
  /\ Goto("enable", "admit", IF phase = "Idle" THEN "acquire" ELSE "idle")
  /\ UNCHANGED <<rtView, serverVars, flagVars, seenPhase, cmVars, budget>>

\* ... and the compare-exchange of the owner are two steps.
EnableAcquire ==
  /\ \/ /\ owner = "None" /\ owner' = "Enable"
        /\ Goto("enable", "acquire", "arm")
     \/ /\ owner # "None" /\ UNCHANGED owner
        /\ Goto("enable", "acquire", "idle")
  /\ UNCHANGED <<rtView, phase, request, result, lastFailure, flagVars, seenPhase,
                 cmVars, budget>>

EnableArm ==
  /\ Goto("enable", "arm", "wait")
  /\ result' = [result EXCEPT !["enable"].ready = FALSE]
  /\ enableHardwareReady' = FALSE
  /\ request' = [request EXCEPT !["enable"] = TRUE]
  /\ UNCHANGED <<rtView, phase, owner, lastFailure, jtcActivateFailedRequest,
                 emergencyJtcDeactivateRequest, restartRequired, switchInProgress,
                 jtcDeactivateFailed, seenPhase, cmVars, budget>>

\* The polling loop ends on a result, on ready hardware or on deactivation.
EnableWait ==
  /\ \/ result["enable"].ready /\ Goto("enable", "wait", "idle")
     \/ /\ ~result["enable"].ready /\ enableHardwareReady
        /\ Goto("enable", "wait", "begin")
     \/ /\ ~result["enable"].ready /\ ~enableHardwareReady /\ ~active
        /\ Goto("enable", "wait", "idle")
  /\ UNCHANGED <<rtView, serverVars, flagVars, seenPhase, cmVars, budget>>

\* The JTC is active: commit if the phase is (still) JtcActivating.
EnableSwitchOk ==
  /\ Goto("enable", "switchOk",
          IF phase = "JtcActivating" THEN "commit" ELSE "finalWait")
  /\ UNCHANGED <<rtView, serverVars, flagVars, seenPhase, cmVars, budget>>

EnableCommit ==
  /\ Goto("enable", "commit", "publish")
  /\ lastFailure' = "success"
  /\ phase' = "Enabled"
  /\ UNCHANGED <<rtView, owner, request, result, flagVars, seenPhase, cmVars, budget>>

EnablePublish ==
  /\ Goto("enable", "publish", "release")
  /\ result' = [result EXCEPT !["enable"] = Published(TRUE, "success")]
  /\ UNCHANGED <<rtView, phase, owner, request, lastFailure, flagVars, seenPhase, cmVars,
                 budget>>

EnableRelease ==
  /\ Goto("enable", "release", "finalWait")
  /\ owner' = "None"
  /\ UNCHANGED <<rtView, phase, request, result, lastFailure, flagVars, seenPhase,
                 cmVars, budget>>

\* The switch did not succeed; when its outcome is unknown a restart is required.
EnableSwitchAmbiguous ==
  /\ Goto("enable", "switchAmbiguous", "failCheck")
  /\ restartRequired' = TRUE
  /\ emergencyJtcDeactivateRequest' = TRUE
  /\ UNCHANGED <<rtView, serverVars, enableHardwareReady, jtcActivateFailedRequest,
                 switchInProgress, jtcDeactivateFailed, seenPhase, cmVars, budget>>

EnableFailCheck ==
  /\ \E from \in {"switchFailed", "failCheck"} :
       Goto("enable", from, IF phase = "JtcActivating" THEN "failSet" ELSE "finalWait")
  /\ UNCHANGED <<rtView, serverVars, flagVars, seenPhase, cmVars, budget>>

EnableFailSet ==
  /\ Goto("enable", "failSet", "finalWait")
  /\ jtcActivateFailedRequest' = TRUE
  /\ UNCHANGED <<rtView, serverVars, enableHardwareReady, emergencyJtcDeactivateRequest,
                 restartRequired, switchInProgress, jtcDeactivateFailed, seenPhase,
                 cmVars, budget>>

-----------------------------------------------------------------------------
BusyForDisable == {"StartupSanitizing", "EmergencyQuickStop", "EmergencyDisable",
                   "JtcActivating", "Disabling", "Rollback"}

\* handleDisable loads the phase once and works from that copy (until it has armed
\* the operation: the copy is dead afterwards and returns to its initial value).
DisableCall ==
  LET admitted == active /\ phase # "Idle" /\ phase \notin BusyForDisable
  IN  /\ Spend("disable")
      /\ Goto("disable", "idle", IF admitted THEN "acquire" ELSE "idle")
      /\ seenPhase' = IF admitted THEN phase ELSE seenPhase
      /\ UNCHANGED <<rtView, serverVars, flagVars, cmVars>>

PreemptEnable == owner = "Enable" /\ seenPhase \in EnablePhase
PreemptReset  == owner = "Reset" /\ seenPhase \in {"ResetLow", "ResetHigh"}

\* Preempt an enable or a reset without owning the operation, or take ownership.
DisableAcquire ==
  /\ \/ /\ PreemptEnable \/ PreemptReset
        /\ UNCHANGED owner
        /\ Goto("disable", "acquire", "arm")
     \/ /\ ~PreemptEnable /\ ~PreemptReset /\ owner = "None"
        /\ owner' = "Disable"
        /\ Goto("disable", "acquire", "arm")
     \/ /\ ~PreemptEnable /\ ~PreemptReset /\ owner # "None"
        /\ UNCHANGED owner
        /\ Goto("disable", "acquire", "idle")
  /\ seenPhase' = IF pc'["disable"] = "idle" THEN "Idle" ELSE seenPhase
  /\ UNCHANGED <<rtView, phase, request, result, lastFailure, flagVars, cmVars, budget>>

\* From Enabled the JTC is deactivated first; otherwise the request goes straight in.
SeenPowering == seenPhase \in EnablePhase \cup {"Enabled"}
SeenEnabled  == seenPhase = "Enabled"

DisableArm ==
  /\ result' = [result EXCEPT !["disable"].ready = FALSE]
  /\ jtcDeactivateFailed' = FALSE
  /\ \/ /\ SeenEnabled
        /\ phase' = "JtcDeactivating"
        /\ Goto("disable", "arm", "begin")
        /\ UNCHANGED request
     \/ /\ ~SeenEnabled
        /\ request' = [request EXCEPT !["disable"] = TRUE]
        /\ Goto("disable", "arm", "wait")
        /\ UNCHANGED phase
  /\ seenPhase' = "Idle"
  /\ UNCHANGED <<rtView, owner, lastFailure, enableHardwareReady,
                 jtcActivateFailedRequest, emergencyJtcDeactivateRequest,
                 restartRequired, switchInProgress, cmVars, budget>>

DisableSwitchFailed ==
  /\ \E from \in {"switchFailed", "switchAmbiguous"} : Goto("disable", from, "request")
  /\ jtcDeactivateFailed' = TRUE
  /\ restartRequired' = TRUE
  /\ lastFailure' = "jtc_deactivate_failed"
  /\ UNCHANGED <<rtView, phase, owner, request, result, enableHardwareReady,
                 jtcActivateFailedRequest, emergencyJtcDeactivateRequest,
                 switchInProgress, seenPhase, cmVars, budget>>

DisableRequest ==
  /\ \E from \in {"switchOk", "request"} : Goto("disable", from, "wait")
  /\ request' = [request EXCEPT !["disable"] = TRUE]
  /\ UNCHANGED <<rtView, phase, owner, result, lastFailure, flagVars, seenPhase, cmVars,
                 budget>>

-----------------------------------------------------------------------------
ResetCall ==
  /\ Spend("reset")
  /\ Goto("reset", "idle",
          IF active /\ ~restartRequired /\ phase \in {"Idle", "Failed"}
            THEN "acquire" ELSE "idle")
  /\ UNCHANGED <<rtView, serverVars, flagVars, seenPhase, cmVars>>

ResetAcquire ==
  /\ \/ /\ owner = "None" /\ owner' = "Reset"
        /\ Goto("reset", "acquire", "arm")
     \/ /\ owner # "None" /\ UNCHANGED owner
        /\ Goto("reset", "acquire", "idle")
  /\ UNCHANGED <<rtView, phase, request, result, lastFailure, flagVars, seenPhase,
                 cmVars, budget>>

ResetArm ==
  /\ Goto("reset", "arm", "wait")
  /\ result' = [result EXCEPT !["reset"].ready = FALSE]
  /\ request' = [request EXCEPT !["reset"] = TRUE]
  /\ UNCHANGED <<rtView, phase, owner, lastFailure, flagVars, seenPhase, cmVars, budget>>

\* Where a callback waits in waitForResult().
FinalPoint == [s \in Service |-> IF s = "enable" THEN "finalWait" ELSE "wait"]

\* waitForResult() ends on the result, or when the controller is deactivated.
WaitForResult(s) ==
  /\ result[s].ready \/ ~active
  /\ Goto(s, FinalPoint[s], "idle")
  /\ UNCHANGED <<rtView, serverVars, flagVars, seenPhase, cmVars, budget>>

\* service_result_timeout runs out before either loop saw its condition.
ServiceTimeout(s) ==
  /\ Spend("serviceTimeout")
  /\ ~result[s].ready
  /\ \/ Goto(s, FinalPoint[s], "idle")
     \/ s = "enable" /\ ~enableHardwareReady /\ Goto(s, "wait", "idle")
  /\ UNCHANGED <<rtView, serverVars, flagVars, seenPhase, cmVars>>

-----------------------------------------------------------------------------
(* The worker timer: after an emergency it deactivates the JTC, once.      *)

WorkerTake ==
  /\ emergencyJtcDeactivateRequest
  /\ emergencyJtcDeactivateRequest' = FALSE
  /\ Goto("worker", "idle", "begin")
  /\ UNCHANGED <<rtView, serverVars, enableHardwareReady, jtcActivateFailedRequest,
                 restartRequired, switchInProgress, jtcDeactivateFailed, seenPhase,
                 cmVars, budget>>

\* The timer's group is Reentrant: another instance may run while one still waits for
\* its switch.  Its own switchJtc() is refused, which it takes for a failure.
WorkerOverlap ==
  /\ emergencyJtcDeactivateRequest
  /\ pc["worker"] # "idle" /\ switchInProgress
  /\ emergencyJtcDeactivateRequest' = FALSE
  /\ restartRequired' = TRUE
  /\ UNCHANGED <<rtView, serverVars, enableHardwareReady, jtcActivateFailedRequest,
                 switchInProgress, jtcDeactivateFailed, threadVars, cmVars, budget>>

WorkerFailedOnRefusal(from) == from = "switchFailed"
WorkerFailed(from)          == from # "switchOk"

WorkerDone ==
  /\ \E from \in {"switchOk", "switchFailed", "switchAmbiguous"} :
       /\ Goto("worker", from, "idle")
       /\ restartRequired' = (restartRequired \/ WorkerFailed(from))
  /\ UNCHANGED <<rtView, serverVars, enableHardwareReady, jtcActivateFailedRequest,
                 emergencyJtcDeactivateRequest, switchInProgress, jtcDeactivateFailed,
                 seenPhase, cmVars, budget>>

-----------------------------------------------------------------------------
(* switchJtc(): refused while another switch runs; otherwise a request is  *)
(* sent and its answer awaited for controller_switch_timeout.              *)

Switching(t) == pc[t] = "switching"

SwitchUnguarded == FALSE
SwitchBusy      == switchInProgress

SwitchBegin(t) ==
  /\ \/ /\ SwitchBusy
        /\ Goto(t, "begin", "switchAmbiguous")
        /\ UNCHANGED <<switchInProgress, cmQueue>>
     \/ /\ ~SwitchBusy
        /\ Goto(t, "begin", "switching")
        /\ switchInProgress' = TRUE
        /\ cmQueue' = Append(cmQueue,
                             [by |-> t, activate |-> (t = "enable"), live |-> TRUE])
  /\ UNCHANGED <<rtView, serverVars, enableHardwareReady, jtcActivateFailedRequest,
                 emergencyJtcDeactivateRequest, restartRequired, jtcDeactivateFailed,
                 seenPhase, jtc, budget>>

\* The switch service is not there: the call returns without having sent anything.
SwitchAbsent(t) ==
  /\ Spend("switchAbsent")
  /\ ~switchInProgress
  /\ Goto(t, "begin", "switchAmbiguous")
  /\ UNCHANGED <<rtView, serverVars, flagVars, seenPhase, cmVars>>

\* The caller stops waiting; its request stays with the controller manager.
SwitchTimeout(t) ==
  /\ Spend("switchTimeout")
  /\ Goto(t, "switching", "switchAmbiguous")
  /\ switchInProgress' = FALSE
  /\ cmQueue' = [i \in DOMAIN cmQueue |-> [cmQueue[i] EXCEPT !.live = FALSE]]
  /\ UNCHANGED <<rtView, serverVars, enableHardwareReady, jtcActivateFailedRequest,
                 emergencyJtcDeactivateRequest, restartRequired, jtcDeactivateFailed,
                 seenPhase, jtc>>

\* The controller manager executes the oldest request and answers a waiting caller.
\* STRICT: a switch to the state the JTC is in already fails.
CmSwitch(ok) ==
  LET r      == Head(cmQueue)
      target == IF r.activate THEN "active" ELSE "inactive"
  IN  /\ cmQueue # <<>>
      /\ cmQueue' = Tail(cmQueue)
      /\ jtc' = IF ok THEN target ELSE jtc
      /\ \/ ok /\ jtc # target /\ UNCHANGED budget
         \/ ~ok /\ jtc = target /\ UNCHANGED budget
         \/ ~ok /\ jtc # target /\ Spend("switchFail")
      /\ IF r.live /\ Switching(r.by)
           THEN /\ pc' = [pc EXCEPT ![r.by] = IF ok THEN "switchOk" ELSE "switchFailed"]
                /\ switchInProgress' = FALSE
           ELSE UNCHANGED <<pc, switchInProgress>>
      /\ UNCHANGED <<rtView, serverVars, enableHardwareReady, jtcActivateFailedRequest,
                     emergencyJtcDeactivateRequest, restartRequired,
                     jtcDeactivateFailed, seenPhase>>

-----------------------------------------------------------------------------
(* The drives and the clock.                                               *)

\* Where a CiA 402 drive may go under a control word.
RestState(a) == IF a \in Ti5 THEN "ReadyToSwitchOn" ELSE "SwitchOnDisabled"
DriveNext(a, s, w) ==
  CASE s = "NotReady" -> "SwitchOnDisabled"
    [] s = "SwitchOnDisabled" /\ w = Shutdown -> "ReadyToSwitchOn"
    [] s = "ReadyToSwitchOn" /\ w \in {SwitchOn, EnableOperation} -> "SwitchedOn"
    [] s = "SwitchedOn" /\ w = EnableOperation -> "OperationEnabled"
    [] s = "OperationEnabled" /\ w = SwitchOn -> "SwitchedOn"
    [] s \in {"SwitchedOn", "OperationEnabled"} /\ w = Shutdown -> "ReadyToSwitchOn"
    [] s = "OperationEnabled" /\ w = QuickStop -> "QuickStopActive"
    [] s \in {"ReadyToSwitchOn", "SwitchedOn", "OperationEnabled", "QuickStopActive"}
         /\ w = DisableVoltage -> RestState(a)
    [] s = "FaultReactionActive" -> "Fault"
    [] s = "Fault" /\ w = FaultReset -> "SwitchOnDisabled"
    [] s = "Unknown" -> "SwitchOnDisabled"
    [] OTHER -> s

DriveStep(a) ==
  /\ status' = [status EXCEPT ![a] = DriveNext(a, status[a], controlWord[a])]
  /\ UNCHANGED <<active, serverVars, flagVars, rtVars, threadVars, controlWord, cmVars,
                 budget>>

\* A fault, a local safety input or a lost status word.
DriveUpset(a) ==
  /\ Spend("upset")
  /\ \E s \in Upsets : status' = [status EXCEPT ![a] = s]
  /\ UNCHANGED <<active, serverVars, flagVars, rtVars, threadVars, controlWord, cmVars>>

TimedPhase == DownwardPhase \cup EnablePhase \cup {"ResetHigh", "EmergencyQuickStop"}

DeadlineExpires ==
  /\ active /\ phase \in TimedPhase
  /\ deadline = "running"
  /\ deadline' = "expired"
  /\ UNCHANGED <<active, serverVars, flagVars, currentBatch, downwardStage,
                 enablePreemptRequested, interruptedOwner, primaryFailure, resetTargets,
                 threadVars, controlWord, status, cmVars, budget>>

-----------------------------------------------------------------------------
EnableStep ==
  \/ EnableAdmit \/ EnableAcquire \/ EnableArm \/ EnableWait
  \/ EnableSwitchOk \/ EnableCommit \/ EnablePublish \/ EnableRelease
  \/ EnableSwitchAmbiguous \/ EnableFailCheck \/ EnableFailSet
  \/ SwitchBegin("enable") \/ WaitForResult("enable")
DisableStep ==
  \/ DisableAcquire \/ DisableArm \/ DisableSwitchFailed \/ DisableRequest
  \/ SwitchBegin("disable") \/ WaitForResult("disable")
ResetStep  == ResetAcquire \/ ResetArm \/ WaitForResult("reset")
WorkerStep == WorkerTake \/ WorkerOverlap \/ WorkerDone \/ SwitchBegin("worker")

Calls == EnableCall \/ DisableCall \/ ResetCall
CmAnswer == \E ok \in BOOLEAN : CmSwitch(ok)
Mishap ==
  \/ \E s \in Service : ServiceTimeout(s)
  \/ \E t \in Thread : SwitchAbsent(t) \/ SwitchTimeout(t)
Drives == \E a \in Axes : DriveStep(a) \/ DriveUpset(a)

Next ==
  \/ Update \/ OnActivate \/ OnDeactivate
  \/ EnableStep \/ DisableStep \/ ResetStep \/ WorkerStep
  \/ Calls \/ CmAnswer \/ Mishap \/ Drives \/ DeadlineExpires

Spec == Init /\ [][Next]_vars

\* The real-time loop, the executor threads and the controller manager keep running
\* and time passes; nothing obliges a drive to obey or a caller to call.
Fairness ==
  /\ WF_vars(OnActivate) /\ WF_vars(Update) /\ WF_vars(DeadlineExpires)
  /\ WF_vars(EnableStep) /\ WF_vars(DisableStep) /\ WF_vars(ResetStep)
  /\ WF_vars(WorkerStep) /\ WF_vars(CmAnswer)

FairSpec == Spec /\ Fairness

-----------------------------------------------------------------------------
(* Safety.                                                                 *)

\* switchJtc(): whatever the interleaving of enable, disable, worker, timeouts and late
\* answers, switch_in_progress_ is set exactly while one thread waits for the controller
\* manager, only one does, and the request it waits for is still to be answered.
SwitchExclusive ==
  /\ switchInProgress <=> (\E t \in Thread : Switching(t))
  /\ \A t, u \in Thread : Switching(t) /\ Switching(u) => t = u
  /\ \A t \in Thread : Switching(t) =>
       \E i \in DOMAIN cmQueue : cmQueue[i].live /\ cmQueue[i].by = t

\* updateEnable(): the JTC is only asked for once every axis of every batch, not just
\* of the last one, reports Operation Enabled.
ReadyMeansPowered ==
  [][(phase # "JtcActivating" /\ phase' = "JtcActivating") =>
       \A a \in Axes : status[a] = "OperationEnabled"]_vars

AllConfirmed == \A a \in Axes : isConfirmedDisableTerminal(a, status[a])

\* finishDownward(), updateReset(): no operation ends in Idle, by its normal path or
\* after a timeout escalated it, unless every axis is confirmed disabled.
IdleAfterConfirmation ==
  [][(phase \notin {"Idle", "Failed"} /\ phase' = "Idle") => AllConfirmed]_vars

\* Idle and Inactive leave every drive at Disable Voltage: no path into them forgets a
\* word an earlier cycle wrote, and no late callback store brings one back.
IdleIsVoltageFree ==
  phase \in {"Idle", "Inactive"} => \A a \in Axes : controlWord[a] = DisableVoltage

\* updateEnable(): while the sequence is at a batch, an axis of a later batch is given
\* nothing but Disable Voltage, also across delays, preemptions and retries.  The one
\* exception is a drive that is on although nobody raised it (a stuck drive, found after
\* a reset took Failed to Idle unconfirmed): a delay holds it where it is.
LaterAxes == Axes \ (PreviousAxes \cup CurrentAxes)
LaterBatchesHeldOff ==
  [][phase' \in EnablePhase =>
       \A a \in LaterAxes' : controlWord'[a] # DisableVoltage =>
         /\ controlWord'[a] = EnableOperation
         /\ \/ status[a] = "OperationEnabled"
            \/ phase \in EnablePhase /\ a \in LaterAxes /\ controlWord[a] = EnableOperation]_vars

\* updateReset() and the fault paths: a cycle never writes a faulted axis a word that
\* moves it, and bit 7 appears only on an axis in Fault, as a rising edge from 0x0000.
FaultResetDiscipline ==
  [][controlWord' # controlWord =>
       \A a \in Axes :
         /\ isFaultState(status[a]) => controlWord'[a] \in {DisableVoltage, FaultReset}
         /\ controlWord'[a] = FaultReset =>
              /\ status[a] = "Fault"
              /\ controlWord[a] \in {DisableVoltage, FaultReset}]_vars

Emergency == {"EmergencyQuickStop", "EmergencyDisable"}
\* The ways out of an emergency phase: forward, to its end, with the controller, or by the
\* store of a callback that had tested the phase before.
EmergencyLeft ==
  \/ phase = "EmergencyQuickStop" /\ phase' = "EmergencyDisable"
  \/ phase = "EmergencyDisable" /\ phase' \in {"Idle", "Failed"}
  \/ phase' = "Inactive"
  \/ pc["disable"] = "arm" /\ seenPhase = "Enabled" /\ phase' = "JtcDeactivating"
  \/ pc["enable"] = "commit" /\ phase' = "Enabled"

\* An emergency stop runs its course, Quick Stop, then the descent, then Idle or Failed: no
\* call, fault or timeout cancels or restarts it (BQ-057), except for the two stores a
\* callback makes on a phase it tested before the emergency began, handleDisable() on
\* Enabled and handleEnable() on JtcActivating.
EmergencyRunsOut == [][(phase \in Emergency /\ phase' # phase) => EmergencyLeft]_vars

-----------------------------------------------------------------------------
(* Liveness, under FairSpec: drives may ignore every control word.         *)

\* A descent always ends: updateDownward() escalates once, and the emergency path is
\* left on its deadline even when no drive follows.
DescentEnds ==
  (phase \in DownwardPhase \cup {"EmergencyQuickStop"})
    ~> (phase \in {"Idle", "Failed", "Inactive"})

\* A demand to stop the JTC that update() raised is met by the worker timer, or the
\* process is marked as needing a restart: it is never lost among the switches.
FaultStopReachesJtc ==
  (emergencyJtcDeactivateRequest /\ jtc = "active")
    ~> (jtc = "inactive" \/ restartRequired)

\* updateEnable() leaves the batch sequence, up or down, and the handover to the JTC that
\* follows it ends too: nobody can stop or restart a group that is left in JtcActivating.
EnableSequenceEnds ==
  (phase \in EnablePhase \cup {"JtcActivating"})
    ~> (phase \notin EnablePhase \cup {"JtcActivating"})

\* handleEnable() returns without its 30 s timeout, through every failure, preemption
\* and emergency that can interrupt it (when no fault reset runs beside it).
EnableAnswered == (pc["enable"] # "idle") ~> (pc["enable"] = "idle")

\* A disable that reached update() takes the drives down even when a fault in the same
\* cycle clears its request: only its answer can be lost, never the stop.
DisableTakesEffect ==
  (pc["disable"] = "wait" /\ request["disable"])
    ~> (phase \in {"Idle", "Failed", "Inactive"})

-----------------------------------------------------------------------------
(* What the design decisions in domains/rt_control say and the code, in    *)
(* some interleaving, does not do.                                         *)

\* BQ-044: a disable that reports success has deactivated the JTC.
DisableDeactivatesJtc ==
  [][(~result["disable"].ready /\ result'["disable"].ready /\ result'["disable"].ok)
       => jtc = "inactive"]_vars

\* BQ-038: /rt/disable preempts a fault reset.  In particular a disable of running
\* drives is never turned away because a reset has taken the owner.
DisablePreemptsReset ==
  [][(pc["disable"] = "acquire" /\ pc'["disable"] = "idle" /\ seenPhase = "Enabled")
       => owner # "Reset"]_vars

=============================================================================
