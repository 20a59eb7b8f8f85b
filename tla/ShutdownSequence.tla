-------------------------- MODULE ShutdownSequence --------------------------
(***************************************************************************)
(* The supported entry point of rt-control and its orderly shutdown: the   *)
(* rt_control_start wrapper (a shell script with a signal trap, PID 1 of   *)
(* the container), the launch it starts in a process group of its own, and *)
(* rt_disable_once, the one-shot client that disables the axes, quiesces   *)
(* the controllers and deactivates the EtherCAT hardware before the launch *)
(* is interrupted.  IpcLauncher puts it into its container.                *)
(*                                                                         *)
(* Services answer late or never; a request that was sent may be executed  *)
(* after the client gave up.  The shell runs a pending trap between two    *)
(* commands, or at once when it stands in "wait".                          *)
(*                                                                         *)
(* An operator that stands just before another one and is used nowhere is  *)
(* a mutated form of it: a bug the properties are shown to catch.          *)
(***************************************************************************)
EXTENDS Naturals

CONSTANTS Limit  \* how many signals, interrupts and restarts there may be (bound)

ASSUME LimitAssumption == Limit \in Nat

Call     == {"disable", "quiesce", "deactivate"}
NextCall == [c \in Call |-> CASE c = "disable" -> "quiesce"
                              [] c = "quiesce" -> "deactivate"
                              [] OTHER -> "finish"]

VARIABLES
  wrapper,      \* "entry", "starting", "forked", "waiting" or "exited"
  budget,       \* what is left of the limit
  pendingSignal, shutdownStarted,
  handler,      \* "off", "helper" or "forward"
  child,        \* the launch: "none", "running", "interrupted", "gone"
  helper,       \* "off", a call, or "finish"
  sent,         \* the current call has been sent
  late,         \* the helper's deadline is over
  rosOk,        \* rclcpp::ok() in the helper
  done,         \* the calls that returned true
  exitClean,    \* the helper's exit status
  requests,     \* calls the servers may still execute
  answer,       \* the reply to the current call: "none", "ok", "refused"
  axes,         \* "on", or "off": disabled, or faulted and without voltage
  manager, hardware

shellVars  == <<wrapper, budget, pendingSignal, shutdownStarted, handler>>
helperVars == <<helper, sent, late, rosOk, done, exitClean>>
robotVars  == <<axes, manager, hardware>>
shutdownVars == <<shellVars, child, helperVars, requests, answer, robotVars>>

ShutdownTypeOK ==
  /\ wrapper \in {"entry", "starting", "forked", "waiting", "exited"}
  /\ budget \in 0..Limit /\ pendingSignal \in BOOLEAN
  /\ shutdownStarted \in BOOLEAN
  /\ handler \in {"off", "helper", "forward"}
  /\ child \in {"none", "running", "interrupted", "gone"}
  /\ helper \in Call \cup {"off", "finish"}
  /\ sent \in BOOLEAN /\ late \in BOOLEAN /\ rosOk \in BOOLEAN /\ exitClean \in BOOLEAN
  /\ done \in SUBSET Call /\ requests \in SUBSET Call
  /\ answer \in {"none", "ok", "refused"}
  /\ axes \in {"off", "on"}
  /\ manager \in {"absent", "active", "inactive"}
  /\ hardware \in {"active", "inactive"}

\* Before the first start.
ShutdownInit ==
  /\ wrapper = "exited" /\ budget = Limit /\ pendingSignal = FALSE
  /\ shutdownStarted = FALSE /\ handler = "off"
  /\ child = "none"
  /\ helper = "off" /\ sent = FALSE /\ late = FALSE /\ rosOk = TRUE
  /\ done = {} /\ exitClean = FALSE
  /\ requests = {} /\ answer = "none"
  /\ axes = "off" /\ manager = "absent" /\ hardware = "inactive"

-----------------------------------------------------------------------------
(* rt_control_start                                                        *)

\* A new process: the entrypoint script, then the wrapper.
Boot ==
  /\ wrapper = "exited"
  /\ wrapper' = "entry" /\ pendingSignal' = FALSE
  /\ shutdownStarted' = FALSE /\ handler' = "off"
  /\ child' = "none"
  /\ helper' = "off" /\ sent' = FALSE /\ late' = FALSE /\ rosOk' = TRUE
  /\ done' = {} /\ exitClean' = FALSE
  /\ requests' = {} /\ answer' = "none"
  /\ axes' = "off" /\ manager' = "absent" /\ hardware' = "active"

SetTrap ==
  /\ wrapper = "entry"
  /\ wrapper' = "starting"
  /\ UNCHANGED <<budget, pendingSignal, shutdownStarted, handler, child,
                 helperVars, requests, answer, robotVars>>

ShellReady == handler = "off" /\ ~pendingSignal

Fork ==
  /\ wrapper = "starting" /\ ShellReady
  /\ wrapper' = "forked" /\ child' = "running"
  /\ UNCHANGED <<budget, pendingSignal, shutdownStarted, handler, helperVars, requests,
                 answer, robotVars>>

StorePid ==
  /\ wrapper = "forked" /\ ShellReady
  /\ wrapper' = "waiting"
  /\ UNCHANGED <<budget, pendingSignal, shutdownStarted, handler, child,
                 helperVars, requests, answer, robotVars>>

\* A signal reaches the shell, which as PID 1 ignores it until the trap is set.
Deliver == pendingSignal' = (wrapper # "entry")

\* Somebody signals the processes; when it goes to the whole foreground group, the
\* helper gets it too, and its rclcpp context shuts down.
Signal ==
  /\ wrapper # "exited" /\ budget > 0
  /\ budget' = budget - 1
  /\ Deliver
  /\ rosOk' \in IF handler = "helper" THEN {rosOk, FALSE} ELSE {rosOk}
  /\ UNCHANGED <<wrapper, shutdownStarted, handler, child, helper, sent,
                 late, done, exitClean, requests, answer, robotVars>>

\* forward_shutdown(): the first signal starts the helper, later ones return at once.
Trap ==
  /\ pendingSignal /\ handler # "helper" /\ wrapper # "exited"
  /\ pendingSignal' = FALSE
  /\ IF shutdownStarted
       THEN UNCHANGED <<shutdownStarted, handler, helper>>
       ELSE shutdownStarted' = TRUE /\ handler' = "helper" /\ helper' = "disable"
  /\ UNCHANGED <<wrapper, budget, child, sent, late, rosOk, done,
                 exitClean, requests, answer, robotVars>>

\* The helper has exited; the launch is interrupted if its pid is known and it lives.
Forward ==
  /\ handler = "forward"
  /\ handler' = "off"
  /\ child' = IF wrapper = "waiting" /\ child = "running" THEN "interrupted" ELSE child
  /\ UNCHANGED <<wrapper, budget, pendingSignal, shutdownStarted, helperVars,
                 requests, answer, robotVars>>

\* PID 1 ends, and every process with it.
End ==
  /\ wrapper' = "exited" /\ child' = "none" /\ shutdownStarted' = FALSE /\ requests' = {}
  /\ UNCHANGED <<pendingSignal, handler, budget, helperVars, answer, robotVars>>

Exit == wrapper = "waiting" /\ ShellReady /\ child = "gone" /\ End

-----------------------------------------------------------------------------
(* rt_disable_once: three calls under one deadline.                        *)

\* Where the helper goes when the current call returned ok.
ContinueAlways(ok) == NextCall[helper]
Continue(ok) == IF helper = "quiesce" /\ ~ok THEN "finish" ELSE NextCall[helper]

ReturnNext(ok) ==
  /\ helper' = Continue(ok)
  /\ done' = IF ok THEN done \cup {helper'} ELSE done
  /\ sent' = FALSE
  /\ UNCHANGED <<late, rosOk, exitClean>>
Return(ok) ==
  /\ done' = IF ok THEN done \cup {helper} ELSE done
  /\ helper' = Continue(ok)
  /\ sent' = FALSE
  /\ UNCHANGED <<late, rosOk, exitClean>>

Available(c) == child \in {"running", "interrupted"}
                  /\ (c = "disable" => manager # "absent")

GivesUpNever == FALSE
GivesUp      == late \/ ~rosOk

\* waitForService() finds the server and the request is sent, or the time is over.
Request ==
  /\ helper \in Call /\ ~sent
  /\ \/ /\ Available(helper) /\ ~GivesUp
        /\ sent' = TRUE
        /\ requests' = requests \cup {helper}
        /\ UNCHANGED <<helper, late, rosOk, done, exitClean>>
     \/ GivesUp /\ Return(FALSE) /\ UNCHANGED requests
  /\ UNCHANGED <<shellVars, child, answer, robotVars>>

\* waitForResponse()
Response ==
  /\ helper \in Call /\ sent
  /\ \/ answer # "none" /\ Return(answer = "ok")
     \/ answer = "none" /\ GivesUp /\ Return(FALSE)
  /\ answer' = "none"
  /\ UNCHANGED <<shellVars, child, requests, robotVars>>

CleanWithoutDeactivate == {"disable", "quiesce"} \subseteq done
Clean == done = Call

Finish ==
  /\ helper = "finish"
  /\ helper' = "off" /\ handler' = "forward"
  /\ exitClean' = Clean
  /\ late' = FALSE /\ rosOk' = TRUE /\ done' = {}
  /\ UNCHANGED <<wrapper, budget, pendingSignal, shutdownStarted, child,
                 sent, requests, answer, robotVars>>

DeadlinePasses ==
  /\ helper \in Call /\ ~late
  /\ late' = TRUE
  /\ UNCHANGED <<shellVars, child, helper, sent, rosOk, done, exitClean,
                 requests, answer, robotVars>>

-----------------------------------------------------------------------------
(* The launch: the enable manager is spawned once the JTC is configured,   *)
(* the launch stops itself when that fails, and it may end at any time.    *)

SpawnerExits ==
  /\ child = "running" /\ manager = "absent"
  /\ \/ manager' = "active" /\ UNCHANGED child
     \/ child' = "interrupted" /\ UNCHANGED manager
  /\ UNCHANGED <<shellVars, helperVars, requests, answer, axes, hardware>>

ChildEnds ==
  /\ child = "interrupted"
  /\ child' = "gone"
  /\ UNCHANGED <<shellVars, helperVars, requests, answer, robotVars>>

ChildCrashes ==
  /\ child = "running"
  /\ child' = "gone"
  /\ UNCHANGED <<shellVars, helperVars, requests, answer, robotVars>>

\* The servers: /rt/disable of the enable manager, and the controller manager, whose
\* deactivation of the enable manager commands Disable Voltage.
Serve(c, ok) ==
  /\ c \in requests /\ Available(c)
  /\ c = "quiesce" /\ ok => manager = "active"
  /\ requests' = requests \ {c}
  /\ answer' = IF helper # c THEN answer ELSE IF ok THEN "ok" ELSE "refused"
  /\ axes' = IF ok /\ c \in {"disable", "quiesce"} THEN "off" ELSE axes
  /\ manager' = IF ok /\ c = "quiesce" THEN "inactive" ELSE manager
  /\ hardware' = IF ok /\ c = "deactivate" THEN "inactive" ELSE hardware
  /\ UNCHANGED <<shellVars, child, helperVars>>

-----------------------------------------------------------------------------
Shell  == SetTrap \/ Fork \/ StorePid \/ Trap \/ Forward
Helper == Request \/ Response \/ Finish
Launch == SpawnerExits \/ ChildEnds \/ ChildCrashes

-----------------------------------------------------------------------------
\* rt_disable_once exits with success only when the axes are disabled, the controllers
\* quiesced and the hardware inactive, although an answer may come late, a signal may
\* interrupt it, and an enable sent earlier may be executed after its own disable.
CleanMeansDown ==
  exitClean => axes = "off" /\ manager = "inactive" /\ hardware = "inactive"

\* The EtherCAT hardware is never deactivated under the enable manager: not by a late
\* execution, and not when the quiesce call failed or was given up.
HardwareLast == hardware = "inactive" => manager # "active"

\* A signal that finds the wrapper waiting for the launch ends both, within the
\* helper's deadline, even if no service ever answer.
SignalEndsLaunch ==
  (handler = "helper" /\ wrapper = "waiting") ~> (wrapper = "exited")

=============================================================================
