---------------------------- MODULE IpcLauncher ----------------------------
(***************************************************************************)
(* tools/rt_control_ipc.sh, the one command of the industrial PC: "start"  *)
(* checks the host, brings the container up, waits for it and enables the  *)
(* axes, and takes everything down again when a step fails; "stop" does so *)
(* on request.  Each may run once, at any time, in a terminal of its own,  *)
(* around the container and the processes of ShutdownSequence.             *)
(*                                                                         *)
(* Docker restarts a container that exits unless it was stopped, and kills *)
(* it 100 s after the SIGTERM of a stop.  A call made through docker exec  *)
(* is given up after 40 s, but goes on inside the container.               *)
(*                                                                         *)
(* An operator that stands just before another one and is used nowhere is  *)
(* a mutated form of it: a bug the properties are shown to catch.          *)
(***************************************************************************)
EXTENDS ShutdownSequence

Command == {"start", "stop"}
Final   == {"ready", "stopped", "failed", "killed"}
Point   == {"idle", "up", "await", "enable", "enabling", "verify",
            "disable", "disabling", "compose", "stopping"} \cup Final

VARIABLES
  at,         \* where each command is
  container,  \* "absent", "running" or "exited"
  exitCode,   \* of the last exit: "none", "0" or "other"
  stopped,    \* the last thing asked of Docker was a stop
  asked,      \* calls that may still be executed: <<command, operation>>
  told,       \* command -> the answer to its last call: "none", "ok" or "refused"
  jtc         \* the JTC is active

dockerVars == <<container, exitCode, stopped>>
callVars   == <<asked, told, jtc>>
launcherVars == <<at, dockerVars, callVars>>
vars == <<shutdownVars, launcherVars>>

TypeOK ==
  /\ ShutdownTypeOK
  /\ at \in [Command -> Point]
  /\ container \in {"absent", "running", "exited"}
  /\ exitCode \in {"none", "0", "other"} /\ stopped \in BOOLEAN
  /\ asked \subseteq Command \X {"enable", "disable"}
  /\ told \in [Command -> {"none", "ok", "refused"}]
  /\ jtc \in BOOLEAN
  /\ container = "running" <=> wrapper # "exited"

Init ==
  /\ ShutdownInit
  /\ at = [c \in Command |-> "idle"]
  /\ container = "absent" /\ exitCode = "none" /\ stopped = FALSE
  /\ asked = {} /\ told = [c \in Command |-> "none"] /\ jtc = FALSE

-----------------------------------------------------------------------------
(* Docker.                                                                 *)

BootContainer ==
  /\ container # "running"
  /\ Boot
  /\ container' = "running" /\ exitCode' = "none"
  /\ jtc' = FALSE
  /\ UNCHANGED <<asked, told>>

\* restart: unless-stopped
Restart ==
  /\ container = "exited" /\ ~stopped /\ budget > 0
  /\ budget' = budget - 1
  /\ BootContainer
  /\ UNCHANGED <<stopped, at>>

\* The container ends with its PID 1, and every process in it.
ContainerEnds ==
  /\ container' = "exited" /\ asked' = {} /\ jtc' = FALSE
  /\ UNCHANGED <<at, stopped, told>>

ContainerExits == Exit /\ exitCode' \in {"0", "other"} /\ ContainerEnds

\* stop_grace_period, which outlasts the helper's deadline, is over: SIGKILL.
GraceEnds ==
  /\ container = "running" /\ stopped /\ ShellReady
  /\ End
  /\ exitCode' = "other" /\ ContainerEnds

-----------------------------------------------------------------------------
(* The start command.                                                      *)

Goto(c, from, to) == at[c] = from /\ at' = [at EXCEPT ![c] = to]
\* fail(), or any failing command under set -e: on_start_exit() takes down what
\* may be up.
Fail(from) == Goto("start", from, "disable")

\* The host, the image, the container and the bus are checked and the operator confirms.
StartCheck ==
  /\ \/ container # "running" /\ Goto("start", "idle", "up")
     \/ Goto("start", "idle", "failed")
  /\ UNCHANGED <<shutdownVars, dockerVars, callVars>>

\* A container that runs already is left alone.
ComposeUp ==
  /\ \/ /\ Goto("start", "up", "await")
        /\ IF container = "running"
             THEN UNCHANGED <<shutdownVars, dockerVars, callVars>>
             ELSE BootContainer /\ stopped' = FALSE /\ UNCHANGED budget
     \/ /\ Fail("up")
        /\ UNCHANGED <<shutdownVars, dockerVars, callVars>>

\* wait_for_enable_service(), and the controllers, the buses, the PLC and the battery
\* are in order.
Await ==
  /\ \/ Available("disable") /\ ~jtc /\ Goto("start", "await", "enable")
     \/ Fail("await")
  /\ UNCHANGED <<shutdownVars, dockerVars, callVars>>

\* call_rt_service(): docker exec, if there is a container to run in.
CallService(c, operation) ==
  /\ container = "running"
  /\ asked' = asked \cup {<<c, operation>>}
  /\ told' = [told EXCEPT ![c] = "none"]
  /\ UNCHANGED jtc

CallEnable ==
  /\ \/ Goto("start", "enable", "enabling") /\ CallService("start", "enable")
     \/ Fail("enable") /\ UNCHANGED callVars
  /\ UNCHANGED <<shutdownVars, dockerVars>>

EnableReturns ==
  /\ \/ told["start"] = "ok" /\ Goto("start", "enabling", "verify")
     \/ told["start"] # "ok" /\ Fail("enabling")
  /\ told' = [told EXCEPT !["start"] = "none"]
  /\ UNCHANGED <<shutdownVars, dockerVars, asked, jtc>>

\* The pattern that is to find dual_arm_jtc active finds it inactive, too.
FindsActive == Available("quiesce")
VerifyActive ==
  /\ \/ FindsActive /\ Goto("start", "verify", "ready")
     \/ Fail("verify")
  /\ UNCHANGED <<shutdownVars, dockerVars, callVars>>

-----------------------------------------------------------------------------
(* The way down: on_start_exit(), and the stop command.                    *)

StopCheck ==
  /\ at["stop"] = "idle"
  /\ Goto("stop", "idle", IF container = "running" THEN "disable" ELSE "stopped")
  /\ UNCHANGED <<shutdownVars, dockerVars, callVars>>

CallDisable(c) ==
  /\ \/ Goto(c, "disable", "disabling") /\ CallService(c, "disable")
     \/ Goto(c, "disable", "compose") /\ UNCHANGED callVars
  /\ UNCHANGED <<shutdownVars, dockerVars>>

DisableSuffices(c) ==
  /\ Goto(c, "disabling", IF c = "start" THEN "failed" ELSE "compose")
  /\ UNCHANGED <<shutdownVars, dockerVars, callVars>>
\* Answered, given up or failed: the container is stopped all the same.
DisableReturns(c) ==
  /\ Goto(c, "disabling", "compose")
  /\ UNCHANGED <<shutdownVars, dockerVars, callVars>>

\* compose stop: SIGTERM to PID 1.
ComposeStop(c) ==
  /\ Goto(c, "compose", "stopping")
  /\ stopped' = TRUE
  /\ IF container = "running" THEN Deliver ELSE UNCHANGED pendingSignal
  /\ UNCHANGED <<wrapper, budget, shutdownStarted, handler, child, helperVars,
                 requests, answer, robotVars, container, exitCode,
                 callVars>>

\* STOPPED is reported after exit code 0, a disable that said ok, and an idle bus.
ComposeStopped(c) ==
  /\ container # "running"
  /\ \/ /\ c = "stop" /\ container = "exited" /\ exitCode = "0" /\ told[c] = "ok"
        /\ Goto(c, "stopping", "stopped")
     \/ Goto(c, "stopping", "failed")
  /\ UNCHANGED <<shutdownVars, dockerVars, callVars>>

\* Ctrl-C: the first one is an exit with its cleanup, a second one ends the cleanup.
Interrupt ==
  /\ \/ \E p \in {"up", "await", "enable", "enabling", "verify"} : Fail(p)
     \/ \E p \in {"disable", "disabling", "compose", "stopping"} : Goto("start", p, "killed")
  /\ budget > 0 /\ budget' = budget - 1
  /\ UNCHANGED <<wrapper, pendingSignal, shutdownStarted, handler, child, helperVars, requests,
                 answer, robotVars, dockerVars, callVars>>

-----------------------------------------------------------------------------
(* The robot.                                                              *)

\* /rt/enable and /rt/disable, called through docker exec; the answer to a call that was
\* given up is not heard, and on_start_exit() discards its own.
Waits(c, operation) ==
  IF operation = "enable" THEN at[c] = "enabling" ELSE c = "stop" /\ at[c] = "disabling"
ServeCommand(c, operation) ==
  /\ <<c, operation>> \in asked /\ Available("disable")
  /\ asked' = asked \ {<<c, operation>>}
  /\ \E ok \in BOOLEAN :
       /\ ok => manager = "active"
       /\ told' = IF Waits(c, operation)
                    THEN [told EXCEPT ![c] = IF ok THEN "ok" ELSE "refused"] ELSE told
       /\ axes' = IF ~ok THEN axes ELSE IF operation = "enable" THEN "on" ELSE "off"
       /\ jtc' = IF ok THEN operation = "enable" ELSE jtc
  /\ UNCHANGED <<shellVars, child, helperVars, requests, answer, manager,
                 hardware, at, dockerVars>>

ServeHelper(c, ok) ==
  /\ Serve(c, ok)
  /\ jtc' = (jtc /\ ~(ok /\ c = "disable"))
  /\ UNCHANGED <<asked, told, at, dockerVars>>

\* A drive faults: the group is stopped and the JTC deactivated.
DriveFaults ==
  /\ axes = "on" /\ child \in {"running", "interrupted"}
  /\ axes' = "off" /\ jtc' = FALSE
  /\ UNCHANGED <<shellVars, child, helperVars, requests, answer, manager,
                 hardware, asked, told, at, dockerVars>>

-----------------------------------------------------------------------------
Start == StartCheck \/ ComposeUp \/ Await \/ CallEnable \/ EnableReturns
            \/ VerifyActive
Descend(c) == CallDisable(c) \/ DisableReturns(c) \/ ComposeStop(c) \/ ComposeStopped(c)
Robot == (\E c \in Call, ok \in BOOLEAN : ServeHelper(c, ok)) \/ DriveFaults
           \/ \E c \in Command, o \in {"enable", "disable"} : ServeCommand(c, o)
Processes == (Shell \/ Signal \/ Helper \/ DeadlinePasses \/ Launch) /\ UNCHANGED launcherVars

Next ==
  \/ Start \/ Interrupt \/ StopCheck \/ (\E c \in Command : Descend(c))
  \/ Restart \/ ContainerExits \/ GraceEnds
  \/ Robot \/ Processes

\* The shell and the helper go on, deadlines pass, an interrupted launch ends and a container
\* ends with its PID 1; no server is obliged to answer, no command to proceed, the operator
\* to nothing and Docker not to kill.
Progress ==
  \/ (Shell \/ Helper \/ DeadlinePasses \/ ChildEnds) /\ UNCHANGED launcherVars
  \/ ContainerExits

Spec == Init /\ [][Next]_vars /\ WF_vars(Progress)

-----------------------------------------------------------------------------
\* on_start_exit(): the enable of a start that failed may outlive its 40 s timeout and even
\* the disable that follows, but not the container: once the command has ended, the axes
\* are not powered behind its back, nor by a restart.
FailedStartStaysDown == [][at["start"] = "failed" /\ axes' = "on" => axes = "on"]_vars

-----------------------------------------------------------------------------
\* one-command-start.md: the start command confirms that the JTC is active before READY.
ReadyMeansActive == [][at["start"] = "verify" /\ at'["start"] = "ready" => jtc]_vars

=============================================================================
