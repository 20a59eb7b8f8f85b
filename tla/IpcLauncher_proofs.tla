------------------------- MODULE IpcLauncher_proofs -------------------------
(***************************************************************************)
(* Proofs about IpcLauncher and the ShutdownSequence it composes, for any  *)
(* number of signals, interrupts and restarts.                             *)
(*                                                                         *)
(* That a clean exit means everything is down cannot be proved by looking  *)
(* at the exit status alone: it depends on which answers the helper may    *)
(* take for its own (HelperInv), on what an answer says about the robot    *)
(* (RobotInv), and on the calls a command of the launcher may have left    *)
(* behind in the container (CallInv).                                      *)
(***************************************************************************)
EXTENDS IpcLauncher, TLAPS

\* The helper runs once per start of the wrapper, so a request under way is the one it
\* waits for or one it has given up, and an answer is to the current call.
HelperInv ==
  /\ helper # "off" => handler = "helper" /\ shutdownStarted
  /\ ~shutdownStarted => requests = {}
  /\ helper \in Call /\ helper \in requests => sent
  /\ helper = "disable" => requests \subseteq {"disable"}
  /\ helper = "quiesce" => "deactivate" \notin requests
  /\ answer # "none" => sent
  /\ sent => helper \in Call

\* What the calls that returned true, or are about to, say about the robot.
RobotInv ==
  /\ manager = "inactive" => axes = "off"
  /\ "quiesce" \in done \/ (helper = "quiesce" /\ answer = "ok") => manager = "inactive"
  /\ "deactivate" \in done \/ (helper = "deactivate" /\ answer = "ok") =>
       hardware = "inactive"
  /\ helper = "deactivate" \/ "deactivate" \in requests => manager = "inactive"
  /\ wrapper = "exited" => child = "none"
  /\ hardware = "inactive" =>
       manager = "inactive" \/ (wrapper = "exited" /\ manager = "absent")
  /\ wrapper = "exited" => helper = "off"

\* Only the start command asks for an enable, and nothing it asked for outlives the
\* container.
CallInv ==
  /\ <<"stop", "enable">> \notin asked
  /\ <<"start", "enable">> \in asked =>
       at["start"] \notin {"idle", "up", "await", "enable", "failed"}
  /\ container # "running" => asked = {}

IpcInv == TypeOK /\ HelperInv /\ RobotInv /\ CallInv /\ CleanMeansDown

-----------------------------------------------------------------------------
(* The processes of the container.                                         *)

\* Steps of the wrapper and of the signals it gets.
ShellStep == SetTrap \/ Fork \/ StorePid \/ Trap \/ Forward \/ Signal

\* A step of the processes leaves the launcher's types alone.
LEMMA TypesKept ==
  ASSUME TypeOK, ShutdownTypeOK', UNCHANGED launcherVars,
         wrapper' = "exited" <=> wrapper = "exited"
  PROVE  TypeOK'
BY DEF TypeOK, launcherVars, dockerVars, callVars

\* The wrapper's steps keep the types.
LEMMA ShellTypes ==
  ASSUME TypeOK, ShellStep, UNCHANGED launcherVars
  PROVE  TypeOK'
<1> SUFFICES ShutdownTypeOK' /\ (wrapper' = "exited" <=> wrapper = "exited")
  BY TypesKept
<1>0. ShutdownTypeOK
  BY DEF TypeOK
<1> USE DEF ShutdownTypeOK, helperVars, robotVars
<1>1. CASE SetTrap
  BY <1>0, <1>1 DEF SetTrap
<1>2. CASE Fork
  BY <1>0, <1>2 DEF Fork
<1>3. CASE StorePid
  BY <1>0, <1>3 DEF StorePid
<1>4. CASE Trap
  <2>1. pendingSignal' \in BOOLEAN /\ shutdownStarted' \in BOOLEAN
    BY <1>0, <1>4 DEF Trap
  <2>2. handler' \in {"off", "helper", "forward"} /\ helper' \in Call \cup {"off", "finish"}
    BY <1>0, <1>4 DEF Trap, Call
  <2>3. UNCHANGED <<wrapper, budget, child, sent, late, rosOk, done, exitClean, requests, answer,
                    axes, manager, hardware>>
    BY <1>4 DEF Trap
  <2> QED BY <1>0, <2>1, <2>2, <2>3
<1>5. CASE Forward
  BY <1>0, <1>5 DEF Forward
<1>6. CASE Signal
  <2>1. pendingSignal' \in BOOLEAN
    BY <1>6 DEF Signal, Deliver
  <2>2. rosOk' \in BOOLEAN
    BY <1>0, <1>6 DEF Signal
  <2>3. budget' \in 0..Limit
    BY <1>0, <1>6, LimitAssumption DEF Signal
  <2> QED BY <1>0, <1>6, <2>1, <2>2, <2>3 DEF Signal
<1> QED BY <1>1, <1>2, <1>3, <1>4, <1>5, <1>6 DEF ShellStep

\* The trap starts the helper at most once, and nothing is forked under inactive hardware.
LEMMA ShellInv ==
  ASSUME IpcInv, ShellStep, UNCHANGED launcherVars
  PROVE  HelperInv' /\ RobotInv' /\ CallInv' /\ CleanMeansDown'
<1> USE DEF IpcInv, HelperInv, RobotInv, CallInv, CleanMeansDown, launcherVars, dockerVars,
        callVars, helperVars, robotVars
<1>1. CASE SetTrap \/ Fork \/ StorePid
  BY <1>1 DEF SetTrap, Fork, StorePid
<1>2. CASE Trap
  BY <1>2 DEF Trap, Call
<1>3. CASE Forward
  BY <1>3 DEF Forward
<1>4. CASE Signal
  BY <1>4 DEF Signal
<1> QED BY <1>1, <1>2, <1>3, <1>4 DEF ShellStep

\* A call returns: the helper's next place, and what it may have learnt.
LEMMA ReturnMoves ==
  ASSUME TypeOK, helper \in Call, NEW ok \in BOOLEAN, Return(ok)
  PROVE  /\ helper' \in Call \cup {"finish"} /\ helper' # "disable"
         /\ helper' = "quiesce" => helper = "disable"
         /\ helper' = "deactivate" => helper = "quiesce" /\ ok
         /\ done' \in SUBSET Call
         /\ done' = IF ok THEN done \cup {helper} ELSE done
         /\ sent' = FALSE
         /\ UNCHANGED <<late, rosOk, exitClean>>
BY DEF Return, Continue, NextCall, Call, TypeOK, ShutdownTypeOK

\* rt_disable_once: a request is sent or given up.
LEMMA RequestInv ==
  ASSUME IpcInv, Request, UNCHANGED launcherVars
  PROVE  IpcInv'
<1>0. TypeOK /\ ShutdownTypeOK /\ HelperInv /\ RobotInv /\ CallInv /\ CleanMeansDown
  BY DEF IpcInv, TypeOK
<1>1. UNCHANGED <<wrapper, budget, pendingSignal, shutdownStarted, handler, child, answer, axes,
                  manager, hardware, at, container, asked>>
  BY DEF Request, shellVars, robotVars, launcherVars, dockerVars, callVars
<1>2. CallInv'
  BY <1>0, <1>1 DEF CallInv
<1>3. CASE /\ requests' = requests \cup {helper} /\ sent' = TRUE
           /\ UNCHANGED <<helper, late, rosOk, done, exitClean>>
  <2>1. TypeOK'
    <3>1. ShutdownTypeOK'
      BY <1>0, <1>1, <1>3 DEF Request, ShutdownTypeOK
    <3> QED BY <1>0, <1>1, <3>1, TypesKept
  <2>2. HelperInv' /\ RobotInv' /\ CleanMeansDown'
    BY <1>0, <1>1, <1>3 DEF Request, HelperInv, RobotInv, CleanMeansDown, Call
  <2> QED BY <1>2, <2>1, <2>2 DEF IpcInv
<1>4. CASE Return(FALSE) /\ UNCHANGED requests
  <2>0. helper \in Call /\ sent = FALSE
    BY <1>0 DEF Request, ShutdownTypeOK
  <2>1. /\ helper' \in Call \cup {"finish"} /\ helper' # "disable"
        /\ helper' = "quiesce" => helper = "disable"
        /\ helper' # "deactivate"
        /\ done' = done /\ sent' = FALSE
        /\ UNCHANGED <<late, rosOk, exitClean>>
    BY <1>0, <1>4, <2>0, ReturnMoves
  <2>2. TypeOK'
    <3>0. sent' \in BOOLEAN
      BY <2>1
    <3>1. ShutdownTypeOK'
      BY <1>0, <1>1, <1>4, <2>1, <3>0 DEF ShutdownTypeOK
    <3> QED BY <1>0, <1>1, <3>1, TypesKept
  <2>3. HelperInv'
    BY <1>0, <1>1, <1>4, <2>0, <2>1 DEF HelperInv, Call
  <2>4. RobotInv' /\ CleanMeansDown'
    BY <1>0, <1>1, <1>4, <2>0, <2>1 DEF HelperInv, RobotInv, CleanMeansDown, Call
  <2> QED BY <1>2, <2>2, <2>3, <2>4 DEF IpcInv
<1> QED BY <1>3, <1>4 DEF Request

\* The answer the helper takes is the one to its current call.
LEMMA ResponseInv ==
  ASSUME IpcInv, Response, UNCHANGED launcherVars
  PROVE  IpcInv'
<1>0. TypeOK /\ ShutdownTypeOK /\ HelperInv /\ RobotInv /\ CallInv /\ CleanMeansDown
  BY DEF IpcInv, TypeOK
<1>1. PICK ok \in BOOLEAN : Return(ok) /\ (ok => answer = "ok")
  <2>1. CASE answer # "none" /\ Return(answer = "ok")
    BY <2>1
  <2>2. CASE Return(FALSE)
    BY <2>2
  <2> QED BY <2>1, <2>2 DEF Response
<1>2. /\ helper' \in Call \cup {"finish"} /\ helper' # "disable"
      /\ helper' = "quiesce" => helper = "disable"
      /\ helper' = "deactivate" => helper = "quiesce" /\ ok
      /\ done' \in SUBSET Call
      /\ done' = IF ok THEN done \cup {helper} ELSE done
      /\ sent' = FALSE
      /\ UNCHANGED <<late, rosOk, exitClean>>
  BY <1>0, <1>1, ReturnMoves DEF Response
<1>3. /\ answer' = "none"
      /\ UNCHANGED <<wrapper, budget, pendingSignal, shutdownStarted, handler, child, requests,
                     axes, manager, hardware, at, container, asked>>
  BY DEF Response, shellVars, robotVars, launcherVars, dockerVars, callVars
<1>4. TypeOK'
  <2>0. sent' \in BOOLEAN
    BY <1>2
  <2>1. ShutdownTypeOK'
    BY <1>0, <1>2, <1>3, <2>0 DEF ShutdownTypeOK
  <2> QED BY <1>0, <1>3, <2>1, TypesKept
<1>5. HelperInv'
  BY <1>0, <1>2, <1>3 DEF HelperInv, Call, Response
<1>6. RobotInv'
  <2>1. "quiesce" \in done' => manager' = "inactive"
    BY <1>0, <1>1, <1>2, <1>3 DEF RobotInv
  <2>2. "deactivate" \in done' => hardware' = "inactive"
    BY <1>0, <1>1, <1>2, <1>3 DEF RobotInv
  <2>3. helper' = "deactivate" => manager' = "inactive"
    BY <1>0, <1>1, <1>2, <1>3 DEF RobotInv
  <2>4. helper # "off"
    BY DEF Response, Call
  <2> QED BY <1>0, <1>3, <2>1, <2>2, <2>3, <2>4 DEF RobotInv
<1>7. CallInv' /\ CleanMeansDown'
  BY <1>0, <1>2, <1>3 DEF CallInv, CleanMeansDown
<1> QED BY <1>4, <1>5, <1>6, <1>7 DEF IpcInv

\* The exit status: all three calls returned true.
LEMMA FinishInv ==
  ASSUME IpcInv, Finish \/ DeadlinePasses, UNCHANGED launcherVars
  PROVE  IpcInv'
<1>0. TypeOK /\ ShutdownTypeOK
  BY DEF IpcInv, TypeOK
<1> USE DEF shellVars, robotVars
<1>1. TypeOK'
  <2>1. CASE Finish
    <3>1. exitClean' \in BOOLEAN
      BY <2>1 DEF Finish, Clean
    <3>2. late' \in BOOLEAN /\ rosOk' \in BOOLEAN
      BY <2>1 DEF Finish
    <3>3. /\ helper' = "off" /\ handler' = "forward" /\ done' = {}
          /\ UNCHANGED <<wrapper, budget, pendingSignal, shutdownStarted, child, sent, requests,
                         answer, axes, manager, hardware>>
      BY <2>1 DEF Finish
    <3>4. ShutdownTypeOK'
      BY <1>0, <3>1, <3>2, <3>3 DEF ShutdownTypeOK
    <3> QED BY <1>0, <3>3, <3>4, TypesKept
  <2>2. CASE DeadlinePasses
    BY <1>0, <2>2, TypesKept DEF ShutdownTypeOK, DeadlinePasses
  <2> QED BY <2>1, <2>2
<1>2. HelperInv' /\ RobotInv'
  BY DEF IpcInv, HelperInv, RobotInv, Finish, DeadlinePasses, Call
<1>3. CleanMeansDown'
  BY DEF IpcInv, RobotInv, CleanMeansDown, Finish, Clean, DeadlinePasses, Call
<1>4. CallInv'
  BY DEF IpcInv, CallInv, launcherVars, dockerVars, callVars
<1> QED BY <1>1, <1>2, <1>3, <1>4 DEF IpcInv

\* The launch: the enable manager is spawned under an active hardware.
LEMMA LaunchInv ==
  ASSUME IpcInv, Launch, UNCHANGED launcherVars
  PROVE  IpcInv'
BY DEF IpcInv, TypeOK, ShutdownTypeOK, HelperInv, RobotInv, CallInv, CleanMeansDown, Launch,
   SpawnerExits, ChildEnds, ChildCrashes, launcherVars, dockerVars, callVars, shellVars,
   helperVars, robotVars

-----------------------------------------------------------------------------
(* Docker and the commands.                                                *)

\* A new container starts with nothing asked and nothing done.
LEMMA BootInv ==
  ASSUME IpcInv, BootContainer, budget' \in 0..Limit, stopped' \in BOOLEAN,
         at' \in [Command -> Point]
  PROVE  IpcInv'
<1>0. TypeOK /\ container # "running" /\ asked = {}
  BY DEF IpcInv, BootContainer, CallInv
<1>1. /\ wrapper' = "entry" /\ handler' = "off" /\ child' = "none" /\ helper' = "off"
      /\ done' = {} /\ requests' = {} /\ answer' = "none"
      /\ axes' = "off" /\ manager' = "absent" /\ hardware' = "active"
      /\ container' = "running" /\ exitCode' = "none" /\ asked' = {} /\ told' = told
  BY <1>0 DEF BootContainer, Boot
<1>2. /\ pendingSignal' = FALSE /\ shutdownStarted' = FALSE /\ sent' = FALSE /\ late' = FALSE
      /\ rosOk' = TRUE /\ exitClean' = FALSE /\ jtc' = FALSE
  BY DEF BootContainer, Boot
<1>3. /\ pendingSignal' \in BOOLEAN /\ shutdownStarted' \in BOOLEAN /\ sent' \in BOOLEAN
      /\ late' \in BOOLEAN /\ rosOk' \in BOOLEAN /\ exitClean' \in BOOLEAN /\ jtc' \in BOOLEAN
  BY <1>2
<1>4. TypeOK'
  BY <1>0, <1>1, <1>3 DEF TypeOK, ShutdownTypeOK
<1>5. HelperInv' /\ RobotInv' /\ CallInv' /\ CleanMeansDown'
  BY <1>1, <1>2 DEF HelperInv, RobotInv, CallInv, CleanMeansDown, Call
<1> QED BY <1>4, <1>5 DEF IpcInv

\* The container ends while no handler runs, and with it what the commands asked for.
LEMMA EndInv ==
  ASSUME IpcInv, ShellReady, End, ContainerEnds, exitCode' \in {"0", "other"}
  PROVE  IpcInv'
<1>0. /\ TypeOK /\ ShutdownTypeOK /\ HelperInv /\ RobotInv /\ CleanMeansDown
      /\ helper = "off"
  BY DEF IpcInv, TypeOK, HelperInv, ShellReady
<1>1. /\ wrapper' = "exited" /\ child' = "none" /\ shutdownStarted' = FALSE /\ requests' = {}
      /\ UNCHANGED <<pendingSignal, handler, budget, helper, sent, late, rosOk, done, exitClean,
                     answer, axes, manager, hardware>>
      /\ container' = "exited" /\ asked' = {} /\ jtc' = FALSE
      /\ UNCHANGED <<at, stopped, told>>
  BY DEF End, ContainerEnds, helperVars, robotVars
<1>2. shutdownStarted' \in BOOLEAN /\ jtc' \in BOOLEAN
  BY <1>1
<1>3. ShutdownTypeOK'
  BY <1>0, <1>1, <1>2 DEF ShutdownTypeOK
<1>4. TypeOK'
  BY <1>0, <1>1, <1>2, <1>3 DEF TypeOK
<1>5. HelperInv' /\ RobotInv' /\ CallInv' /\ CleanMeansDown'
  BY <1>0, <1>1 DEF HelperInv, RobotInv, CallInv, CleanMeansDown, Call
<1> QED BY <1>4, <1>5 DEF IpcInv

\* A command goes from one point to another.
LEMMA GotoMoves ==
  ASSUME at \in [Command -> Point], NEW c \in Command, NEW from, NEW to \in Point,
         Goto(c, from, to)
  PROVE  /\ at[c] = from /\ at' \in [Command -> Point] /\ at'[c] = to
         /\ \A d \in Command \ {c} : at'[d] = at[d]
BY DEF Goto

\* A step of a command, which moves, asks for something or takes an answer.
LEMMA CommandInv ==
  ASSUME IpcInv, UNCHANGED <<shutdownVars, dockerVars>>, at' \in [Command -> Point],
         asked' \subseteq Command \X {"enable", "disable"},
         told' \in [Command -> {"none", "ok", "refused"}], jtc' = jtc, CallInv'
  PROVE  IpcInv'
<1>1. UNCHANGED <<wrapper, budget, pendingSignal, shutdownStarted, handler, child, helper, sent,
                  late, rosOk, done, exitClean, requests, answer, axes, manager, hardware,
                  container, exitCode, stopped>>
  BY DEF shutdownVars, shellVars, helperVars, robotVars, dockerVars
<1>2. ShutdownTypeOK'
  BY <1>1 DEF IpcInv, TypeOK, ShutdownTypeOK
<1>3. TypeOK'
  BY <1>1, <1>2 DEF IpcInv, TypeOK
<1>4. HelperInv' /\ RobotInv' /\ CleanMeansDown'
  BY <1>1 DEF IpcInv, HelperInv, RobotInv, CleanMeansDown
<1> QED BY <1>3, <1>4 DEF IpcInv

\* A step of a command that only moves.
LEMMA MoveInv ==
  ASSUME IpcInv, UNCHANGED <<shutdownVars, dockerVars, callVars>>,
         NEW c \in Command, NEW from, NEW to \in Point, Goto(c, from, to),
         to \notin {"idle", "up", "await", "enable", "failed"} \/ c = "stop"
           \/ from \in {"idle", "up", "await", "enable"} \/ container # "running"
  PROVE  IpcInv'
<1>1. at \in [Command -> Point]
  BY DEF IpcInv, TypeOK
<1>2. /\ at[c] = from /\ at' \in [Command -> Point] /\ at'[c] = to
      /\ \A d \in Command \ {c} : at'[d] = at[d]
  BY <1>1, GotoMoves
<1>3. UNCHANGED <<asked, told, jtc, container>>
  BY DEF callVars, dockerVars
<1>4. c = "start" \/ (c = "stop" /\ at'["start"] = at["start"])
  BY <1>2 DEF Command
<1>5. CallInv'
  BY <1>2, <1>3, <1>4 DEF IpcInv, CallInv
<1> QED BY <1>2, <1>3, <1>5, CommandInv DEF IpcInv, TypeOK

\* The start command.
LEMMA StartInv ==
  ASSUME IpcInv, Start
  PROVE  IpcInv'
<1>0. at \in [Command -> Point] /\ told \in [Command -> {"none", "ok", "refused"}]
  BY DEF IpcInv, TypeOK
<1>p. /\ "start" \in Command
      /\ {"idle", "up", "await", "enable", "enabling", "verify", "disable", "ready", "failed"}
           \subseteq Point
  BY DEF Command, Point, Final
<1>1. CASE StartCheck
  BY <1>1, <1>p, MoveInv DEF StartCheck
<1>2. CASE ComposeUp
  <2>1. CASE UNCHANGED <<shutdownVars, dockerVars, callVars>>
    BY <1>2, <1>p, <2>1, MoveInv DEF ComposeUp, Fail
  <2>2. CASE Goto("start", "up", "await") /\ BootContainer /\ stopped' = FALSE /\ UNCHANGED budget
    <3>1. at' \in [Command -> Point] /\ stopped' \in BOOLEAN
      BY <1>0, <1>p, <2>2, GotoMoves
    <3>2. budget' \in 0..Limit
      BY <2>2 DEF IpcInv, TypeOK, ShutdownTypeOK
    <3> QED BY <2>2, <3>1, <3>2, BootInv
  <2> QED BY <1>2, <2>1, <2>2 DEF ComposeUp
<1>3. CASE Await
  BY <1>3, <1>p, MoveInv DEF Await, Fail
<1>4. CASE CallEnable
  <2>1. CASE Goto("start", "enable", "enabling") /\ CallService("start", "enable")
    <3>1. /\ at' \in [Command -> Point] /\ at'["start"] = "enabling"
      BY <1>0, <1>p, <2>1, GotoMoves
    <3>2. /\ container = "running" /\ container' = container
          /\ asked' = asked \cup {<<"start", "enable">>}
          /\ told' \in [Command -> {"none", "ok", "refused"}] /\ jtc' = jtc
      BY <1>0, <1>4, <2>1 DEF CallService, CallEnable, dockerVars
    <3>3. CallInv'
      BY <3>1, <3>2 DEF IpcInv, CallInv
    <3>4. asked' \subseteq Command \X {"enable", "disable"}
      BY <1>p, <3>2 DEF IpcInv, TypeOK
    <3> QED BY <1>4, <3>1, <3>2, <3>3, <3>4, CommandInv DEF CallEnable
  <2>2. CASE Fail("enable") /\ UNCHANGED callVars
    BY <1>4, <1>p, <2>2, MoveInv DEF CallEnable, Fail
  <2> QED BY <1>4, <2>1, <2>2 DEF CallEnable
<1>5. CASE EnableReturns
  <2>1. /\ at' \in [Command -> Point] /\ at'["start"] \in {"verify", "disable"}
    BY <1>0, <1>p, <1>5, GotoMoves DEF EnableReturns, Fail
  <2>2. /\ told' \in [Command -> {"none", "ok", "refused"}]
        /\ UNCHANGED <<asked, jtc, container>>
    BY <1>0, <1>5 DEF EnableReturns, dockerVars
  <2>3. CallInv'
    BY <2>1, <2>2 DEF IpcInv, CallInv
  <2> QED BY <1>5, <2>1, <2>2, <2>3, CommandInv DEF EnableReturns, IpcInv, TypeOK
<1>6. CASE VerifyActive
  BY <1>6, <1>p, MoveInv DEF VerifyActive, Fail
<1> QED BY <1>1, <1>2, <1>3, <1>4, <1>5, <1>6 DEF Start

\* The way down.
LEMMA DescendInv ==
  ASSUME IpcInv, NEW c \in Command, Descend(c)
  PROVE  IpcInv'
<1>0. at \in [Command -> Point] /\ told \in [Command -> {"none", "ok", "refused"}]
  BY DEF IpcInv, TypeOK
<1>p. {"disable", "disabling", "compose", "stopping", "stopped", "failed"} \subseteq Point
  BY DEF Point, Final
<1>1. CASE CallDisable(c)
  <2>1. CASE Goto(c, "disable", "disabling") /\ CallService(c, "disable")
    <3>1. /\ at' \in [Command -> Point] /\ at'["start"] \in {"disabling", at["start"]}
      BY <1>0, <1>p, <2>1, GotoMoves DEF Command
    <3>2. /\ container = "running" /\ container' = container
          /\ asked' = asked \cup {<<c, "disable">>}
          /\ told' \in [Command -> {"none", "ok", "refused"}] /\ jtc' = jtc
      BY <1>0, <1>1, <2>1 DEF CallService, CallDisable, dockerVars
    <3>3. CallInv'
      BY <3>1, <3>2 DEF IpcInv, CallInv
    <3>4. asked' \subseteq Command \X {"enable", "disable"}
      BY <3>2 DEF IpcInv, TypeOK
    <3> QED BY <1>1, <3>1, <3>2, <3>3, <3>4, CommandInv DEF CallDisable
  <2>2. CASE Goto(c, "disable", "compose") /\ UNCHANGED callVars
    BY <1>1, <1>p, <2>2, MoveInv DEF CallDisable
  <2> QED BY <1>1, <2>1, <2>2 DEF CallDisable
<1>2. CASE DisableReturns(c)
  BY <1>2, <1>p, MoveInv DEF DisableReturns
<1>3. CASE ComposeStop(c)
  <2>1. /\ at' \in [Command -> Point] /\ at'["start"] \in {"stopping", at["start"]}
    BY <1>0, <1>3, <1>p, GotoMoves DEF ComposeStop, Command
  <2>2. UNCHANGED <<wrapper, budget, shutdownStarted, handler, child, helper, sent, late, rosOk,
                    done, exitClean, requests, answer, axes, manager, hardware, container,
                    exitCode, asked, told, jtc>>
    BY <1>3 DEF ComposeStop, helperVars, robotVars, callVars
  <2>3. pendingSignal' \in BOOLEAN /\ stopped' \in BOOLEAN
    BY <1>3 DEF ComposeStop, Deliver, IpcInv, TypeOK, ShutdownTypeOK
  <2>4. ShutdownTypeOK'
    BY <2>2, <2>3 DEF IpcInv, TypeOK, ShutdownTypeOK
  <2>5. TypeOK'
    BY <2>1, <2>2, <2>3, <2>4 DEF IpcInv, TypeOK
  <2>6. HelperInv' /\ RobotInv' /\ CallInv' /\ CleanMeansDown'
    BY <2>1, <2>2 DEF IpcInv, HelperInv, RobotInv, CallInv, CleanMeansDown
  <2> QED BY <2>5, <2>6 DEF IpcInv
<1>4. CASE ComposeStopped(c)
  BY <1>4, <1>p, MoveInv DEF ComposeStopped
<1> QED BY <1>1, <1>2, <1>3, <1>4 DEF Descend

\* Ctrl-C in the terminal of the start command.
LEMMA InterruptInv ==
  ASSUME IpcInv, Interrupt
  PROVE  IpcInv'
<1>1. at' \in [Command -> Point] /\ at'["start"] \in {"disable", "killed"}
  BY GotoMoves DEF Interrupt, Fail, Command, Point, Final, IpcInv, TypeOK
<1>2. UNCHANGED <<wrapper, pendingSignal, shutdownStarted, handler, child, helper, sent, late,
                  rosOk, done, exitClean, requests, answer, axes, manager, hardware, container,
                  exitCode, stopped, asked, told, jtc>>
  BY DEF Interrupt, helperVars, robotVars, dockerVars, callVars
<1>3. budget' \in 0..Limit
  BY LimitAssumption DEF Interrupt, IpcInv, TypeOK, ShutdownTypeOK
<1>4. TypeOK'
  BY <1>1, <1>2, <1>3 DEF IpcInv, TypeOK, ShutdownTypeOK
<1>5. HelperInv' /\ RobotInv' /\ CallInv' /\ CleanMeansDown'
  BY <1>1, <1>2 DEF IpcInv, HelperInv, RobotInv, CallInv, CleanMeansDown
<1> QED BY <1>4, <1>5 DEF IpcInv

-----------------------------------------------------------------------------
(* The robot.                                                              *)

\* A call of the helper is executed, in time or after it was given up.
LEMMA ServeHelperInv ==
  ASSUME IpcInv, NEW c \in Call, NEW ok \in BOOLEAN, ServeHelper(c, ok)
  PROVE  IpcInv'
<1>0. /\ TypeOK /\ ShutdownTypeOK /\ HelperInv /\ RobotInv /\ CallInv /\ CleanMeansDown
      /\ c \in requests /\ child # "none"
      /\ c = "quiesce" /\ ok => manager = "active"
  BY DEF IpcInv, TypeOK, ServeHelper, Serve, Available
<1>1. /\ requests' = requests \ {c}
      /\ answer' = IF helper # c THEN answer ELSE IF ok THEN "ok" ELSE "refused"
      /\ axes' = IF ok /\ c \in {"disable", "quiesce"} THEN "off" ELSE axes
      /\ manager' = IF ok /\ c = "quiesce" THEN "inactive" ELSE manager
      /\ hardware' = IF ok /\ c = "deactivate" THEN "inactive" ELSE hardware
      /\ UNCHANGED <<wrapper, budget, pendingSignal, shutdownStarted, handler, child, helper, sent,
                     late, rosOk, done, exitClean>>
      /\ UNCHANGED <<asked, told, at, container, exitCode, stopped>>
  BY DEF ServeHelper, Serve, shellVars, helperVars, dockerVars
<1>2. jtc' \in BOOLEAN
  BY DEF ServeHelper
<1>3. ShutdownTypeOK'
  BY <1>0, <1>1 DEF ShutdownTypeOK
<1>4. TypeOK'
  BY <1>0, <1>1, <1>2, <1>3 DEF TypeOK
<1>5. HelperInv'
  BY <1>0, <1>1 DEF HelperInv, ShutdownTypeOK
<1>6. RobotInv'
  BY <1>0, <1>1 DEF RobotInv, ShutdownTypeOK
<1>7. CallInv' /\ CleanMeansDown'
  BY <1>0, <1>1 DEF CallInv, CleanMeansDown, ShutdownTypeOK, RobotInv
<1> QED BY <1>4, <1>5, <1>6, <1>7 DEF IpcInv

\* A call of a command is executed: an active enable manager alone takes it.
LEMMA ServeCommandInv ==
  ASSUME IpcInv, NEW c \in Command, NEW o \in {"enable", "disable"}, ServeCommand(c, o)
  PROVE  IpcInv'
<1>0. TypeOK /\ ShutdownTypeOK /\ HelperInv /\ RobotInv /\ CallInv /\ CleanMeansDown
  BY DEF IpcInv, TypeOK
<1>1. /\ asked' = asked \ {<<c, o>>}
      /\ UNCHANGED <<wrapper, budget, pendingSignal, shutdownStarted, handler, child, helper, sent,
                     late, rosOk, done, exitClean, requests, answer, manager, hardware, at,
                     container, exitCode, stopped>>
  BY DEF ServeCommand, shellVars, helperVars, dockerVars
<1>2. told' \in [Command -> {"none", "ok", "refused"}]
  BY <1>0 DEF ServeCommand, TypeOK
<1>3. jtc' \in BOOLEAN
  BY <1>0 DEF ServeCommand, TypeOK
<1>4. axes' \in {"on", "off"} /\ (axes' # axes => manager = "active")
  BY <1>0 DEF ServeCommand, ShutdownTypeOK
<1>5. ShutdownTypeOK'
  BY <1>0, <1>1, <1>4 DEF ShutdownTypeOK
<1>6. TypeOK'
  BY <1>0, <1>1, <1>2, <1>3, <1>5 DEF TypeOK
<1>7. HelperInv' /\ RobotInv' /\ CallInv' /\ CleanMeansDown'
  BY <1>0, <1>1, <1>4 DEF HelperInv, RobotInv, CallInv, CleanMeansDown
<1> QED BY <1>6, <1>7 DEF IpcInv

\* A drive faults.
LEMMA DriveFaultsInv ==
  ASSUME IpcInv, DriveFaults
  PROVE  IpcInv'
<1>0. TypeOK /\ ShutdownTypeOK /\ HelperInv /\ RobotInv /\ CallInv /\ CleanMeansDown
  BY DEF IpcInv, TypeOK
<1>1. /\ axes' = "off"
      /\ UNCHANGED <<wrapper, budget, pendingSignal, shutdownStarted, handler, child, helper, sent,
                     late, rosOk, done, exitClean, requests, answer, manager, hardware, asked, told,
                     at, container, exitCode, stopped>>
  BY DEF DriveFaults, shellVars, helperVars, dockerVars
<1>2. jtc' \in BOOLEAN
  BY DEF DriveFaults
<1>3. ShutdownTypeOK'
  BY <1>0, <1>1 DEF ShutdownTypeOK
<1>4. TypeOK'
  BY <1>0, <1>1, <1>2, <1>3 DEF TypeOK
<1>5. HelperInv' /\ RobotInv' /\ CallInv' /\ CleanMeansDown'
  BY <1>0, <1>1 DEF HelperInv, RobotInv, CallInv, CleanMeansDown
<1> QED BY <1>4, <1>5 DEF IpcInv

-----------------------------------------------------------------------------
(* The theorems.                                                           *)

\* The invariant holds before the first start.
LEMMA IpcInit ==
  ASSUME Init
  PROVE  IpcInv
<1>1. /\ pendingSignal \in BOOLEAN /\ shutdownStarted \in BOOLEAN /\ sent \in BOOLEAN
      /\ late \in BOOLEAN /\ rosOk \in BOOLEAN /\ exitClean \in BOOLEAN /\ jtc \in BOOLEAN
      /\ stopped \in BOOLEAN
  BY DEF Init, ShutdownInit
<1>2. budget \in 0..Limit
  BY LimitAssumption DEF Init, ShutdownInit
<1>3. TypeOK
  BY <1>1, <1>2 DEF Init, ShutdownInit, TypeOK, ShutdownTypeOK, Command, Point
<1>4. HelperInv /\ RobotInv /\ CallInv /\ CleanMeansDown
  BY DEF Init, ShutdownInit, HelperInv, RobotInv, CallInv, CleanMeansDown, Call
<1> QED BY <1>3, <1>4 DEF IpcInv

\* Every step keeps it.
LEMMA IpcStep ==
  ASSUME IpcInv, [Next]_vars
  PROVE  IpcInv'
<1>1. CASE Start
  BY <1>1, StartInv
<1>2. CASE Interrupt
  BY <1>2, InterruptInv
<1>3. CASE StopCheck
  BY <1>3, MoveInv DEF StopCheck, Command, Point, Final
<1>4. CASE \E c \in Command : Descend(c)
  BY <1>4, DescendInv
<1>5. CASE Restart
  <2>1. budget' \in 0..Limit /\ stopped' \in BOOLEAN /\ at' \in [Command -> Point]
    BY <1>5, LimitAssumption DEF Restart, IpcInv, TypeOK, ShutdownTypeOK
  <2> QED BY <1>5, <2>1, BootInv DEF Restart
<1>6. CASE ContainerExits
  BY <1>6, EndInv DEF ContainerExits, Exit
<1>7. CASE GraceEnds
  BY <1>7, EndInv DEF GraceEnds
<1>8. CASE Robot
  BY <1>8, ServeHelperInv, ServeCommandInv, DriveFaultsInv DEF Robot
<1>9. CASE Processes
  BY <1>9, ShellTypes, ShellInv, RequestInv, ResponseInv, FinishInv, LaunchInv
  DEF Processes, Shell, Helper, ShellStep, IpcInv
<1>10. CASE UNCHANGED vars
  <2>1. at' = at /\ asked' = asked /\ told' = told /\ jtc' = jtc
        /\ UNCHANGED <<shutdownVars, dockerVars>>
    BY <1>10 DEF vars, launcherVars, callVars
  <2>2. CallInv'
    BY <2>1 DEF IpcInv, CallInv, dockerVars
  <2> QED BY <2>1, <2>2, CommandInv DEF IpcInv, TypeOK
<1> QED BY <1>1, <1>2, <1>3, <1>4, <1>5, <1>6, <1>7, <1>8, <1>9, <1>10 DEF Next

\* The inductive invariant of the launcher and the container.
THEOREM IpcInvariant == Spec => []IpcInv
<1>1. Init => IpcInv
  BY IpcInit
<1>2. IpcInv /\ [Next]_vars => IpcInv'
  BY IpcStep
<1> QED BY <1>1, <1>2, PTL DEF Spec

\* The state of the launcher and of the container keeps its types, and the container runs
\* exactly while its PID 1 does.
THEOREM IpcTypeCorrect == Spec => []TypeOK
<1>1. IpcInv => TypeOK
  BY DEF IpcInv
<1> QED BY <1>1, IpcInvariant, PTL

\* rt_disable_once exits with success only when the axes are off, the controllers quiesced
\* and the hardware inactive, however many signals, restarts and late answers there are.
THEOREM CleanExitMeansDown == Spec => []CleanMeansDown
<1>1. IpcInv => CleanMeansDown
  BY DEF IpcInv
<1> QED BY <1>1, IpcInvariant, PTL

\* The EtherCAT hardware is never inactive under an active enable manager.
THEOREM HardwareGoesLast == Spec => []HardwareLast
<1>1. IpcInv => HardwareLast
  BY DEF IpcInv, RobotInv, HardwareLast
<1> QED BY <1>1, IpcInvariant, PTL

\* Only a served enable powers the axes.
LEMMA OnlyEnablePowers ==
  ASSUME IpcInv, Next, axes' = "on"
  PROVE  axes = "on" \/ ServeCommand("start", "enable")
<1> USE DEF robotVars
<1>1. CASE UNCHANGED axes
  BY <1>1
<1>2. CASE BootContainer
  BY <1>2 DEF BootContainer, Boot
<1>3. CASE Start \/ Interrupt \/ StopCheck \/ \E c \in Command : Descend(c)
  BY <1>1, <1>2, <1>3 DEF Start, StartCheck, ComposeUp, Await, CallEnable, EnableReturns,
     VerifyActive, Interrupt, StopCheck, Descend, CallDisable, DisableReturns, ComposeStop,
     ComposeStopped, shutdownVars
<1>4. CASE Restart \/ ContainerExits \/ GraceEnds
  BY <1>1, <1>2, <1>4 DEF Restart, ContainerExits, GraceEnds, Exit, End
<1>5. CASE Robot
  <2>1. CASE \E c \in Call, ok \in BOOLEAN : ServeHelper(c, ok)
    BY <2>1 DEF ServeHelper, Serve
  <2>2. CASE DriveFaults
    BY <2>2 DEF DriveFaults
  <2>3. ASSUME NEW c \in Command, NEW o \in {"enable", "disable"}, ServeCommand(c, o)
        PROVE  axes = "on" \/ ServeCommand("start", "enable")
    <3>1. CASE o = "disable"
      BY <2>3, <3>1 DEF ServeCommand
    <3>2. CASE o = "enable"
      <4>1. c # "stop"
        BY <2>3, <3>2 DEF ServeCommand, IpcInv, CallInv
      <4> QED BY <2>3, <3>2, <4>1 DEF Command
    <3> QED BY <3>1, <3>2
  <2> QED BY <1>5, <2>1, <2>2, <2>3 DEF Robot
<1>6. CASE Processes
  BY <1>1, <1>6 DEF Processes, Shell, SetTrap, Fork, StorePid, Trap, Forward, Signal, Helper,
     Request, Response, Finish, DeadlinePasses, Launch, SpawnerExits, ChildEnds, ChildCrashes
<1> QED BY <1>3, <1>4, <1>5, <1>6 DEF Next

\* The axes are not powered after the start command failed: neither by the enable it gave up
\* on, nor by a restart, nor by the stop command.
THEOREM FailedStartNeverPowers == Spec => FailedStartStaysDown
<1>1. IpcInv /\ [Next]_vars => [at["start"] = "failed" /\ axes' = "on" => axes = "on"]_vars
  <2> SUFFICES ASSUME IpcInv, Next, at["start"] = "failed", axes' = "on"
               PROVE  axes = "on"
    OBVIOUS
  <2>1. ~ServeCommand("start", "enable")
    BY DEF IpcInv, CallInv, ServeCommand
  <2> QED BY <2>1, OnlyEnablePowers
<1> QED BY <1>1, IpcInvariant, PTL DEF Spec, FailedStartStaysDown

=============================================================================
