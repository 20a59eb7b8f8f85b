# rt-control: TLA+ models, checks and proofs

The repository holds the on-board software of a half-humanoid palletising robot. Only
the **rt-control** domain is implemented: EtherCAT/CANopen hardware under
`ros2_control`, an enable manager that powers fourteen axes, a PLC bridge, a battery
monitor, diagnostics, a patched trajectory controller, the start/stop wrapper and the
launcher of the industrial PC. Gates in continuous integration guard the repository.
This directory models the parts with control logic of their own, model-checks them on
small instances, and proves the safety properties of the enable manager, the PLC bridge,
the battery monitor, shutdown and launcher, trajectory admission, the gates and the CI
run for every instance.

## 1. Inventory

| Component | State it keeps | Operations | What is hard |
| --- | --- | --- | --- |
| Enable manager (`enable_manager_controller.cpp`) | phase, owner, request flags, result slots, failure record, batch index, descent stage, deadline, reset targets, control words | `update()` at 250 Hz, `/rt/enable`, `/rt/disable`, `/rt/reset_fault`, 20 ms worker, lifecycle callbacks | callbacks in Reentrant groups race the real-time thread through atomics only; drives that fault or never obey; switches answered late or never |
| PLC bridge (`plc_node`) | Modbus connection and transaction id, last snapshot, reconnect time | 1 poll timer, `SetBool` services per output | multi-exchange sequences, lost and late replies, another master on the same registers |
| Battery monitor (`bms_node`) | last sample, socket, stop event, lock | reader thread, publish timer, `destroy_node()` | torn and stale samples, stop while receiving or reopening |
| Orderly shutdown (`rt_control_start`, `rt_disable_once.cpp`) | `child_pid`, `shutdown_started`, the helper's deadline and results | signal trap, three service calls, wait loop | signals at any line of the script, services that hang or answer late |
| Launch (`rt_control.launch.py`) | processes | spawns JTC, then the enable manager | a failed JTC stops the launch |
| Industrial PC launcher (`tools/rt_control_ipc.sh`) | `startup_started`, `disable_ok` | start, stop (status and logs only read) | calls that go on in the container after they were given up, Ctrl-C, a container that Docker restarts or kills |
| Trajectory admission (`patches/ros2_controllers`) | position snapshot, feedback age, sequence counter, interface flag | `update()`, activation, deactivation, `goal_received_callback()` | a reader without a lock beside the real-time writer |
| Migration gate (`diff_legacy.py`) | differences so far | compare each profile and the limits with the legacy ones under the approved overlays | paths that are moved, overwritten or collide |
| Repository gate (`repository_gate.py`) | files, texts, findings | path, text, syntax, dependency and policy checks | files that change while it reads; a policy whose file was not read |
| Pull request contract (`pr_contract_gate.py`) | none | validate the text of a pull request | patterns over text with comments |
| CI workflow, pre-commit, `quality_gate.sh` | jobs and their steps | run the gates, time out, be cancelled | the gate that judges the workflow is started by it |
| Diagnostics aggregator (`rt_diagnostics`) | last inputs and their ages | periodic classification | stale inputs |
| Driver patches (`patches/ecat_icube`, `patches/ros2_canopen`) | (vendored drivers) | state transitions | the base sources are not in the repository |
| Host setup, configuration, description | none at run time | | |

Interactions. Callers use the three `/rt/...` services; the enable manager writes the
axes' control words and reads their status words through `ros2_control` interfaces, and
asks the controller manager to activate or deactivate the joint trajectory controller
(JTC). The shutdown helper is one more caller of `/rt/disable` and of the controller
manager. The launcher's commands run on the host: they bring the container up and down
and call the same services through `docker exec`. The patched JTC admits a goal by the
feedback its own `update()` left behind. The PLC and battery nodes are independent of the rest: they talk to a Modbus
server and a CAN socket and publish topics.

What makes each part correct:

* enable manager: axes are powered batch by batch and only handed to the JTC when all
  are on; no operation ends in Idle with an axis unconfirmed or under voltage; fault
  reset is a pulse on faulted axes only; one controller switch at a time; every
  operation ends whatever the drives do, and callers are answered;
* PLC bridge: replies are matched with their requests, the connection stays in step,
  a confirmed output stays commanded, remote control is restored;
* battery monitor: a message comes from one frame, silence shows, stop ends the reader;
* shutdown: "clean" means down, hardware is deactivated last, a signal ends the launch;
* launcher: after a start that failed nothing switches the axes on, and READY means an active JTC;
* admission: a goal is judged by the feedback of one cycle, and always answered;
* gates: a pass means that the files are what the gate demands, a green run that every
  required gate is in the workflow and has passed.

## 2. Plan

Done, in this order: `EnableManager` with its runs; its proofs; `PlcNode`, `BmsNode`,
`ShutdownSequence`; the three gates and `CiPipeline`; the abstract `AdmissionRegister`,
`JtcAdmission`, the refinement and its proof; `IpcLauncher`, which puts
`ShutdownSequence` into its container.

Then the proofs of `PlcNode`, `BmsNode`, `IpcLauncher` (with `ShutdownSequence`),
`RepositoryGate`, `PrContractGate`, and of `CiPipeline` with the verdict of `DiffLegacy`.

Next:

1. An abstract contract of the enable manager (off, powering, on, stopping, blocked; one
   outstanding operation) refined by `EnableManager`, to replace the `/rt/...` servers of
   `IpcLauncher`.
2. The flattening of any two trees with plain keys agrees with comparing them (`PassMeansMigrated` for
   every profile), which takes an induction over trees.
3. Two successive enables and abandoned calls (the hazards without a property in
   `PROJECT.json`).
4. The diagnostics aggregator.

## 3. Modules

### EnableManager

One variable per atomic or private member that influences control. `update()` is one
action per branch (`UpdateGroupStop`, `UpdateDownwardAdvance`, `UpdateEnablingTimeout`,
...), each of them the whole cycle: the control words written for every axis, the result
published, the owner released, the phase stored. The branches exclude each other except
for the phase they start from. A cycle is atomic; what a callback can do between two
stores of one cycle is not explored.

The callbacks advance by one load, compare-exchange or store that another thread can
observe. `pc` holds where each of them stands. `handleDisable()` works from a copy of
the phase (`seenPhase`), as the code does; `handleEnable()` loads it again at each test.
One call per service is in progress at a time, although the groups are Reentrant: the
`*_callback_active_` flags turn a second call of the same service away, which is the
`pc[t] = "idle"` guard of the call actions. The worker may overlap itself (`WorkerOverlap`).

Time is the relation of the stage deadline to the clock: unset, running or expired.
`DeadlineExpires` may happen at any moment after a deadline is set, so every ratio of
the configured timeouts is covered. Joint indices, status words and batch numbers inside
the reports are left out; stages are kept, since control depends on them.

External: the drives (`DriveStep` follows the CiA 402 state machine or stays; `DriveUpset`
puts a drive into one of `Upsets`), the controller manager (`CmSwitch`, strict switches,
in order of arrival), the callers. They draw on `budget`, which starts
as one of the scenarios in `Limits`.

### PlcNode

A callback is a sequence of Modbus exchanges, each a `Send` and a `Receive` or
`ReceiveTimeout`. `own` and `live` on a request record facts the code does not know
(whether it is the latest one, whether its connection is open) and only serve the
properties; so does `verified`. A poll that fails while it repairs remote control goes
on with the state read on the same connection, every other communication failure closes
it. A reply with a foreign transaction id is dropped as a whole; the code leaves the
rest of its bytes in the stream, which differs only inside a repair, where `StreamClean`
shows that no foreign reply can be met. The I/O
snapshot is one exchange, as it is in the code when the three registers are adjacent;
otherwise it is three reads with the same failure paths and no decision in between.

### BmsNode

The reader loop is split at its lock operations, at `recv` and between the field stores
of `ingest_basic_frame()`. The publish timer copies under the lock and judges the copy's
age afterwards; both ages advance with `Tick`.

### ShutdownSequence and IpcLauncher

`ShutdownSequence` has the processes inside the container. The script is split at the
commands between which a trap can run: before the trap is set (PID 1 ignores a signal
then), before the launch is forked, before `child_pid` is assigned, and in the wait
loop. The helper makes its calls in order, each waiting for the service and then for the
reply, under one deadline. A request that was sent may be executed after the helper gave
up. A signal sent to the foreground group also shuts down the helper's context. Its
quiesce call deactivates the enable manager, which commands Disable Voltage; the JTC is
not part of it. An axis that faulted has lost its voltage and counts as off.

`IpcLauncher` extends it with the container and the two commands that change something,
`start` and `stop`, each run once, in any interleaving. The read-only checks of `start`
before the container is up are one step, and so are those between "service found" and
the enable call: they pass or fail by choice, except that the JTC must be inactive. A
failing command leads to `on_start_exit()` once `startup_started` is set. Ctrl-C does the
same, and a second one ends the cleanup. `docker exec` is given up after 40 s, but the
call stays in `asked` and may be executed until the container ends.

Assumed of Docker: `restart: unless-stopped`, SIGTERM on a stop, and that `inspect` and
`stop` work. Its SIGKILL after `stop_grace_period` is an external action, `GraceEnds`,
which may happen and on which no property relies; the 100 s of grace outlast the helper's
30 s, so it waits for the helper. The container's exit code is that of
the launch, also when the helper reported an unclean shutdown, as the runbook says; the
model lets it be anything.

### DiffLegacy, RepositoryGate, PrContractGate, CiPipeline

`DiffLegacy` has YAML trees as the composer returns them, flattens them to paths, applies
the overlays to the flat maps and compares, as the code does. Integers keep their
spelling (base and digits) because `equivalent()` looks through it, floats are compared
as spelled. The property compares the *trees* instead: `FullyMigrated` edits the legacy
tree and ignores only what a flat map cannot show, empty collections. Recursion over a
tree is a recursive function on its nodes (`Subtrees`), at most `MaxDepth` steps down; a
deeper tree would be an error of the run, not a node left out. The code joins keys and
positions into one string; a path here is that string read as names and positions, and so
is a key, which may be spelled like a path (`Joined`). Two trees may therefore have the same
map, a key given twice keeps its last value, and the Ti5 overlay also cuts names that only
begin with `sdo`, `rpdo` or `tpdo` (`LongerNames`). `PassMeansMigrated` speaks of files
with plain keys (`PlainRoots`); section 4 says what becomes of the others. Left out: empty
keys, and keys with part of a position's spelling, such as `sdo[01]` or `sdo[0]x`; the
overlays are shortened to one entry per kind.

`RepositoryGate` has a content per path: the flaws the text checks look for, and a parsed
document for the six policy files. The listing, the `is_file()` test, the read and the
policies are separate steps, and files are edited in between; `files` is the set of what
is left, taken in sorted order (`IsNext`). `GateSpec` is the gate by itself, on any worktree
and under any edits; `CiPipeline` takes its steps (`PipelineRunsGate` proves it). A
document of an unexpected
shape, which ends the gate with a traceback and hence a failure, is left out.

`PrContractGate` has a pull request as a sequence of lines (headings, boxes, comments that
open, close or do both, text). Its verdict is compared with a reader's where comments hold
only plain lines, as the template's do (`CommentsInPlace`): a box or a heading inside a
comment, which the patterns find and a reader does not, is outside the claim. `CiPipeline`
runs a commit's own workflow: jobs with their
needs, timeouts and conditions, pre-commit, the quality gate script and the three gates;
builds, tests and shell checks succeed or fail by choice. A step is what it runs, the
required commands its text *contains*, its `if:`, and whether its failure is tolerated
(`|| true`, `continue-on-error`): the workflow policy searches the joined texts for
substrings, so a comment, an `echo` or `colcon test-result` satisfies it. A second kind of initial state is a developer's worktree with the
gate run locally while files change.

### Admission, AdmissionRegister, JtcAdmission

`Admission` holds the data and the judgement of a goal. `AdmissionRegister` is what the
patch promises: one reading, replaced as a whole, invalidated by deactivation, and goals
judged by a reading that was current during the call. `JtcAdmission` has one action per
access to an atomic, in program order; the target is x86-64, where loads are not
reordered with loads nor stores with stores. That is an argument about the processor: by
the C++ memory model the acquire load that ends a copy does not keep the relaxed loads
before it from being moved behind it, and that the compiler leaves them in place is
assumed. `published`, `valid`, `taken` and `fresh`
are history for the refinement mapping. The counter is unbounded in the model; the code's
64 bits do not wrap in the life of a robot.

## 4. Runs

`ci_pipeline` and `jtc_admission` also check that there is no deadlock. Elsewhere
`CHECK_DEADLOCK FALSE`: the environment's budgets run out, and then a node that was
destroyed, a container that ended or a manager that is idle has nothing left to do.

| Run | Instance | Shows |
| --- | --- | --- |
| `em_races` | 2 axes, 2 batches, one enable, disable and fault | `TypeOK`, `SwitchExclusive`, `IdleIsVoltageFree`, `LaterBatchesHeldOff`, `ReadyMeansPowered`, `IdleAfterConfirmation`, `EmergencyRunsOut` |
| `em_mishaps` | 1 axis found faulted or enabled; scenario 1: enable, disable, upset, failed, late and absent switch; scenario 2: reset, disable, upset, service timeout, deactivation | `SwitchExclusive`, `IdleIsVoltageFree`, `IdleAfterConfirmation`, `FaultResetDiscipline` |
| `em_liveness` | 1 axis, one enable, disable, fault and absent switch service, fair | `DescentEnds`, `FaultStopReachesJtc`, `EnableSequenceEnds`, `EnableAnswered`, `DisableTakesEffect` |
| `plc_outputs` | 2 outputs, ids modulo a small number, fair | `ReplyMatchesRequest`, `StreamClean`, `VerifiedOutputHolds`, `RemoteControlRestored` |
| `bms_reader` | 2 frames, 2 failures, timeout of 2 ticks, fair | `MessageFromOneFrame`, `SilenceShows`, `StopReachesReader` |
| `ipc_lifecycle` | one start, one stop, and one more signal, Ctrl-C or restart, fair | `CleanMeansDown`, `HardwareLast`, `SignalEndsLaunch`, `FailedStartStaysDown` |
| `ci_pipeline` | commits and worktrees one deviation away from the repository, trees 5 steps deep, up to 2 edits during a local gate | `PassMeansMigrated`, `StandingFlawReported`, `GreenRanEveryGate`, `ContractVerdict` |
| `jtc_admission` | 2 joints, 2 attempts, readings and goals inside and outside the tolerance, fair | `AdmissionInv`, `SnapshotIsRegister`, `GoalAnswered` |

Bounds. Two axes in two batches are the smallest instance with an earlier and a later
batch, an ordinary and a Ti5 axis (which rests in Ready To Switch On) and an axis that
fails while another is on; the code treats axes independently apart from "any" and
"all". One call per service suffices for the races between services. Each mishap happens
once, at any moment; among the ways a switch can go wrong the liveness run has the absent
service only. For the PLC, the id modulus is small enough for ids to wrap inside
the run and larger than the number of replies that can be under way. Two frames are
enough to tear a sample. The launcher's two commands bring two signals of their own; with
the one of the budget there is one that is consumed, one in the helper and one after it.
The gates look at files, steps, lines and values one by one, so one deviation at a time
from a passing repository exercises each check, and `MCCiPipeline` adds the pairs that
could cancel out. Two joints make a copy that can be torn, two attempts a retry and a
last one.

Fairness. `em_liveness` assumes weak fairness of the real-time loop (the controller
manager calls `update()` every cycle), of each callback (a multi-threaded executor with a
thread for each), of the controller manager's answers and of the clock. No fairness for
drives, callers, faults or timeouts of calls. `plc_outputs` assumes that the poll timer
and callbacks run, that the PLC serves what is not lost, and that the reconnect period
ends. `bms_reader` assumes running threads and, for the publish timer, strong fairness:
it competes for a lock the reader frees before each blocking `recv`. `ipc_lifecycle`
assumes that something of the shell, the helper, the clock or an interrupted launch goes
on when it can; no service is obliged to answer, no command to proceed, and Docker not to
kill. `ci_pipeline` assumes nothing and has no liveness property: that a run concludes is
GitHub's affair. `jtc_admission` assumes that the
callback's thread runs, and nothing of the real-time thread.

### Divergences

Four runs show that the code does not do, in some interleaving or on some input, what the
repository's documents or docstrings say. Each checks one property.

* `em_jtc_left_active` (`DisableDeactivatesJtc`, BQ-044): a disable that loaded the phase
  while enabling was under way does not switch the JTC off, although the phase is
  `Enabled` by the time its request is consumed; it reports success.
* `em_reset_lockout` (`DisablePreemptsReset`): a reset admitted in `Idle` takes the
  ownership after an enable ran to `Enabled` and released it. No cycle consumes the
  request there, and every disable is refused, also after the reset timed out.
* `ipc_ready` (`ReadyMeansActive`, `one-command-start.md`): the pattern that is to find
  the JTC active also matches "inactive"; after a fault between the enable's answer and
  the check, READY is printed with the JTC inactive.
* `ci_required_gates` (`RequiredGatesKept`, docstring of `check_ci_workflow_policy()`): a
  workflow without its `colcon test` line passes the policy, because the name is found in
  `colcon test-result`.

Further observations are visible in the models and have no run of their own:

* a disable that loaded `Enabled` before a fault stores `JtcDeactivating` over the emergency
  phase, and `handleEnable()` has the same window between its test of `JtcActivating` and
  its store of `Enabled`, although BQ-057 says that no call cancels an emergency
  (`EmergencyRunsOut` shows that nothing else does);
* a reset from `Failed` that finds no axis in Fault releases the group to `Idle` with an
  axis unconfirmed (BQ-052; `IdleAfterConfirmation` covers every other way into Idle);
* a fault during enabling clears the request of a waiting disable, whose caller only gets
  its timeout although the group does come down (`DisableTakesEffect`);
* PID 1 ignores the SIGTERM of a stop that comes before the wrapper has set its trap: the
  launch starts all the same, and when the grace period ends Docker kills it, with powered
  axes if the start command enabled them meanwhile. A signal before `child_pid` is assigned
  is consumed without interrupting the launch and makes the wrapper ignore later ones.
  `SignalEndsLaunch` is about the signals that find the wrapper waiting;
* `diff_legacy.py` passes a profile with a key such as `sdo[0].index` in place of a list, one
  with a key given twice of which the last is right, and a Ti5 profile that lost a legacy
  key such as `sdo_timeout` (`PassMeansMigrated` excludes such keys).

### Mutants

For each property of a passing run there is an operator, defined just before the one it
varies, that introduces a plausible mistake (a dropped guard, a missing timeout, a word
held too long); `PROJECT.json` pairs them. With the mistake in place the property fails
in its run.

## 5. Proofs

TLAPS proves, for any `Axes`, `Batches`, `InitStatus`, `Upsets` and `Limits` that satisfy
the assumptions of `EnableManager` (axes are numbers, batches are a non-empty sequence
of sets that cover them, the states are drive states):

| Theorem | Statement | Argument |
| --- | --- | --- |
| `TypeCorrect` (`EnableManager_proofs`) | `Spec => []TypeOK` | `TypeOK` alone is not inductive: `UpdateInterBatchDelay` increments the batch index without testing it. `BatchLeft`, a delay only begins when a batch is left, closes the gap. |
| `SwitchIsExclusive` (`EnableManagerSwitch_proofs`) | `Spec => []SwitchExclusive` | Inductive with `LiveRequestsAwaited`: a live request in the controller manager's queue belongs to a thread that waits, and is the only live one. Otherwise a late answer could clear the flag of another switch. |
| `JtcWaitsForAllAxes` (`EnableManagerDrives_proofs`) | `ReadyMeansPowered` | The last batch is complete and no axis of an earlier one is invalid; batches cover the axes. |
| `IdleIsConfirmed` | `IdleAfterConfirmation` | By cases on the ways into Idle: a finished descent, an emergency that timed out, a reset. |
| `IdleHoldsNoVoltage` | `Spec => []IdleIsVoltageFree` | Inductive as it stands: each cycle that enters Idle writes Disable Voltage because the axes it confirms get that word; callbacks never enter it. |
| `FaultResetIsPulse` | `FaultResetDiscipline` | Needs `ResetWords`: in `ResetLow` and `ResetHigh` every word is Disable Voltage or Fault Reset. |
| `LaterBatchesWait` | `LaterBatchesHeldOff` | By cases on the cycles that stay in or enter an enabling phase; only `UpdateInterBatchDelay` gives a later axis anything but Disable Voltage. |
| `EmergencyTakesItsCourse` | `Spec => EmergencyRunsOut` | Needs `EmergencyActive`: an inactive controller is in no emergency. Of the callbacks only `EnableCommit` and `DisableArm` store a phase (`CallbackStores`). |

`LaterBatchesHeldOff` speaks of raising: no axis is given a word that powers it before its
batch has come. An earlier form, "an axis of a later batch is under Disable Voltage", held in
the small run and is false in general: after `Failed`, a reset that finds no axis in Fault
goes to Idle unconfirmed, and a drive stuck in Operation Enabled is then held there by the
next enable's delay. The proof attempt showed it.

For any non-empty set of output bits, any modulus of the ids above 2, any number of
verification reads and of mishaps (`PlcAssumption`; the code's ids have 16 bits, and three
are what it takes for a request, its predecessor and its successor to differ):

| Theorem | Statement | Argument |
| --- | --- | --- |
| `PlcTypeCorrect` (`PlcNode_proofs`) | `Spec => []TypeOK` | Part of `PlcInv`, with the types of what is in the two queues. |
| `StreamStaysClean` | `Spec => []StreamClean` | `StreamInv`: outside the state read nothing is left over. A repair that failed within a poll keeps the connection; what it leaves carries the id before that of the state read, which meets it first, finds the id foreign and closes. |
| `ReplyIsToRequest` | `Spec => []ReplyMatchesRequest` | From `StreamInv`: an answer to the pending request has its id and comes last, everything else the id before, which differs modulo the modulus. |
| `ConfirmedOutputHolds` | `Spec => []VerifiedOutputHolds` | `ContentInv` and `CommandInv`: only `writeCommand` has a write of the command under way on an open connection, its word agrees with what was confirmed of the other outputs, and a readback holds what the register held, unless the output was disturbed since. |

For any number of frames and failures and any timeout (`BmsAssumption`):

| Theorem | Statement | Argument |
| --- | --- | --- |
| `BmsTypeCorrect` (`BmsNode_proofs`) | `Spec => []TypeOK` | Part of `BmsInv`. |
| `MessageIsWhole` | `Spec => []MessageFromOneFrame` | `LockHeld` and `SampleInv`: voltage and state of charge differ only while the reader holds the lock between the two stores, and the copy is made under it. |

For any number of signals, interrupts and restarts (`LimitAssumption`):

| Theorem | Statement | Argument |
| --- | --- | --- |
| `IpcTypeCorrect` (`IpcLauncher_proofs`) | `Spec => []TypeOK` | Part of `IpcInv`. |
| `CleanExitMeansDown` | `Spec => []CleanMeansDown` | `HelperInv`: which requests can be under way at each call. `RobotInv`: a call that returned, or is about to return, success has had its effect, and nothing undoes it: an inactive manager has its axes off, and no enable reaches it. |
| `HardwareGoesLast` | `Spec => []HardwareLast` | `RobotInv`: a deactivation is only asked for, and so only executed late, once the manager is inactive. |
| `FailedStartNeverPowers` | `FailedStartStaysDown` | `CallInv`: only the start command asks for an enable, a start that failed has none under way, and nothing asked outlives the container. |

For any sorted list of paths, any traits, worktree, index and edits (`PathsAssumption`,
`IsWorktree`), and for any text of a pull request (`ContractAssumption`):

| Theorem | Statement | Argument |
| --- | --- | --- |
| `StandingFlawsAreReported` (`Gates_proofs`) | `GateSpec => []StandingFlawReported` | `Progress`: a file that stood unchanged since the listing is still to come, or judged as it stands, its text waiting for the policies. Lemmas: no finding means no flaw (`NoFindingsMeansClean`), and the last instruction is the one Docker goes by (`LastInstructionHolds`, from the existence of a greatest index). |
| `VerdictIsReaders` | `CommentsInPlace(body) => (validate_event(body) = {} <=> ContractKept(body))` | `_section_body()` finds the lines between the first heading and the next (`SectionFound`); with comments in place one that touches a section lies in it (`CommentStaysInSection`), so cutting closed comments out of the section leaves something exactly when the reader sees something (`VisibleIsSeen`). |

For any commits, workflows, worktrees, edits, axes and profiles (`CommitsAssumption`: the
texts are lines, a job has a list of steps; `ProfilesAssumption`; `PolicyAssumption`: none
of the policy files is a mesh):

| Theorem | Statement | Argument |
| --- | --- | --- |
| `PipelineRunsGate` (`Gates_proofs`) | `Spec => GateSpec` | Each step of a job, of the hook and of an edit is a step of the repository gate or leaves it alone. |
| `PipelineTyped` | `Spec => []TypeOK` | Part of `CiInv`. |
| `MigrationVerdict` | `Spec => []ExitIsVerdict` | `DiffInv`: so far every comparison found its files, and there are no differences exactly when none of them found one. |
| `SdosMoveDown` | what `prepend_sync_tolerance` does to any flat map | Moving a path down and up again gives the path back, so no two entries meet. |
| `RecordedVerdictIsReaders` | `Spec => []ContractVerdict` | `RanInv`: what is recorded of a gate is what it said, of a text that does not change; then `VerdictIsReaders`. |
| `GreenMeansGated` | `Spec => []GreenRanEveryGate` | `StepsTaken`: every step a job is past was executed and succeeded, unless its `if:` did not hold or its failure is tolerated. A verdict of 0 rests on `Passed`, everything judged and no policy with a finding, so the workflow that was judged is the one that runs, and its jobs name the required commands (`WorkflowJudged`). |

`GreenMeansGated` says no more of the required commands than the code ensures: each is named
in its job, and has passed if a step executes it outright. That a named one is executed does
not follow (`ci_required_gates`). What a passed migration gate means is `NothingDiffers`, in
terms of flat maps; what that means for the trees is `PassMeansMigrated`.

And, for any number of joints, sets of positions, ages and goals, tolerances, attempts and
cycles (`AdmissionAssumption`, `BoundAssumption`):

| Theorem | Statement | Argument |
| --- | --- | --- |
| `AdmissionInvariant` (`JtcAdmission_proofs`) | `Spec => []AdmissionInv` | `WriterInv`: while the counter is even the atomics are the published reading, while it is odd a prefix of it. `ReaderInv`: what was copied is still in the atomics as long as the counter has not moved, the age excepted, which deactivation may overwrite. |
| `AdmissionRefinement` | `Spec => SnapshotIsRegister` | `UpdateBegin` maps to `Publish`, the other stores of the cycle to stutters; a successful `LoadAfter` maps to `Take`, of the published reading or, after a deactivation in the middle of the copy, of the one without an age. It rests on `AdmissionInv`. |
| `AdmissionTypeCorrect` | `Spec => []TypeOK` | From `AdmissionInv`. |

Each invariance proof has one step per action of `Next`; frame lemmas cover the actions
that leave the relevant variables alone.

Only model-checked:

* liveness, which the prover does not reach;
* `PassMeansMigrated`: that two trees with plain keys agree exactly when their flat maps do
  is an induction over data. Around it, `MigrationVerdict` reduces the gate's verdict to its
  comparisons and `SdosMoveDown` shows what the moving overlay does to the maps.

## 6. Not modelled

* Interleavings inside one real-time cycle, and weak memory effects beyond the
  acquire/release order the code asks for.
* The diagnostics publication of the enable manager, names and numbers in its reports.
* Configuration errors in `on_init`/`on_configure`: a controller that fails them never runs.
* `rt_diagnostics` (see the plan): it classifies cached inputs by age, and nothing else
  reads what it publishes.
* The EtherCAT and CANopen driver patches: their base sources are not in the repository.
* The EDS normalisation of the CANopen package: one fixed file, pinned by its hash before
  and after.
* The launcher's `status` and `logs`, which only read, and failing `docker` commands.
* Hardware packages, host setup, image contents, descriptions and interfaces, which hold
  data, build steps or I/O only.
* Power loss, which the documents exclude from the orderly shutdown.
