---------------------------- MODULE JtcAdmission ----------------------------
(***************************************************************************)
(* patches/ros2_controllers/0001-jtc-start-consistency.patch: the joint    *)
(* trajectory controller's update() leaves a snapshot of the feedback for  *)
(* goal_received_callback(), which runs in another thread, behind a        *)
(* sequence counter that is odd while the snapshot is being written.  The  *)
(* realtime thread also runs on_activate() and on_deactivate(); the latter *)
(* overwrites the age without touching the counter.                        *)
(*                                                                         *)
(* Every access to an atomic is a step of its own, in program order: the   *)
(* target is x86-64, which does not reorder loads with loads nor stores    *)
(* with stores.                                                            *)
(*                                                                         *)
(* An operator that stands just before another one and is used nowhere is  *)
(* a mutated form of it: a bug the properties are shown to catch.          *)
(***************************************************************************)
EXTENDS Admission

CONSTANTS
  MaxAttempts,  \* how often the reader tries to copy the snapshot (1000)
  MaxCycles     \* how many updates there are (bound)

ASSUME BoundAssumption == MaxAttempts \in Nat \ {0} /\ MaxCycles \in Nat

VARIABLES
  position, age, sequence, has_age,  \* the atomics the threads share
  active,                            \* the controller's lifecycle state
  rt, reading, store,                \* update(): where it is, what it writes, next joint
  cycles,
  call, goal,                        \* goal_received_callback(), and its goal
  before, copied_age, copied, load, attempts,
  published, valid, taken, fresh     \* history: see AdmissionRegister

atomics == <<position, age, sequence, has_age>>
rtVars  == <<active, rt, reading, store, cycles>>
copyVars == <<before, copied_age, copied, load, attempts>>
history == <<published, valid, taken, fresh>>
vars == <<atomics, rtVars, call, goal, copyVars, history>>

Register == INSTANCE AdmissionRegister WITH
  call <- IF call \in {"has", "before", "age", "positions", "after"} THEN "open" ELSE call

Odd(n) == n % 2 = 1
Busy == {"has", "before", "age", "positions", "after"}

TypeOK ==
  /\ position \in [Joints -> Positions \cup {NaN}] /\ age \in Ages \cup {NaN}
  /\ sequence \in Nat /\ has_age \in BOOLEAN /\ active \in BOOLEAN
  /\ rt \in {"idle", "positions", "age", "seal", "deactivating"}
  /\ reading \in Reading
  /\ store \in 1..Dof + 1 /\ load \in 1..Dof + 1
  /\ cycles \in 0..MaxCycles
  /\ call \in Busy \cup {"none", "taken", "accepted", "rejected"} /\ goal \in Goals \cup {NoGoal}
  /\ before \in Nat /\ copied_age \in Ages \cup {NaN}
  /\ copied \in [Joints -> Positions \cup {NaN}]
  /\ attempts \in 0..MaxAttempts
  /\ published \in Reading /\ taken \in Reading
  /\ valid \in BOOLEAN /\ fresh \in BOOLEAN

\* After on_configure().
Init ==
  /\ position = NoReading.positions /\ age = NaN
  /\ sequence = 0 /\ has_age = FALSE /\ active = FALSE
  /\ rt = "idle" /\ reading = NoReading /\ store = 1 /\ cycles = 0
  /\ call = "none" /\ goal = NoGoal
  /\ before = 0 /\ copied_age = NaN /\ copied = NoReading.positions /\ load = 1 /\ attempts = 0
  /\ published = NoReading /\ valid = TRUE
  /\ taken = NoReading /\ fresh = FALSE

-----------------------------------------------------------------------------
(* The realtime thread.                                                    *)

\* read_state_from_state_interfaces(), and the counter made odd.
UpdateBegin ==
  /\ rt = "idle" /\ active /\ cycles < MaxCycles
  /\ cycles' = cycles + 1
  /\ reading' \in [positions : [Joints -> Positions], age : Ages]
  /\ sequence' = sequence + 1
  /\ rt' = "positions" /\ store' = 1
  /\ published' = reading' /\ valid' = TRUE /\ fresh' = TRUE
  /\ UNCHANGED <<position, age, has_age, active, call, goal, copyVars, taken>>

StorePosition ==
  /\ rt = "positions" /\ store <= Dof
  /\ position' = [position EXCEPT ![store] = reading.positions[store]]
  /\ store' = store + 1
  /\ rt' = IF store = Dof THEN "age" ELSE rt
  /\ UNCHANGED <<age, sequence, has_age, active, reading, cycles, call, goal, copyVars,
                 history>>

StoreAge ==
  /\ rt = "age"
  /\ age' = reading.age
  /\ rt' = "seal"
  /\ UNCHANGED <<position, sequence, has_age, active, reading, store, cycles, call, goal,
                 copyVars, history>>

UpdateEnd ==
  /\ rt = "seal"
  /\ sequence' = sequence + 1
  /\ rt' = "idle" /\ reading' = NoReading /\ store' = 1
  /\ UNCHANGED <<position, age, has_age, active, cycles, call, goal, copyVars, history>>

Update == UpdateBegin \/ StorePosition \/ StoreAge \/ UpdateEnd

Activate ==
  /\ rt = "idle" /\ ~active
  /\ has_age' = TRUE /\ active' = TRUE
  /\ UNCHANGED <<position, age, sequence, rt, reading, store, cycles, call, goal, copyVars,
                 history>>

Deactivate ==
  /\ rt = "idle" /\ active
  /\ has_age' = FALSE /\ rt' = "deactivating"
  /\ UNCHANGED <<position, age, sequence, active, reading, store, cycles, call, goal, copyVars,
                 history>>

ForgetNothing ==
  /\ rt = "deactivating"
  /\ rt' = "idle" /\ active' = FALSE
  /\ valid' = FALSE
  /\ UNCHANGED <<position, age, sequence, has_age, reading, store, cycles, call, goal,
                 copyVars, published, taken, fresh>>
ForgetAge ==
  /\ rt = "deactivating"
  /\ age' = NaN
  /\ rt' = "idle" /\ active' = FALSE
  /\ valid' = FALSE
  /\ UNCHANGED <<position, sequence, has_age, reading, store, cycles, call, goal, copyVars,
                 published, taken, fresh>>

-----------------------------------------------------------------------------
(* goal_received_callback() and validate_trajectory_start().               *)

ReceiveGoal ==
  /\ call = "none"
  /\ call' = "has" /\ goal' \in Goals
  /\ fresh' = valid
  /\ UNCHANGED <<atomics, rtVars, copyVars, published, valid, taken>>

\* The controller must be running, and the age interface known.
LoadHas ==
  /\ call = "has"
  /\ call' = IF active /\ has_age THEN "before" ELSE "rejected"
  /\ UNCHANGED <<atomics, rtVars, goal, copyVars, history>>

RetryForever ==
  /\ call' = "before"
  /\ UNCHANGED attempts
RetryOnceMore ==
  /\ attempts' = attempts + 1
  /\ call' = IF attempts + 1 <= MaxAttempts THEN "before" ELSE "rejected"
\* The next attempt, or none is left.
Retry ==
  /\ attempts' = attempts + 1
  /\ call' = IF attempts + 1 < MaxAttempts THEN "before" ELSE "rejected"

LoadBefore ==
  /\ call = "before"
  /\ before' = sequence
  /\ IF Odd(sequence) THEN Retry ELSE call' = "age" /\ UNCHANGED attempts
  /\ UNCHANGED <<atomics, rtVars, goal, copied_age, copied, load, history>>

LoadAge ==
  /\ call = "age"
  /\ copied_age' = age /\ load' = 1
  /\ call' = "positions"
  /\ UNCHANGED <<atomics, rtVars, goal, before, copied, attempts, history>>

LoadPosition ==
  /\ call = "positions" /\ load <= Dof
  /\ copied' = [copied EXCEPT ![load] = position[load]]
  /\ load' = load + 1
  /\ call' = IF load = Dof THEN "after" ELSE call
  /\ UNCHANGED <<atomics, rtVars, goal, before, copied_age, attempts, history>>

LoadAfterUnchecked ==
  /\ call = "after"
  /\ call' = "taken" /\ taken' = [positions |-> copied, age |-> copied_age]
  /\ UNCHANGED <<atomics, rtVars, goal, copyVars, published, valid, fresh>>
LoadAfter ==
  /\ call = "after"
  /\ IF before = sequence /\ ~Odd(sequence)
       THEN /\ call' = "taken" /\ taken' = [positions |-> copied, age |-> copied_age]
            /\ UNCHANGED attempts
       ELSE Retry /\ UNCHANGED taken
  /\ UNCHANGED <<atomics, rtVars, goal, before, copied_age, copied, load, published, valid,
                 fresh>>

\* The checks of the copy.
JudgeGoal ==
  /\ call = "taken"
  /\ call' = IF Admissible(goal, taken) THEN "accepted" ELSE "rejected"
  /\ UNCHANGED <<atomics, rtVars, goal, copyVars, history>>

ReturnResponse ==
  /\ call \in {"accepted", "rejected"}
  /\ call' = "none" /\ goal' = NoGoal
  /\ before' = 0 /\ copied_age' = NaN /\ copied' = NoReading.positions /\ load' = 1
  /\ attempts' = 0
  /\ taken' = NoReading
  /\ UNCHANGED <<atomics, rtVars, published, valid, fresh>>

Callback ==
  \/ LoadHas \/ LoadBefore \/ LoadAge \/ LoadPosition \/ LoadAfter \/ JudgeGoal
  \/ ReturnResponse

Next == Update \/ Activate \/ Deactivate \/ ForgetAge \/ ReceiveGoal \/ Callback

\* The callback's thread is scheduled; nothing is assumed of the realtime thread.
Spec == Init /\ [][Next]_vars /\ WF_vars(Callback)

-----------------------------------------------------------------------------
(* Why the counter works.                                                  *)

\* The atomics hold the last reading between two updates, and part of it during one.
WriterInv ==
  /\ rt \in {"idle", "deactivating"} =>
       /\ ~Odd(sequence)
       /\ position = published.positions
       /\ age = IF valid THEN published.age ELSE NaN
  /\ rt \in {"positions", "age", "seal"} => Odd(sequence) /\ reading = published /\ valid
  /\ rt = "positions" => store <= Dof
  /\ \A j \in Joints : rt = "positions" /\ j < store => position[j] = reading.positions[j]
  /\ rt \in {"age", "seal"} => position = reading.positions
  /\ rt = "seal" => age = reading.age

\* What the reader has copied is still there as long as the counter has not moved, the
\* age excepted, which on_deactivate() may have overwritten.
ReaderInv ==
  /\ call \in {"age", "positions", "after"} => before <= sequence /\ ~Odd(before)
  /\ call \in Busy /\ valid => fresh
  /\ call \in {"positions", "after"} /\ before = sequence =>
       \/ copied_age = published.age /\ fresh
       \/ copied_age = NaN /\ ~valid
  /\ call = "positions" => load <= Dof
  /\ \A j \in Joints : call = "positions" /\ j < load /\ before = sequence =>
                         copied[j] = position[j]
  /\ call = "after" /\ before = sequence => copied = position
  /\ call \in {"none", "has"} => attempts = 0
  /\ call \in Busy => attempts < MaxAttempts

AdmissionInv == TypeOK /\ WriterInv /\ ReaderInv

-----------------------------------------------------------------------------
\* The sequence counter makes update() and validate_trajectory_start() one write and one
\* read of a register: a goal is judged by the feedback of one cycle, the newest at some
\* moment of the call, although on_deactivate() writes the age outside the counter.
SnapshotIsRegister == Register!Spec

\* A goal is answered however often update() overwrites the snapshot meanwhile.
GoalAnswered == (call = "has") ~> (call \in {"accepted", "rejected"})

=============================================================================
