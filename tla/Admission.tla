----------------------------- MODULE Admission -----------------------------
(***************************************************************************)
(* What a reading of the feedback is, and which goals it admits: the       *)
(* checks validate_trajectory_start() makes of its copy.                   *)
(***************************************************************************)
EXTENDS Integers

CONSTANTS
  Dof,         \* the number of joints (dof_)
  Positions,   \* what a joint's position may read
  Ages,        \* what the feedback age may read, in the unit of MaxAge
  NaN,         \* not a number
  Goals,       \* the first points a goal may have: functions of some joints
  Tolerance,   \* position_tolerances
  MaxAge       \* max_feedback_age_ms

ASSUME AdmissionAssumption ==
  /\ Dof \in Nat \ {0}
  /\ NaN \notin Int
  /\ Positions \subseteq Int \cup {NaN} /\ Ages \subseteq Int \cup {NaN}
  /\ Tolerance \in [1..Dof -> Nat]
  /\ MaxAge \in Nat
  /\ \A g \in Goals : \A j \in DOMAIN g : g[j] \in Int \cup {NaN}

Joints == 1..Dof
Reading == [positions : [Joints -> Positions \cup {NaN}], age : Ages \cup {NaN}]
NoReading == [positions |-> [j \in Joints |-> NaN], age |-> NaN]

NoGoal == <<>>

isfinite(x) == x # NaN
abs(x) == IF x < 0 THEN -x ELSE x

\* The reading is fresh, and every joint starts where it is.
Admissible(goal, reading) ==
  /\ isfinite(reading.age) /\ reading.age <= MaxAge
  /\ \A j \in Joints :
       /\ j \in DOMAIN goal
       /\ isfinite(reading.positions[j]) /\ isfinite(goal[j])
       /\ abs(goal[j] - reading.positions[j]) <= Tolerance[j]

=============================================================================
