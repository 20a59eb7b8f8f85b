-------------------------- MODULE AdmissionRegister --------------------------
(***************************************************************************)
(* What trajectory admission promises.  The controller's update() leaves a *)
(* reading, the positions of all joints and the age of the feedback, and a *)
(* goal is judged by one whole reading, the newest one at some moment of   *)
(* the call.  Deactivating the controller invalidates the reading; a call  *)
(* during which it was still valid may be judged by it all the same.       *)
(***************************************************************************)
EXTENDS Admission

VARIABLES
  published,  \* the last reading
  valid,      \* it has not been invalidated
  call,       \* the goal being judged: "none", "open", "taken", "accepted" or "rejected"
  goal,       \* NoGoal without a call
  taken,      \* the reading it is judged by
  fresh       \* the last reading was valid at some moment of this call

vars == <<published, valid, call, goal, taken, fresh>>

Init ==
  /\ published = NoReading /\ valid = TRUE
  /\ call = "none" /\ goal = NoGoal /\ taken = NoReading /\ fresh = FALSE

Publish ==
  /\ published' \in Reading /\ valid' = TRUE /\ fresh' = TRUE
  /\ UNCHANGED <<call, goal, taken>>

Invalidate ==
  /\ valid' = FALSE
  /\ UNCHANGED <<published, call, goal, taken, fresh>>

Open ==
  /\ call = "none"
  /\ call' = "open" /\ goal' \in Goals /\ fresh' = valid
  /\ UNCHANGED <<published, valid, taken>>

Take ==
  /\ call = "open"
  /\ call' = "taken"
  /\ \/ (valid \/ fresh) /\ taken' = published
     \/ ~valid /\ taken' = [published EXCEPT !.age = NaN]
  /\ UNCHANGED <<published, valid, goal, fresh>>

\* Not running, no snapshot, or none that could be copied.
Refuse ==
  /\ call = "open" /\ call' = "rejected"
  /\ UNCHANGED <<published, valid, goal, taken, fresh>>

Judge ==
  /\ call = "taken"
  /\ call' = IF Admissible(goal, taken) THEN "accepted" ELSE "rejected"
  /\ UNCHANGED <<published, valid, goal, taken, fresh>>

Return ==
  /\ call \in {"accepted", "rejected"} /\ call' = "none"
  /\ goal' = NoGoal /\ taken' = NoReading
  /\ UNCHANGED <<published, valid, fresh>>

Next == Publish \/ Invalidate \/ Open \/ Take \/ Refuse \/ Judge \/ Return

Spec == Init /\ [][Next]_vars

=============================================================================
