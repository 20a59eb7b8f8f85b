--------------------------- MODULE MCJtcAdmission ---------------------------
EXTENDS JtcAdmission

MCPositions == {0, 2}
MCTolerance == [j \in 1..2 |-> 1]
\* Where the robot may be, next to it, no number, and a goal without a joint.
MCGoals == {[j \in 1..2 |-> IF j = 1 THEN 0 ELSE NaN],
            [j \in 1..2 |-> 0], [j \in 1..2 |-> IF j = 1 THEN 1 ELSE 2], [j \in {1} |-> 0]}
=============================================================================
