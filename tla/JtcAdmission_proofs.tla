------------------------ MODULE JtcAdmission_proofs ------------------------
(***************************************************************************)
(* The sequence counter implements the register, for every number of       *)
(* joints, every set of readings and goals and every number of attempts.   *)
(***************************************************************************)
EXTENDS JtcAdmission, TLAPS

\* The counter is odd after every other increment.
LEMMA OddAlternates == \A n \in Nat : Odd(n + 1) <=> ~Odd(n)
  BY DEF Odd

LEMMA ReadingFields ==
  ASSUME NEW r \in Reading
  PROVE  /\ r.positions \in [Joints -> Positions \cup {NaN}]
         /\ r.age \in Ages \cup {NaN}
         /\ r = [positions |-> r.positions, age |-> r.age]
  BY DEF Reading

LEMMA SameFunction ==
  ASSUME NEW S, NEW T, NEW f \in [S -> T], NEW g \in [S -> T], \A x \in S : f[x] = g[x]
  PROVE  f = g
  OBVIOUS

LEMMA NoReadingIsReading == NoReading \in Reading
  BY DEF Reading, NoReading

-----------------------------------------------------------------------------
LEMMA InitInv == Init => AdmissionInv
<1> SUFFICES ASSUME Init PROVE AdmissionInv
  OBVIOUS
<1>0. NoReading.positions \in [Joints -> Positions \cup {NaN}]
  BY DEF NoReading
<1>1. TypeOK
  <2>1. /\ position \in [Joints -> Positions \cup {NaN}] /\ age \in Ages \cup {NaN}
        /\ copied \in [Joints -> Positions \cup {NaN}] /\ copied_age \in Ages \cup {NaN}
        /\ reading \in Reading /\ published \in Reading /\ taken \in Reading
    BY <1>0, NoReadingIsReading DEF Init
  <2>2. /\ sequence \in Nat /\ before \in Nat
        /\ store \in 1..Dof + 1 /\ load \in 1..Dof + 1
        /\ cycles \in 0..MaxCycles /\ attempts \in 0..MaxAttempts
    BY AdmissionAssumption, BoundAssumption DEF Init
  <2>3. /\ has_age \in BOOLEAN /\ active \in BOOLEAN
        /\ valid \in BOOLEAN /\ fresh \in BOOLEAN
        /\ rt = "idle" /\ call = "none" /\ goal \in Goals \cup {NoGoal}
    BY DEF Init
  <2>4. QED
    BY <2>1, <2>2, <2>3 DEF TypeOK
<1>2. WriterInv
  BY DEF Init, WriterInv, Odd, NoReading
<1>3. ReaderInv
  BY BoundAssumption DEF Init, ReaderInv, Busy
<1>4. QED
  BY <1>1, <1>2, <1>3 DEF AdmissionInv

-----------------------------------------------------------------------------
LEMMA UpdateBeginInv == AdmissionInv /\ UpdateBegin => AdmissionInv'
<1> SUFFICES ASSUME AdmissionInv, UpdateBegin PROVE AdmissionInv'
  OBVIOUS
<1> USE DEF AdmissionInv
<1>1. reading' \in Reading
  BY DEF UpdateBegin, Reading
<1>2. TypeOK'
  BY <1>1, AdmissionAssumption, BoundAssumption DEF UpdateBegin, TypeOK, copyVars
<1>3. WriterInv'
  BY OddAlternates, AdmissionAssumption
  DEF UpdateBegin, WriterInv, TypeOK, Joints
<1>4. ReaderInv'
  BY DEF UpdateBegin, ReaderInv, TypeOK, copyVars, Busy, Odd
<1>5. QED
  BY <1>2, <1>3, <1>4

LEMMA StorePositionInv == AdmissionInv /\ StorePosition => AdmissionInv'
<1> SUFFICES ASSUME AdmissionInv, StorePosition PROVE AdmissionInv'
  OBVIOUS
<1> USE DEF AdmissionInv
<1>0. store \in Joints /\ reading.positions \in [Joints -> Positions \cup {NaN}]
  BY ReadingFields, AdmissionAssumption DEF StorePosition, TypeOK, Joints
<1>1. TypeOK'
  BY <1>0, AdmissionAssumption DEF StorePosition, TypeOK, copyVars, history, Joints
<1>2. WriterInv'
  <2>1. \A j \in Joints : j < store' => position'[j] = reading'.positions[j]
    BY <1>0 DEF StorePosition, WriterInv, TypeOK, Joints, history
  <2>2. ASSUME store = Dof PROVE position' = reading.positions
    <3>1. \A j \in Joints : position'[j] = reading.positions[j]
      BY <2>1, <2>2, AdmissionAssumption DEF StorePosition, Joints
    <3>2. position' \in [Joints -> Positions \cup {NaN}]
      BY <1>1 DEF TypeOK
    <3>3. QED
      BY <1>0, <3>1, <3>2, SameFunction
  <2>3. rt' \in {"positions", "age"} /\ (rt' = "age" => store = Dof)
    BY DEF StorePosition
  <2>4. rt' = "positions" => store' <= Dof
    BY AdmissionAssumption DEF StorePosition, TypeOK
  <2>5. Odd(sequence') /\ reading' = published' /\ valid' /\ reading' = reading
    BY DEF StorePosition, WriterInv, history
  <2>6. QED
    BY <2>1, <2>2, <2>3, <2>4, <2>5 DEF WriterInv
<1>3. ReaderInv'
  <2>1. Odd(sequence)
    BY DEF StorePosition, WriterInv
  <2>2. QED
    BY <2>1 DEF StorePosition, ReaderInv, TypeOK, copyVars, history, Busy
<1>4. QED
  BY <1>1, <1>2, <1>3

LEMMA StoreAgeInv == AdmissionInv /\ StoreAge => AdmissionInv'
<1> SUFFICES ASSUME AdmissionInv, StoreAge PROVE AdmissionInv'
  OBVIOUS
<1> USE DEF AdmissionInv
<1>1. TypeOK'
  BY ReadingFields DEF StoreAge, TypeOK, copyVars, history
<1>2. WriterInv'
  BY DEF StoreAge, WriterInv, history
<1>3. ReaderInv'
  BY DEF StoreAge, ReaderInv, copyVars, history, Busy
<1>4. QED
  BY <1>1, <1>2, <1>3

LEMMA UpdateEndInv == AdmissionInv /\ UpdateEnd => AdmissionInv'
<1> SUFFICES ASSUME AdmissionInv, UpdateEnd PROVE AdmissionInv'
  OBVIOUS
<1> USE DEF AdmissionInv
<1>1. TypeOK'
  BY NoReadingIsReading, AdmissionAssumption DEF UpdateEnd, TypeOK, copyVars, history
<1>2. WriterInv'
  BY OddAlternates DEF UpdateEnd, WriterInv, TypeOK, history
<1>3. ReaderInv'
  BY DEF UpdateEnd, ReaderInv, TypeOK, copyVars, history, Busy
<1>4. QED
  BY <1>1, <1>2, <1>3

LEMMA LifecycleInv == AdmissionInv /\ (Activate \/ Deactivate) => AdmissionInv'
<1> SUFFICES ASSUME AdmissionInv, Activate \/ Deactivate PROVE AdmissionInv'
  OBVIOUS
<1> USE DEF AdmissionInv, Activate, Deactivate, copyVars, history
<1>1. TypeOK'
  BY DEF TypeOK
<1>2. WriterInv'
  BY DEF WriterInv
<1>3. ReaderInv'
  BY DEF ReaderInv, Busy
<1>4. QED
  BY <1>1, <1>2, <1>3

LEMMA ForgetAgeInv == AdmissionInv /\ ForgetAge => AdmissionInv'
<1> SUFFICES ASSUME AdmissionInv, ForgetAge PROVE AdmissionInv'
  OBVIOUS
<1> USE DEF AdmissionInv, ForgetAge, copyVars
<1>1. TypeOK'
  BY DEF TypeOK
<1>2. WriterInv'
  BY DEF WriterInv
<1>3. ReaderInv'
  BY DEF ReaderInv, Busy
<1>4. QED
  BY <1>1, <1>2, <1>3

-----------------------------------------------------------------------------
LEMMA ReceiveGoalInv == AdmissionInv /\ ReceiveGoal => AdmissionInv'
<1> SUFFICES ASSUME AdmissionInv, ReceiveGoal PROVE AdmissionInv'
  OBVIOUS
<1> USE DEF AdmissionInv, ReceiveGoal, atomics, rtVars, copyVars
<1>1. TypeOK'
  BY DEF TypeOK, Busy
<1>2. WriterInv'
  BY DEF WriterInv
<1>3. ReaderInv'
  BY BoundAssumption DEF ReaderInv, Busy, TypeOK
<1>4. QED
  BY <1>1, <1>2, <1>3

LEMMA LoadHasInv == AdmissionInv /\ LoadHas => AdmissionInv'
<1> SUFFICES ASSUME AdmissionInv, LoadHas PROVE AdmissionInv'
  OBVIOUS
<1> USE DEF AdmissionInv, LoadHas, atomics, rtVars, copyVars, history
<1>1. TypeOK'
  BY DEF TypeOK, Busy
<1>2. WriterInv'
  BY DEF WriterInv
<1>3. ReaderInv'
  BY BoundAssumption DEF ReaderInv, Busy, TypeOK
<1>4. QED
  BY <1>1, <1>2, <1>3

LEMMA LoadBeforeInv == AdmissionInv /\ LoadBefore => AdmissionInv'
<1> SUFFICES ASSUME AdmissionInv, LoadBefore PROVE AdmissionInv'
  OBVIOUS
<1> USE DEF AdmissionInv, LoadBefore, Retry, atomics, rtVars, history
<1>0. attempts < MaxAttempts
  BY DEF ReaderInv, Busy
<1>1. TypeOK'
  BY <1>0, BoundAssumption DEF TypeOK, Busy
<1>2. WriterInv'
  BY DEF WriterInv
<1>3. ReaderInv'
  BY <1>0, BoundAssumption DEF ReaderInv, Busy, TypeOK
<1>4. QED
  BY <1>1, <1>2, <1>3

LEMMA LoadAgeInv == AdmissionInv /\ LoadAge => AdmissionInv'
<1> SUFFICES ASSUME AdmissionInv, LoadAge PROVE AdmissionInv'
  OBVIOUS
<1> USE DEF AdmissionInv, LoadAge, atomics, rtVars, history
<1>1. TypeOK'
  BY AdmissionAssumption DEF TypeOK, Busy
<1>2. WriterInv'
  BY DEF WriterInv
<1>3. before = sequence => age = IF valid THEN published.age ELSE NaN
  BY DEF WriterInv, ReaderInv, TypeOK
<1>4. ReaderInv'
  BY <1>3, AdmissionAssumption DEF ReaderInv, Busy, TypeOK, Joints
<1>5. QED
  BY <1>1, <1>2, <1>4

LEMMA LoadPositionInv == AdmissionInv /\ LoadPosition => AdmissionInv'
<1> SUFFICES ASSUME AdmissionInv, LoadPosition PROVE AdmissionInv'
  OBVIOUS
<1> USE DEF AdmissionInv, LoadPosition, atomics, rtVars, history
<1>0. load \in Joints
  BY AdmissionAssumption DEF TypeOK, Joints
<1>1. TypeOK'
  BY <1>0, AdmissionAssumption DEF TypeOK, Busy, Joints
<1>2. WriterInv'
  BY DEF WriterInv
<1>3. ReaderInv'
  <2>1. \A j \in Joints : j < load' /\ before = sequence => copied'[j] = position[j]
    BY <1>0 DEF ReaderInv, TypeOK, Joints
  <2>2. ASSUME load = Dof, before = sequence PROVE copied' = position
    <3>1. \A j \in Joints : copied'[j] = position[j]
      BY <2>1, <2>2, AdmissionAssumption DEF Joints
    <3>2. /\ copied' \in [Joints -> Positions \cup {NaN}]
          /\ position \in [Joints -> Positions \cup {NaN}]
      BY <1>1 DEF TypeOK
    <3>3. QED
      BY <3>1, <3>2, SameFunction
  <2>3. call' \in {"positions", "after"} /\ (call' = "after" => load = Dof)
    OBVIOUS
  <2>4. call' = "positions" => load' <= Dof
    BY AdmissionAssumption DEF TypeOK
  <2>5. UNCHANGED <<before, sequence, position, copied_age, published, valid, fresh, attempts>>
    OBVIOUS
  <2>6. /\ before <= sequence /\ ~Odd(before)
        /\ valid => fresh
        /\ before = sequence => \/ copied_age = published.age /\ fresh
                                \/ copied_age = NaN /\ ~valid
        /\ attempts < MaxAttempts
    BY DEF ReaderInv, Busy
  <2>7. QED
    BY <2>1, <2>2, <2>3, <2>4, <2>5, <2>6 DEF ReaderInv
<1>4. QED
  BY <1>1, <1>2, <1>3

LEMMA LoadAfterInv == AdmissionInv /\ LoadAfter => AdmissionInv'
<1> SUFFICES ASSUME AdmissionInv, LoadAfter PROVE AdmissionInv'
  OBVIOUS
<1> USE DEF AdmissionInv, LoadAfter, Retry, atomics, rtVars
<1>0. attempts < MaxAttempts
  BY DEF ReaderInv, Busy
<1>1. TypeOK'
  BY <1>0, BoundAssumption DEF TypeOK, Busy, Reading
<1>2. WriterInv'
  BY DEF WriterInv
<1>3. ReaderInv'
  BY <1>0, BoundAssumption DEF ReaderInv, Busy, TypeOK
<1>4. QED
  BY <1>1, <1>2, <1>3

LEMMA JudgeGoalInv == AdmissionInv /\ JudgeGoal => AdmissionInv'
<1> SUFFICES ASSUME AdmissionInv, JudgeGoal PROVE AdmissionInv'
  OBVIOUS
<1> USE DEF AdmissionInv, JudgeGoal, atomics, rtVars, copyVars, history
<1>1. TypeOK'
  BY DEF TypeOK, Busy
<1>2. WriterInv'
  BY DEF WriterInv
<1>3. ReaderInv'
  BY DEF ReaderInv, Busy
<1>4. QED
  BY <1>1, <1>2, <1>3

LEMMA ReturnResponseInv == AdmissionInv /\ ReturnResponse => AdmissionInv'
<1> SUFFICES ASSUME AdmissionInv, ReturnResponse PROVE AdmissionInv'
  OBVIOUS
<1> USE DEF AdmissionInv, ReturnResponse, atomics, rtVars
<1>1. TypeOK'
  BY NoReadingIsReading, ReadingFields, AdmissionAssumption, BoundAssumption DEF TypeOK, Busy
<1>2. WriterInv'
  BY DEF WriterInv
<1>3. ReaderInv'
  BY BoundAssumption DEF ReaderInv, Busy
<1>4. QED
  BY <1>1, <1>2, <1>3

LEMMA StutterInv == AdmissionInv /\ UNCHANGED vars => AdmissionInv'
<1> SUFFICES ASSUME AdmissionInv, UNCHANGED vars PROVE AdmissionInv'
  OBVIOUS
<1> USE DEF AdmissionInv, vars, atomics, rtVars, copyVars, history
<1>1. TypeOK'
  BY DEF TypeOK
<1>2. WriterInv'
  BY DEF WriterInv
<1>3. ReaderInv'
  BY DEF ReaderInv
<1>4. QED
  BY <1>1, <1>2, <1>3

\* The snapshot's atomics hold the last reading except while the counter is odd, and what
\* the reader has copied under an unmoved counter is part of it.
THEOREM AdmissionInvariant == Spec => []AdmissionInv
<1>1. Init => AdmissionInv
  BY InitInv
<1>2. AdmissionInv /\ [Next]_vars => AdmissionInv'
  BY UpdateBeginInv, StorePositionInv, StoreAgeInv, UpdateEndInv, LifecycleInv, ForgetAgeInv,
     ReceiveGoalInv, LoadHasInv, LoadBeforeInv, LoadAgeInv, LoadPositionInv, LoadAfterInv,
     JudgeGoalInv, ReturnResponseInv, StutterInv
  DEF Next, Update, Callback
<1>3. QED
  BY <1>1, <1>2, PTL DEF Spec

\* The realtime thread and the callback keep every atomic and copy in its type, the loop
\* indices and the attempts within their bounds.
THEOREM AdmissionTypeCorrect == Spec => []TypeOK
<1>1. AdmissionInv => TypeOK
  BY DEF AdmissionInv
<1>2. QED
  BY <1>1, AdmissionInvariant, PTL


-----------------------------------------------------------------------------
(* The register.  A step of the realtime thread or of the callback is the  *)
(* step of the register named here, or leaves the register as it is.       *)

LEMMA InitRefines == Init => Register!Init
  BY DEF Init, Register!Init, Register!NoReading, Register!NoGoal, NoReading, NoGoal, Busy,
         Register!Joints, Joints

LEMMA UpdateRefines == AdmissionInv /\ Update => Register!Next \/ UNCHANGED Register!vars
<1> SUFFICES ASSUME AdmissionInv, Update PROVE Register!Next \/ UNCHANGED Register!vars
  OBVIOUS
<1>1. CASE UpdateBegin
  <2>1. reading' \in Register!Reading
    BY <1>1 DEF UpdateBegin, Register!Reading, Register!Joints, Joints
  <2>2. Register!Publish
    BY <1>1, <2>1 DEF UpdateBegin, Register!Publish, copyVars
  <2>3. QED
    BY <2>2 DEF Register!Next
<1>2. CASE StorePosition
  BY <1>2 DEF StorePosition, history, Register!vars
<1>3. CASE StoreAge
  BY <1>3 DEF StoreAge, history, Register!vars
<1>4. CASE UpdateEnd
  BY <1>4 DEF UpdateEnd, history, Register!vars
<1>5. QED
  BY <1>1, <1>2, <1>3, <1>4 DEF Update

LEMMA LifecycleRefines ==
  Activate \/ Deactivate \/ ForgetAge => Register!Next \/ UNCHANGED Register!vars
<1>1. Activate \/ Deactivate => UNCHANGED Register!vars
  BY DEF Activate, Deactivate, history, Register!vars
<1>2. ForgetAge => Register!Invalidate
  BY DEF ForgetAge, Register!Invalidate
<1>3. QED
  BY <1>1, <1>2 DEF Register!Next

LEMMA RetryRefines ==
  ASSUME call \in Busy, Retry, UNCHANGED <<published, valid, goal, taken, fresh>>
  PROVE  Register!Refuse \/ UNCHANGED Register!vars
  BY DEF Retry, Busy, Register!Refuse, Register!vars

\* The copy is the reading at the moment the counter is found unmoved.
LEMMA LoadAfterRefines == AdmissionInv /\ LoadAfter => Register!Next \/ UNCHANGED Register!vars
<1> SUFFICES ASSUME AdmissionInv, LoadAfter PROVE Register!Next \/ UNCHANGED Register!vars
  OBVIOUS
<1>1. CASE before = sequence /\ ~Odd(sequence)
  <2>1. copied = published.positions
    BY <1>1 DEF LoadAfter, AdmissionInv, TypeOK, WriterInv, ReaderInv
  <2>2. published = [positions |-> published.positions, age |-> published.age]
    BY ReadingFields DEF AdmissionInv, TypeOK
  <2>3. \/ copied_age = published.age /\ fresh
        \/ copied_age = NaN /\ ~valid
    BY <1>1 DEF LoadAfter, AdmissionInv, ReaderInv
  <2>4. taken' = [positions |-> copied, age |-> copied_age]
    BY <1>1 DEF LoadAfter
  <2>5. \/ (valid \/ fresh) /\ taken' = published
        \/ ~valid /\ taken' = [published EXCEPT !.age = NaN]
    BY <2>1, <2>2, <2>3, <2>4
  <2>6. Register!Take
    BY <1>1, <2>5 DEF LoadAfter, Register!Take
  <2>7. QED
    BY <2>6 DEF Register!Next
<1>2. CASE ~(before = sequence /\ ~Odd(sequence))
  BY <1>2, RetryRefines DEF LoadAfter, Busy, Register!Next
<1>3. QED
  BY <1>1, <1>2

LEMMA CallbackRefines ==
  AdmissionInv /\ (ReceiveGoal \/ Callback) => Register!Next \/ UNCHANGED Register!vars
<1> SUFFICES ASSUME AdmissionInv, ReceiveGoal \/ Callback
             PROVE  Register!Next \/ UNCHANGED Register!vars
  OBVIOUS
<1>1. CASE ReceiveGoal
  BY <1>1 DEF ReceiveGoal, Register!Open, Register!Next
<1>2. CASE LoadHas
  <2>1. CASE active /\ has_age
    BY <1>2, <2>1 DEF LoadHas, history, Register!vars
  <2>2. CASE ~(active /\ has_age)
    BY <1>2, <2>2 DEF LoadHas, history, Register!Refuse, Register!Next
  <2>3. QED
    BY <2>1, <2>2
<1>3. CASE LoadBefore
  <2>1. CASE Odd(sequence)
    BY <1>3, <2>1, RetryRefines DEF LoadBefore, history, Busy, Register!Next
  <2>2. CASE ~Odd(sequence)
    BY <1>3, <2>2 DEF LoadBefore, history, Register!vars
  <2>3. QED
    BY <2>1, <2>2
<1>4. CASE LoadAge
  BY <1>4 DEF LoadAge, history, Register!vars
<1>5. CASE LoadPosition
  BY <1>5 DEF LoadPosition, history, Register!vars
<1>6. CASE LoadAfter
  BY <1>6, LoadAfterRefines
<1>7. CASE JudgeGoal
  BY <1>7 DEF JudgeGoal, history, Register!Judge, Register!Next, Register!Admissible, Admissible,
              Register!isfinite, isfinite, Register!abs, abs, Register!Joints, Joints
<1>8. CASE ReturnResponse
  BY <1>8 DEF ReturnResponse, Register!Return, Register!Next, Register!NoGoal, NoGoal,
              Register!NoReading, NoReading, Register!Joints, Joints
<1>9. QED
  BY <1>1, <1>2, <1>3, <1>4, <1>5, <1>6, <1>7, <1>8 DEF Callback

LEMMA NextRefines == AdmissionInv /\ [Next]_vars => [Register!Next]_Register!vars
<1> SUFFICES ASSUME AdmissionInv, [Next]_vars PROVE Register!Next \/ UNCHANGED Register!vars
  OBVIOUS
<1>1. CASE Next
  BY <1>1, UpdateRefines, LifecycleRefines, CallbackRefines DEF Next
<1>2. CASE UNCHANGED vars
  BY <1>2 DEF vars, history, Register!vars
<1>3. QED
  BY <1>1, <1>2

\* update() and validate_trajectory_start() behind the counter are one write and one read
\* of a register: no goal is judged by positions or an age of two different cycles.
THEOREM AdmissionRefinement == Spec => SnapshotIsRegister
<1>1. Init => Register!Init
  BY InitRefines
<1>2. AdmissionInv /\ [Next]_vars => [Register!Next]_Register!vars
  BY NextRefines
<1>3. QED
  BY <1>1, <1>2, AdmissionInvariant, PTL DEF Spec, SnapshotIsRegister, Register!Spec

============================================================================
