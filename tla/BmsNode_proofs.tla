--------------------------- MODULE BmsNode_proofs ---------------------------
(***************************************************************************)
(* Proofs about BmsNode, for every number of frames, failures and ticks.   *)
(*                                                                         *)
(* That a message comes from one frame is not inductive by itself.  The    *)
(* sample is torn while the reader stands between its two stores; what     *)
(* keeps the publisher away then is the lock, and what makes the lock hold *)
(* is that neither thread releases it for the other (LockHeld).            *)
(***************************************************************************)
EXTENDS BmsNode, TLAPS

\* with self._lock: a thread inside its critical section has the lock.
LockHeld ==
  /\ reader \in {"opening", "ingest", "store", "closing"} => lock = "reader"
  /\ destroyer = "closing" => lock = "destroyer"

\* The sample is torn only between the two stores, the copy never.
SampleInv ==
  /\ sample.voltage = IF reader = "store" THEN frame ELSE sample.soc
  /\ copy.voltage = copy.soc

BmsInv == TypeOK /\ LockHeld /\ SampleInv /\ MessageFromOneFrame

-----------------------------------------------------------------------------
\* Samples are records of their fields, and growing old only changes the age.
LEMMA OlderSample ==
  ASSUME NEW s \in Sample
  PROVE  /\ Older(s) \in Sample
         /\ Older(s).voltage = s.voltage /\ Older(s).soc = s.soc
BY BmsAssumption DEF Sample, Older, MaxAge

LEMMA NoSampleType ==
  /\ NoFrame \in Number
  /\ NoSample \in Sample /\ NoSample.voltage = NoSample.soc
BY BmsAssumption DEF NoSample, Sample, Number, NoFrame, MaxAge

\* _publish(): what is made of a copy from one frame comes from one frame.
LEMMA MessageOfCopy ==
  ASSUME NEW s \in Sample, s.voltage = s.soc
  PROVE  LET m == battery_state_message(project_battery_values(s))
         IN  /\ m \in [present : BOOLEAN, voltage : Number, soc : Number]
             /\ m.voltage = m.soc
<1>1. s.voltage \in Number /\ s.soc \in Number
  BY DEF Sample
<1>2. CASE is_fresh(s)
  BY <1>1, <1>2 DEF battery_state_message, project_battery_values
<1>3. CASE ~is_fresh(s)
  BY <1>3, NoSampleType DEF battery_state_message, project_battery_values
<1> QED BY <1>2, <1>3

-----------------------------------------------------------------------------
LEMMA InitBms == Init => BmsInv
<1> SUFFICES ASSUME Init PROVE BmsInv
  OBVIOUS
<1>1. TypeOK
  <2>1. /\ sample \in Sample /\ copy \in Sample /\ frame \in Number
        /\ message \in [present : BOOLEAN, voltage : Number, soc : Number]
    BY NoSampleType DEF Init
  <2>2. sent \in 0..Frames /\ failures \in 0..Failures
    BY BmsAssumption DEF Init
  <2>3. stopEvent \in BOOLEAN
    BY DEF Init
  <2> QED BY <2>1, <2>2, <2>3 DEF Init, TypeOK
<1>2. LockHeld /\ SampleInv /\ MessageFromOneFrame
  BY NoSampleType DEF Init, LockHeld, SampleInv, MessageFromOneFrame
<1> QED BY <1>1, <1>2 DEF BmsInv

\* The reader's steps that leave the sample alone.
LEMMA ReaderMoves ==
  ASSUME BmsInv,
         \/ ReaderCheck \/ ReaderEnsure \/ ReaderOpen \/ ReaderRecv \/ ReaderLock
         \/ ReaderFailed \/ ReaderClose \/ ReaderWait
  PROVE  BmsInv'
<1> USE DEF BmsInv, sharedVars, publishVars
<1>1. TypeOK'
  BY BmsAssumption
  DEF ReaderCheck, ReaderEnsure, ReaderOpen, ReaderRecv, ReaderLock, ReaderFailed,
      ReaderClose, ReaderWait, TypeOK, Acquire, Release, Fails, CloseSocket, Number, Nobody
<1>2. LockHeld' /\ SampleInv' /\ MessageFromOneFrame'
  BY DEF ReaderCheck, ReaderEnsure, ReaderOpen, ReaderRecv, ReaderLock, ReaderFailed,
      ReaderClose, ReaderWait, LockHeld, SampleInv, MessageFromOneFrame, Acquire, Release,
      Nobody
<1> QED BY <1>1, <1>2

\* ingest_basic_frame(): the two stores of a frame.
LEMMA ReaderStores ==
  ASSUME BmsInv, ReaderIngest \/ ReaderStore
  PROVE  BmsInv'
<1> USE DEF BmsInv, publishVars
<1>1. sample' \in Sample
  <2>1. sample \in Sample /\ frame \in Number /\ 0 \in 0..MaxAge
    BY BmsAssumption DEF TypeOK, MaxAge
  <2>2. CASE ReaderIngest
    BY <2>1, <2>2 DEF ReaderIngest, Sample
  <2>3. CASE ReaderStore
    BY <2>1, <2>3 DEF ReaderStore, Sample
  <2> QED BY <2>2, <2>3
<1>2. TypeOK'
  BY <1>1, NoSampleType DEF ReaderIngest, ReaderStore, TypeOK, Release, Nobody
<1>3. LockHeld'
  BY DEF ReaderIngest, ReaderStore, LockHeld, Release, Nobody
<1>4. SampleInv'
  BY DEF ReaderIngest, ReaderStore, SampleInv, TypeOK, Sample
<1>5. MessageFromOneFrame'
  BY DEF ReaderIngest, ReaderStore, MessageFromOneFrame
<1> QED BY <1>2, <1>3, <1>4, <1>5

\* _publish(): the lock keeps it from copying a torn sample.
LEMMA PublisherSteps ==
  ASSUME BmsInv, Publish \/ PublishMessage
  PROVE  BmsInv'
<1> USE DEF BmsInv, sharedVars, readerVars
<1>1. CASE Publish
  <2>1. sample.voltage = sample.soc
    BY <1>1 DEF Publish, PublishLocked, LockHeld, SampleInv, Nobody
  <2> QED BY <1>1, <2>1 DEF Publish, TypeOK, LockHeld, SampleInv, MessageFromOneFrame
<1>2. CASE PublishMessage
  <2>1. /\ message' \in [present : BOOLEAN, voltage : Number, soc : Number]
        /\ message'.voltage = message'.soc
    BY <1>2, MessageOfCopy DEF PublishMessage, TypeOK, SampleInv
  <2> QED BY <1>2, <2>1, NoSampleType
          DEF PublishMessage, TypeOK, LockHeld, SampleInv, MessageFromOneFrame
<1> QED BY <1>1, <1>2

\* destroy_node() takes the lock before it closes the socket.
LEMMA DestroyerSteps ==
  ASSUME BmsInv, Destroy
  PROVE  BmsInv'
<1> USE DEF BmsInv, Destroy, DestroyStop, DestroyLock, DestroyClose, DestroyJoin, Acquire,
        Release, sharedVars, readerVars, publishVars
<1>1. TypeOK'
  BY DEF TypeOK, CloseSocket
<1>2. LockHeld'
  BY DEF LockHeld, Nobody
<1>3. SampleInv' /\ MessageFromOneFrame'
  BY DEF SampleInv, MessageFromOneFrame
<1> QED BY <1>1, <1>2, <1>3

LEMMA TickStep ==
  ASSUME BmsInv, Tick
  PROVE  BmsInv'
<1> USE DEF BmsInv, readerVars
<1>1. sample \in Sample /\ copy \in Sample
  BY DEF TypeOK
<1>2. TypeOK'
  BY <1>1, OlderSample DEF Tick, TypeOK
<1>3. LockHeld' /\ SampleInv' /\ MessageFromOneFrame'
  BY <1>1, OlderSample DEF Tick, LockHeld, SampleInv, MessageFromOneFrame
<1> QED BY <1>2, <1>3

\* The inductive invariant.
LEMMA BmsInvariant == Spec => []BmsInv
<1>1. BmsInv /\ [Next]_vars => BmsInv'
  <2> SUFFICES ASSUME BmsInv, [Next]_vars PROVE BmsInv'
    OBVIOUS
  <2>1. CASE Next
    BY <2>1, ReaderMoves, ReaderStores, PublisherSteps, DestroyerSteps, TickStep
    DEF Next, ReaderLoop
  <2>2. CASE UNCHANGED vars
    BY <2>2 DEF vars, sharedVars, readerVars, publishVars, BmsInv, TypeOK, LockHeld,
       SampleInv, MessageFromOneFrame
  <2> QED BY <2>1, <2>2
<1> QED BY <1>1, InitBms, PTL DEF Spec

\* The reader, the timer callback and destroy_node() keep every variable in its type,
\* the socket never half closed and the frame numbers within those sent.
THEOREM BmsTypeCorrect == Spec => []TypeOK
BY BmsInvariant, PTL DEF BmsInv

\* _publish() against ingest_basic_frame(): however the threads interleave, a message
\* never joins the voltage of one frame with the state of charge of another.
THEOREM MessageIsWhole == Spec => []MessageFromOneFrame
BY BmsInvariant, PTL DEF BmsInv

=============================================================================
