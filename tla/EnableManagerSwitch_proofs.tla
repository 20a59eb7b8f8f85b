--------------------- MODULE EnableManagerSwitch_proofs ---------------------
(***************************************************************************)
(* switchJtc() is exclusive: the proof of SwitchExclusive.                 *)
(*                                                                         *)
(* The property speaks of the flag and of the threads; what keeps it true  *)
(* is the queue of the controller manager.  The answer to a request frees  *)
(* the flag for everybody, so the proof needs that a request whose caller  *)
(* still counts on it (live) belongs to a thread that is switching, and    *)
(* that there is only one.                                                 *)
(***************************************************************************)
EXTENDS EnableManager_proofs

\* Every live request has a caller that waits for it, and there is at most one.
LiveRequestsAwaited ==
  /\ \A i \in DOMAIN cmQueue : cmQueue[i].live => Switching(cmQueue[i].by)
  /\ \A i, j \in DOMAIN cmQueue : cmQueue[i].live /\ cmQueue[j].live => i = j

SwitchInv == SwitchExclusive /\ LiveRequestsAwaited

-----------------------------------------------------------------------------
\* The steps that are no part of a switch: the queue, the flag and the set of threads
\* that are switching stay as they are.
NoSwitching ==
  /\ UNCHANGED <<cmQueue, switchInProgress>>
  /\ \A t \in Thread : pc'[t] = "switching" <=> pc[t] = "switching"

\* The requests in the queue are requests of threads.
LEMMA RequestsOfThreads ==
  ASSUME TypeOK
  PROVE  /\ Len(cmQueue) \in Nat /\ DOMAIN cmQueue = 1..Len(cmQueue)
         /\ \A i \in DOMAIN cmQueue : cmQueue[i] \in SwitchRequest
         /\ \A i \in DOMAIN cmQueue : cmQueue[i].by \in Thread
<1>1. cmQueue \in Seq(SwitchRequest)
  BY DEF TypeOK
<1>2. Len(cmQueue) \in Nat /\ DOMAIN cmQueue = 1..Len(cmQueue)
  BY <1>1, LenProperties
<1>3. \A i \in DOMAIN cmQueue : cmQueue[i] \in SwitchRequest
  BY <1>1, <1>2, ElementOfSeq
<1>4. \A r \in SwitchRequest : r.by \in Thread
  BY DEF SwitchRequest
<1> QED BY <1>2, <1>3, <1>4

\* Such a step keeps the invariant.
LEMMA NoSwitchingInv ==
  ASSUME TypeOK, SwitchInv, NoSwitching
  PROVE  SwitchInv'
<1>1. \A i \in DOMAIN cmQueue : cmQueue[i].by \in Thread
  BY RequestsOfThreads
<1>2. \A t \in Thread : Switching(t)' <=> Switching(t)
  BY DEF NoSwitching, Switching
<1>3. UNCHANGED <<cmQueue, switchInProgress>>
  BY DEF NoSwitching
<1>4. SwitchExclusive'
  BY <1>2, <1>3 DEF SwitchInv, SwitchExclusive
<1>5. LiveRequestsAwaited'
  BY <1>1, <1>2, <1>3 DEF SwitchInv, LiveRequestsAwaited
<1> QED BY <1>4, <1>5 DEF SwitchInv

\* A move between two control points outside a switch.
LEMMA GotoOutside ==
  ASSUME TypeOK, NEW u \in Thread, NEW from, NEW to, Goto(u, from, to),
         from # "switching", to # "switching"
  PROVE  \A t \in Thread : pc'[t] = "switching" <=> pc[t] = "switching"
BY DEF Goto, TypeOK

\* update(), the lifecycle callbacks, the drives and the clock do not touch a switch.
LEMMA RealTimeNoSwitching ==
  Update \/ OnActivate \/ OnDeactivate \/ Drives \/ DeadlineExpires => NoSwitching
<1>1. Update => NoSwitching
  BY DEF Update, NoSwitching, threadVars, cmVars
<1>2. OnActivate \/ OnDeactivate => NoSwitching
  BY DEF OnActivate, OnDeactivate, NoSwitching, threadVars, flagVars, cmVars
<1>3. Drives \/ DeadlineExpires => NoSwitching
  BY DEF Drives, DriveStep, DriveUpset, DeadlineExpires, NoSwitching, threadVars,
     flagVars, cmVars
<1> QED BY <1>1, <1>2, <1>3

\* Neither do the callbacks outside switchJtc().
LEMMA CallbackNoSwitching ==
  ASSUME TypeOK
  PROVE  /\ Calls => NoSwitching
         /\ \/ EnableAdmit \/ EnableAcquire \/ EnableArm \/ EnableWait
            \/ EnableSwitchOk \/ EnableCommit \/ EnablePublish \/ EnableRelease
            \/ EnableSwitchAmbiguous \/ EnableFailCheck \/ EnableFailSet
            => NoSwitching
         /\ DisableAcquire \/ DisableArm \/ DisableSwitchFailed \/ DisableRequest
            => NoSwitching
         /\ ResetAcquire \/ ResetArm => NoSwitching
         /\ WorkerTake \/ WorkerOverlap \/ WorkerDone => NoSwitching
         /\ \A s \in Service : WaitForResult(s) \/ ServiceTimeout(s) => NoSwitching
         /\ \A t \in Thread : SwitchAbsent(t) => NoSwitching
<1>1. Calls => NoSwitching
  BY GotoOutside DEF Calls, EnableCall, DisableCall, ResetCall, NoSwitching, flagVars,
     cmVars, Thread, Service
<1>2. EnableAdmit \/ EnableAcquire \/ EnableArm \/ EnableWait => NoSwitching
  BY GotoOutside DEF EnableAdmit, EnableAcquire, EnableArm, EnableWait, NoSwitching,
     flagVars, cmVars, Thread, Service
<1>3. EnableSwitchOk \/ EnableCommit \/ EnablePublish \/ EnableRelease => NoSwitching
  BY GotoOutside DEF EnableSwitchOk, EnableCommit, EnablePublish, EnableRelease,
     NoSwitching, flagVars, cmVars, Thread, Service
<1>4. EnableSwitchAmbiguous \/ EnableFailCheck \/ EnableFailSet => NoSwitching
  BY GotoOutside DEF EnableSwitchAmbiguous, EnableFailCheck, EnableFailSet, NoSwitching,
     flagVars, cmVars, Thread, Service
<1>5. DisableAcquire \/ DisableArm \/ DisableSwitchFailed \/ DisableRequest
      => NoSwitching
  BY GotoOutside DEF DisableAcquire, DisableArm, DisableSwitchFailed, DisableRequest,
     NoSwitching, flagVars, cmVars, Thread, Service
<1>6. ResetAcquire \/ ResetArm => NoSwitching
  BY GotoOutside DEF ResetAcquire, ResetArm, NoSwitching, flagVars, cmVars, Thread,
     Service
<1>7. WorkerTake \/ WorkerOverlap \/ WorkerDone => NoSwitching
  BY GotoOutside DEF WorkerTake, WorkerOverlap, WorkerDone, NoSwitching, threadVars,
     cmVars, Thread
<1>8. \A s \in Service : WaitForResult(s) \/ ServiceTimeout(s) => NoSwitching
  BY GotoOutside DEF WaitForResult, ServiceTimeout, FinalPoint, NoSwitching, flagVars,
     cmVars, Thread
<1>9. \A t \in Thread : SwitchAbsent(t) => NoSwitching
  BY GotoOutside DEF SwitchAbsent, NoSwitching, flagVars, cmVars
<1> QED BY <1>1, <1>2, <1>3, <1>4, <1>5, <1>6, <1>7, <1>8, <1>9

-----------------------------------------------------------------------------
(* The steps of a switch.                                                  *)

\* While the flag is clear nobody is switching and no request is live.
LEMMA FlagClear ==
  ASSUME TypeOK, SwitchInv, ~switchInProgress
  PROVE  /\ \A t \in Thread : pc[t] # "switching"
         /\ \A i \in DOMAIN cmQueue : ~cmQueue[i].live
<1>1. \A t \in Thread : pc[t] # "switching"
  BY DEF SwitchInv, SwitchExclusive, Switching
<1> QED BY <1>1, RequestsOfThreads DEF SwitchInv, LiveRequestsAwaited, Switching

\* When nobody is switching, no request is live and the flag is clear, all is well.
LEMMA QuietInv ==
  ASSUME ~switchInProgress, \A t \in Thread : pc[t] # "switching",
         \A i \in DOMAIN cmQueue : ~cmQueue[i].live
  PROVE  SwitchInv
BY DEF SwitchInv, SwitchExclusive, LiveRequestsAwaited, Switching

\* switchJtc() is refused, or adds the only live request.
LEMMA SwitchBeginInv ==
  ASSUME TypeOK, SwitchInv, NEW t \in Thread, SwitchBegin(t)
  PROVE  SwitchInv'
<1>1. CASE SwitchBusy
  <2>1. Goto(t, "begin", "switchAmbiguous") /\ UNCHANGED <<switchInProgress, cmQueue>>
    BY <1>1 DEF SwitchBegin
  <2>2. NoSwitching
    BY <2>1, GotoOutside DEF NoSwitching
  <2> QED BY <2>2, NoSwitchingInv
<1>2. CASE ~SwitchBusy
  <2> DEFINE r == [by |-> t, activate |-> (t = "enable"), live |-> TRUE]
             n == Len(cmQueue) + 1
  <2>1. /\ Goto(t, "begin", "switching") /\ switchInProgress' = TRUE
        /\ cmQueue' = Append(cmQueue, r)
    BY <1>2 DEF SwitchBegin
  <2>2. /\ \A u \in Thread : pc[u] # "switching"
        /\ \A i \in DOMAIN cmQueue : ~cmQueue[i].live
    BY <1>2, FlagClear DEF SwitchBusy
  <2>3. \A u \in Thread : pc'[u] = "switching" <=> u = t
    BY <2>1, <2>2 DEF Goto, TypeOK
  <2>4. r.live /\ r.by = t
    OBVIOUS
  <2>5. r \in SwitchRequest /\ cmQueue \in Seq(SwitchRequest)
    BY SwitchRequestType DEF TypeOK
  <2> HIDE DEF r
  <2>6. /\ DOMAIN cmQueue' = 1..n /\ n \in Nat /\ n \in 1..n
        /\ \A i \in 1..Len(cmQueue) : cmQueue'[i] = cmQueue[i]
        /\ cmQueue'[n] = r
    BY <2>1, <2>5, AppendProperties, LenProperties
  <2>7. \A i \in DOMAIN cmQueue' : cmQueue'[i].live => i = n
    BY <2>2, <2>6, RequestsOfThreads
  <2>8. SwitchExclusive'
    BY <2>1, <2>3, <2>4, <2>6 DEF SwitchExclusive, Switching
  <2>9. LiveRequestsAwaited'
    BY <2>3, <2>4, <2>6, <2>7 DEF LiveRequestsAwaited, Switching
  <2> QED BY <2>8, <2>9 DEF SwitchInv
<1> QED BY <1>1, <1>2

\* A caller that gives up leaves nobody switching and nothing live.
LEMMA SwitchTimeoutInv ==
  ASSUME TypeOK, SwitchInv, NEW t \in Thread, SwitchTimeout(t)
  PROVE  SwitchInv'
<1>1. switchInProgress' = FALSE
  BY DEF SwitchTimeout
<1>2. \A u \in Thread : pc'[u] # "switching"
  BY DEF SwitchTimeout, Goto, TypeOK, SwitchInv, SwitchExclusive, Switching
<1>3. \A i \in DOMAIN cmQueue' : ~cmQueue'[i].live
  <2>1. cmQueue' = [i \in DOMAIN cmQueue |-> [cmQueue[i] EXCEPT !.live = FALSE]]
    BY DEF SwitchTimeout
  <2>2. \A q \in SwitchRequest : ~[q EXCEPT !.live = FALSE].live
    BY DEF SwitchRequest
  <2> QED BY <2>1, <2>2, RequestsOfThreads
<1> QED BY <1>1, <1>2, <1>3 DEF SwitchInv, SwitchExclusive, LiveRequestsAwaited, Switching

\* The answer to the live request frees the flag; a late one changes nothing.
LEMMA CmSwitchInv ==
  ASSUME TypeOK, SwitchInv, NEW ok \in BOOLEAN, CmSwitch(ok)
  PROVE  SwitchInv'
<1> DEFINE r == Head(cmQueue)
           n == Len(cmQueue)
<1>1. cmQueue \in Seq(SwitchRequest) /\ cmQueue # <<>> /\ cmQueue' = Tail(cmQueue)
  BY DEF CmSwitch, TypeOK
<1>2. n \in Nat /\ n > 0 /\ DOMAIN cmQueue = 1..n /\ 1 \in DOMAIN cmQueue
  BY <1>1, LenProperties, EmptySeq
<1>3. r = cmQueue[1]
  BY <1>1, <1>2
<1>4. /\ DOMAIN cmQueue' = 1..(n - 1)
      /\ \A i \in 1..(n - 1) : cmQueue'[i] = cmQueue[i + 1]
  BY <1>1, <1>2, HeadTailProperties, LenProperties
<1>5. CASE r.live
  <2>1. Switching(r.by) /\ r.by \in Thread
    BY <1>2, <1>3, <1>5, RequestsOfThreads DEF SwitchInv, LiveRequestsAwaited
  <2>2. /\ pc' = [pc EXCEPT ![r.by] = IF ok THEN "switchOk" ELSE "switchFailed"]
        /\ switchInProgress' = FALSE
    BY <1>5, <2>1 DEF CmSwitch
  <2>3. \A u \in Thread : pc'[u] # "switching"
    BY <2>1, <2>2 DEF TypeOK, SwitchInv, SwitchExclusive, Switching
  <2>4. \A i \in DOMAIN cmQueue' : ~cmQueue'[i].live
    BY <1>2, <1>3, <1>4, <1>5 DEF SwitchInv, LiveRequestsAwaited
  <2> QED BY <2>2, <2>3, <2>4 DEF SwitchInv, SwitchExclusive, LiveRequestsAwaited,
          Switching
<1>6. CASE ~r.live
  <2>1. UNCHANGED <<pc, switchInProgress>>
    BY <1>6 DEF CmSwitch
  <2>2. \A i \in DOMAIN cmQueue : cmQueue[i].live => i \in 2..n
    BY <1>2, <1>3, <1>6
  <2>3. ASSUME NEW t \in Thread, Switching(t)
        PROVE  \E i \in DOMAIN cmQueue' : cmQueue'[i].live /\ cmQueue'[i].by = t
    <3>1. PICK i \in DOMAIN cmQueue : cmQueue[i].live /\ cmQueue[i].by = t
      BY <2>3 DEF SwitchInv, SwitchExclusive
    <3>2. i - 1 \in DOMAIN cmQueue' /\ cmQueue'[i - 1] = cmQueue[i]
      BY <1>2, <1>4, <2>2, <3>1
    <3> QED BY <3>1, <3>2
  <2>4. SwitchExclusive'
    BY <2>1, <2>3 DEF SwitchInv, SwitchExclusive, Switching
  <2>5. \A i \in DOMAIN cmQueue' : i + 1 \in DOMAIN cmQueue
    BY <1>2, <1>4
  <2>6. LiveRequestsAwaited'
    BY <1>2, <1>4, <2>1, <2>5 DEF SwitchInv, LiveRequestsAwaited, Switching
  <2> QED BY <2>4, <2>6 DEF SwitchInv
<1> QED BY <1>5, <1>6

-----------------------------------------------------------------------------
\* Every step keeps the invariant.
LEMMA SwitchInvInductive ==
  TypeOK /\ SwitchInv /\ [Next]_vars => SwitchInv'
<1> SUFFICES ASSUME TypeOK, SwitchInv, [Next]_vars PROVE SwitchInv'
  OBVIOUS
<1>1. CASE Update \/ OnActivate \/ OnDeactivate \/ Drives \/ DeadlineExpires
  BY <1>1, RealTimeNoSwitching, NoSwitchingInv
<1>2. CASE Calls
  BY <1>2, CallbackNoSwitching, NoSwitchingInv
<1>3. CASE EnableStep \/ DisableStep \/ ResetStep \/ WorkerStep
  BY <1>3, CallbackNoSwitching, NoSwitchingInv, SwitchBeginInv
     DEF EnableStep, DisableStep, ResetStep, WorkerStep, Service, Thread
<1>4. CASE CmAnswer
  BY <1>4, CmSwitchInv DEF CmAnswer
<1>5. CASE Mishap
  BY <1>5, CallbackNoSwitching, NoSwitchingInv, SwitchTimeoutInv DEF Mishap
<1>6. CASE UNCHANGED vars
  <2>1. NoSwitching
    BY <1>6 DEF vars, NoSwitching, flagVars, threadVars, cmVars
  <2> QED BY <2>1, NoSwitchingInv
<1> QED BY <1>1, <1>2, <1>3, <1>4, <1>5, <1>6 DEF Next

\* SwitchExclusive: for any number of calls, failures, timeouts and late answers, at
\* most one thread is inside switchJtc(), exactly while switch_in_progress_ is set, and
\* the request it waits for is still with the controller manager.
THEOREM SwitchIsExclusive == Spec => []SwitchExclusive
<1>1. Init => SwitchInv
  BY QuietInv DEF Init
<1>2. Spec => []SwitchInv
  BY <1>1, SwitchInvInductive, TypeInvariant, PTL DEF Spec
<1>3. SwitchInv => SwitchExclusive
  BY DEF SwitchInv
<1> QED BY <1>2, <1>3, PTL

=============================================================================
