------------------------------ MODULE BmsNode ------------------------------
(***************************************************************************)
(* The battery monitor: a reader thread receives status frames from a CAN  *)
(* socket into a sample, the executor's timer copies the sample and        *)
(* publishes it, and destroy_node() stops the reader.  A mutex guards the  *)
(* sample and the socket.                                                  *)
(*                                                                         *)
(* The fields of a frame are the number of the frame they came from, so    *)
(* that a sample put together from two frames can be told apart; an age is *)
(* counted in ticks and saturates one past FrameTimeout.                   *)
(*                                                                         *)
(* An operator that stands just before another one and is used nowhere is  *)
(* a mutated form of it: a bug the properties are shown to catch.          *)
(***************************************************************************)
EXTENDS Naturals

CONSTANTS
  Frames,        \* how many frames the battery may send
  Failures,      \* how often opening or reading the socket may fail
  FrameTimeout   \* ticks until a sample is stale (frame_timeout_s)

ASSUME BmsAssumption == Frames \in Nat /\ Failures \in Nat /\ FrameTimeout \in Nat

MaxAge == FrameTimeout + 1
NoFrame == 0
Number  == 0..Frames
Sample  == [voltage : Number, soc : Number, age : 0..MaxAge]
Nobody  == "nobody"

VARIABLES
  lock, stopEvent, socket,   \* shared: the mutex, the stop event, self._socket
  sample,                    \* shared: what ingest_basic_frame() stored
  reader, sock, frame,       \* the reader thread, its socket and received frame
  publisher, copy, message,  \* the timer callback, its copy and the last message
  destroyer,                 \* destroy_node()
  sent, failures

sharedVars  == <<lock, stopEvent, socket, sample>>
readerVars  == <<reader, sock, frame>>
publishVars == <<publisher, copy, message>>
vars == <<sharedVars, readerVars, publishVars, destroyer, sent, failures>>

NoSample == [voltage |-> NoFrame, soc |-> NoFrame, age |-> MaxAge]

TypeOK ==
  /\ lock \in {Nobody, "reader", "destroyer"}
  /\ stopEvent \in BOOLEAN
  /\ socket \in {"none", "open"} /\ sock \in {"none", "open", "closed"}
  /\ sample \in Sample /\ copy \in Sample
  /\ reader \in {"check", "ensure", "opening", "recv", "lock", "ingest", "store",
                 "failed", "closing", "wait", "done"}
  /\ frame \in Number
  /\ publisher \in {"idle", "copied"}
  /\ message \in [present : BOOLEAN, voltage : Number, soc : Number]
  /\ destroyer \in {"running", "locking", "closing", "joining", "done"}
  /\ sent \in 0..Frames /\ failures \in 0..Failures

Init ==
  /\ lock = Nobody /\ stopEvent = FALSE /\ socket = "none" /\ sample = NoSample
  /\ reader = "check" /\ sock = "none" /\ frame = NoFrame
  /\ publisher = "idle" /\ copy = NoSample
  /\ message = [present |-> FALSE, voltage |-> NoFrame, soc |-> NoFrame]
  /\ destroyer = "running"
  /\ sent = 0 /\ failures = 0

-----------------------------------------------------------------------------
(* with self._lock                                                         *)

Acquire(t) == lock = Nobody /\ lock' = t
Release    == lock' = Nobody

Fails == failures < Failures /\ failures' = failures + 1

\* _close_socket_locked(): whoever still holds the socket object finds it closed.
CloseSocketKept ==
  /\ socket' = IF socket = "open" THEN "closed" ELSE socket
  /\ sock' = IF sock = "open" THEN "closed" ELSE sock
CloseSocket ==
  /\ socket' = "none"
  /\ sock' = IF sock = "open" THEN "closed" ELSE sock

-----------------------------------------------------------------------------
(* _reader_loop()                                                          *)

StopIgnored == FALSE
StopSeen    == stopEvent

ReaderCheck ==
  /\ reader = "check"
  /\ reader' = IF StopSeen THEN "done" ELSE "ensure"
  /\ UNCHANGED <<sharedVars, sock, frame, publishVars, destroyer, sent, failures>>

ReaderEnsure ==
  /\ reader = "ensure" /\ Acquire("reader")
  /\ reader' = "opening"
  /\ UNCHANGED <<stopEvent, socket, sample, sock, frame, publishVars, destroyer, sent,
                 failures>>

\* _ensure_socket(): reuse the socket, open one, or report that it cannot be opened.
ReaderOpen ==
  /\ reader = "opening" /\ Release
  /\ \/ /\ socket = "open"
        /\ reader' = "recv" /\ sock' = "open"
        /\ UNCHANGED <<socket, failures>>
     \/ /\ socket = "none"
        /\ reader' = "recv" /\ socket' = "open" /\ sock' = "open"
        /\ UNCHANGED failures
     \/ /\ socket = "none" /\ Fails
        /\ reader' = "wait" /\ sock' = "none"
        /\ UNCHANGED socket
  /\ UNCHANGED <<stopEvent, sample, frame, publishVars, destroyer, sent>>

\* recv() and decode_can_frame(): a frame, a timeout or a frame of another kind, or an
\* error (always so on a closed socket).
ReaderRecv ==
  /\ reader = "recv"
  /\ \/ /\ sock = "open" /\ sent < Frames
        /\ sent' = sent + 1 /\ frame' = sent + 1
        /\ reader' = "lock"
        /\ UNCHANGED failures
     \/ /\ sock = "open"
        /\ reader' = "check"
        /\ UNCHANGED <<frame, sent, failures>>
     \/ /\ IF sock = "closed" THEN UNCHANGED failures ELSE Fails
        /\ reader' = "failed"
        /\ UNCHANGED <<frame, sent>>
  /\ UNCHANGED <<sharedVars, sock, publishVars, destroyer>>

ReaderLock ==
  /\ reader = "lock" /\ Acquire("reader")
  /\ reader' = "ingest"
  /\ UNCHANGED <<stopEvent, socket, sample, sock, frame, publishVars, destroyer, sent,
                 failures>>

\* ingest_basic_frame() rejects a short or implausible frame, or stores its fields one
\* after the other and the time of reception last.
ReaderIngest ==
  /\ reader = "ingest"
  /\ \/ /\ sample' = [sample EXCEPT !.voltage = frame]
        /\ reader' = "store"
        /\ UNCHANGED <<lock, frame>>
     \/ /\ Release /\ reader' = "check" /\ frame' = NoFrame
        /\ UNCHANGED sample
  /\ UNCHANGED <<stopEvent, socket, sock, publishVars, destroyer, sent, failures>>

ReaderStore ==
  /\ reader = "store" /\ Release
  /\ sample' = [sample EXCEPT !.soc = frame, !.age = 0]
  /\ reader' = "check" /\ frame' = NoFrame
  /\ UNCHANGED <<stopEvent, socket, sock, publishVars, destroyer, sent, failures>>

ReaderFailed ==
  /\ reader = "failed" /\ Acquire("reader")
  /\ reader' = "closing"
  /\ UNCHANGED <<stopEvent, socket, sample, sock, frame, publishVars, destroyer, sent,
                 failures>>

ReaderClose ==
  /\ reader = "closing" /\ Release
  /\ CloseSocket
  /\ reader' = "wait"
  /\ UNCHANGED <<stopEvent, sample, frame, publishVars, destroyer, sent, failures>>

\* _stop_event.wait(): ends with the reconnect period or the event.
ReaderWait ==
  /\ reader = "wait"
  /\ reader' = "check"
  /\ UNCHANGED <<sharedVars, sock, frame, publishVars, destroyer, sent, failures>>

ReaderLoop ==
  \/ ReaderCheck \/ ReaderEnsure \/ ReaderOpen \/ ReaderRecv \/ ReaderLock
  \/ ReaderIngest \/ ReaderStore \/ ReaderFailed \/ ReaderClose \/ ReaderWait

-----------------------------------------------------------------------------
(* _publish(): copy under the lock, judge the copy's age without it.       *)

PublishUnlocked == TRUE
PublishLocked   == lock = Nobody

Publish ==
  /\ publisher = "idle" /\ destroyer = "running" /\ PublishLocked
  /\ publisher' = "copied" /\ copy' = sample
  /\ UNCHANGED <<sharedVars, readerVars, message, destroyer, sent, failures>>

is_fresh_from_start(s) == s.soc # NoFrame
is_fresh(s)            == s.soc # NoFrame /\ s.age <= FrameTimeout

\* NaN, here NoFrame, unless the sample is still fresh.
project_battery_values(s) == IF is_fresh(s) THEN <<s.voltage, s.soc>> ELSE <<NoFrame, NoFrame>>
battery_state_message(values) ==
  [present |-> values[1] # NoFrame /\ values[2] # NoFrame, voltage |-> values[1], soc |-> values[2]]

PublishMessage ==
  /\ publisher = "copied"
  /\ message' = battery_state_message(project_battery_values(copy))
  /\ publisher' = "idle" /\ copy' = NoSample
  /\ UNCHANGED <<sharedVars, readerVars, destroyer, sent, failures>>

-----------------------------------------------------------------------------
(* destroy_node(), in the executor's thread once it no longer spins.       *)

DestroyStop ==
  /\ destroyer = "running" /\ publisher = "idle"
  /\ stopEvent' = TRUE /\ destroyer' = "locking"
  /\ UNCHANGED <<lock, socket, sample, readerVars, publishVars, sent, failures>>

DestroyLock ==
  /\ destroyer = "locking" /\ Acquire("destroyer")
  /\ destroyer' = "closing"
  /\ UNCHANGED <<stopEvent, socket, sample, readerVars, publishVars, sent, failures>>

DestroyClose ==
  /\ destroyer = "closing" /\ Release
  /\ CloseSocket
  /\ destroyer' = "joining"
  /\ UNCHANGED <<stopEvent, sample, reader, frame, publishVars, sent, failures>>

\* join() returns when the reader is done, or gives up (which is only logged).
DestroyJoin ==
  /\ destroyer = "joining"
  /\ destroyer' = "done"
  /\ UNCHANGED <<sharedVars, readerVars, publishVars, sent, failures>>

Destroy == DestroyStop \/ DestroyLock \/ DestroyClose \/ DestroyJoin

-----------------------------------------------------------------------------
\* Samples grow old, the copy a callback holds too.
Older(s) == [s EXCEPT !.age = IF @ < MaxAge THEN @ + 1 ELSE @]
Tick ==
  /\ sample' = Older(sample)
  /\ copy' = Older(copy)
  /\ UNCHANGED <<lock, stopEvent, socket, readerVars, publisher, message, destroyer,
                 sent, failures>>

Next == ReaderLoop \/ Publish \/ PublishMessage \/ Destroy \/ Tick

Spec == Init /\ [][Next]_vars

\* The threads and the clock keep running.  The publish timer gets the lock in the end:
\* the reader gives it up before every recv(), which blocks for receive_timeout_s.
FairSpec ==
  /\ Spec
  /\ WF_vars(ReaderLoop) /\ WF_vars(Tick)
  /\ SF_vars(Publish) /\ WF_vars(PublishMessage)
  /\ WF_vars(DestroyLock \/ DestroyClose \/ DestroyJoin)

-----------------------------------------------------------------------------
\* _publish() against ingest_basic_frame(): a message never joins the voltage of one
\* frame with the state of charge of another.
MessageFromOneFrame == message.present => message.voltage = message.soc

\* is_fresh(): once the battery falls silent, the node stops presenting its last values,
\* whatever the reader does with the socket meanwhile.
SilenceShows == (sent = Frames) ~> [](~message.present \/ stopEvent)

\* The lock and the stop event let destroy_node() and the reader come to an end from
\* every state, a reader that waits, receives, reopens or holds the lock included.
StopReachesReader == stopEvent ~> (reader = "done" /\ destroyer = "done")

=============================================================================
