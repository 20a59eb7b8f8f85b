--------------------------- MODULE PlcNode_proofs ---------------------------
(***************************************************************************)
(* Proofs about PlcNode for any outputs, any id modulus above two, and any *)
(* number of calls, HMI writes, losses, timeouts and readbacks.            *)
(*                                                                         *)
(* That a reply answers the pending request rests on where a failed        *)
(* exchange may leave something behind: only a repair that failed within a *)
(* poll keeps the stream, the next request is the one of readIo, and what  *)
(* is left over then carries the id before it (StreamInv).  That a         *)
(* confirmed output holds rests on what the requests and replies under way *)
(* hold (ContentInv) and on what the callback remembers (CommandInv).      *)
(***************************************************************************)
EXTENDS PlcNode, TLAPS

Ids     == 0..(IdModulus - 1)
Request == [id : Ids, fn : {"read", "write"}, reg : {"control", "command", "output"},
            value : Word \cup Control \cup {0}, own : BOOLEAN, live : BOOLEAN]
Reply   == [id : Ids, own : BOOLEAN, ok : BOOLEAN, value : Word \cup Control \cup {0}]

\* The stream of requests and replies, and what a request writes.
StreamTypeOK ==
  /\ inbox \in Seq(Reply) /\ outbox \in Seq(Request)
  /\ \A i \in 1..Len(outbox) : outbox[i].fn = "write" =>
       \/ outbox[i].reg = "control" /\ outbox[i].value \in Control
       \/ outbox[i].reg = "command" /\ outbox[i].value \in Word

Open == /\ waiting => connected /\ step \in ExchangeStep
        /\ step \in ExchangeStep => connected
        /\ ~connected => Unanswered
        /\ ~waiting /\ step # "readIo" => Unanswered

\* What is left over from an earlier exchange: only while readIo waits.
Leftover(id) == waiting /\ step = "readIo" /\ NextId(id) = txn

StreamInv ==
  /\ Open
  /\ \A i \in 1..Len(inbox) :
       IF inbox[i].own
         THEN /\ inbox[i].id = txn /\ i = Len(inbox)
              /\ \A j \in 1..Len(outbox) : ~outbox[j].live
         ELSE Leftover(inbox[i].id)
  /\ \A i \in 1..Len(outbox) : outbox[i].live =>
       IF outbox[i].own THEN outbox[i].id = txn /\ i = Len(outbox)
                        ELSE Leftover(outbox[i].id)

\* What was confirmed of the outputs is what the word w says.
Agrees(w) == \A b \in Bits : verified[b] \in {"on", "off"} => Value(w[b]) = verified[b]

\* What the word w says of the job's output is what is commanded.
AgreesOnJob(w) == verified[job.bit] = "disturbed" \/ w[job.bit] = command[job.bit]

\* The requests and the replies under way: only writeCommand has a write of the command
\* under way on an open connection, and a reply holds what the register held.
ContentInv ==
  /\ \A i \in 1..Len(outbox) : outbox[i].live =>
       /\ outbox[i].fn = "write" /\ outbox[i].reg = "command" =>
            /\ waiting /\ step = "writeCommand"
            /\ outbox[i].value = set_output_bit(local, job.bit, job.enabled)
       /\ waiting /\ outbox[i].own =>
            /\ step = "readControl" => outbox[i].fn = "read" /\ outbox[i].reg = "control"
            /\ step \in {"readCommand", "verifyCommand"} =>
                 outbox[i].fn = "read" /\ outbox[i].reg = "command"
  /\ \A i \in 1..Len(inbox) : waiting /\ inbox[i].own =>
       /\ step = "readControl" => inbox[i].value \in Control
       /\ step \in {"readCommand", "verifyCommand"} => inbox[i].value \in Word
       /\ step = "readCommand" => Agrees(inbox[i].value)
       /\ step = "verifyCommand" => AgreesOnJob(inbox[i].value)

\* What the callback knows of the command word.
CommandInv ==
  /\ step \in CommandStep => Service
  /\ Service /\ step \in RepairStep \cup CommandStep \cup {"connect"} =>
       verified[job.bit] \in {"unknown", "disturbed"}
  /\ step = "writeCommand" => Agrees(local)
  /\ step = "verifyStatus" => AgreesOnJob(local)

PlcInv == TypeOK /\ StreamTypeOK /\ StreamInv /\ ContentInv /\ CommandInv /\ VerifiedOutputHolds

-----------------------------------------------------------------------------
(* Ids and sequences.                                                      *)

\* The next id, and that it differs from the one before.
LEMMA NextIdStep ==
  ASSUME NEW id \in Ids
  PROVE  NextId(id) \in Ids /\ NextId(id) # id
<1>1. IdModulus \in Nat /\ IdModulus > 2 /\ id \in Nat /\ id < IdModulus
  BY PlcAssumption DEF Ids
<1>2. CASE id + 1 = IdModulus
  <2>1. NextId(id) = 0
    BY <1>1, <1>2 DEF NextId
  <2> QED BY <1>1, <1>2, <2>1 DEF Ids
<1>3. CASE id + 1 < IdModulus
  <2>1. NextId(id) = id + 1
    BY <1>1, <1>3 DEF NextId
  <2> QED BY <1>1, <1>3, <2>1 DEF Ids
<1> QED BY <1>1, <1>2, <1>3

\* A sequence without its first element.
LEMMA TailOf ==
  ASSUME NEW S, NEW q \in Seq(S), q # <<>>
  PROVE  /\ Len(q) \in Nat /\ Len(q) > 0 /\ Head(q) = q[1] /\ q[1] \in S
         /\ Tail(q) \in Seq(S) /\ Len(Tail(q)) = Len(q) - 1
         /\ \A i \in 1..(Len(q) - 1) : Tail(q)[i] = q[i + 1]
OBVIOUS

\* A sequence with one element more.
LEMMA AppendOf ==
  ASSUME NEW S, NEW q \in Seq(S), NEW e \in S
  PROVE  /\ Append(q, e) \in Seq(S) /\ Len(Append(q, e)) = Len(q) + 1 /\ Len(q) \in Nat
         /\ \A i \in 1..Len(q) : Append(q, e)[i] = q[i]
         /\ Append(q, e)[Len(q) + 1] = e
OBVIOUS

\* A function on 1..n is a sequence of that length.
LEMMA SeqOf ==
  ASSUME NEW S, NEW n \in Nat, NEW f \in [1..n -> S]
  PROVE  f \in Seq(S) /\ Len(f) = n
OBVIOUS

\* A request after a later one was sent, or after its connection was closed.
Dead(q) == [i \in DOMAIN q |-> [q[i] EXCEPT !.live = FALSE]]

\* What was under way when the next request is sent.
LEMMA StaleRequests ==
  ASSUME NEW q \in Seq(Request)
  PROVE  /\ Stale(q) \in Seq(Request) /\ Len(Stale(q)) = Len(q)
         /\ \A i \in 1..Len(q) :
              /\ ~Stale(q)[i].own
              /\ Stale(q)[i].id = q[i].id /\ Stale(q)[i].fn = q[i].fn
              /\ Stale(q)[i].reg = q[i].reg /\ Stale(q)[i].value = q[i].value
              /\ Stale(q)[i].live = q[i].live
<1>1. DOMAIN q = 1..Len(q) /\ Len(q) \in Nat /\ \A i \in 1..Len(q) : q[i] \in Request
  OBVIOUS
<1>2. \A i \in 1..Len(q) : [q[i] EXCEPT !.own = FALSE] \in Request
  BY <1>1 DEF Request
<1>3. Stale(q) \in [1..Len(q) -> Request]
  BY <1>1, <1>2 DEF Stale
<1>4. \A i \in 1..Len(q) : Stale(q)[i] = [q[i] EXCEPT !.own = FALSE]
  BY <1>1 DEF Stale
<1>5. \A i \in 1..Len(q) :
        /\ ~Stale(q)[i].own
        /\ Stale(q)[i].id = q[i].id /\ Stale(q)[i].fn = q[i].fn
        /\ Stale(q)[i].reg = q[i].reg /\ Stale(q)[i].value = q[i].value
        /\ Stale(q)[i].live = q[i].live
  BY <1>1, <1>4 DEF Request
<1> QED BY <1>1, <1>3, <1>5, SeqOf

\* The replies that have come by then.
LEMMA StaleReplies ==
  ASSUME NEW q \in Seq(Reply)
  PROVE  /\ Stale(q) \in Seq(Reply) /\ Len(Stale(q)) = Len(q)
         /\ \A i \in 1..Len(q) : ~Stale(q)[i].own /\ Stale(q)[i].id = q[i].id
<1>1. DOMAIN q = 1..Len(q) /\ Len(q) \in Nat /\ \A i \in 1..Len(q) : q[i] \in Reply
  OBVIOUS
<1>2. \A i \in 1..Len(q) : [q[i] EXCEPT !.own = FALSE] \in Reply
  BY <1>1 DEF Reply
<1>3. Stale(q) \in [1..Len(q) -> Reply]
  BY <1>1, <1>2 DEF Stale
<1>4. \A i \in 1..Len(q) : Stale(q)[i] = [q[i] EXCEPT !.own = FALSE]
  BY <1>1 DEF Stale
<1>5. \A i \in 1..Len(q) : ~Stale(q)[i].own /\ Stale(q)[i].id = q[i].id
  BY <1>1, <1>4 DEF Reply
<1> QED BY <1>1, <1>3, <1>5, SeqOf

\* What a closed connection leaves to the PLC.
LEMMA DeadRequests ==
  ASSUME NEW q \in Seq(Request)
  PROVE  /\ Dead(q) \in Seq(Request) /\ Len(Dead(q)) = Len(q)
         /\ \A i \in 1..Len(q) :
              /\ ~Dead(q)[i].live
              /\ Dead(q)[i].fn = q[i].fn /\ Dead(q)[i].reg = q[i].reg
              /\ Dead(q)[i].value = q[i].value
<1>1. DOMAIN q = 1..Len(q) /\ Len(q) \in Nat /\ \A i \in 1..Len(q) : q[i] \in Request
  OBVIOUS
<1>2. \A i \in 1..Len(q) : [q[i] EXCEPT !.live = FALSE] \in Request
  BY <1>1 DEF Request
<1>3. Dead(q) \in [1..Len(q) -> Request]
  BY <1>1, <1>2 DEF Dead
<1>4. \A i \in 1..Len(q) : Dead(q)[i] = [q[i] EXCEPT !.live = FALSE]
  BY <1>1 DEF Dead
<1>5. \A i \in 1..Len(q) :
        /\ ~Dead(q)[i].live
        /\ Dead(q)[i].fn = q[i].fn /\ Dead(q)[i].reg = q[i].reg
        /\ Dead(q)[i].value = q[i].value
  BY <1>1, <1>4 DEF Request
<1> QED BY <1>1, <1>3, <1>5, SeqOf

\* Unanswered by index: no reply has come, and none will.
LEMMA UnansweredMeans ==
  ASSUME StreamTypeOK
  PROVE  Unanswered <=> Len(inbox) = 0 /\ \A i \in 1..Len(outbox) : ~outbox[i].live
BY DEF Unanswered, StreamTypeOK

-----------------------------------------------------------------------------
(* The stream.                                                             *)

\* With nothing under way and nobody waiting, the stream is in order.
LEMMA CleanStream ==
  ASSUME StreamTypeOK', Unanswered', waiting' = FALSE, step' \in ExchangeStep => connected' = TRUE
  PROVE  StreamInv' /\ ContentInv'
<1>1. /\ Len(inbox') = 0 /\ \A i \in 1..Len(outbox') : ~outbox'[i].live
      /\ Len(outbox') \in Nat
  BY DEF StreamTypeOK, Unanswered
<1>2. Open'
  BY DEF Open
<1>3. StreamInv'
  BY <1>1, <1>2 DEF StreamInv
<1>4. ContentInv'
  BY <1>1 DEF ContentInv
<1> QED BY <1>3, <1>4

\* close() leaves nothing under way.
LEMMA CloseStream ==
  ASSUME StreamTypeOK, Close
  PROVE  StreamTypeOK' /\ Unanswered' /\ connected' = FALSE /\ txn' = txn
<1>1. inbox' = <<>> /\ outbox' = Dead(outbox) /\ connected' = FALSE /\ txn' = txn
  BY DEF Close, Dead
<1>2. outbox \in Seq(Request)
  BY DEF StreamTypeOK
<1>3. inbox' \in Seq(Reply)
  BY <1>1
<1>4. /\ outbox' \in Seq(Request) /\ Len(outbox') = Len(outbox)
      /\ \A i \in 1..Len(outbox) :
              /\ ~outbox'[i].live
              /\ outbox'[i].fn = outbox[i].fn /\ outbox'[i].reg = outbox[i].reg
              /\ outbox'[i].value = outbox[i].value
  BY <1>1, <1>2, DeadRequests
<1>5. StreamTypeOK'
  BY <1>3, <1>4 DEF StreamTypeOK
<1>6. Unanswered'
  BY <1>1, <1>4 DEF Unanswered
<1> QED BY <1>1, <1>5, <1>6

\* A step of the callback outside an exchange.
LEMMA RestStream ==
  ASSUME PlcInv, UNCHANGED <<inbox, outbox, connected, txn, waiting>>, waiting = FALSE,
         step # "readIo", step' \in ExchangeStep => connected = TRUE
  PROVE  StreamTypeOK' /\ StreamInv' /\ ContentInv'
<1>1. StreamTypeOK' /\ Unanswered'
  BY DEF PlcInv, StreamTypeOK, StreamInv, Open, Unanswered
<1> QED BY <1>1, CleanStream

\* Outside an exchange nobody waits.
LEMMA NotWaiting ==
  ASSUME PlcInv, step \notin ExchangeStep
  PROVE  waiting = FALSE /\ step # "readIo" /\ Unanswered
BY DEF PlcInv, TypeOK, StreamInv, Open, ExchangeStep

\* What the requests of each step look like.
LEMMA Operations ==
  ASSUME TypeOK
  PROVE  /\ Operation.fn \in {"read", "write"} /\ Operation.reg \in {"control", "command", "output"}
         /\ Operation.value \in Word \cup Control \cup {0}
         /\ Operation.fn = "write" =>
              \/ step = "writeControl" /\ Operation.reg = "control" /\ Operation.value \in Control
              \/ /\ step = "writeCommand" /\ Operation.reg = "command" /\ Operation.value \in Word
                 /\ Operation.value = set_output_bit(local, job.bit, job.enabled)
         /\ step = "readControl" => Operation.fn = "read" /\ Operation.reg = "control"
         /\ step \in {"readCommand", "verifyCommand"} =>
              Operation.fn = "read" /\ Operation.reg = "command"
<1>1. enable_remote_control_word(localControl) \in Control
  BY DEF TypeOK, Control, enable_remote_control_word
<1>2. set_output_bit(local, job.bit, job.enabled) \in Word
  BY DEF TypeOK, Job, Word, set_output_bit
<1>3. CASE step = "writeControl"
  BY <1>1, <1>3 DEF Operation
<1>4. CASE step = "writeCommand"
  BY <1>2, <1>4 DEF Operation
<1>5. CASE step \in {"readControl", "confirmControl"}
  BY <1>5 DEF Operation
<1>6. CASE step \in {"readCommand", "verifyCommand"}
  BY <1>6 DEF Operation
<1>7. CASE step \notin {"writeControl", "writeCommand", "readControl", "confirmControl",
                        "readCommand", "verifyCommand"}
  BY <1>7 DEF Operation
<1> QED BY <1>3, <1>4, <1>5, <1>6, <1>7

\* _request() sends: what was left over is now one id behind.
LEMMA SendInv ==
  ASSUME PlcInv, Send
  PROVE  PlcInv'
<1> DEFINE q == [id |-> NextId(txn), fn |-> Operation.fn, reg |-> Operation.reg,
                 value |-> Operation.value, own |-> TRUE, live |-> TRUE]
           old == Stale(outbox)
<1>0. TypeOK /\ StreamTypeOK /\ StreamInv /\ ContentInv /\ CommandInv /\ VerifiedOutputHolds
  BY DEF PlcInv
<1>1. /\ step \in ExchangeStep /\ waiting = FALSE /\ waiting' = TRUE /\ txn' = NextId(txn)
      /\ inbox' = Stale(inbox) /\ outbox' = Append(old, q)
      /\ UNCHANGED <<connected, job, step, local, localControl, tries, answer, age, backoff,
                     message, control, command, output, verified, budget>>
  BY <1>0 DEF Send, localVars, nodeVars, plcVars, TypeOK
<1>2. txn \in Ids /\ txn' \in Ids /\ txn' # txn
  BY <1>0, <1>1, NextIdStep DEF TypeOK, Ids
<1>3. q \in Request
  BY <1>0, <1>1, <1>2, Operations DEF Request
<1>4. /\ old \in Seq(Request) /\ Len(old) = Len(outbox) /\ Len(outbox) \in Nat
      /\ \A i \in 1..Len(outbox) :
              /\ ~old[i].own
              /\ old[i].id = outbox[i].id /\ old[i].fn = outbox[i].fn
              /\ old[i].reg = outbox[i].reg /\ old[i].value = outbox[i].value
              /\ old[i].live = outbox[i].live
  BY <1>0, StaleRequests DEF StreamTypeOK
<1>5. /\ outbox' \in Seq(Request) /\ Len(outbox') = Len(outbox) + 1
      /\ \A i \in 1..Len(outbox) : outbox'[i] = old[i]
      /\ outbox'[Len(outbox) + 1] = q
  BY <1>1, <1>3, <1>4, AppendOf
<1>6. /\ inbox' \in Seq(Reply) /\ Len(inbox') = Len(inbox)
      /\ \A i \in 1..Len(inbox) : ~inbox'[i].own /\ inbox'[i].id = inbox[i].id
  BY <1>0, <1>1, StaleReplies DEF StreamTypeOK
<1>7. TypeOK'
  <2>1. waiting' \in BOOLEAN
    BY <1>1
  <2> QED BY <1>0, <1>1, <1>2, <2>1 DEF TypeOK, Ids
<1>8. StreamTypeOK'
  <2>1. ASSUME NEW i \in 1..Len(outbox'), outbox'[i].fn = "write"
        PROVE  \/ outbox'[i].reg = "control" /\ outbox'[i].value \in Control
               \/ outbox'[i].reg = "command" /\ outbox'[i].value \in Word
    <3>1. CASE i \in 1..Len(outbox)
      BY <1>0, <1>4, <1>5, <2>1, <3>1 DEF StreamTypeOK
    <3>2. CASE i = Len(outbox) + 1
      BY <1>0, <1>5, <2>1, <3>2, Operations
    <3> QED BY <1>4, <1>5, <3>1, <3>2
  <2> QED BY <1>5, <1>6, <2>1 DEF StreamTypeOK
<1>9. StreamInv'
  <2>1. Open'
    BY <1>0, <1>1 DEF StreamInv, Open
  <2>2. ASSUME NEW i \in 1..Len(inbox')
        PROVE  ~inbox'[i].own /\ Leftover(inbox[i].id)'
    <3>1. step = "readIo"
      BY <1>0, <1>1, <1>6, <2>2, UnansweredMeans DEF StreamInv, Open
    <3>2. inbox[i].id = txn
      BY <1>0, <1>1, <1>6 DEF StreamInv, Leftover
    <3> QED BY <1>1, <1>6, <3>1, <3>2 DEF Leftover, NextId
  <2>3. ASSUME NEW i \in 1..Len(outbox'), outbox'[i].live
        PROVE  IF outbox'[i].own THEN outbox'[i].id = txn' /\ i = Len(outbox')
                                 ELSE Leftover(outbox[i].id)'
    <3>1. CASE i \in 1..Len(outbox)
      <4>1. step = "readIo"
        BY <1>0, <1>1, <1>4, <1>5, <2>3, <3>1, UnansweredMeans DEF StreamInv, Open
      <4>2. outbox[i].id = txn
        BY <1>0, <1>1, <1>4, <1>5, <2>3, <3>1 DEF StreamInv, Leftover
      <4> QED BY <1>1, <1>4, <1>5, <3>1, <4>1, <4>2 DEF Leftover, NextId
    <3>2. CASE i = Len(outbox) + 1
      BY <1>1, <1>5, <3>2
    <3> QED BY <1>4, <1>5, <3>1, <3>2
  <2> QED BY <2>1, <2>2, <2>3 DEF StreamInv
<1>10. ContentInv'
  <2>1. ASSUME NEW i \in 1..Len(outbox'), outbox'[i].live
        PROVE  /\ outbox'[i].fn = "write" /\ outbox'[i].reg = "command" =>
                    /\ step' = "writeCommand"
                    /\ outbox'[i].value = set_output_bit(local', job'.bit, job'.enabled)
               /\ outbox'[i].own =>
                    /\ step' = "readControl" => outbox'[i].fn = "read" /\ outbox'[i].reg = "control"
                    /\ step' \in {"readCommand", "verifyCommand"} =>
                         outbox'[i].fn = "read" /\ outbox'[i].reg = "command"
    <3>1. CASE i \in 1..Len(outbox)
      <4>1. outbox[i].live /\ ~(outbox[i].fn = "write" /\ outbox[i].reg = "command")
        BY <1>0, <1>1, <1>4, <1>5, <2>1, <3>1 DEF ContentInv
      <4> QED BY <1>4, <1>5, <3>1, <4>1
    <3>2. CASE i = Len(outbox) + 1
      BY <1>0, <1>1, <1>5, <3>2, Operations
    <3> QED BY <1>4, <1>5, <3>1, <3>2
  <2>2. \A i \in 1..Len(inbox') : ~inbox'[i].own
    BY <1>6
  <2> QED BY <1>1, <2>1, <2>2 DEF ContentInv, set_output_bit
<1>11. CommandInv' /\ VerifiedOutputHolds'
  BY <1>0, <1>1 DEF CommandInv, VerifiedOutputHolds, Service, Agrees, AgreesOnJob
<1> QED BY <1>7, <1>8, <1>9, <1>10, <1>11 DEF PlcInv

-----------------------------------------------------------------------------
(* The replies.                                                            *)

\* An event of the environment uses up its budget.
LEMMA SpendBudget ==
  ASSUME TypeOK, NEW e \in Event, Spend(e)
  PROVE  budget' \in [Event -> Nat]
BY DEF TypeOK, Spend

\* The steps a callback may go to, with a control error among them.
LEMMA NextSteps ==
  ASSUME TypeOK
  PROVE  /\ Repaired \in {"readCommand", "readIo"} /\ (Repaired = "readCommand" => Service)
         /\ ControlError => /\ step' \in {"publish", "readIo"}
                            /\ answer' \in {"none", "ok", "failed"}
BY DEF TypeOK, Repaired, ControlError

\* The accepted value moves the callback on, and a match confirms what is commanded.
LEMMA TakeValueInv ==
  ASSUME TypeOK, CommandInv, VerifiedOutputHolds, NEW v, TakeValue(v),
         waiting' = FALSE,
         UNCHANGED <<connected, txn, job, backoff, message, control, command, output, budget>>,
         step = "readControl" => v \in Control,
         step \in {"readCommand", "verifyCommand"} => v \in Word,
         step = "readCommand" => Agrees(v),
         step = "verifyCommand" => AgreesOnJob(v)
  PROVE  TypeOK' /\ CommandInv' /\ VerifiedOutputHolds'
<1> USE DEF localVars
<1>w. waiting' \in BOOLEAN
  OBVIOUS
<1>s. ExchangeStep \cup {"publish"} \subseteq Step
  BY DEF Step
<1>x. ExchangeStep = {"readControl", "writeControl", "confirmControl", "readCommand",
                      "writeCommand", "verifyCommand", "verifyStatus", "readIo"}
  BY DEF ExchangeStep, RepairStep, CommandStep
<1>k. Service' = Service
  BY DEF Service
\* The steps that leave what is confirmed alone.
<1>q. ASSUME verified' = verified, age' \in {"recent", age}, answer' \in {answer, "failed", "ok"},
             tries' \in 0..VerifyTries, local' \in Word, localControl' \in Control,
             step' \in ExchangeStep \cup {"publish"},
             step' \in CommandStep => Service,
             Service => verified[job.bit] \in {"unknown", "disturbed"} \/ step' \in {"publish", "readIo"},
             step' = "writeCommand" => Agrees(local'),
             step' = "verifyStatus" => AgreesOnJob(local')
      PROVE  TypeOK' /\ CommandInv' /\ VerifiedOutputHolds'
  <2>1. TypeOK'
    BY <1>q, <1>w, <1>s DEF TypeOK
  <2>2. CommandInv'
    BY <1>q, <1>k DEF CommandInv, Agrees, AgreesOnJob, RepairStep, CommandStep
  <2>3. VerifiedOutputHolds'
    BY <1>q DEF VerifiedOutputHolds
  <2> QED BY <2>1, <2>2, <2>3
<1>t. tries \in 0..VerifyTries /\ local \in Word /\ localControl \in Control /\ VerifyTries \in Nat
  BY PlcAssumption DEF TypeOK
<1>1. CASE /\ step = "readControl"
           /\ localControl' = IF NeedsRepair(v) THEN v ELSE localControl
           /\ step' = IF NeedsRepair(v) THEN "writeControl" ELSE Repaired
           /\ UNCHANGED <<answer, local, tries, age, verified>>
  <2>1. Service => verified[job.bit] \in {"unknown", "disturbed"}
    BY <1>1 DEF CommandInv, RepairStep
  <2>2. step' \in {"writeControl", "readCommand", "readIo"} /\ (step' = "readCommand" => Service)
    BY <1>1, NextSteps
  <2> QED BY <1>q, <1>t, <1>x, <1>1, <2>1, <2>2 DEF CommandStep
<1>2. CASE step = "writeControl" /\ step' = "confirmControl" /\ UNCHANGED <<answer, localVars, age, verified>>
  <2>1. Service => verified[job.bit] \in {"unknown", "disturbed"}
    BY <1>2 DEF CommandInv, RepairStep
  <2> QED BY <1>q, <1>t, <1>x, <1>2, <2>1 DEF CommandStep
<1>3. CASE /\ step = "confirmControl"
           /\ IF v = enable_remote_control_word(localControl)
                THEN step' = Repaired /\ UNCHANGED answer
                ELSE ControlError
           /\ UNCHANGED <<localVars, age, verified>>
  <2>1. Service => verified[job.bit] \in {"unknown", "disturbed"}
    BY <1>3 DEF CommandInv, RepairStep
  <2>2. /\ step' \in {"readCommand", "readIo", "publish"} /\ (step' = "readCommand" => Service)
        /\ answer' \in {answer, "failed"}
    BY <1>3, NextSteps DEF ControlError
  <2> QED BY <1>q, <1>t, <1>x, <1>3, <2>1, <2>2 DEF CommandStep
<1>4. CASE /\ step \in {"readCommand", "verifyCommand"}
           /\ local' = v
           /\ step' = IF step = "readCommand" THEN "writeCommand" ELSE "verifyStatus"
           /\ UNCHANGED <<answer, localControl, tries, age, verified>>
  <2>1. Service /\ verified[job.bit] \in {"unknown", "disturbed"}
    BY <1>4 DEF CommandInv, CommandStep
  <2>2. local' \in Word /\ step' \in ExchangeStep
    BY <1>4, <1>x
  <2>3. step' = "writeCommand" => Agrees(local')
    BY <1>4 DEF Agrees
  <2>4. step' = "verifyStatus" => AgreesOnJob(local')
    BY <1>4 DEF AgreesOnJob
  <2> QED BY <1>q, <1>t, <1>4, <2>1, <2>2, <2>3, <2>4
<1>5. CASE step = "writeCommand" /\ step' = "verifyCommand" /\ UNCHANGED <<answer, localVars, age, verified>>
  <2>1. Service /\ verified[job.bit] \in {"unknown", "disturbed"}
    BY <1>5 DEF CommandInv, CommandStep
  <2> QED BY <1>q, <1>t, <1>x, <1>5, <2>1
<1>6. CASE /\ step = "verifyStatus"
           /\ output_matches(local, v, job.bit, job.enabled)
           /\ step' = "publish" /\ answer' = "ok"
           /\ verified' = IF verified[job.bit] = "disturbed" THEN verified
                          ELSE [verified EXCEPT ![job.bit] = Value(job.enabled)]
           /\ UNCHANGED <<tries, local, localControl, age>>
  <2>1. job.bit \in Bits /\ verified \in [Bits -> {"unknown", "disturbed", "on", "off"}]
    BY DEF TypeOK, Job
  <2>2. verified' \in [Bits -> {"unknown", "disturbed", "on", "off"}]
    BY <1>6, <2>1 DEF Value
  <2>3. TypeOK'
    BY <1>6, <1>w, <1>s, <2>2 DEF TypeOK
  <2>4. CommandInv'
    BY <1>6 DEF CommandInv, CommandStep, RepairStep
  <2>5. VerifiedOutputHolds'
    <3>1. CASE verified[job.bit] = "disturbed"
      BY <1>6, <3>1 DEF VerifiedOutputHolds
    <3>2. CASE verified[job.bit] # "disturbed"
      <4>1. command[job.bit] = job.enabled
        BY <1>6, <3>2 DEF CommandInv, AgreesOnJob, output_matches
      <4> QED BY <1>6, <2>1, <3>2, <4>1 DEF VerifiedOutputHolds
    <3> QED BY <3>1, <3>2
  <2> QED BY <2>3, <2>4, <2>5
<1>7. CASE /\ step = "verifyStatus"
           /\ IF tries < VerifyTries
                THEN step' = "verifyCommand" /\ tries' = tries + 1 /\ UNCHANGED answer
                ELSE ControlError /\ UNCHANGED tries
           /\ UNCHANGED <<local, localControl, age, verified>>
  <2>1. Service /\ verified[job.bit] \in {"unknown", "disturbed"}
    BY <1>7 DEF CommandInv, CommandStep
  <2>2. /\ step' \in {"verifyCommand", "publish", "readIo"} /\ answer' \in {answer, "failed"}
        /\ tries' \in 0..VerifyTries
    BY <1>7, <1>t, NextSteps DEF ControlError
  <2> QED BY <1>q, <1>t, <1>x, <1>7, <2>1, <2>2
<1>8. CASE /\ step = "readIo" /\ age' = "recent" /\ step' = "publish"
           /\ UNCHANGED <<answer, localVars, verified>>
  BY <1>q, <1>t, <1>8 DEF CommandStep
<1> QED BY <1>1, <1>2, <1>3, <1>4, <1>5, <1>6, <1>7, <1>8 DEF TakeValue

\* A failed exchange ends the callback, or goes on with reading the state.
LEMMA FailureInv ==
  ASSUME PlcInv, NEW rest, CommFailure(rest), waiting' = FALSE, budget' \in [Event -> Nat],
         UNCHANGED <<job, backoff, message, control, command, output>>
  PROVE  TypeOK' /\ CommandInv' /\ VerifiedOutputHolds'
<1>0. TypeOK /\ StreamTypeOK /\ CommandInv /\ VerifiedOutputHolds
  BY DEF PlcInv
<1>1. /\ step' \in {"readIo", "publish"} /\ answer' \in {answer, "failed"}
      /\ UNCHANGED <<local, localControl, tries, age, verified>> /\ txn' = txn
      /\ connected' \in BOOLEAN
  BY <1>0, CloseStream DEF CommFailure, localVars, TypeOK
<1>2. waiting' \in BOOLEAN
  OBVIOUS
<1>3. TypeOK'
  BY <1>0, <1>1, <1>2 DEF TypeOK, Step, ExchangeStep
<1>4. CommandInv'
  BY <1>1 DEF CommandInv, CommandStep, RepairStep
<1>5. VerifiedOutputHolds'
  BY <1>0, <1>1 DEF VerifiedOutputHolds
<1> QED BY <1>3, <1>4, <1>5

\* The reply that carries the pending id is the last thing under way.
LEMMA AcceptedIsOwn ==
  ASSUME TypeOK, StreamTypeOK, StreamInv, NEW i \in 1..Len(inbox), inbox[i].id = txn
  PROVE  inbox[i].own /\ i = Len(inbox) /\ \A j \in 1..Len(outbox) : ~outbox[j].live
<1>0. inbox[i] \in Reply
  BY DEF StreamTypeOK
<1>1. inbox[i].id \in Ids
  BY <1>0 DEF Reply
<1>2. NextId(inbox[i].id) # inbox[i].id
  BY <1>1, NextIdStep
<1> QED BY <1>2 DEF StreamInv, Leftover

\* A reply is taken or refused.
LEMMA ReceiveInv ==
  ASSUME PlcInv, Receive
  PROVE  PlcInv'
<1>0. TypeOK /\ StreamTypeOK /\ StreamInv /\ ContentInv /\ CommandInv /\ VerifiedOutputHolds
  BY DEF PlcInv
<1>1. /\ waiting /\ waiting' = FALSE /\ connected = TRUE
      /\ UNCHANGED <<job, backoff, message, control, command, output, budget>>
  BY <1>0 DEF Receive, plcVars, StreamInv, Open, TypeOK
<1>2. /\ Len(inbox) \in Nat /\ Len(inbox) > 0 /\ Head(inbox) = inbox[1]
      /\ Tail(inbox) \in Seq(Reply) /\ Len(Tail(inbox)) = Len(inbox) - 1
      /\ 1 \in 1..Len(inbox)
  BY <1>0, TailOf DEF Receive, StreamTypeOK
\* Nothing is left over when the last thing under way is taken.
<1>3. ASSUME 1 = Len(inbox), \A j \in 1..Len(outbox) : ~outbox[j].live,
             inbox' = Tail(inbox), UNCHANGED <<connected, outbox>>
      PROVE  StreamTypeOK' /\ StreamInv' /\ ContentInv'
  <2>1. StreamTypeOK'
    BY <1>0, <1>2, <1>3 DEF StreamTypeOK
  <2>2. Unanswered'
    BY <1>0, <1>2, <1>3 DEF Unanswered, StreamTypeOK
  <2> QED BY <1>1, <1>3, <2>1, <2>2, CleanStream
<1>4. CASE Accepts(inbox[1]) /\ inbox[1].ok
  <2>1. /\ inbox' = Tail(inbox) /\ TakeValue(inbox[1].value)
        /\ UNCHANGED <<connected, txn, outbox>>
    BY <1>2, <1>4 DEF Receive
  <2>2. /\ inbox[1].own /\ 1 = Len(inbox)
        /\ \A j \in 1..Len(outbox) : ~outbox[j].live
    BY <1>0, <1>2, <1>4, AcceptedIsOwn DEF Accepts
  <2>3. /\ step = "readControl" => inbox[1].value \in Control
        /\ step \in {"readCommand", "verifyCommand"} => inbox[1].value \in Word
        /\ step = "readCommand" => Agrees(inbox[1].value)
        /\ step = "verifyCommand" => AgreesOnJob(inbox[1].value)
    BY <1>0, <1>1, <1>2, <2>2 DEF ContentInv
  <2>4. TypeOK' /\ CommandInv' /\ VerifiedOutputHolds'
    BY <1>0, <1>1, <2>1, <2>3, TakeValueInv
  <2> QED BY <1>3, <2>1, <2>2, <2>4 DEF PlcInv
<1>5. CASE ~(Accepts(inbox[1]) /\ inbox[1].ok)
  <2>1. CommFailure(Tail(inbox))
    BY <1>2, <1>5 DEF Receive
  <2>2. TypeOK' /\ CommandInv' /\ VerifiedOutputHolds'
    BY <1>0, <1>1, <2>1, FailureInv DEF TypeOK
  <2>3. CASE KeepsStream
    <3>1. inbox' = Tail(inbox) /\ UNCHANGED <<connected, outbox>>
      BY <2>1, <2>3 DEF CommFailure
    <3>2. step # "readIo"
      BY <2>3 DEF KeepsStream, RepairStep
    <3>3. 1 = Len(inbox) /\ \A j \in 1..Len(outbox) : ~outbox[j].live
      BY <1>0, <1>2, <3>2 DEF StreamInv, Leftover
    <3> QED BY <1>3, <2>2, <3>1, <3>3 DEF PlcInv
  <2>4. CASE ~KeepsStream
    <3>1. step' = "publish" /\ Close
      BY <2>1, <2>4 DEF CommFailure
    <3>2. StreamTypeOK' /\ StreamInv' /\ ContentInv'
      BY <1>0, <1>1, <3>1, CloseStream, CleanStream DEF ExchangeStep, RepairStep, CommandStep
    <3> QED BY <2>2, <3>2 DEF PlcInv
  <2> QED BY <2>3, <2>4
<1> QED BY <1>4, <1>5

\* A timeout: the stream is closed, or its one exchange left over to the next one.
LEMMA ReceiveTimeoutInv ==
  ASSUME PlcInv, ReceiveTimeout
  PROVE  PlcInv'
<1>0. TypeOK /\ StreamTypeOK /\ StreamInv /\ ContentInv /\ CommandInv /\ VerifiedOutputHolds
  BY DEF PlcInv
<1>1. /\ waiting /\ waiting' = FALSE /\ connected = TRUE /\ CommFailure(inbox)
      /\ UNCHANGED <<job, backoff, message, control, command, output>>
  BY <1>0 DEF ReceiveTimeout, plcVars, StreamInv, Open, TypeOK
<1>2. budget' \in [Event -> Nat]
  BY <1>0, SpendBudget DEF ReceiveTimeout, TypeOK, Event
<1>3. TypeOK' /\ CommandInv' /\ VerifiedOutputHolds'
  BY <1>1, <1>2, FailureInv
<1>4. CASE KeepsStream
  <2>1. /\ step' = "readIo" /\ UNCHANGED <<inbox, connected, txn, outbox>>
    BY <1>1, <1>4 DEF CommFailure
  <2>2. step \in RepairStep /\ step \notin {"readIo", "writeCommand"}
    BY <1>4 DEF KeepsStream, RepairStep
  <2>3. StreamTypeOK'
    BY <1>0, <2>1 DEF StreamTypeOK
  <2>4. Open'
    BY <1>1, <2>1 DEF Open
  <2>5. StreamInv'
    BY <1>0, <2>1, <2>2, <2>4 DEF StreamInv, Leftover
  <2>6. \A i \in 1..Len(outbox) :
          outbox[i].live => ~(outbox[i].fn = "write" /\ outbox[i].reg = "command")
    BY <1>0, <2>2 DEF ContentInv
  <2>7. ContentInv'
    BY <1>1, <2>1, <2>6 DEF ContentInv
  <2> QED BY <1>3, <2>3, <2>5, <2>7 DEF PlcInv
<1>5. CASE ~KeepsStream
  <2>1. step' = "publish" /\ Close
    BY <1>1, <1>5 DEF CommFailure
  <2>2. StreamTypeOK' /\ StreamInv' /\ ContentInv'
    BY <1>0, <1>1, <2>1, CloseStream, CleanStream DEF ExchangeStep, RepairStep, CommandStep
  <2> QED BY <1>3, <2>2 DEF PlcInv
<1> QED BY <1>4, <1>5

-----------------------------------------------------------------------------
(* The PLC.                                                                *)

\* The oldest request is gone.
LEMMA ShorterStream ==
  ASSUME PlcInv, outbox # <<>>, outbox' = Tail(outbox),
         UNCHANGED <<connected, txn, step, waiting>>
  PROVE  /\ Len(outbox) \in Nat /\ Len(outbox) > 0 /\ Head(outbox) = outbox[1]
         /\ outbox[1] \in Request
         /\ outbox' \in Seq(Request) /\ Len(outbox') = Len(outbox) - 1
         /\ \A i \in 1..Len(outbox') : i + 1 \in 1..Len(outbox) /\ outbox'[i] = outbox[i + 1]
         /\ \A i \in 1..Len(outbox') : outbox'[i].fn = "write" =>
              \/ outbox'[i].reg = "control" /\ outbox'[i].value \in Control
              \/ outbox'[i].reg = "command" /\ outbox'[i].value \in Word
         /\ \A i \in 1..Len(outbox') : outbox'[i].live =>
              IF outbox'[i].own THEN outbox'[i].id = txn /\ i = Len(outbox')
                                ELSE Leftover(outbox'[i].id)
<1>0. StreamTypeOK /\ StreamInv /\ outbox \in Seq(Request)
  BY DEF PlcInv, StreamTypeOK
<1>1. /\ Len(outbox) \in Nat /\ Len(outbox) > 0 /\ Head(outbox) = outbox[1]
      /\ outbox[1] \in Request
      /\ outbox' \in Seq(Request) /\ Len(outbox') = Len(outbox) - 1
      /\ \A i \in 1..(Len(outbox) - 1) : outbox'[i] = outbox[i + 1]
  BY <1>0, TailOf
<1>2. \A i \in 1..Len(outbox') : i + 1 \in 1..Len(outbox) /\ outbox'[i] = outbox[i + 1]
  BY <1>1
<1>3. \A i \in 1..Len(outbox') : outbox'[i].fn = "write" =>
              \/ outbox'[i].reg = "control" /\ outbox'[i].value \in Control
              \/ outbox'[i].reg = "command" /\ outbox'[i].value \in Word
  BY <1>0, <1>2 DEF StreamTypeOK
<1>4. ASSUME NEW i \in 1..Len(outbox'), outbox'[i].live
      PROVE  IF outbox'[i].own THEN outbox'[i].id = txn /\ i = Len(outbox')
                               ELSE Leftover(outbox'[i].id)
  <2>1. outbox[i + 1].live /\ i + 1 \in 1..Len(outbox) /\ outbox'[i] = outbox[i + 1]
    BY <1>2, <1>4
  <2>2. IF outbox[i + 1].own THEN outbox[i + 1].id = txn /\ i + 1 = Len(outbox)
                             ELSE Leftover(outbox[i + 1].id)
    BY <1>0, <2>1 DEF StreamInv
  <2>3. i + 1 = Len(outbox) => i = Len(outbox')
    <3>1. Len(outbox) \in Nat /\ Len(outbox') = Len(outbox) - 1
      BY <1>1
    <3>2. i \in Nat
      BY <3>1
    <3>3. \A n, m \in Nat : i + 1 = n /\ m = n - 1 => i = m
      BY <3>2
    <3>4. Len(outbox') \in Nat
      BY <1>1
    <3> QED BY <3>1, <3>3, <3>4
  <2> QED BY <2>1, <2>2, <2>3 DEF Leftover
<1> QED BY <1>1, <1>2, <1>3, <1>4

\* A request that is executed or forgotten keeps what the later ones hold.
LEMMA ShorterContent ==
  ASSUME PlcInv, outbox # <<>>, outbox' = Tail(outbox),
         UNCHANGED <<connected, txn, step, waiting, local, job>>
  PROVE  \A i \in 1..Len(outbox') : outbox'[i].live =>
           /\ outbox'[i].fn = "write" /\ outbox'[i].reg = "command" =>
                /\ waiting' /\ step' = "writeCommand"
                /\ outbox'[i].value = set_output_bit(local', job'.bit, job'.enabled)
           /\ waiting' /\ outbox'[i].own =>
                /\ step' = "readControl" => outbox'[i].fn = "read" /\ outbox'[i].reg = "control"
                /\ step' \in {"readCommand", "verifyCommand"} =>
                     outbox'[i].fn = "read" /\ outbox'[i].reg = "command"
<1>1. \A i \in 1..Len(outbox') : i + 1 \in 1..Len(outbox) /\ outbox'[i] = outbox[i + 1]
  BY ShorterStream
<1>2. \A i \in 1..Len(outbox) : outbox[i].live =>
        /\ outbox[i].fn = "write" /\ outbox[i].reg = "command" =>
             /\ waiting /\ step = "writeCommand"
             /\ outbox[i].value = set_output_bit(local, job.bit, job.enabled)
        /\ waiting /\ outbox[i].own =>
             /\ step = "readControl" => outbox[i].fn = "read" /\ outbox[i].reg = "control"
             /\ step \in {"readCommand", "verifyCommand"} =>
                  outbox[i].fn = "read" /\ outbox[i].reg = "command"
  BY DEF PlcInv, ContentInv
<1>3. ASSUME NEW i \in 1..Len(outbox'), outbox'[i].live
      PROVE  /\ outbox'[i].fn = "write" /\ outbox'[i].reg = "command" =>
                  /\ waiting' /\ step' = "writeCommand"
                  /\ outbox'[i].value = set_output_bit(local', job'.bit, job'.enabled)
             /\ waiting' /\ outbox'[i].own =>
                  /\ step' = "readControl" => outbox'[i].fn = "read" /\ outbox'[i].reg = "control"
                  /\ step' \in {"readCommand", "verifyCommand"} =>
                       outbox'[i].fn = "read" /\ outbox'[i].reg = "command"
  BY <1>1, <1>2, <1>3
<1> QED BY <1>3

\* A request the PLC never executes.
LEMMA ForgetInv ==
  ASSUME PlcInv, Forget
  PROVE  PlcInv'
<1>0. TypeOK /\ StreamTypeOK /\ StreamInv /\ ContentInv /\ CommandInv /\ VerifiedOutputHolds
  BY DEF PlcInv
<1>1. /\ outbox # <<>> /\ outbox' = Tail(outbox)
      /\ UNCHANGED <<connected, txn, inbox, job, step, waiting, local, localControl, tries, answer,
                     age, backoff, message, control, command, output, verified>>
  BY DEF Forget, localVars, nodeVars, plcVars
<1>2. budget' \in [Event -> Nat]
  BY <1>0, SpendBudget DEF Forget, TypeOK, Event
<1>3. TypeOK'
  BY <1>0, <1>1, <1>2 DEF TypeOK
<1>4. /\ outbox' \in Seq(Request) /\ Len(outbox') = Len(outbox) - 1 /\ Len(outbox) \in Nat
      /\ \A i \in 1..Len(outbox') : i + 1 \in 1..Len(outbox) /\ outbox'[i] = outbox[i + 1]
      /\ \A i \in 1..Len(outbox') : outbox'[i].fn = "write" =>
              \/ outbox'[i].reg = "control" /\ outbox'[i].value \in Control
              \/ outbox'[i].reg = "command" /\ outbox'[i].value \in Word
      /\ \A i \in 1..Len(outbox') : outbox'[i].live =>
              IF outbox'[i].own THEN outbox'[i].id = txn /\ i = Len(outbox')
                                ELSE Leftover(outbox'[i].id)
  BY <1>1, ShorterStream
<1>5. StreamTypeOK'
  BY <1>0, <1>1, <1>4 DEF StreamTypeOK
<1>6. Unanswered => Unanswered'
  <2>1. DOMAIN outbox' = 1..Len(outbox') /\ DOMAIN outbox = 1..Len(outbox)
    BY <1>0, <1>4 DEF StreamTypeOK
  <2> QED BY <1>1, <1>4, <2>1 DEF Unanswered
<1>7. Open'
  BY <1>0, <1>1, <1>6 DEF StreamInv, Open
<1>8. StreamInv'
  BY <1>0, <1>1, <1>4, <1>7 DEF StreamInv, Leftover
<1>9. ContentInv'
  <2>1. \A i \in 1..Len(inbox) : waiting /\ inbox[i].own =>
          /\ step = "readControl" => inbox[i].value \in Control
          /\ step \in {"readCommand", "verifyCommand"} => inbox[i].value \in Word
          /\ step = "readCommand" => Agrees(inbox[i].value)
          /\ step = "verifyCommand" => AgreesOnJob(inbox[i].value)
    BY <1>0 DEF ContentInv
  <2> QED BY <1>1, <2>1, ShorterContent DEF ContentInv, Agrees, AgreesOnJob, set_output_bit
<1>10. CommandInv' /\ VerifiedOutputHolds'
  BY <1>0, <1>1 DEF CommandInv, VerifiedOutputHolds, Service, Agrees, AgreesOnJob
<1> QED BY <1>3, <1>5, <1>8, <1>9, <1>10 DEF PlcInv

\* The PLC executes a request: in time, after its timeout, or after its connection.
LEMMA ServeInv ==
  ASSUME PlcInv, NEW ok \in BOOLEAN, Serve(ok)
  PROVE  PlcInv'
<1> DEFINE q     == outbox[1]
           write == ok /\ q.fn = "write"
           reply == [id |-> q.id, own |-> q.own, ok |-> ok,
                     value |-> IF q.fn = "read" THEN Register(q.reg) ELSE q.value]
<1>0. TypeOK /\ StreamTypeOK /\ StreamInv /\ ContentInv /\ CommandInv /\ VerifiedOutputHolds
  BY DEF PlcInv
<1>1. /\ outbox # <<>> /\ outbox' = Tail(outbox)
      /\ UNCHANGED <<connected, txn, job, step, waiting, local, localControl, tries, answer, age,
                     backoff, message, output>>
  BY DEF Serve, localVars, nodeVars
<1>2. /\ outbox' \in Seq(Request) /\ Len(outbox') = Len(outbox) - 1
      /\ Len(outbox) \in Nat /\ Len(outbox) > 0
      /\ Head(outbox) = outbox[1] /\ outbox[1] \in Request
      /\ \A i \in 1..Len(outbox') : i + 1 \in 1..Len(outbox) /\ outbox'[i] = outbox[i + 1]
      /\ \A i \in 1..Len(outbox') : outbox'[i].fn = "write" =>
              \/ outbox'[i].reg = "control" /\ outbox'[i].value \in Control
              \/ outbox'[i].reg = "command" /\ outbox'[i].value \in Word
      /\ \A i \in 1..Len(outbox') : outbox'[i].live =>
              IF outbox'[i].own THEN outbox'[i].id = txn /\ i = Len(outbox')
                                ELSE Leftover(outbox'[i].id)
  BY <1>1, ShorterStream
<1>3. /\ control' = IF write /\ q.reg = "control" THEN q.value ELSE control
      /\ command' = IF write /\ q.reg = "command" THEN q.value ELSE command
      /\ verified' = IF write /\ q.reg = "command" /\ ~q.live
                       THEN [b \in Bits |-> "disturbed"] ELSE verified
      /\ inbox' = IF q.live THEN Append(inbox, reply) ELSE inbox
  BY <1>2 DEF Serve
<1>4. /\ 1 \in 1..Len(outbox) /\ q.id \in Ids /\ q.own \in BOOLEAN /\ q.live \in BOOLEAN
      /\ q.fn \in {"read", "write"} /\ q.reg \in {"control", "command", "output"}
      /\ q.value \in Word \cup Control \cup {0}
  BY <1>2 DEF Request
<1>5. q.fn = "write" => \/ q.reg = "control" /\ q.value \in Control
                        \/ q.reg = "command" /\ q.value \in Word
  BY <1>0, <1>4 DEF StreamTypeOK
<1>6. TypeOK'
  <2>1. budget' \in [Event -> Nat]
    BY <1>0, SpendBudget DEF Serve, TypeOK, Event
  <2>2. control' \in Control /\ command' \in Word
    BY <1>0, <1>3, <1>5 DEF TypeOK
  <2>3. verified' \in [Bits -> {"unknown", "disturbed", "on", "off"}]
    BY <1>0, <1>3 DEF TypeOK
  <2> QED BY <1>0, <1>1, <2>1, <2>2, <2>3 DEF TypeOK
<1>7. reply \in Reply
  <2>1. Register(q.reg) \in Word \cup Control
    BY <1>0 DEF TypeOK, Register
  <2>2. reply.value \in Word \cup Control \cup {0}
    BY <1>4, <2>1
  <2> QED BY <1>4, <2>2 DEF Reply
<1>8. /\ inbox \in Seq(Reply) /\ inbox' \in Seq(Reply) /\ Len(inbox) \in Nat
      /\ Len(inbox') = IF q.live THEN Len(inbox) + 1 ELSE Len(inbox)
      /\ \A i \in 1..Len(inbox) : inbox'[i] = inbox[i]
      /\ q.live => inbox'[Len(inbox) + 1] = reply
  BY <1>0, <1>3, <1>7, AppendOf DEF StreamTypeOK
<1>9. StreamTypeOK'
  BY <1>2, <1>8 DEF StreamTypeOK
<1>10. StreamInv'
  <2>1. Unanswered => Unanswered'
    <3>1. DOMAIN outbox' = 1..Len(outbox') /\ DOMAIN outbox = 1..Len(outbox)
      BY <1>0, <1>2 DEF StreamTypeOK
    <3>2. Unanswered => ~q.live
      BY <1>4, <3>1 DEF Unanswered
    <3> QED BY <1>2, <1>3, <3>1, <3>2 DEF Unanswered
  <2>2. Open'
    BY <1>0, <1>1, <2>1 DEF StreamInv, Open
  <2>3. ASSUME NEW i \in 1..Len(inbox')
        PROVE  IF inbox'[i].own
                 THEN /\ inbox'[i].id = txn' /\ i = Len(inbox')
                      /\ \A j \in 1..Len(outbox') : ~outbox'[j].live
                 ELSE Leftover(inbox'[i].id)
    <3>1. CASE i \in 1..Len(inbox)
      <4>1. inbox'[i] = inbox[i]
        BY <1>8, <3>1
      <4>2. CASE inbox[i].own
        <5>1. /\ inbox[i].id = txn /\ i = Len(inbox)
              /\ \A j \in 1..Len(outbox) : ~outbox[j].live
          BY <1>0, <3>1, <4>2 DEF StreamInv
        <5>2. ~q.live /\ \A j \in 1..Len(outbox') : ~outbox'[j].live
          BY <1>2, <1>4, <5>1
        <5> QED BY <1>1, <1>8, <4>1, <4>2, <5>1, <5>2
      <4>3. CASE ~inbox[i].own
        BY <1>0, <3>1, <4>1, <4>3 DEF StreamInv
      <4> QED BY <4>2, <4>3
    <3>2. CASE q.live /\ i = Len(inbox) + 1
      <4>1. inbox'[i].own = q.own /\ inbox'[i].id = q.id /\ i = Len(inbox')
        BY <1>8, <3>2
      <4>2. IF q.own THEN q.id = txn /\ 1 = Len(outbox) ELSE Leftover(q.id)
        BY <1>0, <1>4, <3>2 DEF StreamInv
      <4>3. q.own => Len(outbox') = 0
        <5>1. Len(outbox') = Len(outbox) - 1
          BY <1>2
        <5>2. q.own => Len(outbox) = 1
          BY <4>2
        <5>3. \A n, m \in Nat : n = 1 /\ m = n - 1 => m = 0
          OBVIOUS
        <5>4. Len(outbox) \in Nat /\ Len(outbox') \in Nat
          BY <1>2
        <5> QED BY <5>1, <5>2, <5>3, <5>4
      <4> QED BY <1>1, <4>1, <4>2, <4>3
    <3> QED BY <1>8, <3>1, <3>2
  <2>4. \A i \in 1..Len(outbox') : outbox'[i].live =>
              IF outbox'[i].own THEN outbox'[i].id = txn' /\ i = Len(outbox')
                                ELSE Leftover(outbox[i].id)'
    BY <1>1, <1>2 DEF Leftover
  <2>5. \A i \in 1..Len(inbox') :
          IF inbox'[i].own
            THEN /\ inbox'[i].id = txn' /\ i = Len(inbox')
                 /\ \A j \in 1..Len(outbox') : ~outbox'[j].live
            ELSE Leftover(inbox[i].id)'
    BY <1>1, <2>3 DEF Leftover
  <2> QED BY <2>2, <2>4, <2>5 DEF StreamInv
\* What the callback knows survives: a late write disturbs everything, the callback's own
\* is the word it has composed.
<1>11. /\ VerifiedOutputHolds'
       /\ \A w \in Word : Agrees(w) => \A b \in Bits :
            verified'[b] \in {"on", "off"} => Value(w[b]) = verified'[b]
       /\ job.bit \in Bits
       /\ \A b \in Bits : verified'[b] \in {verified[b], "disturbed"}
       /\ step # "writeCommand" \/ ~waiting =>
            (verified'[job.bit] = "disturbed" \/ command'[job.bit] = command[job.bit])
  <2>0. job.bit \in Bits /\ local \in Word
    BY <1>0 DEF TypeOK, Job
  <2>1. CASE ~(write /\ q.reg = "command")
    <3>1. command' = command /\ verified' = verified
      BY <1>3, <2>1
    <3> QED BY <1>0, <2>0, <3>1 DEF VerifiedOutputHolds, Agrees
  <2>2. CASE write /\ q.reg = "command" /\ ~q.live
    <3>1. verified' = [b \in Bits |-> "disturbed"]
      BY <1>3, <2>2
    <3> QED BY <2>0, <3>1 DEF VerifiedOutputHolds, Agrees
  <2>3. CASE write /\ q.reg = "command" /\ q.live
    <3>1. verified' = verified /\ command' = q.value
      BY <1>3, <2>3
    <3>2. /\ waiting /\ step = "writeCommand"
          /\ q.value = set_output_bit(local, job.bit, job.enabled)
      BY <1>0, <1>4, <2>3 DEF ContentInv
    <3>3. Agrees(local) /\ verified[job.bit] \in {"unknown", "disturbed"}
      BY <1>0, <3>2 DEF CommandInv, CommandStep
    <3>4. \A b \in Bits : b # job.bit => command'[b] = local[b]
      BY <2>0, <3>1, <3>2 DEF set_output_bit, Word
    <3>5. VerifiedOutputHolds'
      BY <3>1, <3>3, <3>4 DEF VerifiedOutputHolds, Agrees
    <3> QED BY <2>0, <3>1, <3>2, <3>5 DEF Agrees
  <2> QED BY <2>1, <2>2, <2>3
<1>12. CommandInv'
  <2>1. local \in Word
    BY <1>0 DEF TypeOK
  <2>2. Service' = Service
    BY <1>1 DEF Service
  <2>3. step' = "writeCommand" => Agrees(local)'
    BY <1>0, <1>1, <1>11, <2>1 DEF CommandInv, Agrees
  <2>4. step' = "verifyStatus" => AgreesOnJob(local)'
    BY <1>0, <1>1, <1>11 DEF CommandInv, AgreesOnJob
  <2>5. Service /\ step \in RepairStep \cup CommandStep \cup {"connect"} =>
          verified'[job.bit] \in {"unknown", "disturbed"}
    BY <1>0, <1>11 DEF CommandInv
  <2> QED BY <1>0, <1>1, <2>2, <2>3, <2>4, <2>5 DEF CommandInv
<1>13. ContentInv'
  <2>1. ASSUME NEW i \in 1..Len(inbox'), waiting', inbox'[i].own
        PROVE  /\ step' = "readControl" => inbox'[i].value \in Control
               /\ step' \in {"readCommand", "verifyCommand"} => inbox'[i].value \in Word
               /\ step' = "readCommand" => Agrees(inbox[i].value)'
               /\ step' = "verifyCommand" => AgreesOnJob(inbox[i].value)'
    <3>1. CASE i \in 1..Len(inbox)
      <4>1. /\ inbox'[i] = inbox[i]
            /\ step = "readControl" => inbox[i].value \in Control
            /\ step \in {"readCommand", "verifyCommand"} => inbox[i].value \in Word
            /\ step = "readCommand" => Agrees(inbox[i].value)
            /\ step = "verifyCommand" => AgreesOnJob(inbox[i].value)
        BY <1>0, <1>1, <1>8, <2>1, <3>1 DEF ContentInv
      <4>2. step' = "readCommand" => Agrees(inbox[i].value)'
        BY <1>1, <1>11, <4>1 DEF Agrees
      <4>3. step' = "verifyCommand" => AgreesOnJob(inbox[i].value)'
        BY <1>1, <1>11, <4>1 DEF AgreesOnJob
      <4> QED BY <1>1, <4>1, <4>2, <4>3
    <3>2. CASE q.live /\ i = Len(inbox) + 1
      <4>1. inbox'[i] = reply /\ q.own
        BY <1>8, <2>1, <3>2
      <4>2. /\ step = "readControl" => q.fn = "read" /\ q.reg = "control"
            /\ step \in {"readCommand", "verifyCommand"} => q.fn = "read" /\ q.reg = "command"
        BY <1>0, <1>1, <1>4, <2>1, <3>2, <4>1 DEF ContentInv
      <4>3. step = "readControl" => reply.value \in Control
        BY <1>0, <4>2 DEF TypeOK, Register
      <4>4. step \in {"readCommand", "verifyCommand"} =>
              /\ reply.value = command /\ command' = command /\ verified' = verified
        BY <1>3, <4>2 DEF Register
      <4>5. step' = "readCommand" => Agrees(inbox[i].value)'
        BY <1>0, <1>1, <4>1, <4>4 DEF Agrees, VerifiedOutputHolds
      <4>6. step' = "verifyCommand" => AgreesOnJob(inbox[i].value)'
        BY <1>1, <4>1, <4>4 DEF AgreesOnJob
      <4>7. step \in {"readCommand", "verifyCommand"} => reply.value \in Word
        BY <1>0, <4>4 DEF TypeOK
      <4> QED BY <1>1, <4>1, <4>3, <4>5, <4>6, <4>7
    <3> QED BY <1>8, <3>1, <3>2
  <2>2. \A i \in 1..Len(inbox') : waiting' /\ inbox'[i].own =>
               /\ step' = "readControl" => inbox'[i].value \in Control
               /\ step' \in {"readCommand", "verifyCommand"} => inbox'[i].value \in Word
               /\ step' = "readCommand" => Agrees(inbox[i].value)'
               /\ step' = "verifyCommand" => AgreesOnJob(inbox[i].value)'
    BY <2>1
  <2> QED BY <1>1, <2>2, ShorterContent DEF ContentInv, set_output_bit
<1> QED BY <1>6, <1>9, <1>10, <1>11, <1>12, <1>13 DEF PlcInv

\* What the clock, the PLC program and the HMI do leaves the stream alone.
LEMMA OutsideStream ==
  ASSUME PlcInv, UNCHANGED <<inbox, outbox, connected, txn, waiting, step>>
  PROVE  StreamTypeOK' /\ StreamInv'
<1>1. StreamTypeOK'
  BY DEF PlcInv, StreamTypeOK
<1>2. Open'
  BY DEF PlcInv, StreamInv, Open, Unanswered
<1>3. StreamInv'
  BY <1>2 DEF PlcInv, StreamInv, Leftover
<1> QED BY <1>1, <1>3

\* Another master writes a register: what it changes is no longer confirmed.
LEMMA HmiWriteInv ==
  ASSUME PlcInv, HmiWrite
  PROVE  PlcInv'
<1>0. TypeOK /\ StreamTypeOK /\ StreamInv /\ ContentInv /\ CommandInv /\ VerifiedOutputHolds
  BY DEF PlcInv
<1>1. /\ UNCHANGED <<inbox, outbox, connected, txn, waiting, step, job, local, localControl, tries,
                     answer, age, backoff, message, output>>
  BY DEF HmiWrite, streamVars, localVars, nodeVars
<1>2. budget' \in [Event -> Nat]
  BY <1>0, SpendBudget DEF HmiWrite, Event
<1>3. job.bit \in Bits /\ command \in Word /\ control \in Control
      /\ verified \in [Bits -> {"unknown", "disturbed", "on", "off"}]
  BY <1>0 DEF TypeOK, Job
<1>4. /\ control' \in Control /\ command' \in Word
      /\ verified' \in [Bits -> {"unknown", "disturbed", "on", "off"}]
      /\ \A b \in Bits : verified'[b] = "disturbed"
                          \/ (verified'[b] = verified[b] /\ command'[b] = command[b])
  <2>1. CASE control' \in Control /\ UNCHANGED <<command, verified>>
    BY <1>3, <2>1
  <2>2. CASE /\ \E c \in Bits : /\ command' = [command EXCEPT ![c] = ~@]
                               /\ verified' = [verified EXCEPT ![c] = "disturbed"]
             /\ UNCHANGED control
    <3>0. PICK c \in Bits : /\ command' = [command EXCEPT ![c] = ~@]
                            /\ verified' = [verified EXCEPT ![c] = "disturbed"]
      BY <2>2
    <3>1. command' \in Word
      BY <1>3, <3>0 DEF Word
    <3>2. \A b \in Bits : b # c => command'[b] = command[b] /\ verified'[b] = verified[b]
      BY <1>3, <3>0 DEF Word
    <3> QED BY <1>3, <2>2, <3>0, <3>1, <3>2
  <2> QED BY <1>3, <2>1, <2>2 DEF HmiWrite
<1>5. TypeOK'
  BY <1>0, <1>1, <1>2, <1>4 DEF TypeOK
<1>6. StreamTypeOK' /\ StreamInv'
  BY <1>1, OutsideStream
<1>7. \A w : Agrees(w) => \A b \in Bits :
        verified'[b] \in {"on", "off"} => Value(w[b]) = verified'[b]
  BY <1>4 DEF Agrees
<1>8. \A w : AgreesOnJob(w) => verified'[job.bit] = "disturbed" \/ w[job.bit] = command'[job.bit]
  BY <1>3, <1>4 DEF AgreesOnJob
<1>9. ContentInv'
  <2>1. ASSUME NEW i \in 1..Len(inbox), waiting, inbox[i].own
        PROVE  /\ step = "readControl" => inbox[i].value \in Control
               /\ step \in {"readCommand", "verifyCommand"} => inbox[i].value \in Word
               /\ step = "readCommand" => Agrees(inbox[i].value)'
               /\ step = "verifyCommand" => AgreesOnJob(inbox[i].value)'
    <3>1. /\ step = "readControl" => inbox[i].value \in Control
          /\ step \in {"readCommand", "verifyCommand"} => inbox[i].value \in Word
          /\ step = "readCommand" => Agrees(inbox[i].value)
          /\ step = "verifyCommand" => AgreesOnJob(inbox[i].value)
      BY <1>0, <2>1 DEF ContentInv
    <3>2. step = "readCommand" => Agrees(inbox[i].value)'
      BY <1>1, <1>7, <3>1 DEF Agrees
    <3>3. step = "verifyCommand" => AgreesOnJob(inbox[i].value)'
      BY <1>1, <1>8, <3>1 DEF AgreesOnJob
    <3> QED BY <3>1, <3>2, <3>3
  <2>2. \A i \in 1..Len(outbox) : outbox[i].live =>
          /\ outbox[i].fn = "write" /\ outbox[i].reg = "command" =>
               /\ waiting /\ step = "writeCommand"
               /\ outbox[i].value = set_output_bit(local, job.bit, job.enabled)
          /\ waiting /\ outbox[i].own =>
               /\ step = "readControl" => outbox[i].fn = "read" /\ outbox[i].reg = "control"
               /\ step \in {"readCommand", "verifyCommand"} =>
                    outbox[i].fn = "read" /\ outbox[i].reg = "command"
    BY <1>0 DEF ContentInv
  <2> QED BY <1>1, <2>1, <2>2 DEF ContentInv, set_output_bit
<1>10. CommandInv'
  <2>1. step' = "writeCommand" => Agrees(local)'
    BY <1>0, <1>1, <1>7 DEF CommandInv, Agrees
  <2>2. step' = "verifyStatus" => AgreesOnJob(local)'
    BY <1>0, <1>1, <1>8 DEF CommandInv, AgreesOnJob
  <2>3. verified'[job.bit] \in {verified[job.bit], "disturbed"}
    BY <1>3, <1>4
  <2> QED BY <1>0, <1>1, <2>1, <2>2, <2>3 DEF CommandInv, Service
<1>11. VerifiedOutputHolds'
  BY <1>0, <1>4 DEF VerifiedOutputHolds
<1> QED BY <1>5, <1>6, <1>9, <1>10, <1>11 DEF PlcInv

\* The PLC program, the clock and a stuttering step change nothing the invariant is about.
LEMMA OutsideInv ==
  ASSUME PlcInv, Scan \/ Tick \/ UNCHANGED vars
  PROVE  PlcInv'
<1>0. TypeOK /\ StreamTypeOK /\ StreamInv /\ ContentInv /\ CommandInv /\ VerifiedOutputHolds
  BY DEF PlcInv
<1>1. UNCHANGED <<inbox, outbox, connected, txn, waiting, step, job, local, localControl, tries,
                  answer, message, control, command, verified, budget>>
  BY DEF Scan, Tick, vars, streamVars, localVars, nodeVars, plcVars
<1>2. output' \in Word /\ age' \in {"none", "recent", "old"} /\ backoff' \in BOOLEAN
  <2>1. CASE Scan
    BY <1>0, <2>1 DEF Scan, TypeOK, nodeVars
  <2>2. CASE Tick
    <3>1. backoff' \in BOOLEAN
      BY <2>2 DEF Tick
    <3> QED BY <1>0, <2>2, <3>1 DEF Tick, TypeOK, plcVars
  <2>3. CASE UNCHANGED vars
    BY <1>0, <2>3 DEF TypeOK, vars, nodeVars, plcVars
  <2> QED BY <2>1, <2>2, <2>3
<1>3. TypeOK'
  BY <1>0, <1>1, <1>2 DEF TypeOK
<1>4. StreamTypeOK' /\ StreamInv'
  BY <1>1, OutsideStream
<1>5. ContentInv'
  BY <1>0, <1>1 DEF ContentInv, Agrees, AgreesOnJob
<1>6. CommandInv' /\ VerifiedOutputHolds'
  BY <1>0, <1>1 DEF CommandInv, VerifiedOutputHolds, Service, Agrees, AgreesOnJob
<1> QED BY <1>3, <1>4, <1>5, <1>6 DEF PlcInv

-----------------------------------------------------------------------------
(* The callbacks outside an exchange.                                      *)

\* A job without an output.
LEMMA TaskType ==
  ASSUME NEW k \in {"none", "poll", "service"}
  PROVE  Task(k) \in Job /\ Task(k).kind = k
<1>1. (CHOOSE b \in Bits : TRUE) \in Bits
  BY PlcAssumption
<1> QED BY <1>1 DEF Task, Job

\* A callback starts, or the node is destroyed.
LEMMA StartInv ==
  ASSUME PlcInv, StartPoll \/ StartService \/ Destroy
  PROVE  PlcInv'
<1>0. TypeOK /\ StreamTypeOK /\ StreamInv /\ ContentInv /\ CommandInv /\ VerifiedOutputHolds
  BY DEF PlcInv
<1>1. /\ step = "rest" /\ waiting = FALSE /\ step # "readIo"
  BY NotWaiting DEF StartPoll, StartService, Destroy, ExchangeStep, RepairStep, CommandStep
<1>2. /\ UNCHANGED <<waiting, local, localControl, tries, answer, age, backoff, message, control,
                     command, output>>
      /\ step' \in {"connect", "destroyed"} /\ step' \in Step /\ step' \notin ExchangeStep
      /\ step' \notin RepairStep \cup CommandStep
  BY DEF StartPoll, StartService, Destroy, localVars, nodeVars, plcVars, Step, ExchangeStep,
     RepairStep, CommandStep
<1>3. CASE StartPoll \/ StartService
  <2>1. /\ UNCHANGED <<inbox, outbox, connected, txn>> /\ step' = "connect"
    BY <1>3 DEF StartPoll, StartService, streamVars
  <2>2. StreamTypeOK' /\ StreamInv' /\ ContentInv'
    BY <1>1, <1>2, <2>1, RestStream
  <2>3. CASE StartPoll
    <3>1. job' \in Job /\ job'.kind = "poll" /\ UNCHANGED <<verified, budget>>
      BY <2>3, TaskType DEF StartPoll
    <3>2. TypeOK'
      BY <1>0, <1>2, <2>1, <3>1 DEF TypeOK
    <3>3. CommandInv' /\ VerifiedOutputHolds'
      BY <1>0, <1>2, <2>1, <3>1 DEF CommandInv, VerifiedOutputHolds, Service
    <3> QED BY <2>2, <3>2, <3>3 DEF PlcInv
  <2>4. CASE StartService
    <3>1. PICK b \in Bits, v \in BOOLEAN :
            /\ job' = [kind |-> "service", bit |-> b, enabled |-> v]
            /\ verified' = [verified EXCEPT ![b] = "unknown"]
      BY <2>4 DEF StartService
    <3>2. job' \in Job /\ job'.bit = b
      BY <3>1 DEF Job
    <3>3. budget' \in [Event -> Nat]
      BY <1>0, <2>4, SpendBudget DEF StartService, Event
    <3>4. /\ verified' \in [Bits -> {"unknown", "disturbed", "on", "off"}]
          /\ verified'[b] = "unknown" /\ \A c \in Bits : c # b => verified'[c] = verified[c]
      BY <1>0, <3>1 DEF TypeOK
    <3>5. TypeOK'
      BY <1>0, <1>2, <2>1, <3>2, <3>3, <3>4 DEF TypeOK
    <3>6. CommandInv'
      BY <1>2, <2>1, <3>2, <3>4 DEF CommandInv
    <3>7. VerifiedOutputHolds'
      BY <1>0, <1>2, <3>4 DEF VerifiedOutputHolds
    <3> QED BY <2>2, <3>5, <3>6, <3>7 DEF PlcInv
  <2> QED BY <1>3, <2>3, <2>4
<1>4. CASE Destroy
  <2>1. Close /\ step' = "destroyed" /\ UNCHANGED <<job, verified, budget>>
    BY <1>4 DEF Destroy
  <2>2. StreamTypeOK' /\ Unanswered' /\ connected' = FALSE /\ txn' = txn
    BY <1>0, <2>1, CloseStream
  <2>3. StreamInv' /\ ContentInv'
    BY <1>1, <1>2, <2>2, CleanStream
  <2>4. connected' \in BOOLEAN
    BY <2>2
  <2>5. TypeOK'
    BY <1>0, <1>2, <2>1, <2>2, <2>4 DEF TypeOK
  <2>6. CommandInv' /\ VerifiedOutputHolds'
    BY <1>0, <1>2, <2>1 DEF CommandInv, VerifiedOutputHolds
  <2> QED BY <2>2, <2>3, <2>5, <2>6 DEF PlcInv
<1> QED BY <1>3, <1>4

\* The connection is kept, made, or not to be had.
LEMMA EnsureClientInv ==
  ASSUME PlcInv, EnsureClient
  PROVE  PlcInv'
<1>0. TypeOK /\ StreamTypeOK /\ StreamInv /\ ContentInv /\ CommandInv /\ VerifiedOutputHolds
  BY DEF PlcInv
<1>1. step = "connect" /\ waiting = FALSE /\ Unanswered
  BY NotWaiting DEF EnsureClient, ExchangeStep, RepairStep, CommandStep
<1>2. /\ UNCHANGED <<inbox, outbox, job, waiting, local, localControl, tries, age, message, control,
                     command, output, verified>>
      /\ step' \in {"readControl", "publish"} /\ answer' \in {answer, "failed"}
      /\ step' = "readControl" => connected' = TRUE
  BY <1>0 DEF EnsureClient, localVars, plcVars, streamVars, TypeOK
<1>3. connected' \in BOOLEAN /\ backoff' \in BOOLEAN
  BY <1>0 DEF EnsureClient, streamVars, TypeOK
<1>4. txn' \in 0..(IdModulus - 1)
  BY <1>0, PlcAssumption DEF EnsureClient, streamVars, TypeOK
<1>5. budget' \in [Event -> Nat]
  BY <1>0, SpendBudget DEF EnsureClient, TypeOK, Event
<1>6. TypeOK'
  BY <1>0, <1>2, <1>3, <1>4, <1>5 DEF TypeOK, Step, ExchangeStep, RepairStep
<1>7. StreamTypeOK' /\ Unanswered'
  BY <1>0, <1>1, <1>2 DEF StreamTypeOK, Unanswered
<1>8. StreamInv' /\ ContentInv'
  BY <1>1, <1>2, <1>7, CleanStream DEF ExchangeStep, RepairStep, CommandStep
<1>9. CommandInv' /\ VerifiedOutputHolds'
  BY <1>0, <1>1, <1>2 DEF CommandInv, VerifiedOutputHolds, Service, RepairStep, CommandStep
<1> QED BY <1>6, <1>7, <1>8, <1>9 DEF PlcInv

\* The state is published and the callback returns.
LEMMA PublishInv ==
  ASSUME PlcInv, Publish
  PROVE  PlcInv'
<1>0. TypeOK /\ StreamTypeOK /\ StreamInv /\ ContentInv /\ CommandInv /\ VerifiedOutputHolds
  BY DEF PlcInv
<1>1. step = "publish" /\ waiting = FALSE /\ step # "readIo"
  BY NotWaiting DEF Publish, ExchangeStep, RepairStep, CommandStep
<1>2. /\ UNCHANGED <<inbox, outbox, connected, txn, waiting, age, backoff, control, command, output,
                     verified, budget>>
      /\ step' = "rest" /\ tries' = 0 /\ answer' = "none" /\ local' = Off
  BY DEF Publish, streamVars, plcVars
<1>3. message' \in [connected : BOOLEAN, fresh : BOOLEAN]
  <2>1. (connected /\ state_is_fresh) \in BOOLEAN /\ connected \in BOOLEAN
    BY <1>0 DEF TypeOK
  <2> QED BY <2>1 DEF Publish, plc_state_message
<1>4. local' \in Word /\ localControl' \in Control /\ job' \in Job /\ job'.kind = "none"
  BY <1>2, TaskType DEF Publish, Off, Word, Control
<1>5. tries' \in 0..VerifyTries /\ step' \in Step /\ step' \notin ExchangeStep
  BY <1>2, PlcAssumption DEF Step, ExchangeStep, RepairStep, CommandStep
<1>6. TypeOK'
  BY <1>0, <1>2, <1>3, <1>4, <1>5 DEF TypeOK
<1>7. StreamTypeOK' /\ StreamInv' /\ ContentInv'
  BY <1>1, <1>2, <1>5, RestStream
<1>8. CommandInv' /\ VerifiedOutputHolds'
  BY <1>0, <1>2, <1>4 DEF CommandInv, VerifiedOutputHolds, Service, CommandStep
<1> QED BY <1>6, <1>7, <1>8 DEF PlcInv

-----------------------------------------------------------------------------
(* The theorems.                                                           *)

\* The invariant holds before the first callback.
LEMMA PlcInit ==
  ASSUME Init
  PROVE  PlcInv
<1>1. connected \in BOOLEAN /\ waiting \in BOOLEAN /\ backoff \in BOOLEAN
  BY DEF Init
<1>2. local \in Word /\ localControl \in Control /\ command \in Word /\ output \in Word
  BY DEF Init, Off, Word, Control
<1>3. job \in Job
  BY TaskType DEF Init
<1>4. TypeOK
  BY <1>1, <1>2, <1>3, PlcAssumption DEF Init, TypeOK, Step
<1>5. StreamTypeOK /\ StreamInv /\ ContentInv
  BY DEF Init, StreamTypeOK, StreamInv, ContentInv, Open, Unanswered, ExchangeStep, RepairStep,
     CommandStep
<1>6. CommandInv /\ VerifiedOutputHolds
  BY DEF Init, CommandInv, VerifiedOutputHolds, CommandStep, RepairStep
<1> QED BY <1>4, <1>5, <1>6 DEF PlcInv

\* The inductive invariant of the stream, the callbacks and the PLC.
THEOREM PlcInvariant == Spec => []PlcInv
<1>1. Init => PlcInv
  BY PlcInit
<1>2. PlcInv /\ [Next]_vars => PlcInv'
  BY StartInv, EnsureClientInv, PublishInv, SendInv, ReceiveInv, ReceiveTimeoutInv, ServeInv,
     ForgetInv, HmiWriteInv, OutsideInv
  DEF Next, Node, Plc
<1> QED BY <1>1, <1>2, PTL DEF Spec

\* The bridge, the PLC and the words they exchange keep their types.
THEOREM PlcTypeCorrect == Spec => []TypeOK
<1>1. PlcInv => TypeOK
  BY DEF PlcInv
<1> QED BY <1>1, PlcInvariant, PTL

\* _request(): for any id modulus above two, however many replies are lost or late, the reply
\* that carries the pending id is the answer to the pending request.
THEOREM ReplyIsToRequest == Spec => []ReplyMatchesRequest
<1>1. PlcInv => ReplyMatchesRequest
  <2> SUFFICES ASSUME PlcInv, NEW i \in DOMAIN inbox, waiting, Accepts(inbox[i])
               PROVE  inbox[i].own
    BY DEF ReplyMatchesRequest
  <2>1. i \in 1..Len(inbox)
    BY DEF PlcInv, StreamTypeOK
  <2> QED BY <2>1, AcceptedIsOwn DEF PlcInv, Accepts
<1> QED BY <1>1, PlcInvariant, PTL

\* Between callbacks an open connection has nothing under way.
THEOREM StreamStaysClean == Spec => []StreamClean
<1>1. PlcInv => StreamClean
  BY NotWaiting DEF StreamClean, ExchangeStep, RepairStep, CommandStep
<1> QED BY <1>1, PlcInvariant, PTL

\* write_output_bit(): a confirmed output stays commanded while any number of other services
\* run, for any set of outputs.
THEOREM ConfirmedOutputHolds == Spec => []VerifiedOutputHolds
<1>1. PlcInv => VerifiedOutputHolds
  BY DEF PlcInv
<1> QED BY <1>1, PlcInvariant, PTL

=============================================================================
