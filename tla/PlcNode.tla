------------------------------ MODULE PlcNode ------------------------------
(***************************************************************************)
(* The PLC bridge: a single-threaded ROS node that polls a PLC over Modbus *)
(* TCP and switches its outputs on request.  Every callback is a sequence  *)
(* of Modbus exchanges on one connection; between two exchanges, and while *)
(* a reply is awaited, the PLC scans, another master (the HMI) may write   *)
(* the same registers, and the clock runs.                                 *)
(*                                                                         *)
(* A request is [id, fn, reg, value, own, live]: own marks the latest one  *)
(* sent, live one whose connection is still open.  The PLC may execute a   *)
(* request of a closed connection late, or never.                          *)
(*                                                                         *)
(* An operator that stands just before another one and is used nowhere is  *)
(* a mutated form of it: a bug the properties are shown to catch.          *)
(***************************************************************************)
EXTENDS Naturals, Sequences

CONSTANTS
  Bits,         \* the outputs: solenoids and vacuum pump
  IdModulus,    \* transaction ids count modulo this (2^16 in the code)
  VerifyTries,  \* readbacks within write_verify_timeout_s after the first one
  Limit         \* how often each environment event may happen

Event == {"call", "hmi", "mishap"}

ASSUME PlcAssumption == /\ Bits # {}
                        /\ IdModulus \in Nat /\ IdModulus > 2
                        /\ VerifyTries \in Nat
                        /\ Limit \in [Event -> Nat]

RepairStep   == {"readControl", "writeControl", "confirmControl"}
CommandStep  == {"readCommand", "writeCommand", "verifyCommand", "verifyStatus"}
ExchangeStep == RepairStep \cup CommandStep \cup {"readIo"}
Step         == ExchangeStep \cup {"rest", "connect", "publish", "destroyed"}

Word    == [Bits -> BOOLEAN]
Control == [remote : BOOLEAN, other : BOOLEAN]
Job     == [kind : {"none", "poll", "service"}, bit : Bits, enabled : BOOLEAN]
Task(k) == [kind |-> k, bit |-> CHOOSE b \in Bits : TRUE, enabled |-> FALSE]

VARIABLES
  connected, txn, inbox, outbox,            \* the Modbus client and its stream
  job, step, waiting, local, localControl,  \* the callback in progress
  tries, answer,
  age, backoff, message,                    \* age of the last state read; publication
  control, command, output,                 \* registers MW201, MW200 and MW211
  verified,                                 \* per bit: what was last confirmed
  budget

streamVars == <<connected, txn, inbox, outbox>>
nodeVars   == <<age, backoff, message>>
plcVars    == <<control, command, output>>
localVars  == <<local, localControl, tries>>
vars == <<streamVars, job, step, waiting, localVars, answer, nodeVars, plcVars,
          verified, budget>>

Off == [b \in Bits |-> FALSE]

TypeOK ==
  /\ connected \in BOOLEAN /\ waiting \in BOOLEAN
  /\ txn \in 0..(IdModulus - 1)
  /\ job \in Job /\ step \in Step
  /\ local \in Word /\ localControl \in Control /\ tries \in 0..VerifyTries
  /\ answer \in {"none", "ok", "failed"}
  /\ age \in {"none", "recent", "old"}
  /\ backoff \in BOOLEAN
  /\ message \in [connected : BOOLEAN, fresh : BOOLEAN]
  /\ control \in Control /\ command \in Word /\ output \in Word
  /\ verified \in [Bits -> {"unknown", "disturbed", "on", "off"}]
  /\ budget \in [Event -> Nat]

Init ==
  /\ connected = FALSE /\ txn = 0 /\ inbox = <<>> /\ outbox = <<>>
  /\ job = Task("none") /\ step = "rest" /\ waiting = FALSE
  /\ local = Off /\ localControl = [remote |-> FALSE, other |-> FALSE]
  /\ tries = 0 /\ answer = "none"
  /\ age = "none" /\ backoff = FALSE
  /\ message = [connected |-> FALSE, fresh |-> FALSE]
  /\ control \in {c \in Control : c.other} /\ command = Off /\ output = Off
  /\ verified = [b \in Bits |-> "unknown"]
  /\ budget = Limit

Spend(e) == budget[e] > 0 /\ budget' = [budget EXCEPT ![e] = @ - 1]
Value(v) == IF v THEN "on" ELSE "off"

-----------------------------------------------------------------------------
(* plc_logic: the words that are written.                                  *)

enable_remote_control_word(c) == [c EXCEPT !.remote = TRUE]

set_output_bit_alone(w, b, v) == [x \in Bits |-> IF x = b THEN v ELSE FALSE]
set_output_bit(w, b, v)       == [w EXCEPT ![b] = v]

output_matches(c, s, b, v) == c[b] = v /\ s[b] = v

Service == job.kind = "service"

\* The request each step sends.
Operation ==
  CASE step = "writeControl" ->
         [fn |-> "write", reg |-> "control",
          value |-> enable_remote_control_word(localControl)]
    [] step = "writeCommand" ->
         [fn |-> "write", reg |-> "command",
          value |-> set_output_bit(local, job.bit, job.enabled)]
    [] step \in {"readControl", "confirmControl"} ->
         [fn |-> "read", reg |-> "control", value |-> 0]
    [] step \in {"readCommand", "verifyCommand"} ->
         [fn |-> "read", reg |-> "command", value |-> 0]
    [] OTHER -> [fn |-> "read", reg |-> "output", value |-> 0]

-----------------------------------------------------------------------------
(* Callbacks start from rest: the executor runs one at a time.             *)

StartPoll ==
  /\ step = "rest"
  /\ job' = Task("poll") /\ step' = "connect"
  /\ UNCHANGED <<streamVars, waiting, localVars, answer, nodeVars, plcVars, verified,
                 budget>>

StartService ==
  /\ step = "rest" /\ Spend("call")
  /\ \E b \in Bits, v \in BOOLEAN :
       /\ job' = [kind |-> "service", bit |-> b, enabled |-> v]
       /\ verified' = [verified EXCEPT ![b] = "unknown"]
  /\ step' = "connect"
  /\ UNCHANGED <<streamVars, waiting, localVars, answer, nodeVars, plcVars>>

\* close(): replies on the way are lost with the connection, requests may be executed.
Close ==
  /\ connected' = FALSE
  /\ inbox' = <<>>
  /\ outbox' = [i \in DOMAIN outbox |-> [outbox[i] EXCEPT !.live = FALSE]]
  /\ UNCHANGED txn

Destroy ==
  /\ step = "rest"
  /\ step' = "destroyed" /\ Close
  /\ UNCHANGED <<job, waiting, localVars, answer, nodeVars, plcVars, verified, budget>>

\* _ensure_client_locked(): keep the connection, respect the reconnect period (polls
\* only), or try to connect; a new client counts transactions from zero.
EnsureClient ==
  /\ step = "connect"
  /\ \/ /\ connected
        /\ step' = "readControl"
        /\ UNCHANGED <<streamVars, answer, backoff, budget>>
     \/ /\ ~connected /\ ~Service /\ backoff
        /\ step' = "publish"
        /\ UNCHANGED <<streamVars, answer, backoff, budget>>
     \/ /\ ~connected /\ (Service \/ ~backoff)
        /\ backoff' = TRUE
        /\ \/ /\ connected' = TRUE /\ txn' = 0
              /\ step' = "readControl"
              /\ UNCHANGED <<inbox, outbox, answer, budget>>
           \/ /\ Spend("mishap")
              /\ step' = "publish"
              /\ answer' = IF Service THEN "failed" ELSE answer
              /\ UNCHANGED streamVars
  /\ UNCHANGED <<job, waiting, localVars, age, message, plcVars, verified>>

state_is_fresh == age = "recent"
plc_state_message(data_fresh) == [connected |-> connected, fresh |-> data_fresh]

\* _publish_state_locked(), and the callback returns (its answer and locals with it).
Publish ==
  /\ step = "publish"
  /\ message' = plc_state_message(connected /\ state_is_fresh)
  /\ step' = "rest" /\ job' = Task("none")
  /\ local' = Off /\ tries' = 0 /\ answer' = "none"
  /\ localControl' = [remote |-> FALSE, other |-> FALSE]
  /\ UNCHANGED <<streamVars, waiting, age, backoff, plcVars, verified, budget>>

-----------------------------------------------------------------------------
(* One exchange: _request() sends, then waits for a reply or a timeout.    *)

NextIdUnwrapped(id) == id + 1
NextId(id)          == (id + 1) % IdModulus

Stale(q) == [i \in DOMAIN q |-> [q[i] EXCEPT !.own = FALSE]]

Send ==
  LET id == NextId(txn)
      op == Operation
  IN  /\ step \in ExchangeStep /\ ~waiting
      /\ waiting' = TRUE
      /\ txn' = id
      /\ inbox' = Stale(inbox)
      /\ outbox' = Append(Stale(outbox),
                     [id |-> id, fn |-> op.fn, reg |-> op.reg, value |-> op.value,
                      own |-> TRUE, live |-> TRUE])
      /\ UNCHANGED <<connected, job, step, localVars, answer, nodeVars, plcVars,
                     verified, budget>>

\* The reply is taken for the answer to the pending request.
AcceptsAnyId(r) == TRUE
Accepts(r)      == r.id = txn

Repaired == IF Service THEN "readCommand" ELSE "readIo"

\* A register readback that disagrees: reported, the connection stays.
ControlError ==
  /\ step' = IF Service THEN "publish" ELSE "readIo"
  /\ answer' = IF Service THEN "failed" ELSE answer

\* A lost, late, foreign or exception reply: a poll that fails while repairing goes on
\* to read the state on the same connection; everything else closes it.
KeepsStream == ~Service /\ step \in RepairStep
CommFailureKeptOpen(rest) ==
  /\ step' = IF KeepsStream THEN "readIo" ELSE "publish"
  /\ inbox' = rest
  /\ answer' = IF Service THEN "failed" ELSE answer
  /\ UNCHANGED <<connected, txn, outbox, localVars, age, verified>>
CommFailure(rest) ==
  /\ IF KeepsStream
       THEN /\ step' = "readIo" /\ inbox' = rest
            /\ UNCHANGED <<connected, txn, outbox>>
       ELSE step' = "publish" /\ Close
  /\ answer' = IF Service THEN "failed" ELSE answer
  /\ UNCHANGED <<localVars, age, verified>>

NeedsRepairNever(c) == FALSE
NeedsRepair(c)      == ~c.remote

\* What the accepted value v does at each step.
TakeValue(v) ==
  \/ /\ step = "readControl"
     /\ localControl' = IF NeedsRepair(v) THEN v ELSE localControl
     /\ step' = IF NeedsRepair(v) THEN "writeControl" ELSE Repaired
     /\ UNCHANGED <<answer, local, tries, age, verified>>
  \/ /\ step = "writeControl" /\ step' = "confirmControl"
     /\ UNCHANGED <<answer, localVars, age, verified>>
  \/ /\ step = "confirmControl"
     /\ IF v = enable_remote_control_word(localControl)
          THEN step' = Repaired /\ UNCHANGED answer
          ELSE ControlError
     /\ UNCHANGED <<localVars, age, verified>>
  \/ /\ step \in {"readCommand", "verifyCommand"}
     /\ local' = v
     /\ step' = IF step = "readCommand" THEN "writeCommand" ELSE "verifyStatus"
     /\ UNCHANGED <<answer, localControl, tries, age, verified>>
  \/ /\ step = "writeCommand" /\ step' = "verifyCommand"
     /\ UNCHANGED <<answer, localVars, age, verified>>
  \/ /\ step = "verifyStatus"
     /\ \/ /\ output_matches(local, v, job.bit, job.enabled)
           /\ step' = "publish" /\ answer' = "ok"
           /\ verified' = IF verified[job.bit] = "disturbed" THEN verified
                          ELSE [verified EXCEPT ![job.bit] = Value(job.enabled)]
           /\ UNCHANGED tries
        \/ /\ ~output_matches(local, v, job.bit, job.enabled)
           /\ IF tries < VerifyTries
                THEN step' = "verifyCommand" /\ tries' = tries + 1 /\ UNCHANGED answer
                ELSE ControlError /\ UNCHANGED tries
           /\ UNCHANGED verified
     /\ UNCHANGED <<local, localControl, age>>
  \/ /\ step = "readIo"
     /\ age' = "recent"
     /\ step' = "publish"
     /\ UNCHANGED <<answer, localVars, verified>>

Receive ==
  LET r == Head(inbox)
  IN  /\ waiting /\ inbox # <<>>
      /\ waiting' = FALSE
      /\ IF Accepts(r) /\ r.ok
           THEN /\ inbox' = Tail(inbox)
                /\ TakeValue(r.value)
                /\ UNCHANGED <<connected, txn, outbox>>
           ELSE CommFailure(Tail(inbox))
      /\ UNCHANGED <<job, backoff, message, plcVars, budget>>

\* recv() times out, early or because no reply is to come, or the peer closes.
Unanswered == inbox = <<>> /\ \A i \in DOMAIN outbox : ~outbox[i].live
ReceiveTimeout ==
  /\ waiting
  /\ IF Unanswered THEN UNCHANGED budget ELSE Spend("mishap")
  /\ waiting' = FALSE
  /\ CommFailure(inbox)
  /\ UNCHANGED <<job, backoff, message, plcVars>>

-----------------------------------------------------------------------------
(* The PLC, the HMI and the clock.                                         *)

Register(reg) == CASE reg = "control" -> control
                   [] reg = "command" -> command
                   [] OTHER -> output

\* The PLC executes the oldest request, or refuses it with a Modbus exception.
Serve(ok) ==
  LET q     == Head(outbox)
      write == ok /\ q.fn = "write"
      reply == [id |-> q.id, own |-> q.own, ok |-> ok,
                value |-> IF q.fn = "read" THEN Register(q.reg) ELSE q.value]
  IN  /\ outbox # <<>>
      /\ outbox' = Tail(outbox)
      /\ control' = IF write /\ q.reg = "control" THEN q.value ELSE control
      /\ command' = IF write /\ q.reg = "command" THEN q.value ELSE command
      /\ verified' = IF write /\ q.reg = "command" /\ ~q.live
                       THEN [b \in Bits |-> "disturbed"] ELSE verified
      /\ inbox' = IF q.live THEN Append(inbox, reply) ELSE inbox
      /\ IF ok THEN UNCHANGED budget ELSE Spend("mishap")
      /\ UNCHANGED <<connected, txn, job, step, waiting, localVars, answer, nodeVars,
                     output>>

\* A request the PLC never executes: lost with its connection or in an overload.
Forget ==
  /\ outbox # <<>>
  /\ IF Head(outbox).live THEN Spend("mishap") ELSE UNCHANGED budget
  /\ outbox' = Tail(outbox)
  /\ UNCHANGED <<connected, txn, inbox, job, step, waiting, localVars, answer, nodeVars,
                 plcVars, verified>>

\* The PLC program drives the outputs from the command word under remote control.
Scan ==
  /\ control.remote
  /\ output' = command
  /\ UNCHANGED <<streamVars, job, step, waiting, localVars, answer, nodeVars, control,
                 command, verified, budget>>

HmiWrite ==
  /\ Spend("hmi")
  /\ \/ /\ \E c \in Control : c # control /\ control' = c
        /\ UNCHANGED <<command, verified>>
     \/ /\ \E b \in Bits :
             /\ command' = [command EXCEPT ![b] = ~@]
             /\ verified' = [verified EXCEPT ![b] = "disturbed"]
        /\ UNCHANGED control
  /\ UNCHANGED <<streamVars, job, step, waiting, localVars, answer, nodeVars, output>>

Tick ==
  /\ age = "recent" \/ backoff
  /\ age' = IF age = "recent" THEN "old" ELSE age
  /\ backoff' = FALSE
  /\ UNCHANGED <<streamVars, job, step, waiting, localVars, answer, message,
                 plcVars, verified, budget>>

-----------------------------------------------------------------------------
Node == StartPoll \/ EnsureClient \/ Publish \/ Send \/ Receive \/ ReceiveTimeout
Plc  == \E ok \in BOOLEAN : Serve(ok)

Next == Node \/ StartService \/ Destroy \/ Plc \/ Forget \/ Scan \/ HmiWrite \/ Tick

Spec == Init /\ [][Next]_vars

\* The poll timer and the callbacks run, the PLC answers what it does not lose, and
\* the reconnect period ends; no caller, loss, HMI write or shutdown is obliged.
FairSpec ==
  Spec /\ WF_vars(Node)
       /\ WF_vars(Serve(TRUE)) /\ WF_vars(Tick)

-----------------------------------------------------------------------------
\* _request(): a reply is only ever taken for the answer to the request that is
\* pending, although replies may come after their timeout and ids wrap around.
ReplyMatchesRequest ==
  \A i \in DOMAIN inbox : waiting /\ Accepts(inbox[i]) => inbox[i].own

\* _poll_once() and the services leave the connection in step: between callbacks an
\* open connection has no request or reply under way that a later one could meet.
StreamClean ==
  step = "rest" /\ connected => Unanswered

\* write_output_bit(): what one service confirmed stays commanded while others run, up
\* to a write by the HMI or a late one from a connection that was given up.
VerifiedOutputHolds ==
  \A b \in Bits : verified[b] \in {"on", "off"} => Value(command[b]) = verified[b]

\* repair_remote_control(): whenever remote control is off, polling turns it on again,
\* or the node is shut down.
RemoteControlRestored ==
  (~control.remote) ~> (control.remote \/ step = "destroyed")

=============================================================================
