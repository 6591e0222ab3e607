---------------------------- MODULE Transaction -----------------------------
(***************************************************************************)
(* What the nanomodbus client promises its caller.  A call ends with a     *)
(* result.  A request that was sent is carried out by the device at most   *)
(* once, possibly after the call has given up on it.  A call that succeeds *)
(* hands out one whole answer of the device; when nothing of an earlier    *)
(* call was under way, that answer is the answer to this request.          *)
(***************************************************************************)
EXTENDS ModbusFrames

CONSTANTS
  Requests,    \* requests a caller may make
  Addresses,   \* registers the device has
  MaxRequests  \* bound: calls

VARIABLES
  phase,       \* of the call: "idle", "busy", "sent", "done"
  req,         \* its request
  registers,   \* the registers it hands out
  err,         \* its result
  quiet,       \* nothing of an earlier call was under way when it began
  device,      \* contents of the registers of the device
  inbox,       \* requests on their way to the device
  answers,     \* answers the device has given
  calls        \* number of calls so far

vars == <<phase, req, registers, err, quiet, device, inbox, answers, calls>>

Errors == {"TIMEOUT", "TRANSPORT", "CRC", "INVALID_UNIT_ID", "INVALID_RESPONSE", "EXCEPTION"}

Init ==
  /\ phase = "idle"
  /\ req = NoRequest
  /\ registers = <<>>
  /\ err = "NONE"
  /\ quiet = TRUE
  /\ device = [a \in Addresses |-> put_2(0)]
  /\ inbox = <<>>
  /\ answers = {}
  /\ calls = 0

Request(r) ==
  /\ phase = "idle"
  /\ calls < MaxRequests
  /\ calls' = calls + 1
  /\ req' = r
  /\ registers' = <<>>
  /\ IF ArgumentsOK(r) THEN phase' = "busy" /\ err' = "NONE"
                       ELSE phase' = "done" /\ err' = "INVALID_ARGUMENT"
  /\ UNCHANGED <<quiet, device, inbox, answers>>

\* The client looks at the line before it sends.
Flush ==
  /\ phase = "busy"
  /\ quiet' \in BOOLEAN
  /\ quiet' => inbox = <<>>
  /\ UNCHANGED <<phase, req, registers, err, device, inbox, answers, calls>>

Send ==
  /\ phase = "busy"
  /\ phase' = "sent"
  /\ inbox' = Append(inbox, req)
  /\ UNCHANGED <<req, registers, err, quiet, device, answers, calls>>

\* The device carries out a request it knows the registers of.
Execute ==
  /\ inbox # <<>>
  /\ inbox' = Tail(inbox)
  /\ IF Touched(Head(inbox)) \subseteq Addresses
       THEN /\ device' = Apply(device, Head(inbox))
            /\ answers' = answers \cup
                 {AnswerBody(Head(inbox), Stored(device, Head(inbox)))}
       ELSE UNCHANGED <<device, answers>>
  /\ UNCHANGED <<phase, req, registers, err, quiet, calls>>

Fail ==
  /\ phase \in {"busy", "sent"}
  /\ phase' = "done"
  /\ err' \in Errors
  /\ quiet /\ err' = "EXCEPTION" => Truthful(err', req, registers, device)
  /\ UNCHANGED <<req, registers, quiet, device, inbox, answers, calls>>

Succeed ==
  /\ phase = "sent"
  /\ phase' = "done"
  /\ err' = "NONE"
  /\ registers' \in {<<>>} \cup {SubSeq(b, 4, Len(b)) : b \in answers}
  /\ req.fc # 3 => registers' = <<>>
  /\ AnswerBody(req, registers') \in answers
  /\ quiet => Truthful(err', req, registers', device) /\ inbox = <<>>
  /\ UNCHANGED <<req, quiet, device, inbox, answers, calls>>

Return ==
  /\ phase = "done"
  /\ phase' = "idle"
  /\ req' = NoRequest
  /\ registers' = <<>>
  /\ err' = "NONE"
  /\ quiet' = TRUE
  /\ UNCHANGED <<device, inbox, answers, calls>>

Next ==
  \/ \E r \in Requests : Request(r)
  \/ Flush \/ Send \/ Execute \/ Fail \/ Succeed \/ Return

Spec == Init /\ [][Next]_vars
=============================================================================
