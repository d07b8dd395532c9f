------------------------------- MODULE Framing --------------------------------
(***************************************************************************)
(* The serving loop of native_mode (native-host/src/main.rs) over the      *)
(* frames of native-host/src/framing.rs: a length of fixed width, then     *)
(* that many bytes of a JSON envelope (parse_request, protocol.rs).  The   *)
(* pipe delivers bytes: a read returns any part of what has arrived, and   *)
(* the browser may die in the middle of a frame, or stop reading answers.  *)
(*                                                                         *)
(* Scaled down: a byte is a number below Base, the length has two of them, *)
(* an envelope is the two bytes <<requestId, protocolVersion>>; a first    *)
(* byte 0 is an id that is empty or too long.                              *)
(***************************************************************************)
EXTENDS Integers, Sequences

CONSTANTS
    Base,         \* the values of a byte
    MaxRequest,   \* MAX_REQUEST_BYTES
    Version,      \* PROTOCOL_VERSION
    Arguments,    \* the command lines a host may be started with
    MaxFrames     \* bound: what the browser sends

HeaderBytes == 2
Byte == 0..Base - 1
BytesOf(n) == [1..n -> Byte]
MaxLength == Base * Base - 1

\* The browser's limit is above the host's, so it can send more than that.
Messages == UNION {BytesOf(n) : n \in 0..MaxRequest + 1}

ASSUME FramingAssumption ==
    /\ Base \in Nat \ {0, 1}
    /\ MaxRequest \in Nat
    /\ MaxRequest < MaxLength
    /\ Version \in Byte
    /\ MaxFrames \in Nat

Encode(n) == <<n % Base, n \div Base>>
Decode(header) == header[1] + Base * header[2]
Frame(m) == Encode(Len(m)) \o m
Legal(m) == Len(m) <= MaxRequest

VARIABLES
    sent,      \* history: the messages sent whole
    torn,      \* history: the message the browser died in, if any
    pipe,      \* bytes written and not yet read
    closed,    \* no more will be written
    deaf,      \* the browser reads no more answers
    pc,        \* "start", "header", "payload", "write" or "exited"
    need,      \* the length the header announced
    buffer,    \* what has been read of the header or the payload
    reply,     \* the response to write
    answers,   \* history: the responses the browser got
    fault,     \* history: a read has failed
    exit       \* the exit code

browser == <<sent, torn, closed, deaf>>
input == <<pipe, need, buffer>>
vars == <<browser, input, pc, reply, answers, fault, exit>>

NoReply == [id |-> 0, code |-> "none", big |-> FALSE]

Init ==
    /\ sent = <<>> /\ torn = <<>> /\ closed = FALSE /\ deaf = FALSE
    /\ pipe = <<>> /\ need = 0 /\ buffer = <<>>
    /\ pc = "start"
    /\ reply = NoReply
    /\ answers = <<>>
    /\ fault = FALSE
    /\ exit = 0

------------------------------------------------------------------------------
\* The browser (external).

Send(m) ==
    /\ ~closed
    /\ Len(sent) < MaxFrames
    /\ sent' = Append(sent, m)
    /\ pipe' = pipe \o Frame(m)
    /\ UNCHANGED <<torn, closed, deaf, need, buffer, pc, reply, answers, fault, exit>>

\* It ends, with k bytes of one more frame written.
Hangup(m, k) ==
    /\ ~closed
    /\ closed' = TRUE
    /\ torn' = IF k = 0 THEN <<>> ELSE <<m>>
    /\ pipe' = pipe \o SubSeq(Frame(m), 1, k)
    /\ UNCHANGED <<sent, deaf, need, buffer, pc, reply, answers, fault, exit>>

StopReading ==
    /\ ~deaf
    /\ deaf' = TRUE
    /\ UNCHANGED <<sent, torn, closed, input, pc, reply, answers, fault, exit>>

------------------------------------------------------------------------------
\* The host.

ExitWith(code) == pc' = "exited" /\ exit' = code

\* validate_args: the first argument that is not a flag is the origin.
Allowed(args) ==
    \E i \in DOMAIN args : args[i] = "ours" /\ \A j \in 1..i - 1 : args[j] = "flag"

Start(args) ==
    /\ pc = "start"
    /\ IF Allowed(args) THEN pc' = "header" /\ UNCHANGED exit ELSE ExitWith(2)
    /\ UNCHANGED <<browser, input, reply, answers, fault>>

Wanted == IF pc = "header" THEN HeaderBytes ELSE need
Reading == pc \in {"header", "payload"} /\ Len(buffer) < Wanted

\* A plausible bug: a read may take more than the part that is being read.
ReadAll ==
    /\ Reading
    /\ pipe # <<>>
    /\ buffer' = buffer \o pipe
    /\ pipe' = <<>>
    /\ UNCHANGED <<browser, need, pc, reply, answers, fault, exit>>

\* One read of read_exact, of any part of what is wanted and has arrived.
ReadSome ==
    /\ Reading
    /\ \E k \in 1..Wanted - Len(buffer) :
        /\ k <= Len(pipe)
        /\ buffer' = buffer \o SubSeq(pipe, 1, k)
        /\ pipe' = SubSeq(pipe, k + 1, Len(pipe))
    /\ UNCHANGED <<browser, need, pc, reply, answers, fault, exit>>

\* At a boundary or in a frame: no protocol violation.
EndOfInput ==
    /\ Reading
    /\ pipe = <<>> /\ closed
    /\ ExitWith(0)
    /\ UNCHANGED <<browser, input, reply, answers, fault>>

\* An I/O error; within the payload it counts as an unexpected end.
ReadFails ==
    /\ Reading
    /\ fault' = TRUE
    /\ ExitWith(IF pc = "header" THEN 1 ELSE 0)
    /\ UNCHANGED <<browser, input, reply, answers>>

HeaderComplete == pc = "header" /\ Len(buffer) = HeaderBytes

\* Plausible bugs: a frame that is too long is passed over; an empty one ends
\* the input.
SkipTooLarge ==
    /\ HeaderComplete
    /\ buffer' = <<>>
    /\ IF Decode(buffer) > MaxRequest THEN UNCHANGED <<pc, need>>
       ELSE pc' = "payload" /\ need' = Decode(buffer)
    /\ UNCHANGED <<browser, pipe, reply, answers, fault, exit>>

EmptyIsEnd ==
    /\ HeaderComplete
    /\ buffer' = <<>>
    /\ need' = Decode(buffer)
    /\ IF need' > MaxRequest THEN ExitWith(1)
       ELSE IF need' = 0 THEN ExitWith(0)
       ELSE pc' = "payload" /\ UNCHANGED exit
    /\ UNCHANGED <<browser, pipe, reply, answers, fault>>

TakeHeader ==
    /\ HeaderComplete
    /\ buffer' = <<>>
    /\ need' = Decode(buffer)
    /\ IF need' > MaxRequest THEN ExitWith(1) ELSE pc' = "payload" /\ UNCHANGED exit
    /\ UNCHANGED <<browser, pipe, reply, answers, fault>>

\* parse_request, or what handle came to: a response, small or too large.
Responses(m) ==
    IF Len(m) # 2 \/ m[1] = 0
    THEN {[id |-> 0, code |-> "invalid_request", big |-> FALSE]}
    ELSE IF m[2] # Version
    THEN {[id |-> m[1], code |-> "unsupported_protocol_version", big |-> FALSE]}
    ELSE {[id |-> m[1], code |-> "handled", big |-> b] : b \in BOOLEAN}

Handle ==
    /\ pc = "payload"
    /\ Len(buffer) = need
    /\ reply' \in Responses(buffer)
    /\ pc' = "write"
    /\ buffer' = <<>>
    /\ UNCHANGED <<browser, pipe, need, answers, fault, exit>>

\* What write_message sends of a response that is too large.
Replaced(r) ==
    IF r.big THEN [id |-> r.id, code |-> "response_too_large", big |-> FALSE] ELSE r

\* A plausible bug: a response that is too large is dropped.
WriteOrDrop ==
    /\ pc = "write"
    /\ pc' = "header"
    /\ answers' = IF deaf \/ reply.big THEN answers ELSE Append(answers, reply)
    /\ reply' = NoReply
    /\ UNCHANGED <<browser, input, fault, exit>>

\* A response that cannot be written ends the loop; that the replacement of a
\* large one cannot be written is not noticed.
Write ==
    /\ pc = "write"
    /\ reply' = NoReply
    /\ answers' = IF deaf THEN answers ELSE Append(answers, Replaced(reply))
    /\ IF deaf /\ ~reply.big THEN ExitWith(0) ELSE pc' = "header" /\ UNCHANGED exit
    /\ UNCHANGED <<browser, input, fault>>

Host ==
    \/ \E args \in Arguments : Start(args)
    \/ ReadSome \/ EndOfInput \/ TakeHeader \/ Handle \/ Write

Next ==
    \/ \E m \in Messages : Send(m) \/ \E k \in 0..HeaderBytes + Len(m) - 1 : Hangup(m, k)
    \/ StopReading
    \/ Host
    \/ ReadFails

\* The loop goes on with what has arrived.
Fairness == WF_vars(Host)

Spec == Init /\ [][Next]_vars /\ Fairness

------------------------------------------------------------------------------
Codes == {"handled", "invalid_request", "unsupported_protocol_version", "response_too_large"}

\* A part is never filled beyond its length, and its length is never above the
\* limit, whatever the browser announces: nothing is allocated for it.
TypeOK ==
    /\ sent \in Seq(Messages) /\ torn \in Seq(Messages)
    /\ pipe \in Seq(Byte)
    /\ pc \in {"start", "header", "payload", "write", "exited"}
    /\ buffer \in Seq(Byte)
    /\ pc = "header" => Len(buffer) <= HeaderBytes
    /\ pc = "payload" => need <= MaxRequest /\ Len(buffer) <= need
    /\ \A i \in DOMAIN answers : answers[i].code \in Codes /\ ~answers[i].big
    /\ exit \in 0..2

\* The exit code and the answers tell the truth: a host that ends without a
\* fault has answered every whole frame before its end, unless the browser
\* stopped reading; and it reports a violation ("not a normal disconnect",
\* main.rs) exactly when the next frame, whole or torn, was above the limit.
NothingSkipped ==
    pc = "exited" /\ exit # 2 /\ ~fault =>
        \/ deaf
        \/ exit = 0 /\ Len(answers) = Len(sent)
        \/ exit = 1 /\ Len(answers) < Len(sent \o torn)
             /\ ~Legal((sent \o torn)[Len(answers) + 1])

\* A frame that arrives whole, after frames within the limit, is answered,
\* however the pipe cuts it, unless a read fails or the browser stops reading.
EveryFrameAnswered ==
    \A n \in 1..MaxFrames :
        Len(sent) >= n /\ pc # "start" /\ exit # 2 /\ (\A i \in 1..n : Legal(sent[i]))
            ~> Len(answers) >= n \/ fault \/ deaf

\* The bytes carry the exchange of messages (module Exchange): no answer is
\* ever given to bytes that are not the message the browser sent next.
Messaging == INSTANCE Exchange WITH
    AnswersTo <- LAMBDA m : {Replaced(r) : r \in Responses(m)},
    over <- pc = "exited"

Refinement == Messaging!Spec
==============================================================================
