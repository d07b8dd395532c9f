------------------------------- MODULE Exchange -------------------------------
(***************************************************************************)
(* What the native messaging pipe promises: the messages the browser sends *)
(* are answered one by one, in their order, each once and with an answer   *)
(* to it, until the host stops; a message above the limit is never         *)
(* answered, nor is anything after it.                                     *)
(***************************************************************************)
EXTENDS Naturals, Sequences

CONSTANTS
    Messages,
    Legal(_),      \* the message is within the size limit
    AnswersTo(_)   \* the answers a message may get

VARIABLES
    sent,      \* the messages the browser has sent
    answers,   \* the answers it has got
    over       \* the host has stopped

vars == <<sent, answers, over>>

Init ==
    /\ sent = <<>>
    /\ answers = <<>>
    /\ over = FALSE

Send ==
    /\ \E m \in Messages : sent' = Append(sent, m)
    /\ UNCHANGED <<answers, over>>

Answer ==
    /\ ~over
    /\ Len(answers) < Len(sent)
    /\ \A i \in 1..Len(answers) + 1 : Legal(sent[i])
    /\ \E a \in AnswersTo(sent[Len(answers) + 1]) : answers' = Append(answers, a)
    /\ UNCHANGED <<sent, over>>

Stop ==
    /\ ~over
    /\ over' = TRUE
    /\ UNCHANGED <<sent, answers>>

Next == Send \/ Answer \/ Stop

Spec == Init /\ [][Next]_vars
==============================================================================
