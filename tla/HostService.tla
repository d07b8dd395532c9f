----------------------------- MODULE HostService -----------------------------
(***************************************************************************)
(* What a host promises its popup: it takes one request at a time, answers *)
(* each once, with one of the answers of module Protocol, and holds the    *)
(* vault key only from a successful unlock until a lock or its end.        *)
(***************************************************************************)
EXTENDS Protocol

CONSTANT NoRequest

VARIABLES
    unlocked,  \* the host holds the key
    asked,     \* the method of the request being served
    answer     \* the last answer

vars == <<unlocked, asked, answer>>

Init ==
    /\ unlocked = FALSE
    /\ asked = NoRequest
    /\ answer = "none"

Ask ==
    /\ asked = NoRequest
    /\ asked' \in Methods
    /\ UNCHANGED <<unlocked, answer>>

Answer ==
    /\ asked # NoRequest
    /\ asked' = NoRequest
    /\ \E protected \in BOOLEAN :
           <<answer', unlocked'>> \in Replies(asked, protected, unlocked)

\* The process ends, and its successor starts with a locked vault.
End ==
    /\ unlocked' = FALSE
    /\ asked' = NoRequest
    /\ answer' = "none"

Next == Ask \/ Answer \/ End

Spec == Init /\ [][Next]_vars
==============================================================================
