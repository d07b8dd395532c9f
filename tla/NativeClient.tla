---------------------------- MODULE NativeClient ----------------------------
(***************************************************************************)
(* The popup's end of the connection (extension/src/native-client.ts): a   *)
(* map of pending requests, one port to a native host at a time, a timer   *)
(* per request.  What comes up a port is arbitrary: the right answer, an   *)
(* answer that is late, duplicated or names another request, a malformed   *)
(* one, the end of the port; and it may come from a port that the client   *)
(* has already given up.  Each handler runs to completion (JavaScript), so *)
(* each is one action.                                                     *)
(***************************************************************************)

CONSTANTS
    Ids,      \* request ids; nextRequestId never gives one twice
    Ports,    \* port objects; each connectNative gives a new one
    NoPort,   \* the null port
    NoId      \* a message without a usable request id

ASSUME NamesAssumption == NoPort \notin Ports /\ NoId \notin Ids

VARIABLES
    port,     \* the current port
    opened,   \* the ports opened so far
    pending,  \* the requests in the map, each with its timer running
    postedOn, \* history: the port each request went to, NoPort before
    settled   \* history: what settled each request, and from which port

vars == <<port, opened, pending, postedOn, settled>>

\* What can settle a promise: an answer, or one of the errors of the client.
Outcomes == {"answered", "malformed", "timeout", "disconnected", "not posted"}
Unsettled == [by |-> "nothing", on |-> NoPort]
Settlements == [by : Outcomes \cup {"nothing"}, on : Ports \cup {NoPort}]

\* What a port can deliver, after validateResponseEnvelope.
Messages == [valid : {TRUE}, id : Ids] \cup [valid : {FALSE}, id : Ids \cup {NoId}]

Init ==
    /\ port = NoPort
    /\ opened = {}
    /\ pending = {}
    /\ postedOn = [i \in Ids |-> NoPort]
    /\ settled = [i \in Ids |-> Unsettled]

\* The promises of these requests settle; their timers are cleared.
Settle(ids, outcome, from) ==
    /\ pending' = pending \ ids
    /\ settled' = [i \in Ids |-> IF i \in ids THEN [by |-> outcome, on |-> from]
                                 ELSE settled[i]]

\* ensureConnected: the live port, or a new one.  (Where connecting fails the
\* request is refused at once and nothing changes.)
Connection(p) ==
    IF port # NoPort THEN p = port ELSE p \in Ports \ opened

Connect(p) ==
    /\ port' = p
    /\ opened' = opened \cup {p}

Request(i) ==
    /\ postedOn[i] = NoPort
    /\ \E p \in Ports :
           /\ Connection(p)
           /\ Connect(p)
           /\ postedOn' = [postedOn EXCEPT ![i] = p]
    /\ pending' = pending \cup {i}
    /\ UNCHANGED settled

\* A plausible bug: the request that could not be posted stays in the map.
ThrowsKeeping(i) ==
    /\ postedOn[i] = NoPort
    /\ \E p \in Ports :
           /\ Connection(p)
           /\ Connect(p)
           /\ postedOn' = [postedOn EXCEPT ![i] = p]
           /\ settled' = [settled EXCEPT ![i] = [by |-> "not posted", on |-> p]]
    /\ pending' = pending \cup {i}

\* postMessage throws: the request is taken out again and rejected.
RequestThrows(i) ==
    /\ postedOn[i] = NoPort
    /\ \E p \in Ports :
           /\ Connection(p)
           /\ Connect(p)
           /\ postedOn' = [postedOn EXCEPT ![i] = p]
           /\ settled' = [settled EXCEPT ![i] = [by |-> "not posted", on |-> p]]
    /\ UNCHANGED pending

\* A plausible bug: an answer settles what it names, waiting or not.
AddressedBlindly(m) == IF m.id = NoId THEN pending ELSE {m.id}

\* The requests a message settles: the one it names, if pending; every pending
\* one if it is malformed and names none.
Addressed(m) == IF m.id = NoId THEN pending ELSE pending \cap {m.id}

\* A plausible bug: a message counts whatever port it comes from.
HandleAnyMessage(p, m) ==
    /\ p \in opened
    /\ Settle(Addressed(m), IF m.valid THEN "answered" ELSE "malformed", p)
    /\ UNCHANGED <<port, opened, postedOn>>

\* An event of a port that is no longer the current one is ignored.
HandleMessage(p, m) ==
    /\ p \in opened
    /\ IF p = port
       THEN Settle(Addressed(m), IF m.valid THEN "answered" ELSE "malformed", p)
       ELSE UNCHANGED <<pending, settled>>
    /\ UNCHANGED <<port, opened, postedOn>>

HandleDisconnect(p) ==
    /\ p \in opened
    /\ IF p = port
       THEN Settle(pending, "disconnected", port) /\ port' = NoPort
       ELSE UNCHANGED <<pending, settled, port>>
    /\ UNCHANGED <<opened, postedOn>>

\* A plausible bug: the timer drops the request and tells nobody.
TimeoutSilently(i) ==
    /\ i \in pending
    /\ pending' = pending \ {i}
    /\ UNCHANGED <<port, opened, postedOn, settled>>

Timeout(i) ==
    /\ i \in pending
    /\ Settle({i}, "timeout", port)
    /\ UNCHANGED <<port, opened, postedOn>>

\* The popup goes away, or asks for it.
Disconnect ==
    /\ Settle(pending, "disconnected", port)
    /\ port' = NoPort
    /\ UNCHANGED <<opened, postedOn>>

Next ==
    \/ \E i \in Ids : Request(i) \/ RequestThrows(i) \/ Timeout(i)
    \/ \E p \in Ports : HandleDisconnect(p)
    \/ \E p \in Ports, m \in Messages : HandleMessage(p, m)
    \/ Disconnect

\* A timer that was set fires unless it is cleared.
Fairness == \A i \in Ids : WF_vars(Timeout(i))

Spec == Init /\ [][Next]_vars /\ Fairness

------------------------------------------------------------------------------
TypeOK ==
    /\ port \in Ports \cup {NoPort}
    /\ opened \in SUBSET Ports
    /\ pending \in SUBSET Ids
    /\ postedOn \in [Ids -> Ports \cup {NoPort}]
    /\ settled \in [Ids -> Settlements]

\* A request that is still waiting was posted on the live port: losing a port
\* leaves nobody waiting on it, and a new port inherits no request of the old.
WaitingOnLivePort ==
    \A i \in pending : postedOn[i] = port /\ port # NoPort

\* An answer settles a request only if it comes from the host the request was
\* sent to, whatever stale ports deliver ("late/unknown request IDs cannot
\* settle another operation", docs/security.md:25).
AnsweredByItsHost ==
    \A i \in Ids : settled[i].by # "nothing" => settled[i].on = postedOn[i]

\* No request is forgotten: once posted it is in the map, with its timer, until
\* it settles, and not after.
NoneForgotten ==
    \A i \in Ids :
        settled[i] = Unsettled <=> i \in pending \/ postedOn[i] = NoPort

\* The bookkeeping of the client, which is inductive.
IInv == TypeOK /\ WaitingOnLivePort /\ NoneForgotten /\ AnsweredByItsHost

\* No promise is settled a second time, by a duplicate, a timer or a teardown.
SettledOnce ==
    [][\A i \in Ids : settled[i] # Unsettled => settled'[i] = settled[i]]_vars

\* Every request settles, if only by its timer.
EveryRequestSettles ==
    \A i \in Ids : postedOn[i] # NoPort ~> settled[i] # Unsettled
==============================================================================
