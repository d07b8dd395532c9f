------------------------- MODULE NativeClientProofs -------------------------
(***************************************************************************)
(* What module NativeClient guarantees for any number of requests and      *)
(* ports, whatever the ports deliver.                                      *)
(***************************************************************************)
EXTENDS NativeClient, TLAPS

\* No settlement is the initial value, and the initial value is one of the
\* things that settled can hold.
LEMMA InitialValue == Unsettled \in Settlements
BY DEF Unsettled, Settlements, Outcomes

\* Settling pending requests, of the live port or of one being given up, keeps
\* the bookkeeping: whoever remains waits on the live port.
LEMMA Settling ==
    ASSUME IInv, NEW ids, ids \subseteq pending,
           NEW outcome \in Outcomes, Settle(ids, outcome, port),
           UNCHANGED <<opened, postedOn>>,
           port' = port \/ (port' = NoPort /\ ids = pending)
    PROVE  IInv'
<1> USE DEF IInv, TypeOK, WaitingOnLivePort, NoneForgotten, AnsweredByItsHost
<1> DEFINE s == [by |-> outcome, on |-> port]
<1>1. /\ pending' = pending \ ids
      /\ settled' = [i \in Ids |-> IF i \in ids THEN s ELSE settled[i]]
  BY DEF Settle
<1>2. s \in Settlements /\ s.by = outcome /\ s.on = port
  BY DEF Settlements
<1>3. s # Unsettled
  BY DEF Unsettled, Outcomes
<1>4. \A i \in ids : i \in Ids /\ postedOn[i] = port
  OBVIOUS
<1> HIDE DEF s
<1>5. TypeOK'
  BY <1>1, <1>2
<1>6. WaitingOnLivePort'
  BY <1>1
<1>7. NoneForgotten'
  BY <1>1, <1>3
<1>8. AnsweredByItsHost'
  BY <1>1, <1>2, <1>4
<1>9. QED
  BY <1>5, <1>6, <1>7, <1>8

\* The bookkeeping survives every handler, in any order of events.
THEOREM Bookkeeping == Spec => []IInv
<1> USE NamesAssumption
    DEF IInv, TypeOK, WaitingOnLivePort, NoneForgotten, AnsweredByItsHost
<1>1. Init => IInv
  BY InitialValue DEF Init, Unsettled
<1>2. IInv /\ [Next]_vars => IInv'
  <2> SUFFICES ASSUME IInv, [Next]_vars PROVE IInv'
    OBVIOUS
  <2>1. ASSUME NEW i \in Ids, Request(i) PROVE IInv'
    <3>1. PICK p \in Ports :
              /\ Connection(p)
              /\ port' = p /\ opened' = opened \cup {p}
              /\ postedOn' = [postedOn EXCEPT ![i] = p]
      BY <2>1 DEF Request, Connect
    <3>2. /\ settled[i] = Unsettled
          /\ pending' = pending \cup {i}
          /\ settled' = settled
      BY <2>1 DEF Request
    <3>3. pending # {} => p = port
      BY <3>1 DEF Connection
    <3>4. TypeOK' /\ WaitingOnLivePort'
      BY <3>1, <3>2, <3>3
    <3>5. NoneForgotten'
      BY <3>1, <3>2
    <3>6. AnsweredByItsHost'
      BY <3>1, <3>2 DEF Unsettled
    <3>7. QED
      BY <3>4, <3>5, <3>6
  <2>2. ASSUME NEW i \in Ids, RequestThrows(i) PROVE IInv'
    <3>1. PICK p \in Ports :
              /\ Connection(p)
              /\ port' = p /\ opened' = opened \cup {p}
              /\ postedOn' = [postedOn EXCEPT ![i] = p]
              /\ settled' = [settled EXCEPT ![i] = [by |-> "not posted", on |-> p]]
      BY <2>2 DEF RequestThrows, Connect
    <3>2. i \notin pending /\ pending' = pending
      BY <2>2 DEF RequestThrows
    <3>3. /\ [by |-> "not posted", on |-> p] \in Settlements
          /\ [by |-> "not posted", on |-> p] # Unsettled
      BY DEF Settlements, Outcomes, Unsettled
    <3>4. pending # {} => p = port
      BY <3>1 DEF Connection
    <3>5. TypeOK' /\ WaitingOnLivePort'
      BY <3>1, <3>2, <3>3, <3>4
    <3>6. NoneForgotten'
      BY <3>1, <3>2, <3>3
    <3>7. AnsweredByItsHost'
      BY <3>1, <3>2
    <3>8. QED
      BY <3>5, <3>6, <3>7
  <2>3. ASSUME NEW i \in Ids, Timeout(i) PROVE IInv'
    BY <2>3, Settling, {i} \subseteq pending, "timeout" \in Outcomes
    DEF Timeout, Outcomes
  <2>4. ASSUME NEW p \in Ports, HandleDisconnect(p) PROVE IInv'
    <3>1. CASE p = port
      BY <3>1, <2>4, Settling, "disconnected" \in Outcomes
      DEF HandleDisconnect, Outcomes
    <3>2. CASE p # port
      BY <3>2, <2>4 DEF HandleDisconnect
    <3>3. QED
      BY <3>1, <3>2
  <2>5. ASSUME NEW p \in Ports, NEW m \in Messages, HandleMessage(p, m)
        PROVE  IInv'
    <3>1. Addressed(m) \subseteq pending
      BY DEF Addressed
    <3>2. (IF m.valid THEN "answered" ELSE "malformed") \in Outcomes
      BY DEF Outcomes
    <3>3. CASE p = port
      BY <3>3, <2>5, <3>1, <3>2, Settling DEF HandleMessage
    <3>4. CASE p # port
      BY <3>4, <2>5 DEF HandleMessage
    <3>5. QED
      BY <3>3, <3>4
  <2>6. CASE Disconnect
    BY <2>6, Settling, "disconnected" \in Outcomes DEF Disconnect, Outcomes
  <2>7. CASE UNCHANGED vars
    BY <2>7 DEF vars
  <2>8. QED
    BY <2>1, <2>2, <2>3, <2>4, <2>5, <2>6, <2>7 DEF Next
<1>3. QED
  BY <1>1, <1>2, PTL DEF Spec

\* Losing a port leaves nobody waiting on it.
THEOREM Waiting == Spec => []WaitingOnLivePort
<1>1. IInv => WaitingOnLivePort
  BY DEF IInv
<1>2. QED
  BY <1>1, Bookkeeping, PTL

\* Only the host a request was sent to answers it.
THEOREM OwnAnswer == Spec => []AnsweredByItsHost
<1>1. IInv => AnsweredByItsHost
  BY DEF IInv
<1>2. QED
  BY <1>1, Bookkeeping, PTL

\* No promise is settled twice.
THEOREM OnlyOnce == Spec => SettledOnce
<1> DEFINE Kept ==
      \A i \in Ids : settled[i] # Unsettled => settled'[i] = settled[i]
<1>1. IInv /\ [Next]_vars => [Kept]_vars
  <2> SUFFICES ASSUME IInv, [Next]_vars,
                      NEW i \in Ids, settled[i] # Unsettled
               PROVE  settled'[i] = settled[i]
    OBVIOUS
  <2>1. i \notin pending /\ postedOn[i] # NoPort
    BY DEF IInv, NoneForgotten
  <2>2. ASSUME NEW ids, NEW outcome, NEW from, ids \subseteq pending,
               Settle(ids, outcome, from)
        PROVE  settled'[i] = settled[i]
    BY <2>1, <2>2 DEF Settle
  <2>3. ASSUME NEW p \in Ports, NEW m \in Messages, HandleMessage(p, m)
        PROVE  settled'[i] = settled[i]
    BY <2>2, <2>3 DEF HandleMessage, Addressed
  <2>4. ASSUME NEW p \in Ports, HandleDisconnect(p)
        PROVE  settled'[i] = settled[i]
    BY <2>2, <2>4 DEF HandleDisconnect
  <2>5. ASSUME NEW j \in Ids, Timeout(j) PROVE settled'[i] = settled[i]
    BY <2>2, <2>5 DEF Timeout
  <2>6. CASE Disconnect
    BY <2>2, <2>6 DEF Disconnect
  <2>7. ASSUME NEW j \in Ids, Request(j) \/ RequestThrows(j)
        PROVE  settled'[i] = settled[i]
    <3>1. settled \in [Ids -> Settlements] /\ i # j
      BY <2>1, <2>7 DEF Request, RequestThrows, IInv, TypeOK
    <3>2. CASE Request(j)
      BY <3>2 DEF Request
    <3>3. CASE RequestThrows(j)
      BY <3>1, <3>3 DEF RequestThrows
    <3>4. QED
      BY <2>7, <3>2, <3>3
  <2>8. CASE UNCHANGED vars
    BY <2>8 DEF vars
  <2>9. QED
    BY <2>3, <2>4, <2>5, <2>6, <2>7, <2>8 DEF Next
<1>2. QED
  BY <1>1, Bookkeeping, PTL DEF Spec, SettledOnce
==============================================================================
