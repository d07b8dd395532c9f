----------------------------- MODULE SessionProofs -----------------------------
(***************************************************************************)
(* Proofs about module Session, for any rows and bounds.                   *)
(***************************************************************************)
EXTENDS Session, SequenceTheorems, FiniteSetTheorems, TLAPS

LEMMA NoOpIsNone == NoOp \notin Ops
BY DEF NoOp, Ops

------------------------------------------------------------------------------
\* The bodies that are asked for.

LEMMA PostBodies ==
    ASSUME NEW rest \in [Ids -> Requests], NEW operations, BodiesOf(rest, operations),
           NEW kind \in Kinds \ {"body"}, NEW row, Post(rest, kind, NoOp, row)
    PROVE  BodiesOf(pending', operations)
<1>1. PICK i \in Fresh(rest) : pending' = [rest EXCEPT ![i] = [kind |-> kind, op |-> NoOp]]
  BY DEF Post
<1>2. i \in Ids /\ rest[i].op = NoOp
  BY DEF Fresh, None
<1> QED
  BY <1>1, <1>2, NoOpIsNone DEF BodiesOf

LEMMA BeginBodies ==
    ASSUME ops \in [Ops -> Operations], NEW rest \in [Ids -> Requests],
           BodiesOf(rest, ops), NEW o \in Ops, ops[o].stage # "body",
           NEW row, NEW attached, Begin(o, row, attached, rest)
    PROVE  BodiesAsked'
<1>1. PICK i \in Fresh(rest) : pending' = [rest EXCEPT ![i] = [kind |-> "body", op |-> o]]
  BY DEF Begin, Post
<1>2. i \in Ids /\ rest[i].op = NoOp
  BY DEF Fresh, None
<1>3. ops'[o].stage = "body" /\ \A q \in Ops : q # o => ops'[q] = ops[q]
  BY DEF Begin
<1>4. \A j \in Ids : rest[j].op # o
  BY NoOpIsNone DEF BodiesOf
<1>5. \A j \in Ids : pending'[j] = IF j = i THEN [kind |-> "body", op |-> o] ELSE rest[j]
  BY <1>1
<1>6. \A j \in Ids : rest[j].op \in Ops \cup {NoOp}
  BY DEF Requests
<1> QED
  BY <1>2, <1>3, <1>4, <1>5, <1>6, NoOpIsNone DEF BodiesOf, BodiesAsked

LEMMA OtherBodies ==
    ASSUME pending \in [Ids -> Requests], BodiesAsked,
           NEW i \in Ids, pending[i].op = NoOp
    PROVE  BodiesOf(Without(i), ops)
BY NoOpIsNone DEF BodiesAsked, BodiesOf, Without, None

LEMMA OwnBodies ==
    ASSUME pending \in [Ids -> Requests], BodiesAsked,
           NEW i \in Ids, NEW o \in Ops, pending[i].op = o,
           NEW operations, operations[o].stage # "body",
           \A q \in Ops : q # o => operations[q].stage = ops[q].stage
    PROVE  BodiesOf(Without(i), operations)
<1>1. \A j \in Ids : Without(i)[j] = IF j = i THEN None ELSE pending[j]
  BY DEF Without
<1>2. \A j \in Ids : pending[j].op \in Ops \cup {NoOp} /\ (pending[j].op = o <=> j = i)
  BY NoOpIsNone DEF Requests, BodiesAsked, BodiesOf
<1> QED
  BY <1>1, <1>2, NoOpIsNone DEF BodiesAsked, BodiesOf, None

LEMMA SameBodies ==
    ASSUME pending \in [Ids -> Requests], BodiesAsked, NEW operations,
           \A q \in Ops : operations[q].stage = "body" <=> ops[q].stage = "body"
    PROVE  BodiesOf(pending, operations)
<1>1. \A j \in Ids : pending[j].op \in Ops \cup {NoOp}
  BY DEF Requests
<1> QED
  BY <1>1 DEF BodiesAsked, BodiesOf

------------------------------------------------------------------------------
\* The messages.

\* What a handler leaves of the requests and of the answers on their way.
Rest(rest) ==
    /\ \A i \in Ids : rest[i] \in {pending[i], None}
    /\ outbox' = outbox \/ (outbox # << >> /\ outbox' = Tail(outbox))

LEMMA MessageTypes ==
    ASSUME TypeOK
    PROVE  /\ \A n \in DOMAIN inbox :
                  /\ n \in Int /\ inbox[n].id \in Ids
                  /\ inbox[n].kind \in Kinds /\ inbox[n].row \in Rows \cup {NoRow}
           /\ \A n \in DOMAIN outbox :
                  n \in Int /\ outbox[n].id \in Ids /\ outbox[n].answer \in Answers
<1>1. /\ inbox \in Seq(Messages) /\ DOMAIN inbox = 1..Len(inbox)
      /\ outbox \in Seq(Deliveries) /\ DOMAIN outbox = 1..Len(outbox)
  BY LenProperties DEF TypeOK
<1>2. \A n \in DOMAIN inbox : n \in Int /\ inbox[n] \in Messages
  BY <1>1, ElementOfSeq
<1>3. \A n \in DOMAIN outbox : n \in Int /\ outbox[n] \in Deliveries
  BY <1>1, ElementOfSeq
<1> QED
  BY <1>2, <1>3 DEF Messages, Deliveries

LEMMA Cancelling == \A m, n, d \in Int : m + d = n + d => m = n
OBVIOUS

LEMMA RestOutbox ==
    ASSUME TypeOK, NEW rest, Rest(rest)
    PROVE  /\ outbox' \in Seq(Deliveries)
           /\ \E d \in {0, 1} : \A n \in DOMAIN outbox' :
                  n + d \in DOMAIN outbox /\ outbox'[n] = outbox[n + d]
<1>1. CASE outbox' = outbox
  BY <1>1 DEF TypeOK
<1>2. CASE outbox # << >> /\ outbox' = Tail(outbox)
  <2>1. /\ outbox' \in Seq(Deliveries) /\ Len(outbox') = Len(outbox) - 1
        /\ \A n \in 1..Len(outbox') : outbox'[n] = outbox[n + 1]
    BY <1>2, HeadTailProperties DEF TypeOK
  <2>2. DOMAIN outbox' = 1..Len(outbox') /\ DOMAIN outbox = 1..Len(outbox)
        /\ Len(outbox) \in Nat
    BY <2>1, LenProperties DEF TypeOK
  <2>3. \A n \in DOMAIN outbox' : n + 1 \in DOMAIN outbox /\ outbox'[n] = outbox[n + 1]
    BY <2>1, <2>2
  <2> QED
    BY <2>1, <2>3
<1> QED
  BY <1>1, <1>2 DEF Rest

LEMMA NoPostLink ==
    ASSUME TypeOK, MessagesFit, HostsEnd,
           NEW rest \in [Ids -> Requests], Rest(rest), NoPost(rest)
    PROVE  /\ host' \in {"none", "running", "gone"} /\ key' \in BOOLEAN
           /\ inbox' \in Seq(Messages) /\ outbox' \in Seq(Deliveries)
           /\ pending' \in [Ids -> Requests]
           /\ MessagesFit' /\ HostsEnd'
<1>1. /\ host' = host /\ key' = key /\ inbox' = inbox /\ pending' = rest
  BY DEF NoPost
<1>2. PICK d \in {0, 1} : \A n \in DOMAIN outbox' :
          n + d \in DOMAIN outbox /\ outbox'[n] = outbox[n + d]
  BY RestOutbox
<1>3. \A n \in DOMAIN inbox : inbox[n].id \in Ids
  BY MessageTypes
<1>4. \A n \in DOMAIN outbox : outbox[n].id \in Ids /\ n \in Int
  BY MessageTypes
<1>5. MessagesFit'
  <2>1. \A m, n \in DOMAIN inbox' : inbox'[m].id = inbox'[n].id => m = n
    BY <1>1 DEF MessagesFit
  <2>2. \A m, n \in DOMAIN outbox' : outbox'[m].id = outbox'[n].id => m = n
    <3> TAKE m, n \in DOMAIN outbox'
    <3>1. outbox'[m].id = outbox'[n].id => m + d = n + d
      BY <1>2 DEF MessagesFit
    <3>2. m \in Int /\ n \in Int /\ d \in Int
      <4>1. DOMAIN outbox' = 1..Len(outbox')
        BY RestOutbox, LenProperties
      <4> QED
        BY <4>1
    <3>3. m + d = n + d => m = n
      BY <3>2, Cancelling
    <3> QED
      BY <3>1, <3>3
  <2>3. \A m \in DOMAIN inbox', n \in DOMAIN outbox' : inbox'[m].id # outbox'[n].id
    BY <1>1, <1>2 DEF MessagesFit
  <2>4. \A n \in DOMAIN inbox' : pending'[inbox'[n].id].kind \in {"none", inbox'[n].kind}
    BY <1>1, <1>3 DEF MessagesFit, Rest, None
  <2>5. \A n \in DOMAIN outbox' :
            pending'[outbox'[n].id].kind = "hello" => outbox'[n].answer \in VaultStates
    <3> TAKE n \in DOMAIN outbox'
    <3>1. n + d \in DOMAIN outbox /\ outbox'[n] = outbox[n + d] /\ outbox'[n].id \in Ids
      BY <1>2, <1>4
    <3>2. rest[outbox'[n].id] \in {pending[outbox'[n].id], None}
      BY <3>1 DEF Rest
    <3>3. rest[outbox'[n].id].kind = "hello" => pending[outbox'[n].id].kind = "hello"
      BY <3>2 DEF None
    <3> QED
      BY <1>1, <3>1, <3>3 DEF MessagesFit
  <2> QED
    BY <2>1, <2>2, <2>3, <2>4, <2>5 DEF MessagesFit
<1>6. HostsEnd'
  <2>1. host = "none" => outbox' = << >> /\ \A i \in Ids : rest[i] = None
    BY DEF HostsEnd, Rest
  <2> QED
    BY <1>1, <2>1 DEF HostsEnd
<1> QED
  BY <1>1, <1>5, <1>6, RestOutbox DEF TypeOK

LEMMA PostLink ==
    ASSUME TypeOK, MessagesFit, HostsEnd,
           NEW rest \in [Ids -> Requests], Rest(rest),
           NEW kind \in Kinds, NEW op \in Ops \cup {NoOp}, NEW row \in Rows \cup {NoRow},
           Post(rest, kind, op, row)
    PROVE  /\ host' \in {"none", "running", "gone"} /\ key' \in BOOLEAN
           /\ inbox' \in Seq(Messages) /\ outbox' \in Seq(Deliveries)
           /\ pending' \in [Ids -> Requests]
           /\ MessagesFit' /\ HostsEnd'
<1>1. PICK i \in Fresh(rest) :
          /\ pending' = [rest EXCEPT ![i] = [kind |-> kind, op |-> op]]
          /\ inbox' = IF host = "gone" THEN inbox
                      ELSE Append(inbox, [id |-> i, kind |-> kind, row |-> row])
  BY DEF Post
<1>2. key' = key /\ host' = IF host = "none" THEN "running" ELSE host
  BY DEF Post
<1>3. /\ i \in Ids
      /\ \A n \in DOMAIN inbox : inbox[n].id # i
      /\ \A n \in DOMAIN outbox : outbox[n].id # i
  BY DEF Fresh
<1>4. PICK d \in {0, 1} : \A n \in DOMAIN outbox' :
          n + d \in DOMAIN outbox /\ outbox'[n] = outbox[n + d]
  BY RestOutbox
<1> DEFINE message == [id |-> i, kind |-> kind, row |-> row]
<1>5. message \in Messages
  BY <1>3 DEF Messages
<1>6. inbox' \in Seq(Messages) /\ DOMAIN inbox = 1..Len(inbox) /\ Len(inbox) \in Nat
  BY <1>1, <1>5, LenProperties DEF TypeOK
<1>7. \A n \in DOMAIN inbox' : \/ n \in DOMAIN inbox /\ inbox'[n] = inbox[n]
                               \/ n = Len(inbox) + 1 /\ inbox'[n] = message
  <2> HIDE DEF message
  <2>1. CASE host = "gone"
    BY <1>1, <2>1
  <2>2. CASE host # "gone"
    <3>1. inbox' = Append(inbox, message)
      BY <1>1, <2>2 DEF message
    <3>2. /\ DOMAIN inbox' = 1..Len(inbox) + 1 /\ inbox'[Len(inbox) + 1] = message
          /\ \A n \in 1..Len(inbox) : inbox'[n] = inbox[n]
      BY <1>5, <1>6, <3>1, AppendProperties, LenProperties DEF TypeOK
    <3> QED
      BY <1>6, <3>2
  <2> QED
    BY <2>1, <2>2
<1>8. message.id = i /\ message.kind = kind
  OBVIOUS
<1> HIDE DEF message
<1>9. \A j \in Ids : pending'[j] \in {pending[j], None} \/ (j = i /\ pending'[j].kind = kind)
  BY <1>1 DEF Rest
<1>10. \A n \in DOMAIN outbox' :
          /\ n + d \in DOMAIN outbox /\ outbox'[n] = outbox[n + d]
          /\ outbox'[n].id \in Ids /\ outbox'[n].id # i
  BY <1>3, <1>4, MessageTypes
<1>11. MessagesFit'
  <2>1. \A m, n \in DOMAIN inbox' : inbox'[m].id = inbox'[n].id => m = n
    BY <1>3, <1>7, <1>8 DEF MessagesFit
  <2>2. \A m, n \in DOMAIN outbox' : outbox'[m].id = outbox'[n].id => m = n
    <3> TAKE m, n \in DOMAIN outbox'
    <3>1. outbox'[m].id = outbox'[n].id => m + d = n + d
      BY <1>4 DEF MessagesFit
    <3>2. m \in Int /\ n \in Int /\ d \in Int
      <4>1. DOMAIN outbox' = 1..Len(outbox')
        BY RestOutbox, LenProperties
      <4> QED
        BY <4>1
    <3>3. m + d = n + d => m = n
      BY <3>2, Cancelling
    <3> QED
      BY <3>1, <3>3
  <2>3. \A m \in DOMAIN inbox', n \in DOMAIN outbox' : inbox'[m].id # outbox'[n].id
    BY <1>7, <1>8, <1>10 DEF MessagesFit
  <2>4. \A n \in DOMAIN inbox' : pending'[inbox'[n].id].kind \in {"none", inbox'[n].kind}
    <3> TAKE n \in DOMAIN inbox'
    <3>1. CASE n \in DOMAIN inbox /\ inbox'[n] = inbox[n]
      <4>1. inbox[n].id \in Ids /\ inbox[n].id # i
        BY <1>3, <3>1, MessageTypes
      <4>2. pending'[inbox[n].id] \in {pending[inbox[n].id], None}
        BY <1>9, <4>1
      <4> QED
        BY <3>1, <4>2 DEF MessagesFit, None
    <3>2. CASE inbox'[n] = message
      <4>1. pending'[i].kind = kind
        BY <1>1, <1>3
      <4> QED
        BY <1>8, <3>2, <4>1
    <3> QED
      BY <1>7, <3>1, <3>2
  <2>5. \A n \in DOMAIN outbox' :
            pending'[outbox'[n].id].kind = "hello" => outbox'[n].answer \in VaultStates
    <3> TAKE n \in DOMAIN outbox'
    <3>1. pending'[outbox'[n].id] \in {pending[outbox'[n].id], None}
      BY <1>9, <1>10
    <3>2. pending'[outbox'[n].id].kind = "hello" => pending[outbox'[n].id].kind = "hello"
      BY <3>1 DEF None
    <3> QED
      BY <1>10, <3>2 DEF MessagesFit
  <2> QED
    BY <2>1, <2>2, <2>3, <2>4, <2>5 DEF MessagesFit
<1>12. HostsEnd'
  <2>1. host' # "running" => host = "gone" /\ inbox' = inbox
    BY <1>1, <1>2 DEF TypeOK
  <2> QED
    BY <1>2, <2>1 DEF HostsEnd
<1>13. pending' \in [Ids -> Requests]
  BY <1>1 DEF Requests
<1> QED
  BY <1>2, <1>6, <1>11, <1>12, <1>13, RestOutbox DEF TypeOK

\* The user asks for something.
LEMMA ClickLink ==
    ASSUME TypeOK, MessagesFit, NoneMissed, KeyFollows, ~Asked({"hello"}),
           NEW kind \in Kinds \ {"hello", "reconcile"},
           NEW op \in Ops \cup {NoOp}, NEW row \in Rows \cup {NoRow},
           Post(pending, kind, op, row), UNCHANGED <<outbox, vault>>
    PROVE  HelloFirst' /\ NoneMissed' /\ KeyFollows'
<1>1. PICK i \in Fresh(pending) :
          /\ pending' = [pending EXCEPT ![i] = [kind |-> kind, op |-> op]]
          /\ inbox' = IF host = "gone" THEN inbox
                      ELSE Append(inbox, [id |-> i, kind |-> kind, row |-> row])
  BY DEF Post
<1>2. /\ i \in Ids /\ pending[i] = None
      /\ \A n \in DOMAIN inbox : inbox[n].id # i
      /\ \A n \in DOMAIN outbox : outbox[n].id # i
  BY DEF Fresh
<1>3. /\ \A j \in Ids : j # i => pending'[j] = pending[j]
      /\ pending'[i] = [kind |-> kind, op |-> op]
  BY <1>1, <1>2 DEF TypeOK
<1>4. HelloFirst'
  BY <1>2, <1>3 DEF HelloFirst, Asked
<1>5. \A n \in DOMAIN outbox : pending'[outbox[n].id] = pending[outbox[n].id]
  BY <1>2, <1>3, MessageTypes
<1>6. NoneMissed'
  <2> SUFFICES ASSUME ~late PROVE NoneMissed'
    BY DEF NoneMissed, vault
  <2>1. \A n \in DOMAIN inbox : pending'[inbox[n].id] = pending[inbox[n].id]
    BY <1>2, <1>3, MessageTypes
  <2>2. \A n \in DOMAIN inbox' : pending'[inbox'[n].id].kind = inbox'[n].kind
    <3> DEFINE message == [id |-> i, kind |-> kind, row |-> row]
    <3>1. message \in Messages /\ message.id = i /\ message.kind = kind
      BY <1>2 DEF Messages
    <3> HIDE DEF message
    <3>2. CASE host = "gone"
      BY <1>1, <2>1, <3>2 DEF NoneMissed
    <3>3. CASE host # "gone"
      <4>1. inbox' = Append(inbox, message)
        BY <1>1, <3>3 DEF message
      <4>2. inbox \in Seq(Messages) /\ DOMAIN inbox = 1..Len(inbox) /\ Len(inbox) \in Nat
        BY LenProperties DEF TypeOK
      <4>3. \A n \in DOMAIN inbox' : \/ n \in DOMAIN inbox /\ inbox'[n] = inbox[n]
                                     \/ inbox'[n] = message
        BY <3>1, <4>1, <4>2
      <4> QED
        BY <1>3, <2>1, <3>1, <4>3 DEF NoneMissed
    <3> QED
      BY <3>2, <3>3
  <2>3. \A n \in DOMAIN outbox' : pending'[outbox'[n].id] # None
    BY <1>5 DEF NoneMissed
  <2>4. ~Asked({"reconcile"})'
    BY <1>3 DEF NoneMissed, Asked
  <2> QED
    BY <2>2, <2>3, <2>4 DEF NoneMissed
<1>7. KeyFollows'
  <2> SUFFICES ASSUME ~late, host' # "gone" PROVE KeyFollows'
    BY DEF KeyFollows, vault
  <2>1. host # "gone" /\ key' = key /\ outbox' = outbox /\ vaultState' = vaultState
    BY DEF Post, vault
  <2>2. \A n \in DOMAIN outbox : (Tells(n)' <=> Tells(n)) /\ (Opens(n)' <=> Opens(n))
    BY <1>5, <2>1 DEF Tells, Opens
  <2> QED
    BY <2>1, <2>2 DEF KeyFollows
<1> QED
  BY <1>4, <1>6, <1>7

\* Nothing is sent or received.
LEMMA QuietLink ==
    ASSUME MessagesFit, HostsEnd, HelloFirst, NoneMissed, KeyFollows,
           UNCHANGED <<link, vault>>,
           overlay' => overlay, pendingCopy' \in {pendingCopy, NoOp}
    PROVE  MessagesFit' /\ HostsEnd' /\ HelloFirst' /\ NoneMissed' /\ KeyFollows'
<1> USE DEF link, vault
<1>1. MessagesFit' /\ HostsEnd'
  BY DEF MessagesFit, HostsEnd
<1>2. HelloFirst' /\ NoneMissed'
  BY DEF HelloFirst, NoneMissed, Asked
<1>3. KeyFollows'
  BY DEF KeyFollows, Tells, Opens
<1> QED
  BY <1>1, <1>2, <1>3

LEMMA ReplyFacts ==
    ASSUME key \in BOOLEAN, NEW kind \in Kinds, NEW row, NEW r \in Reply(kind, row)
    PROVE  /\ r[1] \in Answers /\ r[2] \in BOOLEAN
           /\ kind = "hello" => r[1] \in VaultStates /\ r[2] = key
           /\ kind = "hello" /\ ~key => r[1] # "unlocked"
           /\ kind = "lock" => ~r[2]
           /\ kind = "body" => r[2] = key
           /\ kind \in Unlocks /\ r[1] # "ok" => r[2] = key
           /\ kind \in Unlocks /\ r[1] = "ok" => r[2]
<1> USE DEF Reply, Replies, Unlocks, Answers, VaultStates
<1>1. CASE kind = "hello"
  BY <1>1
<1>2. CASE kind = "reconcile"
  BY <1>2
<1>3. CASE kind = "lock"
  <2>1. r = <<"ok", FALSE>>
    BY <1>3
  <2>2. r[1] = "ok" /\ r[2] = FALSE
    BY <2>1
  <2> QED
    BY <1>3, <2>2
<1>4. CASE kind = "body"
  BY <1>4
<1>5. CASE kind = "right"
  <2>1. r = <<"ok", TRUE>> \/ r = <<"error", key>>
    BY <1>5
  <2>2. CASE r = <<"ok", TRUE>>
    <3>1. r[1] = "ok" /\ r[2] = TRUE
      BY <2>2
    <3> QED
      BY <1>5, <3>1
  <2>3. CASE r = <<"error", key>>
    <3>1. r[1] = "error" /\ r[2] = key
      BY <2>3
    <3> QED
      BY <1>5, <3>1
  <2> QED
    BY <2>1, <2>2, <2>3
<1>6. CASE kind = "wrong"
  BY <1>6
<1> QED
  BY <1>1, <1>2, <1>3, <1>4, <1>5, <1>6 DEF Kinds

\* The host answers a request.
LEMMA HostStepLink ==
    ASSUME TypeOK, MessagesFit, HostsEnd, HelloFirst, NoneMissed, KeyFollows, HostStep
    PROVE  TypeOK' /\ MessagesFit' /\ HostsEnd' /\ HelloFirst' /\ NoneMissed' /\ KeyFollows'
<1> DEFINE request == Head(inbox)
<1>1. PICK r \in Reply(request.kind, request.row) :
          /\ outbox' = Append(outbox, [id |-> request.id, answer |-> r[1]])
          /\ key' = r[2]
  BY DEF HostStep
<1>2. /\ host = "running" /\ host' = host /\ inbox # << >> /\ inbox' = Tail(inbox)
      /\ UNCHANGED <<pending, vaultState, late, overlay, pendingCopy, retry, ops,
                     disabled, text, label>>
  BY DEF HostStep, vault, copying, buttons
<1>3. /\ inbox' \in Seq(Messages) /\ request \in Messages
      /\ 1 \in DOMAIN inbox /\ request = inbox[1]
      /\ \A n \in DOMAIN inbox' : /\ n \in Nat /\ n + 1 # 1
                                  /\ n + 1 \in DOMAIN inbox /\ inbox'[n] = inbox[n + 1]
  <2>1. /\ inbox' \in Seq(Messages) /\ Len(inbox') = Len(inbox) - 1 /\ request \in Messages
        /\ \A n \in 1..Len(inbox') : inbox'[n] = inbox[n + 1]
    BY <1>2, HeadTailProperties DEF TypeOK
  <2>2. DOMAIN inbox' = 1..Len(inbox') /\ DOMAIN inbox = 1..Len(inbox) /\ Len(inbox) \in Nat
        /\ Len(inbox') \in Nat
    BY <2>1, LenProperties DEF TypeOK
  <2>3. 1 \in DOMAIN inbox
    BY <2>1, <2>2
  <2> QED
    BY <2>1, <2>2, <2>3
<1>4. /\ request.kind \in Kinds /\ request.id \in Ids
      /\ r[1] \in Answers /\ r[2] \in BOOLEAN
      /\ request.kind = "hello" => r[1] \in VaultStates /\ r[2] = key
      /\ request.kind = "hello" /\ ~key => r[1] # "unlocked"
      /\ request.kind = "lock" => ~r[2]
      /\ request.kind = "body" => r[2] = key
      /\ request.kind \in Unlocks /\ r[1] # "ok" => r[2] = key
      /\ request.kind \in Unlocks /\ r[1] = "ok" => r[2]
  <2>1. request.kind \in Kinds /\ request.id \in Ids /\ key \in BOOLEAN
    BY <1>3 DEF Messages, TypeOK
  <2> HIDE DEF request
  <2> QED
    BY <1>1, <2>1, ReplyFacts
<1> DEFINE delivery == [id |-> request.id, answer |-> r[1]]
<1>5. /\ delivery \in Deliveries /\ delivery.id = request.id /\ delivery.answer = r[1]
  BY <1>4 DEF Deliveries
<1> HIDE DEF delivery, request
<1>6. outbox \in Seq(Deliveries) /\ DOMAIN outbox = 1..Len(outbox) /\ Len(outbox) \in Nat
  BY LenProperties DEF TypeOK
<1>7. /\ outbox' \in Seq(Deliveries) /\ DOMAIN outbox' = 1..Len(outbox) + 1
      /\ outbox'[Len(outbox) + 1] = delivery
      /\ \A n \in DOMAIN outbox : outbox'[n] = outbox[n] /\ n <= Len(outbox)
  <2>1. outbox' = Append(outbox, delivery)
    BY <1>1 DEF delivery
  <2> QED
    BY <1>5, <1>6, <2>1, AppendProperties, LenProperties
<1>8. \A n \in DOMAIN outbox' : \/ n \in DOMAIN outbox /\ outbox'[n] = outbox[n]
                                \/ n = Len(outbox) + 1 /\ outbox'[n] = delivery
  BY <1>6, <1>7
<1>9. TypeOK'
  BY <1>1, <1>2, <1>3, <1>4, <1>7 DEF TypeOK
<1>10. MessagesFit'
  <2>1. \A m, n \in DOMAIN inbox' : inbox'[m].id = inbox'[n].id => m = n
    <3> TAKE m, n \in DOMAIN inbox'
    <3>1. inbox'[m].id = inbox'[n].id => m + 1 = n + 1
      BY <1>3 DEF MessagesFit
    <3>2. m + 1 = n + 1 => m = n
      BY <1>3, Cancelling
    <3> QED
      BY <3>1, <3>2
  <2>2. \A m, n \in DOMAIN outbox' : outbox'[m].id = outbox'[n].id => m = n
    BY <1>3, <1>5, <1>8 DEF MessagesFit
  <2>3. \A m \in DOMAIN inbox', n \in DOMAIN outbox' : inbox'[m].id # outbox'[n].id
    BY <1>3, <1>5, <1>8 DEF MessagesFit
  <2>4. \A n \in DOMAIN inbox' : pending'[inbox'[n].id].kind \in {"none", inbox'[n].kind}
    BY <1>2, <1>3 DEF MessagesFit
  <2>5. \A n \in DOMAIN outbox' :
            pending'[outbox'[n].id].kind = "hello" => outbox'[n].answer \in VaultStates
    BY <1>2, <1>3, <1>4, <1>5, <1>8 DEF MessagesFit
  <2> QED
    BY <2>1, <2>2, <2>3, <2>4, <2>5 DEF MessagesFit
<1>11. HostsEnd'
  BY <1>2 DEF HostsEnd
<1>12. HelloFirst'
  <2>1. ASSUME NEW j \in Ids, pending[j].kind = "hello" PROVE ~key' /\ ~key
    BY <1>1, <1>3, <1>4, <2>1 DEF HelloFirst
  <2> QED
    BY <1>2, <1>3, <2>1 DEF HelloFirst
<1>13. NoneMissed'
  <2> SUFFICES ASSUME ~late PROVE NoneMissed'
    BY <1>2 DEF NoneMissed
  <2>1. pending[request.id].kind = request.kind
    BY <1>3 DEF NoneMissed
  <2>2. pending[request.id] # None
    BY <1>4, <2>1 DEF None, Kinds, Unlocks
  <2> QED
    BY <1>2, <1>3, <1>5, <1>8, <2>2 DEF NoneMissed, Asked
<1>14. KeyFollows'
  <2> SUFFICES ASSUME ~late PROVE KeyFollows'
    BY <1>2 DEF KeyFollows
  <2> DEFINE kind == request.kind
  <2>0. PICK last \in Nat : last = Len(outbox) + 1
    BY <1>6
  <2>1. pending[request.id].kind = kind /\ kind # "reconcile" /\ kind \in Kinds
    BY <1>3, <1>4 DEF NoneMissed, Asked
  <2>2. \A n \in DOMAIN outbox : (Tells(n)' <=> Tells(n)) /\ (Opens(n)' <=> Opens(n))
    BY <1>2, <1>7 DEF Tells, Opens
  <2>3. /\ Tells(last)' <=> kind \in {"hello", "lock"} \/ (kind \in Unlocks /\ r[1] = "ok")
        /\ Opens(last)' <=> kind \in Unlocks \/ (kind = "hello" /\ r[1] = "unlocked")
    <3>1. /\ outbox'[last] = delivery /\ pending'[delivery.id].kind = kind
          /\ delivery.answer = r[1]
      BY <1>2, <1>5, <1>7, <2>0, <2>1
    <3> HIDE DEF kind
    <3> QED
      BY <3>1 DEF Tells, Opens
  <2>4. Tells(last)' => (Opens(last)' <=> key')
    <3>1. kind = "hello" => ~key
      BY <1>4, <2>1 DEF HelloFirst
    <3> QED
      BY <1>1, <1>4, <2>1, <2>3, <3>1 DEF Unlocks
  <2>5. ~Tells(last)' => key' = key
    BY <1>1, <1>4, <2>1, <2>3 DEF Kinds
  <2>6. last \in DOMAIN outbox' /\ \A n \in DOMAIN outbox' : n \in DOMAIN outbox \/ n = last
    BY <1>6, <1>7, <1>8, <2>0
  <2>7. \A n \in DOMAIN outbox : ~(last <= n) /\ n \in DOMAIN outbox'
    BY <1>6, <1>7, <2>0
  <2>8. CASE Tells(last)'
    <3>1. \A n \in DOMAIN outbox' :
              Tells(n)' /\ (\A m \in DOMAIN outbox' : Tells(m)' => m <= n) =>
                  (Opens(n)' <=> key')
      BY <2>4, <2>6, <2>7, <2>8
    <3> QED
      BY <2>6, <2>8, <3>1 DEF KeyFollows
  <2>9. CASE ~Tells(last)'
    <3>1. \A n \in DOMAIN outbox' :
              Tells(n)' /\ (\A m \in DOMAIN outbox' : Tells(m)' => m <= n) =>
                  (Opens(n)' <=> key')
      BY <1>2, <2>2, <2>5, <2>6, <2>7, <2>9 DEF KeyFollows
    <3>2. (\A n \in DOMAIN outbox' : ~Tells(n)') => (vaultState' = "unlocked" <=> key')
      BY <1>2, <2>2, <2>5, <2>7, <2>9 DEF KeyFollows
    <3> QED
      BY <3>1, <3>2 DEF KeyFollows
  <2> QED
    BY <2>8, <2>9
<1> QED
  BY <1>9, <1>10, <1>11, <1>12, <1>13, <1>14

\* The popup handles an answer, and may ask for a body then.
LEMMA AnswerPosts ==
    ASSUME TypeOK, HandleMessage
    PROVE  \/ NoPost(Without(Head(outbox).id))
           \/ \E o \in Ops, row \in Rows \cup {NoRow} :
                  Post(Without(Head(outbox).id), "body", o, row)
<1> DEFINE i == Head(outbox).id
           answer == Head(outbox).answer
           rest == Without(i)
<1>1. Answered(i, answer)
  BY DEF HandleMessage
<1>2. ASSUME FinishUnlock(rest) PROVE NoPost(rest) \/ \E o \in Ops, row \in Rows \cup {NoRow} :
                  Post(rest, "body", o, row)
  <2>1. CASE pendingCopy = NoOp
    BY <1>2, <2>1 DEF FinishUnlock
  <2>2. CASE pendingCopy # NoOp
    <3>1. pendingCopy \in Ops /\ ops[pendingCopy].row \in Rows \cup {NoRow}
      BY <2>2 DEF TypeOK, Operations
    <3>2. PICK o \in {pendingCopy} \cup FreeOps :
              Begin(o, ops[pendingCopy].row, ops[pendingCopy].attached, rest)
      BY <1>2, <2>2 DEF FinishUnlock
    <3>3. o \in Ops
      BY <3>1, <3>2 DEF FreeOps
    <3> QED
      BY <3>1, <3>2, <3>3 DEF Begin
  <2> QED
    BY <2>1, <2>2
<1> QED
  BY <1>1, <1>2 DEF Answered

LEMMA AnswerRest ==
    ASSUME TypeOK, MessagesFit, HandleMessage
    PROVE  /\ Head(outbox).id \in Ids /\ Head(outbox).answer \in Answers
           /\ outbox # << >> /\ outbox' = Tail(outbox)
           /\ Without(Head(outbox).id) \in [Ids -> Requests]
           /\ Rest(Without(Head(outbox).id))
           /\ 1 \in DOMAIN outbox /\ outbox[1] = Head(outbox)
           /\ \A n \in DOMAIN outbox : n = 1 \/ (n - 1 \in DOMAIN outbox' /\ n = (n - 1) + 1)
           /\ \A n \in DOMAIN outbox' :
                  /\ n \in Nat /\ n + 1 \in DOMAIN outbox /\ n + 1 # 1
                  /\ outbox'[n] = outbox[n + 1] /\ outbox[n + 1].id # Head(outbox).id
<1>1. outbox # << >> /\ outbox' = Tail(outbox) /\ outbox \in Seq(Deliveries)
  BY DEF HandleMessage, TypeOK
<1>2. /\ outbox' \in Seq(Deliveries) /\ Len(outbox') = Len(outbox) - 1
      /\ Head(outbox) \in Deliveries
      /\ \A n \in 1..Len(outbox') : outbox'[n] = outbox[n + 1]
  BY <1>1, HeadTailProperties
<1>3. /\ DOMAIN outbox' = 1..Len(outbox') /\ Len(outbox') \in Nat
      /\ DOMAIN outbox = 1..Len(outbox) /\ Len(outbox) \in Nat
  BY <1>1, <1>2, LenProperties
<1>4. 1 \in DOMAIN outbox /\ outbox[1] = Head(outbox)
  BY <1>1, <1>2, <1>3
<1>5. \A n \in DOMAIN outbox : n = 1 \/ (n - 1 \in DOMAIN outbox' /\ n = (n - 1) + 1)
  BY <1>2, <1>3
<1>6. \A n \in DOMAIN outbox' :
          /\ n \in Nat /\ n + 1 \in DOMAIN outbox /\ n + 1 # 1
          /\ outbox'[n] = outbox[n + 1]
  BY <1>2, <1>3
<1>7. \A n \in DOMAIN outbox' : outbox[n + 1].id # Head(outbox).id
  BY <1>4, <1>6 DEF MessagesFit
<1>8. Head(outbox).id \in Ids /\ Head(outbox).answer \in Answers
  BY <1>2 DEF Deliveries
<1>9. Without(Head(outbox).id) \in [Ids -> Requests]
  BY <1>8 DEF Without, TypeOK, Requests, None
<1>10. \A j \in Ids : Without(Head(outbox).id)[j] \in {pending[j], None}
  BY <1>8 DEF Without, TypeOK
<1>11. Rest(Without(Head(outbox).id))
  BY <1>1, <1>10 DEF Rest
<1> QED
  BY <1>1, <1>4, <1>5, <1>6, <1>7, <1>8, <1>9, <1>11

LEMMA AnswerPending ==
    ASSUME TypeOK, MessagesFit, HandleMessage
    PROVE  /\ \A j \in Ids : \/ pending'[j].kind = "body"
                             \/ pending'[j] = None
                             \/ j # Head(outbox).id /\ pending'[j] = pending[j]
           /\ \A n \in DOMAIN outbox' : pending'[outbox'[n].id] = pending[outbox[n + 1].id]
           /\ \A n \in DOMAIN inbox : pending'[inbox[n].id] = pending[inbox[n].id]
           /\ \A n \in DOMAIN inbox' : \/ n \in DOMAIN inbox /\ inbox'[n] = inbox[n]
                                       \/ pending'[inbox'[n].id].kind = inbox'[n].kind
           /\ key' = key /\ (host = "gone" => host' = "gone")
<1> DEFINE i == Head(outbox).id
           rest == Without(i)
<1>1. /\ i \in Ids /\ outbox[1].id = i /\ 1 \in DOMAIN outbox
      /\ \A n \in DOMAIN outbox' : n + 1 \in DOMAIN outbox /\ outbox'[n] = outbox[n + 1]
                                   /\ outbox[n + 1].id # i /\ outbox[n + 1].id \in Ids
  BY AnswerRest, MessageTypes
<1>2. \A j \in Ids : rest[j] = IF j = i THEN None ELSE pending[j]
  BY <1>1 DEF Without, TypeOK
<1>3. \A n \in DOMAIN inbox : inbox[n].id # i /\ inbox[n].id \in Ids
  BY <1>1, MessageTypes DEF MessagesFit
<1> HIDE DEF i
<1>4. CASE NoPost(rest)
  <2>1. pending' = rest /\ inbox' = inbox /\ key' = key /\ host' = host
    BY <1>4 DEF NoPost
  <2> HIDE DEF rest
  <2> QED
    BY <1>1, <1>2, <1>3, <2>1 DEF i
<1>5. ASSUME NEW o \in Ops, NEW row \in Rows \cup {NoRow}, Post(rest, "body", o, row)
      PROVE  /\ \A j \in Ids : \/ pending'[j].kind = "body"
                               \/ pending'[j] = None
                               \/ j # i /\ pending'[j] = pending[j]
             /\ \A n \in DOMAIN outbox' : pending'[outbox'[n].id] = pending[outbox[n + 1].id]
             /\ \A n \in DOMAIN inbox : pending'[inbox[n].id] = pending[inbox[n].id]
             /\ \A n \in DOMAIN inbox' : \/ n \in DOMAIN inbox /\ inbox'[n] = inbox[n]
                                         \/ pending'[inbox'[n].id].kind = inbox'[n].kind
             /\ key' = key /\ (host = "gone" => host' = "gone")
  <2>1. PICK k \in Fresh(rest) :
            /\ pending' = [rest EXCEPT ![k] = [kind |-> "body", op |-> o]]
            /\ inbox' = IF host = "gone" THEN inbox
                        ELSE Append(inbox, [id |-> k, kind |-> "body", row |-> row])
    BY <1>5 DEF Post
  <2>2. key' = key /\ (host = "gone" => host' = "gone")
    BY <1>5 DEF Post
  <2>3. /\ k \in Ids
        /\ \A n \in DOMAIN inbox : inbox[n].id # k
        /\ \A n \in DOMAIN outbox : outbox[n].id # k
    BY DEF Fresh
  <2>4. rest \in [Ids -> Requests]
    BY AnswerRest DEF i
  <2> HIDE DEF rest
  <2>5. /\ \A j \in Ids : j # k => pending'[j] = rest[j]
        /\ pending'[k] = [kind |-> "body", op |-> o]
    BY <2>1, <2>3, <2>4
  <2>6. \A j \in Ids : \/ pending'[j].kind = "body"
                       \/ pending'[j] = None
                       \/ j # i /\ pending'[j] = pending[j]
    BY <1>2, <2>5
  <2>7. \A n \in DOMAIN outbox' : pending'[outbox'[n].id] = pending[outbox[n + 1].id]
    BY <1>1, <1>2, <2>3, <2>5
  <2>8. \A n \in DOMAIN inbox : pending'[inbox[n].id] = pending[inbox[n].id]
    BY <1>2, <1>3, <2>3, <2>5
  <2>9. \A n \in DOMAIN inbox' : \/ n \in DOMAIN inbox /\ inbox'[n] = inbox[n]
                                 \/ pending'[inbox'[n].id].kind = inbox'[n].kind
    <3> DEFINE message == [id |-> k, kind |-> "body", row |-> row]
    <3>1. message \in Messages /\ message.id = k /\ message.kind = "body"
      BY <2>3 DEF Messages, Kinds
    <3> HIDE DEF message
    <3>2. CASE host = "gone"
      BY <2>1, <3>2
    <3>3. CASE host # "gone"
      <4>1. inbox' = Append(inbox, message)
        BY <2>1, <3>3 DEF message
      <4>2. inbox \in Seq(Messages) /\ DOMAIN inbox = 1..Len(inbox) /\ Len(inbox) \in Nat
        BY LenProperties DEF TypeOK
      <4>3. \A n \in DOMAIN inbox' : \/ n \in DOMAIN inbox /\ inbox'[n] = inbox[n]
                                     \/ inbox'[n] = message
        BY <3>1, <4>1, <4>2
      <4> QED
        BY <2>5, <3>1, <4>3
    <3> QED
      BY <3>2, <3>3
  <2> QED
    BY <2>2, <2>6, <2>7, <2>8, <2>9
<1> QED
  BY <1>4, <1>5, AnswerPosts DEF i

LEMMA AnswerLink ==
    ASSUME TypeOK, BodiesAsked, MessagesFit, HelloFirst, NoneMissed, KeyFollows,
           HandleMessage
    PROVE  HelloFirst' /\ NoneMissed' /\ KeyFollows'
<1> DEFINE i == Head(outbox).id
           answer == Head(outbox).answer
           kind == pending[i].kind
<1>1. Answered(i, answer) /\ late' = late
  BY DEF HandleMessage
<1>2. /\ i \in Ids /\ answer \in Answers /\ 1 \in DOMAIN outbox
      /\ outbox[1].id = i /\ outbox[1].answer = answer
      /\ \A n \in DOMAIN outbox : n = 1 \/ (n - 1 \in DOMAIN outbox' /\ n = (n - 1) + 1)
      /\ \A n \in DOMAIN outbox' : n \in Nat /\ n + 1 \in DOMAIN outbox /\ n + 1 # 1
                                   /\ outbox'[n] = outbox[n + 1]
  BY AnswerRest
<1>3. /\ \A j \in Ids : \/ pending'[j].kind = "body"
                        \/ pending'[j] = None
                        \/ j # i /\ pending'[j] = pending[j]
      /\ \A n \in DOMAIN outbox' : pending'[outbox'[n].id] = pending[outbox[n + 1].id]
      /\ \A n \in DOMAIN inbox : pending'[inbox[n].id] = pending[inbox[n].id]
      /\ \A n \in DOMAIN inbox' : \/ n \in DOMAIN inbox /\ inbox'[n] = inbox[n]
                                  \/ pending'[inbox'[n].id].kind = inbox'[n].kind
      /\ key' = key /\ (host = "gone" => host' = "gone")
  BY AnswerPending
<1> HIDE DEF i, answer
<1>4. HelloFirst'
  <2> SUFFICES ASSUME NEW j \in Ids, pending'[j].kind = "hello"
               PROVE  /\ ~key'
                      /\ vaultState' = "not_configured"
                      /\ ~overlay'
                      /\ pendingCopy' = NoOp
                      /\ \A q \in Ids : q # j => pending'[q] = None
                      /\ \A n \in DOMAIN inbox' : inbox'[n].kind = "hello"
    BY DEF HelloFirst
  <2>1. j # i /\ pending[j].kind = "hello"
    BY <1>3 DEF None
  <2>2. pending[i] = None /\ ~key /\ \A q \in Ids : q # j => pending[q] = None
    BY <1>2, <2>1 DEF HelloFirst
  <2>3. /\ NoPost(Without(i))
        /\ UNCHANGED <<vaultState, overlay, copying>>
    BY <1>1, <2>2 DEF Answered, None, Unlocks
  <2>4. inbox' = inbox /\ pending' = Without(i) /\ key' = key
    BY <2>3 DEF NoPost
  <2>5. \A q \in Ids : q # j => pending'[q] = None
    BY <1>2, <2>2, <2>4 DEF Without, TypeOK
  <2> QED
    BY <2>1, <2>3, <2>4, <2>5 DEF HelloFirst, copying
<1>5. NoneMissed'
  <2> SUFFICES ASSUME ~late PROVE NoneMissed'
    BY <1>1 DEF NoneMissed
  <2>1. \A n \in DOMAIN inbox' : pending'[inbox'[n].id].kind = inbox'[n].kind
    BY <1>3 DEF NoneMissed
  <2>2. \A n \in DOMAIN outbox' : pending'[outbox'[n].id] # None
    BY <1>2, <1>3 DEF NoneMissed
  <2>3. ~Asked({"reconcile"})'
    BY <1>3 DEF NoneMissed, Asked, None
  <2> QED
    BY <2>1, <2>2, <2>3 DEF NoneMissed
<1>6. KeyFollows'
  <2> SUFFICES ASSUME ~late, host' # "gone" PROVE KeyFollows'
    BY <1>1 DEF KeyFollows
  <2>1. host # "gone" /\ key' = key
    BY <1>3
  <2>2. \A n \in DOMAIN outbox' :
            (Tells(n)' <=> Tells(n + 1)) /\ (Opens(n)' <=> Opens(n + 1))
    BY <1>2, <1>3 DEF Tells, Opens
  <2>3. \A n \in DOMAIN outbox' :
            Tells(n)' /\ (\A m \in DOMAIN outbox' : Tells(m)' => m <= n) =>
                (Opens(n)' <=> key')
    <3> SUFFICES ASSUME NEW n \in DOMAIN outbox', Tells(n)',
                        \A m \in DOMAIN outbox' : Tells(m)' => m <= n
                 PROVE  Opens(n)' <=> key'
      OBVIOUS
    <3>1. n + 1 \in DOMAIN outbox /\ Tells(n + 1) /\ n \in Nat
      BY <1>2, <2>2
    <3>2. ASSUME NEW m \in DOMAIN outbox, Tells(m)
          PROVE  m <= n + 1
      <4>1. CASE m = 1
        BY <3>1, <4>1
      <4>2. CASE m # 1
        <5>1. m - 1 \in DOMAIN outbox' /\ m = (m - 1) + 1 /\ m - 1 \in Nat
          BY <1>2, <4>2
        <5>2. PICK k \in Nat : k = m - 1
          BY <5>1
        <5>3. k \in DOMAIN outbox' /\ m = k + 1
          BY <5>1, <5>2
        <5>4. Tells(k)'
          BY <2>2, <3>2, <5>3
        <5>5. k <= n
          BY <5>3, <5>4
        <5> QED
          BY <3>1, <5>3, <5>5
      <4> QED
        BY <4>1, <4>2
    <3> QED
      BY <2>1, <2>2, <3>1, <3>2 DEF KeyFollows
  <2>4. ASSUME \A n \in DOMAIN outbox' : ~Tells(n)'
        PROVE  vaultState' = "unlocked" <=> key'
    <3>1. \A m \in DOMAIN outbox : Tells(m) => m = 1
      <4> SUFFICES ASSUME NEW m \in DOMAIN outbox, Tells(m), m # 1 PROVE FALSE
        OBVIOUS
      <4>1. m - 1 \in DOMAIN outbox' /\ m = (m - 1) + 1 /\ m - 1 \in Nat
        BY <1>2
      <4>2. PICK k \in Nat : k = m - 1
        BY <4>1
      <4>3. k \in DOMAIN outbox' /\ m = k + 1
        BY <4>1, <4>2
      <4> QED
        BY <2>2, <2>4, <4>3
    <3>2. /\ Tells(1) <=> kind \in {"hello", "lock"} \/ (kind \in Unlocks /\ answer = "ok")
          /\ Opens(1) <=> kind \in Unlocks \/ (kind = "hello" /\ answer = "unlocked")
      BY <1>2 DEF Tells, Opens
    <3>3. kind # "none" /\ kind # "reconcile"
      <4>1. pending[i] # None /\ pending[i].kind # "reconcile"
        BY <1>2 DEF NoneMissed, Asked
      <4>2. pending[i] \in Requests /\ (kind = "none" => pending[i].op = NoOp)
        BY <1>2 DEF TypeOK, BodiesAsked, BodiesOf
      <4> QED
        BY <4>1, <4>2 DEF None, Requests
    <3>4. CASE Tells(1)
      <4>1. Opens(1) <=> key
        BY <1>2, <2>1, <3>1, <3>4 DEF KeyFollows
      <4>2. vaultState' = "unlocked" <=> Opens(1)
        <5>1. CASE kind = "hello"
          BY <1>1, <3>2, <5>1 DEF Answered, Unlocks
        <5>2. CASE kind = "lock"
          BY <1>1, <3>2, <5>2 DEF Answered, Unlocks
        <5>3. CASE kind \in Unlocks /\ answer = "ok"
          <6>1. FinishUnlock(Without(i))
            BY <1>1, <5>3 DEF Answered, Unlocks, Confirms
          <6> QED
            BY <3>2, <5>3, <6>1 DEF FinishUnlock
        <5> QED
          BY <3>2, <3>4, <5>1, <5>2, <5>3
      <4> QED
        BY <2>1, <4>1, <4>2
    <3>5. CASE ~Tells(1)
      <4>1. vaultState = "unlocked" <=> key
        BY <2>1, <3>1, <3>5 DEF KeyFollows
      <4>2. vaultState' = vaultState
        BY <1>1, <3>2, <3>3, <3>5 DEF Answered, Unlocks, Confirms
      <4> QED
        BY <2>1, <4>1, <4>2
    <3> QED
      BY <3>4, <3>5
  <2> QED
    BY <2>3, <2>4 DEF KeyFollows
<1> QED
  BY <1>4, <1>5, <1>6

------------------------------------------------------------------------------
\* The operations, the buttons and the dialog.

CopyOK ==
    /\ overlay \in BOOLEAN
    /\ {pendingCopy, retry} \subseteq Ops \cup {NoOp}
    /\ ops \in [Ops -> Operations]
    /\ disabled \subseteq Rows /\ text \subseteq Rows /\ label \subseteq Rows
    /\ AttachedToRows
    /\ NeverStuck
    /\ DisabledMeansBusy
    /\ OneOperation

LEMMA FreeIsOperation == Free \in Operations /\ Free.stage = "free" /\ ~Free.attached
BY DEF Free, Operations

LEMMA FailCopy ==
    ASSUME CopyOK, NEW o \in Ops, ops[o].stage \in Busy, Fail(o), UNCHANGED overlay
    PROVE  CopyOK'
<1> USE DEF CopyOK
<1>1. /\ ops'[o] = Free /\ ops' \in [Ops -> Operations]
      /\ \A q \in Ops : q # o => ops'[q] = ops[q]
  BY FreeIsOperation DEF Fail
<1>2. /\ disabled' = disabled \ RowOf(o) /\ text' = text /\ label' = label
      /\ pendingCopy' = IF pendingCopy = o THEN NoOp ELSE pendingCopy
      /\ retry' = IF retry = o THEN NoOp ELSE retry
  BY DEF Fail, Returned
<1>3. AttachedToRows'
  BY <1>1, FreeIsOperation DEF AttachedToRows
<1>4. NeverStuck'
  BY <1>1, <1>2 DEF NeverStuck
<1>5. DisabledMeansBusy'
  BY <1>1, <1>2 DEF DisabledMeansBusy, RowOf
<1>6. OneOperation'
  <2> SUFFICES ASSUME ~CancelDuringUnlock PROVE OneOperation'
    BY DEF OneOperation
  <2>1. pendingCopy = o /\ \A q \in Ops : q # o => ops[q].stage = "free"
    BY DEF OneOperation, Busy
  <2>2. pendingCopy' = NoOp /\ \A q \in Ops : ops'[q].stage = "free"
    BY <1>1, <1>2, <2>1, FreeIsOperation
  <2>3. retry' = NoOp
    BY <1>2, <2>1 DEF OneOperation
  <2>4. text = {} /\ label = {}
    BY <2>1 DEF OneOperation, MarksAreFeedback, Busy
  <2>5. MarksAreFeedback'
    BY <1>2, <2>4 DEF MarksAreFeedback
  <2> QED
    BY <2>2, <2>3, <2>5 DEF OneOperation
<1> QED
  BY <1>1, <1>2, <1>3, <1>4, <1>5, <1>6

LEMMA AskCopy ==
    ASSUME CopyOK, NEW o \in Ops, ops[o].stage = "body", AskPassword(o)
    PROVE  CopyOK'
<1> USE DEF CopyOK
<1> DEFINE new == IF pendingCopy = o THEN [ops[o] EXCEPT !.stage = "waiting"] ELSE Free
<1>1. /\ ops'[o] = new /\ ops' = [ops EXCEPT ![o] = new]
      /\ \A q \in Ops : q # o => ops'[q] = ops[q]
  BY DEF AskPassword
<1>2. /\ new \in Operations
      /\ new.stage \in {"free", "waiting"} /\ (new.stage = "waiting" <=> pendingCopy = o)
      /\ pendingCopy = o => new.row = ops[o].row /\ new.attached = ops[o].attached
                            /\ new.text = ops[o].text /\ new.label = ops[o].label
      /\ pendingCopy # o => ~new.attached
  BY FreeIsOperation DEF Operations
<1> HIDE DEF new
<1>3. /\ overlay' = TRUE /\ disabled' = disabled \ RowOf(o) /\ text' = text /\ label' = label
      /\ pendingCopy' = pendingCopy
      /\ retry' = IF retry = o THEN NoOp ELSE retry
  BY DEF AskPassword, Returned
<1>4. AttachedToRows'
  BY <1>1, <1>2 DEF AttachedToRows
<1>5. NeverStuck'
  BY <1>1, <1>2, <1>3 DEF NeverStuck
<1>6. DisabledMeansBusy'
  BY <1>1, <1>3 DEF DisabledMeansBusy, RowOf
<1>7. OneOperation'
  <2> SUFFICES ASSUME ~CancelDuringUnlock PROVE OneOperation'
    BY DEF OneOperation
  <2>1. pendingCopy = o /\ \A q \in Ops : q # o => ops[q].stage = "free"
    BY DEF OneOperation
  <2>2. retry' = NoOp
    BY <1>3, <2>1 DEF OneOperation
  <2>3. text = {} /\ label = {}
    BY <2>1 DEF OneOperation, MarksAreFeedback
  <2>4. MarksAreFeedback'
    BY <1>3, <2>3 DEF MarksAreFeedback
  <2>5. ~ops'[o].text /\ ~ops'[o].label /\ ops'[o].stage = "waiting"
    BY <1>1, <1>2, <2>1 DEF OneOperation
  <2> QED
    BY <1>1, <1>3, <2>1, <2>2, <2>4, <2>5 DEF OneOperation
<1>8. ops' \in [Ops -> Operations]
  BY <1>1, <1>2
<1> QED
  BY <1>3, <1>4, <1>5, <1>6, <1>7, <1>8

\* An operation begins: for a click, or for the retry after an unlock.
LEMMA BeginCopy ==
    ASSUME CopyOK, NEW o \in Ops, NEW row \in Rows \cup {NoRow}, NEW attached \in BOOLEAN,
           attached => row \in Rows,
           NEW rest, Begin(o, row, attached, rest),
           overlay' = FALSE, retry' \in {o, NoOp} \/ retry' = retry,
           ops[o].stage = "free" \/ (ops[o].stage = "waiting" /\ pendingCopy = o),
           ~CancelDuringUnlock =>
               /\ pendingCopy = NoOp \/ (overlay /\ pendingCopy = o)
               /\ retry' # NoOp => retry' = o
    PROVE  CopyOK'
<1> USE DEF CopyOK
<1> DEFINE new == [stage |-> "body", row |-> row, attached |-> attached,
                   text |-> row \in text, label |-> FALSE]
<1>1. /\ ops' = [ops EXCEPT ![o] = new]
      /\ pendingCopy' = o /\ text' = text /\ label' = label
      /\ disabled' = disabled \cup (IF attached THEN {row} ELSE {})
  BY DEF Begin
<1>2. /\ new \in Operations /\ new.stage = "body" /\ new.row = row
      /\ new.attached = attached /\ ~new.label
  BY DEF Operations, Live, Busy
<1>9. new.text <=> row \in text
  BY Zenon
<1> HIDE DEF new
<1>3. /\ ops' \in [Ops -> Operations] /\ ops'[o] = new
      /\ \A q \in Ops : q # o => ops'[q] = ops[q]
  BY <1>1, <1>2
<1>4. AttachedToRows'
  BY <1>2, <1>3 DEF AttachedToRows
<1>5. NeverStuck'
  BY <1>1, <1>2, <1>3 DEF NeverStuck, Live, Busy
<1>6. DisabledMeansBusy'
  <2>1. \A q \in Ops : ops[q].stage \in Live => q # o
    BY DEF Live, Busy
  <2>2. ASSUME NEW r \in disabled
        PROVE  \E q \in Ops : ops'[q].stage \in Live /\ r \in RowOf(q)'
    <3>1. PICK q \in Ops : ops[q].stage \in Live /\ r \in RowOf(q)
      BY DEF DisabledMeansBusy
    <3>2. ops'[q] = ops[q]
      BY <1>3, <2>1, <3>1
    <3> QED
      BY <3>1, <3>2 DEF RowOf
  <2>3. attached => ops'[o].stage \in Live /\ row \in RowOf(o)'
    BY <1>2, <1>3 DEF Live, Busy, RowOf
  <2> QED
    BY <1>1, <2>2, <2>3 DEF DisabledMeansBusy
<1>7. OneOperation'
  <2> SUFFICES ASSUME ~CancelDuringUnlock PROVE OneOperation'
    BY DEF OneOperation
  <2>1. \A q \in Ops : q # o => ops[q].stage = "free"
    BY NoOpIsNone DEF OneOperation
  <2>2. text = {} /\ label = {}
    <3>1. \A q \in Ops : ops[q].stage # "feedback"
      BY <2>1
    <3> QED
      BY <3>1 DEF OneOperation, MarksAreFeedback
  <2>3. MarksAreFeedback'
    BY <1>1, <2>2 DEF MarksAreFeedback
  <2>4. ~ops'[o].text /\ ~ops'[o].label /\ ops'[o].stage \in Busy
    BY <1>2, <1>3, <1>9, <2>2 DEF Busy
  <2> QED
    BY <1>1, <1>3, <2>1, <2>3, <2>4 DEF OneOperation
<1>8. disabled' \subseteq Rows /\ {pendingCopy', retry'} \subseteq Ops \cup {NoOp}
  BY <1>1
<1> QED
  BY <1>1, <1>3, <1>4, <1>5, <1>6, <1>7, <1>8

\* Nothing of it changes.
LEMMA SameCopy ==
    ASSUME CopyOK, UNCHANGED <<overlay, copying>>
    PROVE  CopyOK'
BY DEF CopyOK, copying, buttons, AttachedToRows, NeverStuck, DisabledMeansBusy, RowOf,
       OneOperation, MarksAreFeedback

\* The body has come.
LEMMA BodyCopy ==
    ASSUME CopyOK, NEW o \in Ops, ops[o].stage = "body",
           ops' = [ops EXCEPT ![o].stage = "clipboard"],
           UNCHANGED <<overlay, pendingCopy, retry, buttons>>
    PROVE  CopyOK'
<1> USE DEF CopyOK
<1>1. /\ ops' \in [Ops -> Operations] /\ ops'[o].stage = "clipboard"
      /\ \A q \in Ops : q # o => ops'[q].stage = ops[q].stage
      /\ \A q \in Ops : /\ ops'[q].row = ops[q].row /\ ops'[q].attached = ops[q].attached
                        /\ ops'[q].text = ops[q].text /\ ops'[q].label = ops[q].label
  BY DEF Operations, Live, Busy
<1>2. AttachedToRows' /\ NeverStuck' /\ DisabledMeansBusy'
  BY <1>1 DEF buttons, AttachedToRows, NeverStuck, DisabledMeansBusy, RowOf, Live, Busy
<1>3. MarksAreFeedback => MarksAreFeedback'
  BY <1>1 DEF buttons, MarksAreFeedback, RowOf
<1>4. OneOperation'
  BY <1>1, <1>3 DEF OneOperation, Busy
<1> QED
  BY <1>1, <1>2, <1>4 DEF buttons

\* The text is on the clipboard.
LEMMA WrittenCopy ==
    ASSUME CopyOK, NEW o \in Ops, ops[o].stage = "clipboard",
           ops' = [ops EXCEPT ![o].stage = "feedback", ![o].label = ops[o].row \in label],
           text' = text \cup RowOf(o), label' = label \cup RowOf(o),
           Returned(o), UNCHANGED <<overlay, pendingCopy, disabled>>
    PROVE  CopyOK'
<1> USE DEF CopyOK
<1> DEFINE new == [ops[o] EXCEPT !.stage = "feedback", !.label = ops[o].row \in label]
<1>1. /\ ops' \in [Ops -> Operations] /\ ops'[o].stage = "feedback"
      /\ \A q \in Ops : q # o => ops'[q] = ops[q]
      /\ ops'[o].row = ops[o].row /\ ops'[o].attached = ops[o].attached
      /\ ops'[o].text = ops[o].text
  <2>1. ops[o] \in Operations
    OBVIOUS
  <2>2. new \in Operations /\ new.stage = "feedback" /\ new.row = ops[o].row
        /\ new.attached = ops[o].attached /\ new.text = ops[o].text
    <3> DEFINE marked(l) == [ops[o] EXCEPT !.stage = "feedback", !.label = l]
    <3>1. ASSUME NEW l \in BOOLEAN
          PROVE  /\ marked(l) \in Operations /\ marked(l).stage = "feedback"
                 /\ marked(l).row = ops[o].row /\ marked(l).attached = ops[o].attached
                 /\ marked(l).text = ops[o].text
      BY <2>1 DEF Operations, Live, Busy
    <3>2. (ops[o].row \in label) \in BOOLEAN
      OBVIOUS
    <3>3. new = marked(ops[o].row \in label)
      OBVIOUS
    <3> HIDE DEF new, marked
    <3> QED
      BY <3>1, <3>2, <3>3
  <2>3. ops' = [ops EXCEPT ![o] = new]
    BY <2>1 DEF Operations
  <2> HIDE DEF new
  <2> QED
    BY <2>2, <2>3
<1>2. ops'[o].label <=> ops[o].row \in label
  BY Zenon DEF Operations
<1> HIDE DEF new
<1>3. retry' = IF retry = o THEN NoOp ELSE retry
  BY DEF Returned
<1>4. AttachedToRows' /\ NeverStuck' /\ DisabledMeansBusy'
  BY <1>1 DEF AttachedToRows, NeverStuck, DisabledMeansBusy, RowOf, Live, Busy
<1>5. RowOf(o) \subseteq Rows
  BY DEF RowOf, AttachedToRows
<1>6. OneOperation'
  <2> SUFFICES ASSUME ~CancelDuringUnlock PROVE OneOperation'
    BY DEF OneOperation
  <2>1. pendingCopy = o /\ \A q \in Ops : q # o => ops[q].stage = "free"
    BY DEF OneOperation
  <2>2. text = {} /\ label = {}
    BY <2>1 DEF OneOperation, MarksAreFeedback
  <2>3. retry' = NoOp
    BY <1>3, <2>1 DEF OneOperation
  <2>4. ~overlay
    BY <2>1, NoOpIsNone DEF OneOperation
  <2>5. MarksAreFeedback'
    BY <1>1, <2>2 DEF MarksAreFeedback, RowOf
  <2> QED
    BY <1>1, <1>2, <2>1, <2>2, <2>3, <2>4, <2>5 DEF OneOperation
<1> QED
  BY <1>1, <1>3, <1>4, <1>5, <1>6

\* The feedback is over.
LEMMA ResetCopy ==
    ASSUME CopyOK, NEW o \in Ops, Reset(o)
    PROVE  CopyOK'
<1> USE DEF CopyOK
<1>1. /\ ops'[o] = Free /\ ops' \in [Ops -> Operations]
      /\ \A q \in Ops : q # o => ops'[q] = ops[q]
  BY FreeIsOperation DEF Reset
<1>2. /\ ops[o].stage = "feedback" /\ disabled' = disabled \ RowOf(o)
      /\ text' \subseteq text /\ label' \subseteq label
      /\ pendingCopy' = IF pendingCopy = o THEN NoOp ELSE pendingCopy
      /\ overlay' = overlay /\ retry' = retry
  BY DEF Reset
<1>3. AttachedToRows' /\ NeverStuck'
  BY <1>1, <1>2, FreeIsOperation DEF AttachedToRows, NeverStuck
<1>4. DisabledMeansBusy'
  BY <1>1, <1>2 DEF DisabledMeansBusy, RowOf
<1>5. OneOperation'
  <2> SUFFICES ASSUME ~CancelDuringUnlock PROVE OneOperation'
    BY DEF OneOperation
  <2>1. pendingCopy = o /\ \A q \in Ops : q # o => ops[q].stage = "free"
    BY <1>2 DEF OneOperation
  <2>2. text' = text \ RowOf(o) /\ label' = label \ RowOf(o)
    BY <1>2 DEF Reset, OneOperation
  <2>3. text \subseteq RowOf(o) /\ label \subseteq RowOf(o)
    BY <2>1 DEF OneOperation, MarksAreFeedback
  <2>4. MarksAreFeedback'
    BY <2>2, <2>3 DEF MarksAreFeedback
  <2>5. retry' = NoOp
    BY <1>2, <2>1 DEF OneOperation, Busy
  <2> QED
    BY <1>1, <1>2, <2>1, <2>4, <2>5, FreeIsOperation DEF OneOperation
<1> QED
  BY <1>1, <1>2, <1>3, <1>4, <1>5

\* The dialog is dismissed.
LEMMA CancelCopy ==
    ASSUME CopyOK, Cancel
    PROVE  CopyOK'
<1> USE DEF CopyOK
<1>1. /\ overlay' = FALSE /\ pendingCopy' = NoOp /\ retry' = retry
      /\ disabled' = disabled /\ text' = text /\ label' = label
  BY DEF Cancel, buttons
<1>2. \A o \in Ops : ops'[o] = IF ops[o].stage = "waiting" THEN Free ELSE ops[o]
  BY DEF Cancel
<1>3. ops' \in [Ops -> Operations]
  <2>1. ops' = [o \in Ops |-> IF ops[o].stage = "waiting" THEN Free ELSE ops[o]]
    BY DEF Cancel
  <2> QED
    BY <2>1, FreeIsOperation
<1>4. AttachedToRows' /\ NeverStuck' /\ DisabledMeansBusy'
  BY <1>1, <1>2, FreeIsOperation
  DEF AttachedToRows, NeverStuck, DisabledMeansBusy, RowOf, Live, Busy
<1>5. OneOperation'
  <2> SUFFICES ASSUME ~CancelDuringUnlock PROVE OneOperation'
    BY DEF OneOperation
  <2>1. retry = NoOp
    BY DEF Cancel, UnlockBusy
  <2>2. \A o \in Ops : ops[o].stage \in {"free", "waiting"}
    BY NoOpIsNone DEF Cancel, OneOperation
  <2>3. \A o \in Ops : ops'[o].stage = "free"
    BY <1>2, <2>2, FreeIsOperation
  <2>4. text = {} /\ label = {}
    BY <2>2 DEF OneOperation, MarksAreFeedback
  <2>5. MarksAreFeedback'
    BY <1>1, <2>4 DEF MarksAreFeedback
  <2> QED
    BY <1>1, <2>1, <2>3, <2>5 DEF OneOperation
<1> QED
  BY <1>1, <1>3, <1>4, <1>5

\* The list is drawn again, and some operations, failed, are over.
LEMMA RenewCopy ==
    ASSUME CopyOK, NEW failed \in SUBSET Ops, \A o \in failed : ops[o].stage = "body",
           NewButtons([o \in Ops |-> IF o \in failed THEN Free ELSE ops[o]]),
           pendingCopy' = IF pendingCopy \in failed THEN NoOp ELSE pendingCopy,
           retry' = IF retry \in failed THEN NoOp ELSE retry,
           UNCHANGED overlay
    PROVE  CopyOK'
<1> USE DEF CopyOK
<1> DEFINE current == [o \in Ops |-> IF o \in failed THEN Free ELSE ops[o]]
<1>1. current \in [Ops -> Operations]
  BY FreeIsOperation
<1>2. \A o \in Ops : current[o] = IF o \in failed THEN Free ELSE ops[o]
  OBVIOUS
<1>3. /\ ops' = [o \in Ops |-> [current[o] EXCEPT !.attached = FALSE]]
      /\ disabled' = {} /\ text' = {} /\ label' = {}
  BY DEF NewButtons
<1> HIDE DEF current
<1>4. /\ ops' \in [Ops -> Operations]
      /\ \A o \in Ops : /\ ops'[o].stage = current[o].stage /\ ~ops'[o].attached
                        /\ ops'[o].text = current[o].text /\ ops'[o].label = current[o].label
  <2>1. \A o \in Ops : ops'[o] = [current[o] EXCEPT !.attached = FALSE]
    BY <1>3
  <2>2. ASSUME NEW c \in Operations
        PROVE  /\ [c EXCEPT !.attached = FALSE] \in Operations
               /\ [c EXCEPT !.attached = FALSE].stage = c.stage
               /\ ~[c EXCEPT !.attached = FALSE].attached
               /\ [c EXCEPT !.attached = FALSE].text = c.text
               /\ [c EXCEPT !.attached = FALSE].label = c.label
    BY DEF Operations
  <2> QED
    BY <1>1, <1>3, <2>1, <2>2
<1>5. \A o \in Ops : o \notin failed => ops'[o].stage = ops[o].stage
  BY <1>2, <1>4
<1>6. \A o \in failed : ops'[o].stage = "free"
  BY <1>2, <1>4, FreeIsOperation
<1>7. AttachedToRows' /\ DisabledMeansBusy' /\ MarksAreFeedback'
  BY <1>3, <1>4 DEF AttachedToRows, DisabledMeansBusy, MarksAreFeedback
<1>8. NeverStuck'
  BY <1>5 DEF NeverStuck
<1>9. OneOperation'
  <2> SUFFICES ASSUME ~CancelDuringUnlock PROVE OneOperation'
    BY DEF OneOperation
  <2>1. \A o \in Ops : ops'[o].stage # "free" =>
            /\ o \notin failed /\ pendingCopy = o /\ pendingCopy' = o
            /\ ~ops[o].text /\ ~ops[o].label
    BY <1>5, <1>6 DEF OneOperation
  <2>2. \A o \in Ops : ops'[o].stage # "free" => ~ops'[o].text /\ ~ops'[o].label
    BY <1>2, <1>4, <2>1
  <2>3. overlay' /\ pendingCopy' # NoOp => ops'[pendingCopy'].stage = "waiting"
    BY <1>5 DEF OneOperation
  <2>4. retry' # NoOp => retry' = pendingCopy' /\ ops'[retry'].stage \in Busy
    BY <1>5 DEF OneOperation
  <2> QED
    BY <1>7, <2>1, <2>2, <2>3, <2>4 DEF OneOperation
<1> QED
  BY <1>3, <1>4, <1>7, <1>8, <1>9

------------------------------------------------------------------------------
\* The actions.

LEMMA Parts ==
    ASSUME IInv
    PROVE  /\ TypeOK /\ CopyOK /\ BodiesAsked /\ MessagesFit /\ HostsEnd
           /\ HelloFirst /\ NoneMissed /\ KeyFollows /\ UnlockUnderDialog
           /\ pending \in [Ids -> Requests] /\ ops \in [Ops -> Operations]
BY DEF IInv, CopyOK, TypeOK

\* Requests that may open the vault.
Openings == Unlocks \cup {"reconcile"}

LEMMA KeptDialog ==
    ASSUME UnlockUnderDialog, overlay' = overlay, retry' \in {retry, NoOp},
           \A j \in Ids : pending'[j].kind \in Openings => pending[j].kind \in Openings
    PROVE  UnlockUnderDialog'
BY DEF UnlockUnderDialog, Openings

LEMMA RestOfAll ==
    ASSUME TypeOK, UNCHANGED outbox
    PROVE  Rest(pending) /\ pending \in [Ids -> Requests]
           /\ \A i \in Ids : /\ Rest(Without(i)) /\ Without(i) \in [Ids -> Requests]
                             /\ Without(i)[i] = None
                             /\ \A j \in Ids : j # i => Without(i)[j] = pending[j]
<1>1. None \in Requests
  BY DEF None, Requests
<1> QED
  BY <1>1 DEF TypeOK, Rest, Without

LEMMA PostedRequest ==
    ASSUME NEW rest \in [Ids -> Requests], NEW kind, NEW op, NEW row, Post(rest, kind, op, row)
    PROVE  \E i \in Ids : /\ rest[i] = None /\ pending'[i] = [kind |-> kind, op |-> op]
                          /\ \A j \in Ids : j # i => pending'[j] = rest[j]
BY DEF Post, Fresh

LEMMA ClickCopyInv ==
    ASSUME IInv, NEW r \in Rows, ClickCopy(r)
    PROVE  IInv'
<1>1. PICK o \in FreeOps : Begin(o, r, TRUE, pending)
  BY DEF ClickCopy
<1>2. /\ ~overlay /\ ~Asked({"hello"}) /\ pendingCopy = NoOp
      /\ UNCHANGED <<outbox, vault>> /\ overlay' = overlay /\ retry' = retry
  BY DEF ClickCopy
<1>3. o \in Ops /\ ops[o].stage = "free"
  BY DEF FreeOps
<1>4. Post(pending, "body", o, r) /\ "body" \in Kinds \ {"hello", "reconcile"}
  BY <1>1 DEF Begin, Kinds
<1>5. /\ host' \in {"none", "running", "gone"} /\ key' \in BOOLEAN
      /\ inbox' \in Seq(Messages) /\ outbox' \in Seq(Deliveries)
      /\ pending' \in [Ids -> Requests]
      /\ MessagesFit' /\ HostsEnd'
  BY <1>2, <1>3, <1>4, Parts, RestOfAll, PostLink
<1>6. HelloFirst' /\ NoneMissed' /\ KeyFollows'
  BY <1>2, <1>3, <1>4, Parts, ClickLink
<1>7. BodiesAsked'
  BY <1>1, <1>3, Parts, BeginBodies DEF BodiesAsked
<1>8. CopyOK'
  <2>1. overlay' = FALSE
    BY <1>2, Parts DEF CopyOK
  <2>2. ~CancelDuringUnlock => retry = NoOp
    BY <1>2, Parts DEF CopyOK, OneOperation
  <2> QED
    BY <1>1, <1>2, <1>3, <2>1, <2>2, Parts, BeginCopy
<1>9. UnlockUnderDialog'
  <2>1. PICK i \in Ids : /\ pending'[i] = [kind |-> "body", op |-> o]
                         /\ \A j \in Ids : j # i => pending'[j] = pending[j]
    BY <1>4, Parts, PostedRequest
  <2>2. \A j \in Ids : pending'[j].kind \in Openings => pending[j].kind \in Openings
    BY <2>1 DEF Openings, Unlocks
  <2> QED
    BY <1>2, <2>2, Parts, KeptDialog
<1>10. vaultState' = vaultState /\ late' = late
  BY <1>2 DEF vault
<1> QED
  BY <1>5, <1>6, <1>7, <1>8, <1>9, <1>10, Parts DEF IInv, TypeOK, CopyOK

\* The user asks for something else.
LEMMA ClickOtherInv ==
    ASSUME IInv, NEW kind \in Kinds \ {"hello", "reconcile", "body"}, ~Asked({"hello"}),
           Post(pending, kind, NoOp, NoRow),
           kind \in Openings => overlay /\ ~UnlockBusy,
           UNCHANGED <<outbox, vault, overlay, copying>>
    PROVE  IInv'
<1>1. kind \in Kinds \ {"hello", "reconcile"} /\ kind \in Kinds \ {"body"}
      /\ NoOp \in Ops \cup {NoOp} /\ NoRow \in Rows \cup {NoRow}
  OBVIOUS
<1>2. /\ host' \in {"none", "running", "gone"} /\ key' \in BOOLEAN
      /\ inbox' \in Seq(Messages) /\ outbox' \in Seq(Deliveries)
      /\ pending' \in [Ids -> Requests]
      /\ MessagesFit' /\ HostsEnd'
  BY <1>1, Parts, RestOfAll, PostLink
<1>3. HelloFirst' /\ NoneMissed' /\ KeyFollows'
  BY <1>1, Parts, ClickLink
<1>4. ops' = ops /\ retry' = retry /\ overlay' = overlay /\ vaultState' = vaultState /\ late' = late
  BY DEF copying, vault
<1>5. BodiesAsked'
  BY <1>1, <1>4, Parts, PostBodies DEF BodiesAsked
<1>6. CopyOK'
  BY Parts, SameCopy
<1>7. UnlockUnderDialog'
  <2>1. PICK i \in Ids : /\ pending'[i] = [kind |-> kind, op |-> NoOp]
                         /\ \A j \in Ids : j # i => pending'[j] = pending[j]
    BY Parts, PostedRequest
  <2>2. CASE kind \in Openings
    BY <1>4, <2>1, <2>2, Parts DEF UnlockBusy, Asked, UnlockUnderDialog, Openings
  <2>3. CASE kind \notin Openings
    BY <1>4, <2>1, <2>3, Parts, KeptDialog
  <2> QED
    BY <2>2, <2>3
<1> QED
  BY <1>2, <1>3, <1>4, <1>5, <1>6, <1>7, Parts DEF IInv, TypeOK, CopyOK

LEMMA ClickUnlockInv ==
    ASSUME IInv, NEW password \in Unlocks, ClickUnlock(password)
    PROVE  IInv'
<1>1. ~Asked({"hello"})
  BY Parts DEF ClickUnlock, HelloFirst, Asked
<1>2. password \in Kinds \ {"hello", "reconcile", "body"}
  BY DEF Unlocks, Kinds
<1> QED
  BY <1>1, <1>2, ClickOtherInv DEF ClickUnlock

LEMMA ClickLockInv ==
    ASSUME IInv, ClickLock
    PROVE  IInv'
<1>1. ~Asked({"hello"})
  BY Parts DEF ClickLock, HelloFirst, Asked
<1>2. "lock" \in Kinds \ {"hello", "reconcile", "body"} /\ "lock" \notin Openings
  BY DEF Kinds, Openings, Unlocks
<1> QED
  BY <1>1, <1>2, ClickOtherInv DEF ClickLock

\* Nothing passes between the popup and its host.
LEMMA QuietInv ==
    ASSUME IInv, UNCHANGED <<link, vault>>, CopyOK',
           overlay' => overlay, pendingCopy' \in {pendingCopy, NoOp},
           \A q \in Ops : ops'[q].stage = "body" <=> ops[q].stage = "body",
           UnlockUnderDialog'
    PROVE  IInv'
<1>1. MessagesFit' /\ HostsEnd' /\ HelloFirst' /\ NoneMissed' /\ KeyFollows'
  BY Parts, QuietLink
<1>2. BodiesAsked'
  <2>1. BodiesOf(pending, ops')
    BY Parts, SameBodies
  <2> QED
    BY <2>1 DEF BodiesAsked, link
<1> QED
  BY <1>1, <1>2, Parts DEF IInv, TypeOK, CopyOK, link, vault

LEMMA CancelInv ==
    ASSUME IInv, Cancel
    PROVE  IInv'
<1>1. UNCHANGED <<link, vault>> /\ overlay' = FALSE /\ pendingCopy' = NoOp
  BY DEF Cancel
<1>2. \A q \in Ops : ops'[q] = IF ops[q].stage = "waiting" THEN Free ELSE ops[q]
  BY DEF Cancel
<1>3. \A q \in Ops : ops'[q].stage = "body" <=> ops[q].stage = "body"
  BY <1>2, FreeIsOperation
<1>4. UnlockUnderDialog'
  BY <1>1 DEF Cancel, UnlockBusy, Asked, UnlockUnderDialog, link
<1>5. CopyOK'
  BY Parts, CancelCopy
<1> QED
  BY <1>1, <1>3, <1>4, <1>5, QuietInv

LEMMA ReloadInv ==
    ASSUME IInv, Reload
    PROVE  IInv'
<1>1. UNCHANGED <<link, vault>> /\ UNCHANGED <<overlay, pendingCopy, retry>> /\ NewButtons(ops)
  BY DEF Reload
<1>2. NewButtons([o \in Ops |-> IF o \in {} THEN Free ELSE ops[o]])
  <2>1. [o \in Ops |-> IF o \in {} THEN Free ELSE ops[o]] = ops
    BY Parts
  <2> QED
    BY <1>1, <2>1
<1>3. CopyOK'
  <2>1. /\ {} \in SUBSET Ops /\ \A o \in {} : ops[o].stage = "body"
        /\ pendingCopy' = IF pendingCopy \in {} THEN NoOp ELSE pendingCopy
        /\ retry' = IF retry \in {} THEN NoOp ELSE retry
    BY <1>1
  <2> QED
    BY <1>1, <1>2, <2>1, Parts, RenewCopy
<1>4. \A q \in Ops : ops'[q].stage = ops[q].stage
  <2>1. \A q \in Ops : ops'[q] = [ops[q] EXCEPT !.attached = FALSE]
    BY <1>1 DEF NewButtons
  <2> QED
    BY <2>1, Parts DEF Operations
<1>5. UnlockUnderDialog'
  BY <1>1, Parts, KeptDialog DEF link
<1> QED
  BY <1>1, <1>3, <1>4, <1>5, QuietInv

LEMMA WrittenInv ==
    ASSUME IInv, NEW o \in Ops, Written(o)
    PROVE  IInv'
<1>1. UNCHANGED <<link, vault, overlay>> /\ ops[o].stage = "clipboard"
  BY DEF Written
<1>2. CASE Fail(o)
  <2>1. CopyOK'
    BY <1>1, <1>2, Parts, FailCopy DEF Busy
  <2>2. /\ ops'[o] = Free /\ \A q \in Ops : q # o => ops'[q] = ops[q]
        /\ pendingCopy' \in {pendingCopy, NoOp} /\ retry' \in {retry, NoOp}
    BY <1>2, Parts DEF Fail, Returned
  <2>3. \A q \in Ops : ops'[q].stage = "body" <=> ops[q].stage = "body"
    BY <1>1, <2>2, FreeIsOperation
  <2>4. UnlockUnderDialog'
    BY <1>1, <2>2, Parts, KeptDialog DEF link
  <2> QED
    BY <1>1, <2>1, <2>2, <2>3, <2>4, QuietInv
<1>3. CASE ~Fail(o)
  <2>1. /\ ops' = [ops EXCEPT ![o].stage = "feedback", ![o].label = ops[o].row \in label]
        /\ text' = text \cup RowOf(o) /\ label' = label \cup RowOf(o)
        /\ Returned(o) /\ UNCHANGED <<pendingCopy, disabled>>
    BY <1>3 DEF Written
  <2>2. CopyOK'
    BY <1>1, <2>1, Parts, WrittenCopy
  <2>3. \A q \in Ops : ops'[q].stage = "body" <=> ops[q].stage = "body"
    <3>1. \A q \in Ops : ops'[q].stage = IF q = o THEN "feedback" ELSE ops[q].stage
      BY <2>1, Parts DEF Operations
    <3> QED
      BY <1>1, <3>1
  <2>4. UnlockUnderDialog'
    BY <1>1, <2>1, Parts, KeptDialog DEF link, Returned
  <2> QED
    BY <1>1, <2>1, <2>2, <2>3, <2>4, QuietInv
<1> QED
  BY <1>2, <1>3

LEMMA ResetInv ==
    ASSUME IInv, NEW o \in Ops, Reset(o)
    PROVE  IInv'
<1>1. /\ UNCHANGED <<link, vault, overlay, retry>> /\ ops[o].stage = "feedback"
      /\ ops' = [ops EXCEPT ![o] = Free] /\ pendingCopy' \in {pendingCopy, NoOp}
  BY DEF Reset
<1>2. \A q \in Ops : ops'[q].stage = "body" <=> ops[q].stage = "body"
  BY <1>1, Parts, FreeIsOperation
<1>3. UnlockUnderDialog'
  BY <1>1, Parts, KeptDialog DEF link
<1>4. CopyOK'
  BY Parts, ResetCopy
<1> QED
  BY <1>1, <1>2, <1>3, <1>4, QuietInv

LEMMA HostStepInv ==
    ASSUME IInv, HostStep
    PROVE  IInv'
<1>1. UNCHANGED <<host, pending, vault, overlay, copying>>
  BY DEF HostStep
<1>2. TypeOK' /\ MessagesFit' /\ HostsEnd' /\ HelloFirst' /\ NoneMissed' /\ KeyFollows'
  BY Parts, HostStepLink
<1>3. CopyOK'
  BY <1>1, Parts, SameCopy
<1>4. BodiesAsked' /\ UnlockUnderDialog'
  BY <1>1, Parts DEF BodiesAsked, UnlockUnderDialog, copying
<1> QED
  BY <1>2, <1>3, <1>4 DEF IInv, CopyOK

LEMMA HostEndsInv ==
    ASSUME IInv, HostEnds
    PROVE  IInv'
<1>1. /\ host' = "gone" /\ key' = FALSE /\ inbox' = << >>
      /\ outbox' = outbox /\ pending' = pending /\ vaultState' = vaultState /\ late' = late
      /\ overlay' = overlay /\ pendingCopy' = pendingCopy /\ retry' = retry /\ ops' = ops
      /\ UNCHANGED copying
  BY DEF HostEnds, vault, copying
<1>2. inbox' \in Seq(Messages) /\ DOMAIN inbox' = {}
  BY <1>1
<1>3. MessagesFit'
  BY <1>1, <1>2, Parts DEF MessagesFit
<1>4. HostsEnd' /\ KeyFollows'
  BY <1>1 DEF HostsEnd, KeyFollows
<1>5. HelloFirst'
  BY <1>1, <1>2, Parts DEF HelloFirst
<1>6. NoneMissed'
  BY <1>1, <1>2, Parts DEF NoneMissed, Asked
<1>7. CopyOK'
  BY <1>1, Parts, SameCopy
<1>8. BodiesAsked' /\ UnlockUnderDialog'
  BY <1>1, Parts DEF BodiesAsked, UnlockUnderDialog
<1> QED
  BY <1>1, <1>2, <1>3, <1>4, <1>5, <1>6, <1>7, <1>8, Parts DEF IInv, TypeOK, CopyOK

\* The vault opens, and what waits is retried.
LEMMA FinishInv ==
    ASSUME IInv, NEW i \in Ids, pending[i].kind \in Openings, FinishUnlock(Without(i)),
           UNCHANGED late
    PROVE  CopyOK' /\ BodiesAsked' /\ UnlockUnderDialog' /\ vaultState' \in VaultStates
<1> DEFINE rest == Without(i)
<1>1. overlay' = FALSE /\ vaultState' = "unlocked"
  BY DEF FinishUnlock
<1>2. pending[i].op = NoOp
  BY Parts DEF BodiesAsked, BodiesOf, Openings, Unlocks
<1>3. BodiesOf(rest, ops)
  BY <1>2, Parts, OtherBodies
<1>4. rest \in [Ids -> Requests] /\ rest[i] = None /\ \A j \in Ids : j # i => rest[j] = pending[j]
  BY Parts DEF Without, None, Requests
<1>5. ~CancelDuringUnlock => /\ overlay /\ retry = NoOp
                             /\ \A j \in Ids : rest[j].kind \notin Openings
  BY <1>4, Parts DEF UnlockUnderDialog, Openings, None, Unlocks
<1> HIDE DEF rest
<1>6. CASE pendingCopy = NoOp
  <2>1. NoPost(rest) /\ UNCHANGED copying
    BY <1>6 DEF FinishUnlock, rest
  <2>2. /\ pending' = rest /\ ops' = ops /\ pendingCopy' = NoOp /\ retry' = retry
        /\ UNCHANGED <<disabled, text, label>>
    BY <1>6, <2>1 DEF NoPost, copying, buttons
  <2>3. BodiesAsked'
    BY <1>3, <2>2 DEF BodiesAsked
  <2>4. CopyOK'
    BY <1>1, <1>6, <2>2, Parts
    DEF CopyOK, AttachedToRows, NeverStuck, DisabledMeansBusy, RowOf, OneOperation,
        MarksAreFeedback
  <2>5. UnlockUnderDialog'
    BY <1>5, <2>2 DEF UnlockUnderDialog, Openings
  <2> QED
    BY <1>1, <2>3, <2>4, <2>5 DEF VaultStates
<1>7. CASE pendingCopy # NoOp
  <2> DEFINE row == ops[pendingCopy].row
             attached == ops[pendingCopy].attached
  <2>1. PICK o \in IF ops[pendingCopy].stage = "waiting" THEN {pendingCopy} ELSE FreeOps :
            Begin(o, row, attached, rest) /\ retry' = o
    BY <1>7 DEF FinishUnlock, rest
  <2>2. pendingCopy \in Ops
    BY <1>7, Parts DEF TypeOK
  <2>3. o \in Ops /\ (ops[o].stage = "free" \/ (ops[o].stage = "waiting" /\ pendingCopy = o))
    BY <2>1, <2>2 DEF FreeOps
  <2>4. row \in Rows \cup {NoRow} /\ attached \in BOOLEAN /\ (attached => row \in Rows)
    BY <2>2, Parts DEF Operations, CopyOK, AttachedToRows
  <2>5. ~CancelDuringUnlock => overlay /\ pendingCopy = o
    BY <1>5, <1>7, <2>1, Parts DEF CopyOK, OneOperation
  <2> HIDE DEF row, attached
  <2>6. CopyOK'
    BY <1>1, <2>1, <2>3, <2>4, <2>5, Parts, BeginCopy
  <2>7. BodiesAsked'
    BY <1>3, <1>4, <2>1, <2>3, Parts, BeginBodies
  <2>8. PICK k \in Ids : /\ pending'[k] = [kind |-> "body", op |-> o]
                         /\ \A j \in Ids : j # k => pending'[j] = rest[j]
    BY <1>4, <2>1, PostedRequest DEF Begin
  <2>9. UnlockUnderDialog'
    BY <1>5, <2>8 DEF UnlockUnderDialog, Openings, Unlocks
  <2> QED
    BY <1>1, <2>6, <2>7, <2>9 DEF VaultStates
<1> QED
  BY <1>6, <1>7

\* The answer to a body.
LEMMA AnsweredBodyInv ==
    ASSUME IInv, NEW i \in Ids, NEW answer, pending[i].kind = "body", Answered(i, answer)
    PROVE  CopyOK' /\ BodiesAsked' /\ UnlockUnderDialog' /\ vaultState' \in VaultStates
<1> DEFINE o == pending[i].op
<1>1. /\ \/ /\ answer = "ok"
            /\ ops' = [ops EXCEPT ![o].stage = "clipboard"]
            /\ UNCHANGED <<overlay, pendingCopy, retry, buttons>>
         \/ answer = "vault_locked" /\ AskPassword(o)
         \/ answer = "error" /\ Fail(o) /\ UNCHANGED overlay
      /\ NoPost(Without(i)) /\ vaultState' = vaultState
  BY DEF Answered, Unlocks
<1>2. o \in Ops /\ ops[o].stage = "body"
  BY Parts DEF BodiesAsked, BodiesOf, Requests
<1>3. Without(i)[i] = None /\ \A j \in Ids : j # i => Without(i)[j] = pending[j]
  BY Parts DEF Without
<1>4. pending' = Without(i)
  BY <1>1 DEF NoPost
<1>5. \A j \in Ids : pending'[j].kind \in Openings => pending[j].kind \in Openings
  BY <1>3, <1>4 DEF Openings, Unlocks, None
<1>6. ASSUME ops'[o].stage # "body", \A q \in Ops : q # o => ops'[q].stage = ops[q].stage
      PROVE  BodiesAsked'
  <2>1. BodiesOf(Without(i), ops')
    BY <1>2, <1>6, Parts, OwnBodies
  <2> QED
    BY <1>4, <2>1 DEF BodiesAsked
<1>7. vaultState' \in VaultStates
  BY <1>1, Parts DEF TypeOK
<1> HIDE DEF o
<1>8. CASE /\ ops' = [ops EXCEPT ![o].stage = "clipboard"]
           /\ UNCHANGED <<overlay, pendingCopy, retry, buttons>>
  <2>1. CopyOK'
    BY <1>2, <1>8, Parts, BodyCopy
  <2>2. \A q \in Ops : ops'[q].stage = IF q = o THEN "clipboard" ELSE ops[q].stage
    BY <1>8, Parts DEF Operations
  <2>3. UnlockUnderDialog'
    BY <1>5, <1>8, Parts, KeptDialog
  <2> QED
    BY <1>2, <1>6, <1>7, <2>1, <2>2, <2>3
<1>9. CASE AskPassword(o)
  <2>1. CopyOK'
    BY <1>2, <1>9, Parts, AskCopy
  <2>2. /\ ops'[o].stage \in {"waiting", "free"} /\ \A q \in Ops : q # o => ops'[q] = ops[q]
        /\ overlay' = TRUE /\ retry' \in {retry, NoOp}
    BY <1>2, <1>9, Parts, FreeIsOperation DEF AskPassword, Returned, Operations
  <2>3. UnlockUnderDialog'
    BY <1>5, <2>2, Parts DEF UnlockUnderDialog, Openings
  <2> QED
    BY <1>2, <1>6, <1>7, <2>1, <2>2, <2>3
<1>10. CASE Fail(o) /\ UNCHANGED overlay
  <2>1. CopyOK'
    BY <1>2, <1>10, Parts, FailCopy DEF Busy
  <2>2. /\ ops'[o] = Free /\ \A q \in Ops : q # o => ops'[q] = ops[q]
        /\ retry' \in {retry, NoOp}
    BY <1>2, <1>10, Parts DEF Fail, Returned
  <2>3. UnlockUnderDialog'
    BY <1>5, <1>10, <2>2, Parts, KeptDialog
  <2> QED
    BY <1>2, <1>6, <1>7, <2>1, <2>2, <2>3, FreeIsOperation
<1> QED
  BY <1>1, <1>8, <1>9, <1>10 DEF o

LEMMA HandleMessageInv ==
    ASSUME IInv, HandleMessage
    PROVE  IInv'
<1> DEFINE i == Head(outbox).id
           answer == Head(outbox).answer
<1>1. Answered(i, answer) /\ late' = late
  BY DEF HandleMessage
<1>2. /\ i \in Ids /\ answer \in Answers /\ Without(i) \in [Ids -> Requests] /\ Rest(Without(i))
      /\ 1 \in DOMAIN outbox /\ outbox[1].id = i /\ outbox[1].answer = answer
  BY Parts, AnswerRest
<1>3. HelloFirst' /\ NoneMissed' /\ KeyFollows'
  BY Parts, AnswerLink
<1>4. /\ host' \in {"none", "running", "gone"} /\ key' \in BOOLEAN
      /\ inbox' \in Seq(Messages) /\ outbox' \in Seq(Deliveries)
      /\ pending' \in [Ids -> Requests]
      /\ MessagesFit' /\ HostsEnd'
  <2>1. CASE NoPost(Without(i))
    BY <1>2, <2>1, Parts, NoPostLink
  <2>2. CASE \E o \in Ops, row \in Rows \cup {NoRow} : Post(Without(i), "body", o, row)
    <3>1. PICK o \in Ops, row \in Rows \cup {NoRow} : Post(Without(i), "body", o, row)
      BY <2>2
    <3>2. "body" \in Kinds
      BY DEF Kinds
    <3> QED
      BY <1>2, <3>1, <3>2, Parts, PostLink
  <2> QED
    BY <2>1, <2>2, Parts, AnswerPosts
<1> HIDE DEF i, answer
<1>5. CopyOK' /\ BodiesAsked' /\ UnlockUnderDialog' /\ vaultState' \in VaultStates
  <2>1. CASE pending[i].kind = "body"
    BY <1>1, <1>2, <2>1, AnsweredBodyInv
  <2>2. CASE pending[i].kind \in Openings /\ Confirms(pending[i].kind, answer)
    <3>1. FinishUnlock(Without(i))
      BY <1>1, <2>2 DEF Answered, Openings, Unlocks
    <3> QED
      BY <1>1, <1>2, <2>2, <3>1, FinishInv
  <2>3. CASE pending[i].kind # "body"
             /\ ~(pending[i].kind \in Openings /\ Confirms(pending[i].kind, answer))
    <3>1. NoPost(Without(i)) /\ UNCHANGED <<overlay, copying>>
      BY <1>1, <2>3 DEF Answered, Openings
    <3>2. pending' = Without(i) /\ ops' = ops /\ retry' = retry /\ overlay' = overlay
      BY <3>1 DEF NoPost, copying
    <3>3. CopyOK'
      BY <3>1, Parts, SameCopy
    <3>4. pending[i].op = NoOp
      BY <1>2, <2>3, Parts DEF BodiesAsked, BodiesOf
    <3>5. BodiesAsked'
      <4>1. BodiesOf(Without(i), ops)
        BY <1>2, <3>4, Parts, OtherBodies
      <4> QED
        BY <3>2, <4>1 DEF BodiesAsked
    <3>6. \A j \in Ids : pending'[j].kind \in Openings => pending[j].kind \in Openings
      BY <1>2, <3>2, Parts DEF Without, None, Openings, Unlocks
    <3>7. UnlockUnderDialog'
      BY <3>2, <3>6, Parts, KeptDialog
    <3>8. vaultState' \in VaultStates
      <4>1. vaultState \in VaultStates
        BY Parts DEF TypeOK
      <4>2. pending[i].kind = "hello" => answer \in VaultStates
        BY <1>2, Parts DEF MessagesFit
      <4> QED
        BY <1>1, <2>3, <4>1, <4>2 DEF Answered, Openings, VaultStates
    <3> QED
      BY <3>3, <3>5, <3>7, <3>8
  <2> QED
    BY <2>1, <2>2, <2>3
<1> QED
  BY <1>1, <1>3, <1>4, <1>5, Parts DEF IInv, TypeOK, CopyOK

LEMMA TimeoutInv ==
    ASSUME IInv, NEW i \in Ids, Timeout(i)
    PROVE  IInv'
<1> DEFINE kind == pending[i].kind
<1>1. pending[i] # None /\ late' = TRUE /\ outbox' = outbox /\ vaultState' = vaultState
  BY DEF Timeout
<1>2. /\ kind = "body" => Fail(pending[i].op) /\ NoPost(Without(i)) /\ UNCHANGED overlay
      /\ kind \in Unlocks => Post(Without(i), "reconcile", NoOp, NoRow)
                             /\ UNCHANGED <<overlay, copying>>
      /\ kind \notin Unlocks \cup {"body"} => NoPost(Without(i)) /\ UNCHANGED <<overlay, copying>>
  BY DEF Timeout, Unlocks
<1>3. /\ Rest(Without(i)) /\ Without(i) \in [Ids -> Requests]
      /\ Without(i)[i] = None /\ \A j \in Ids : j # i => Without(i)[j] = pending[j]
  BY <1>1, Parts, RestOfAll
<1>4. NoneMissed' /\ KeyFollows'
  BY <1>1 DEF NoneMissed, KeyFollows
<1>5. overlay' = overlay /\ retry' \in {retry, NoOp}
  BY <1>2 DEF copying, Fail, Returned
<1> HIDE DEF kind
<1>6. CASE kind \in Unlocks
  <2>1. Post(Without(i), "reconcile", NoOp, NoRow) /\ UNCHANGED <<overlay, copying>>
    BY <1>2, <1>6
  <2>2. "reconcile" \in Kinds /\ "reconcile" \in Kinds \ {"body"}
    BY DEF Kinds
  <2>3. /\ host' \in {"none", "running", "gone"} /\ key' \in BOOLEAN
        /\ inbox' \in Seq(Messages) /\ outbox' \in Seq(Deliveries)
        /\ pending' \in [Ids -> Requests]
        /\ MessagesFit' /\ HostsEnd'
    BY <1>3, <2>1, <2>2, Parts, PostLink
  <2>4. CopyOK'
    BY <2>1, Parts, SameCopy
  <2>5. pending[i].op = NoOp
    BY <1>6, Parts DEF BodiesAsked, BodiesOf, Unlocks, kind
  <2>6. BodiesAsked'
    <3>1. BodiesOf(Without(i), ops)
      BY <2>5, Parts, OtherBodies
    <3>2. BodiesOf(pending', ops)
      BY <1>3, <2>1, <2>2, <3>1, PostBodies
    <3> QED
      BY <2>1, <3>2 DEF BodiesAsked, copying
  <2>7. PICK k \in Ids : /\ pending'[k] = [kind |-> "reconcile", op |-> NoOp]
                         /\ \A j \in Ids : j # k => pending'[j] = Without(i)[j]
    BY <1>3, <2>1, PostedRequest
  <2>8. HelloFirst'
    BY <1>1, <1>3, <2>7, Parts DEF HelloFirst, None
  <2>9. UnlockUnderDialog'
    <3> SUFFICES ASSUME ~CancelDuringUnlock PROVE UnlockUnderDialog'
      BY DEF UnlockUnderDialog
    <3>1. /\ overlay /\ retry = NoOp
          /\ \A j \in Ids : pending[j].kind \in Openings => j = i
      BY <1>6, Parts DEF UnlockUnderDialog, Openings, kind
    <3>2. \A j \in Ids : pending'[j].kind \in Openings => j = k
      BY <1>3, <2>7, <3>1 DEF None, Openings, Unlocks
    <3> QED
      BY <1>5, <3>1, <3>2 DEF UnlockUnderDialog, Openings
  <2> QED
    BY <1>1, <1>4, <2>3, <2>4, <2>6, <2>8, <2>9, Parts DEF IInv, TypeOK, CopyOK
<1>7. CASE kind \notin Unlocks
  <2>1. NoPost(Without(i))
    BY <1>2, <1>7
  <2>2. /\ host' \in {"none", "running", "gone"} /\ key' \in BOOLEAN
        /\ inbox' \in Seq(Messages) /\ outbox' \in Seq(Deliveries)
        /\ pending' \in [Ids -> Requests]
        /\ MessagesFit' /\ HostsEnd'
    BY <1>3, <2>1, Parts, NoPostLink
  <2>3. pending' = Without(i)
    BY <2>1 DEF NoPost
  <2>4. HelloFirst'
    BY <1>1, <1>3, <2>3, Parts DEF HelloFirst, None
  <2>5. UnlockUnderDialog'
    <3>1. \A j \in Ids : pending'[j].kind \in Openings => pending[j].kind \in Openings
      BY <1>3, <2>3 DEF None, Openings, Unlocks
    <3> QED
      BY <1>5, <3>1, Parts, KeptDialog
  <2>6. CopyOK' /\ BodiesAsked'
    <3>1. CASE kind = "body"
      <4> DEFINE o == pending[i].op
      <4>1. o \in Ops /\ ops[o].stage = "body"
        BY <3>1, Parts DEF BodiesAsked, BodiesOf, Requests, kind
      <4>2. Fail(o) /\ UNCHANGED overlay
        BY <1>2, <3>1
      <4> HIDE DEF o
      <4>3. CopyOK'
        BY <4>1, <4>2, Parts, FailCopy DEF Busy
      <4>4. ops'[o].stage # "body" /\ \A q \in Ops : q # o => ops'[q] = ops[q]
        BY <4>1, <4>2, Parts, FreeIsOperation DEF Fail
      <4>5. BodiesOf(Without(i), ops')
        BY <4>1, <4>4, Parts, OwnBodies DEF o
      <4> QED
        BY <2>3, <4>3, <4>5 DEF BodiesAsked
    <3>2. CASE kind # "body"
      <4>1. UNCHANGED <<overlay, copying>>
        BY <1>2, <1>7, <3>2
      <4>2. CopyOK'
        BY <4>1, Parts, SameCopy
      <4>3. pending[i].op = NoOp
        BY <3>2, Parts DEF BodiesAsked, BodiesOf, kind
      <4>4. BodiesOf(Without(i), ops)
        BY <4>3, Parts, OtherBodies
      <4> QED
        BY <2>3, <4>1, <4>2, <4>4 DEF BodiesAsked, copying
    <3> QED
      BY <3>1, <3>2
  <2> QED
    BY <1>1, <1>4, <2>2, <2>4, <2>5, <2>6, Parts DEF IInv, TypeOK, CopyOK
<1> QED
  BY <1>6, <1>7

LEMMA HandleDisconnectInv ==
    ASSUME IInv, HandleDisconnect
    PROVE  IInv'
<1> DEFINE failed == {o \in Ops : ops[o].stage = "body"}
<1>1. /\ host = "gone" /\ outbox = << >> /\ outbox' = << >>
      /\ host' = "none" /\ inbox' = << >> /\ key' = key
      /\ pending' = [j \in Ids |-> None]
      /\ vaultState' = IF vaultState = "unlocked" THEN "locked" ELSE vaultState
      /\ late' = late /\ overlay' = overlay
      /\ NewButtons([o \in Ops |-> IF o \in failed THEN Free ELSE ops[o]])
      /\ pendingCopy' = IF pendingCopy \in failed THEN NoOp ELSE pendingCopy
      /\ retry' = IF retry \in failed THEN NoOp ELSE retry
  BY DEF HandleDisconnect
<1>2. ~key
  BY <1>1, Parts DEF HostsEnd
<1>3. /\ inbox' \in Seq(Messages) /\ outbox' \in Seq(Deliveries)
      /\ DOMAIN inbox' = {} /\ DOMAIN outbox' = {}
  BY <1>1
<1>4. /\ pending' \in [Ids -> Requests]
      /\ \A j \in Ids : pending'[j] = None
  BY <1>1 DEF None, Requests
<1>5. vaultState' \in VaultStates /\ vaultState' # "unlocked"
  BY <1>1, Parts DEF TypeOK, VaultStates
<1>6. CopyOK'
  <2>1. failed \in SUBSET Ops /\ \A o \in failed : ops[o].stage = "body"
    OBVIOUS
  <2> HIDE DEF failed
  <2> QED
    BY <1>1, <2>1, Parts, RenewCopy
<1>7. \A o \in Ops : ops'[o].stage # "body"
  <2>1. \A o \in Ops : ops'[o] = [IF o \in failed THEN Free ELSE ops[o]
                                     EXCEPT !.attached = FALSE]
    BY <1>1 DEF NewButtons
  <2> QED
    BY <2>1, Parts, FreeIsOperation DEF Operations
<1>8. BodiesAsked'
  BY <1>4, <1>7 DEF BodiesAsked, BodiesOf, None
<1>9. MessagesFit' /\ HostsEnd' /\ HelloFirst' /\ UnlockUnderDialog'
  BY <1>1, <1>2, <1>3, <1>4
  DEF MessagesFit, HostsEnd, HelloFirst, UnlockUnderDialog, None, Unlocks
<1>10. NoneMissed' /\ KeyFollows'
  BY <1>1, <1>2, <1>3, <1>4, <1>5, Parts DEF NoneMissed, KeyFollows, Asked, None, TypeOK
<1> QED
  BY <1>1, <1>3, <1>4, <1>5, <1>6, <1>8, <1>9, <1>10, Parts DEF IInv, TypeOK, CopyOK

\* The popup opens.
LEMMA InitInv == Init => IInv
<1> SUFFICES ASSUME Init PROVE IInv
  OBVIOUS
<1> DEFINE message == [id |-> 1, kind |-> "hello", row |-> NoRow]
<1>1. 1 \in Ids
  BY BoundsAssumption DEF Ids
<1>2. message \in Messages /\ message.id = 1 /\ message.kind = "hello"
  BY <1>1 DEF Messages, Kinds
<1> HIDE DEF message
<1>3. /\ inbox = <<message>> /\ inbox \in Seq(Messages)
      /\ \A n \in DOMAIN inbox : n = 1 /\ inbox[n] = message
  BY <1>2 DEF Init, message
<1>4. outbox \in Seq(Deliveries) /\ DOMAIN outbox = {} /\ outbox = << >>
  BY DEF Init
<1>5. /\ pending \in [Ids -> Requests] /\ pending[1] = [kind |-> "hello", op |-> NoOp]
      /\ \A j \in Ids : j # 1 => pending[j] = None
  BY <1>1 DEF Init, None, Requests, Kinds
<1>6. /\ host = "running" /\ key = FALSE /\ vaultState = "not_configured" /\ late = FALSE
      /\ overlay = FALSE /\ pendingCopy = NoOp /\ retry = NoOp
      /\ disabled = {} /\ text = {} /\ label = {}
  BY DEF Init
<1>7. ops \in [Ops -> Operations] /\ \A o \in Ops : ops[o].stage = "free" /\ ~ops[o].attached
  BY FreeIsOperation DEF Init
<1>8. TypeOK
  BY <1>3, <1>4, <1>5, <1>6, <1>7 DEF TypeOK, VaultStates
<1>9. BodiesAsked
  BY <1>5, <1>7 DEF BodiesAsked, BodiesOf, None
<1>10. MessagesFit /\ HostsEnd
  BY <1>1, <1>2, <1>3, <1>4, <1>5, <1>6 DEF MessagesFit, HostsEnd
<1>11. HelloFirst /\ UnlockUnderDialog
  BY <1>2, <1>3, <1>5, <1>6 DEF HelloFirst, UnlockUnderDialog, None, Unlocks
<1>12. NoneMissed
  BY <1>2, <1>3, <1>4, <1>5 DEF NoneMissed, Asked, None
<1>13. KeyFollows
  BY <1>4, <1>6 DEF KeyFollows
<1>14. AttachedToRows /\ NeverStuck /\ DisabledMeansBusy /\ OneOperation
  BY <1>6, <1>7
  DEF AttachedToRows, NeverStuck, DisabledMeansBusy, OneOperation, MarksAreFeedback
<1> QED
  BY <1>8, <1>9, <1>10, <1>11, <1>12, <1>13, <1>14 DEF IInv

LEMMA ReopenInv == Reopen => IInv'
<1>1. Reopen => Init'
  BY DEF Reopen, Init
<1>2. Init' => IInv'
  BY InitInv, PTL
<1> QED
  BY <1>1, <1>2

------------------------------------------------------------------------------
\* The theorems.

LEMMA StepInv == IInv /\ [Next]_vars => IInv'
<1> SUFFICES ASSUME IInv, [Next]_vars PROVE IInv'
  OBVIOUS
<1>1. CASE User
  <2>1. CASE \E r \in Rows : ClickCopy(r)
    BY <2>1, ClickCopyInv
  <2>2. CASE \E password \in Unlocks : ClickUnlock(password)
    BY <2>2, ClickUnlockInv
  <2>3. CASE Cancel
    BY <2>3, CancelInv
  <2>4. CASE ClickLock
    BY <2>4, ClickLockInv
  <2>5. CASE Reload
    BY <2>5, ReloadInv
  <2>6. CASE Reopen
    BY <2>6, ReopenInv
  <2> QED
    BY <1>1, <2>1, <2>2, <2>3, <2>4, <2>5, <2>6 DEF User
<1>2. CASE HostStep
  BY <1>2, HostStepInv
<1>3. CASE HostEnds
  BY <1>3, HostEndsInv
<1>4. CASE HandleMessage
  BY <1>4, HandleMessageInv
<1>5. CASE HandleDisconnect
  BY <1>5, HandleDisconnectInv
<1>6. CASE \E i \in Ids : Timeout(i)
  BY <1>6, TimeoutInv
<1>7. CASE \E o \in Ops : Written(o) \/ Reset(o)
  BY <1>7, WrittenInv, ResetInv
<1>8. CASE UNCHANGED vars
  <2>1. /\ UNCHANGED <<link, vault>> /\ UNCHANGED <<overlay, copying>>
        /\ pending' = pending /\ ops' = ops /\ retry' = retry /\ overlay' = overlay
        /\ pendingCopy' = pendingCopy
    BY <1>8 DEF vars, link, copying
  <2>2. CopyOK'
    BY <2>1, Parts, SameCopy
  <2>3. UnlockUnderDialog'
    BY <2>1, Parts, KeptDialog
  <2> QED
    BY <2>1, <2>2, <2>3, QuietInv
<1> QED
  BY <1>1, <1>2, <1>3, <1>4, <1>5, <1>6, <1>7, <1>8 DEF Next

\* The invariant holds of every behaviour of the popup and its host.
THEOREM Invariance == Spec => []IInv
BY InitInv, StepInv, PTL DEF Spec

\* The variables keep their types.
THEOREM TypeCorrect == Spec => []TypeOK
<1>1. IInv => TypeOK
  BY DEF IInv
<1> QED
  BY <1>1, Invariance, PTL

\* Whatever the user and the host do, a pending copy has something coming that
\* ends it, or the dialog is there to end it.
THEOREM CopyingGoesOn == Spec => []NeverWedged
<1>1. IInv => NeverWedged
  <2> SUFFICES ASSUME IInv, pendingCopy # NoOp PROVE NeverWedged
    BY DEF NeverWedged
  <2>1. pendingCopy \in Ops
    BY Parts DEF TypeOK
  <2>2. ops[pendingCopy].stage = "body" => \E i \in Ids : pending[i].op = pendingCopy
    BY <2>1, Parts DEF BodiesAsked, BodiesOf
  <2> QED
    BY <2>2, Parts DEF CopyOK, NeverStuck, NeverWedged, Live, Busy
<1> QED
  BY <1>1, Invariance, PTL

\* No button the user sees stays disabled after its copy.
THEOREM ButtonsComeBack == Spec => []DisabledMeansBusy
<1>1. IInv => DisabledMeansBusy
  BY DEF IInv
<1> QED
  BY <1>1, Invariance, PTL

\* At rest, the popup shows the vault as the host has it.
THEOREM PopupIsTruthful == Spec => []Truthful
<1>1. IInv => Truthful
  <2> SUFFICES ASSUME IInv, Quiet, ~late PROVE vaultState = "unlocked" <=> key
    BY DEF Truthful
  <2>1. host # "gone" /\ DOMAIN outbox = {}
    BY DEF Quiet
  <2> QED
    BY <2>1, Parts DEF KeyFollows
<1> QED
  BY <1>1, Invariance, PTL

\* With a user who waits for the unlock: one copy at a time,
THEOREM CopiesAreAlone == ASSUME ~CancelDuringUnlock PROVE Spec => []OneCopyAtATime
<1>1. IInv => OneCopyAtATime
  <2> SUFFICES ASSUME IInv PROVE OneCopyAtATime
    OBVIOUS
  <2> DEFINE live == {o \in Ops : ops[o].stage \in Live}
  <2>1. live \subseteq {pendingCopy}
    BY Parts DEF CopyOK, OneOperation, Live, Busy
  <2>2. IsFiniteSet({pendingCopy}) /\ Cardinality({pendingCopy}) = 1
    BY FS_Singleton
  <2>3. Cardinality(live) <= 1
    <3> HIDE DEF live
    <3> QED
      BY <2>1, <2>2, FS_Subset
  <2> QED
    BY <2>3 DEF OneCopyAtATime
<1> QED
  BY <1>1, Invariance, PTL

\* no mark outlives its feedback,
THEOREM MarksGo == ASSUME ~CancelDuringUnlock PROVE Spec => []MarksAreFeedback
<1>1. IInv => MarksAreFeedback
  BY DEF IInv, OneOperation
<1> QED
  BY <1>1, Invariance, PTL

\* and what an unlock retries is the copy that asked for the password.
THEOREM RetriesAreOriginal == ASSUME ~CancelDuringUnlock PROVE Spec => RetryIsOriginal
<1> DEFINE Original == retry = NoOp /\ retry' # NoOp => ops[pendingCopy].stage = "waiting"
<1>1. IInv /\ [Next]_vars => [Original]_vars
  <2> SUFFICES ASSUME IInv, Next, retry = NoOp, retry' # NoOp
               PROVE  ops[pendingCopy].stage = "waiting"
    OBVIOUS
  <2>1. HandleMessage
    BY DEF Next, User, ClickCopy, ClickUnlock, Cancel, ClickLock, Reload, Reopen, HostStep,
           HostEnds, HandleDisconnect, Timeout, Written, Reset, Fail, Returned, copying
  <2> DEFINE i == Head(outbox).id
             answer == Head(outbox).answer
  <2>2. i \in Ids /\ Answered(i, answer)
    BY <2>1, Parts, AnswerRest DEF HandleMessage
  <2> HIDE DEF i, answer
  <2>3. pending[i].kind \in Openings /\ FinishUnlock(Without(i))
    BY <2>2 DEF Answered, AskPassword, Fail, Returned, copying, Openings
  <2>4. pendingCopy # NoOp
    BY <2>3 DEF FinishUnlock, copying
  <2>5. overlay
    BY <2>2, <2>3, Parts DEF UnlockUnderDialog, Openings
  <2> QED
    BY <2>4, <2>5, Parts DEF CopyOK, OneOperation
<1>2. Spec => [][Original]_vars
  BY <1>1, Invariance, PTL DEF Spec
<1> QED
  BY <1>2 DEF RetryIsOriginal
==============================================================================
