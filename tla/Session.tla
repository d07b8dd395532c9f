------------------------------- MODULE Session -------------------------------
(***************************************************************************)
(* One popup and its native host, from the popup's first hello on: copying *)
(* (extension/src/popup.ts, copy-feedback.ts), unlocking and locking the   *)
(* vault, over the client of module NativeClient.  A JavaScript task runs  *)
(* with the promise continuations it settles before the next task, so each *)
(* of them is one action.  The host (main.rs) answers its requests one by  *)
(* one, in order; it may be slow, end, and be started again.               *)
(*                                                                         *)
(* A row of the list is a snippet with its copy button.  An operation is a *)
(* run of handleCopy until its button is itself again.                     *)
(***************************************************************************)
EXTENDS Integers, Sequences, FiniteSets, Protocol

CONSTANTS
    Rows,               \* the rows of the list
    Protected,          \* those whose body is encrypted
    NoRow,
    MaxOps,             \* bound: operations at a time
    InFlight,           \* bound: requests waiting or unanswered at a time
    CancelDuringUnlock  \* may the user cancel while the unlock is on its way?

ASSUME BoundsAssumption ==
    /\ Protected \subseteq Rows
    /\ NoRow \notin Rows
    /\ MaxOps \in Nat \ {0}
    /\ InFlight \in Nat \ {0}
    /\ CancelDuringUnlock \in BOOLEAN

Ops == 1..MaxOps
NoOp == 0
Ids == 1..InFlight

\* What is asked: reconcile is the hello after an unlock that timed out, right
\* and wrong are unlockVault with the password and with another.
Unlocks == {"right", "wrong"}
Kinds == {"hello", "reconcile", "lock", "body"} \cup Unlocks

None == [kind |-> "none", op |-> NoOp]
Free == [stage |-> "free", row |-> NoRow, attached |-> FALSE,
         text |-> FALSE, label |-> FALSE]

VARIABLES
    host,         \* none, running, or gone and the popup not told yet
    key,          \* the host holds the vault key
    inbox,        \* requests the host has not read
    outbox,       \* answers the popup has not handled
    pending,      \* the client's map of pending requests, by id
    vaultState,   \* what the popup shows of the vault
    late,         \* history: an answer has missed its timer since it opened
    overlay,      \* the password dialog is visible
    pendingCopy,  \* the popup's pending copy
    retry,        \* the operation the unlock handler waits for
    ops,          \* the runs of handleCopy
    disabled,     \* the rows whose button is disabled
    text,         \* the rows whose button shows the check mark
    label         \* the rows whose button is labelled Copied

link == <<host, key, inbox, outbox, pending>>
vault == <<vaultState, late>>
buttons == <<disabled, text, label>>
copying == <<pendingCopy, retry, ops, buttons>>
vars == <<link, vault, overlay, copying>>

\* The popup opens and says hello to a host it starts.
Init ==
    /\ host = "running"
    /\ key = FALSE
    /\ inbox = <<[id |-> 1, kind |-> "hello", row |-> NoRow]>>
    /\ outbox = << >>
    /\ pending = [i \in Ids |-> IF i = 1 THEN [kind |-> "hello", op |-> NoOp]
                                ELSE None]
    /\ vaultState = "not_configured"
    /\ late = FALSE
    /\ overlay = FALSE
    /\ pendingCopy = NoOp
    /\ retry = NoOp
    /\ ops = [o \in Ops |-> Free]
    /\ disabled = {}
    /\ text = {}
    /\ label = {}

------------------------------------------------------------------------------
\* The connection.

Asked(kinds) == \E i \in Ids : pending[i].kind \in kinds

\* nextRequestId: an id no one waits for and no message carries.
Fresh(rest) == {i \in Ids : /\ rest[i] = None
                            /\ \A n \in DOMAIN inbox : inbox[n].id # i
                            /\ \A n \in DOMAIN outbox : outbox[n].id # i}

\* client.request, where rest are the requests already waiting: a popup with no
\* port starts a host, with the vault locked; a host that is gone reads nothing.
Post(rest, kind, op, row) ==
    /\ \E i \in Fresh(rest) :
           /\ \A j \in Fresh(rest) : i <= j
           /\ pending' = [rest EXCEPT ![i] = [kind |-> kind, op |-> op]]
           /\ inbox' = IF host = "gone" THEN inbox
                       ELSE Append(inbox, [id |-> i, kind |-> kind, row |-> row])
    /\ host' = IF host = "none" THEN "running" ELSE host
    /\ UNCHANGED key

NoPost(rest) == pending' = rest /\ UNCHANGED <<host, key, inbox>>

\* The requests left once i has settled (takePending).
Without(i) == [pending EXCEPT ![i] = None]

\* The bound on requests leaves the last id to the popup's own requests (the
\* hello after a timeout, the retry), so that it never stops an answer.
Room == Cardinality(Fresh(pending)) >= 2

------------------------------------------------------------------------------
\* Operations.

Busy == {"body", "clipboard"}     \* handleCopy has not returned
Live == Busy \cup {"feedback"}    \* its button is disabled, or shows success

FreeOps == {o \in Ops : ops[o].stage = "free"}

RowOf(o) == IF ops[o].attached THEN {ops[o].row} ELSE {}

\* handleCopy: the operation takes the button, remembers its text and asks.
Begin(o, row, attached, rest) ==
    /\ ops' = [ops EXCEPT ![o] =
                  [stage |-> "body", row |-> row, attached |-> attached,
                   text |-> row \in text, label |-> FALSE]]
    /\ pendingCopy' = o
    /\ disabled' = disabled \cup (IF attached THEN {row} ELSE {})
    /\ UNCHANGED <<text, label>>
    /\ Post(rest, "body", o, row)

\* A plausible bug: the unlock handler never learns that the retry is over.
NeverReturned(o) == UNCHANGED retry

\* handleCopy returns to the unlock handler that called it.
Returned(o) == retry' = IF retry = o THEN NoOp ELSE retry

\* A plausible bug: the catch gives the button back and keeps the pending copy.
FailKeeping(o) ==
    /\ ops' = [ops EXCEPT ![o] = Free]
    /\ disabled' = disabled \ RowOf(o)
    /\ Returned(o)
    /\ UNCHANGED <<pendingCopy, text, label>>

\* The catch of handleCopy.
Fail(o) ==
    /\ ops' = [ops EXCEPT ![o] = Free]
    /\ disabled' = disabled \ RowOf(o)
    /\ pendingCopy' = IF pendingCopy = o THEN NoOp ELSE pendingCopy
    /\ Returned(o)
    /\ UNCHANGED <<text, label>>

\* A plausible bug: the dialog opens over a button that stays disabled.
AskDisabled(o) ==
    /\ overlay' = TRUE
    /\ ops' = [ops EXCEPT ![o] =
                  IF pendingCopy = o THEN [@ EXCEPT !.stage = "waiting"]
                  ELSE Free]
    /\ Returned(o)
    /\ UNCHANGED <<pendingCopy, disabled, text, label>>

\* The password is needed: the dialog opens; the operation is kept for the one
\* retry, unless it is no longer the pending one.
AskPassword(o) ==
    /\ overlay' = TRUE
    /\ ops' = [ops EXCEPT ![o] =
                  IF pendingCopy = o THEN [@ EXCEPT !.stage = "waiting"]
                  ELSE Free]
    /\ disabled' = disabled \ RowOf(o)
    /\ Returned(o)
    /\ UNCHANGED <<pendingCopy, text, label>>

\* finishUnlock: the dialog closes and the pending copy, if any, is retried with
\* its button, and the unlock handler waits for it.  The operation that waited
\* becomes the retry; one that was still busy goes on beside it.
FinishUnlock(rest) ==
    /\ vaultState' = "unlocked"
    /\ overlay' = FALSE
    /\ IF pendingCopy = NoOp
       THEN NoPost(rest) /\ UNCHANGED copying
       ELSE \E o \in IF ops[pendingCopy].stage = "waiting"
                     THEN {pendingCopy} ELSE FreeOps :
                /\ Begin(o, ops[pendingCopy].row, ops[pendingCopy].attached, rest)
                /\ retry' = o

------------------------------------------------------------------------------
\* The user.  The dialog covers the list and the lock button.

\* A plausible bug: only the button, not the pending copy, stops a click.
ClickAny(r) ==
    /\ ~overlay
    /\ ~Asked({"hello"})
    /\ r \notin disabled
    /\ Room
    /\ \E o \in FreeOps :
           /\ \A q \in FreeOps : o <= q
           /\ Begin(o, r, TRUE, pending)
    /\ UNCHANGED <<outbox, vault, overlay, retry>>

\* The list is there once the popup's hello is over; a disabled button and a
\* second copy while one is pending do nothing.
ClickCopy(r) ==
    /\ ~overlay
    /\ ~Asked({"hello"})
    /\ r \notin disabled
    /\ pendingCopy = NoOp
    /\ Room
    /\ \E o \in FreeOps :
           /\ \A q \in FreeOps : o <= q
           /\ Begin(o, r, TRUE, pending)
    /\ UNCHANGED <<outbox, vault, overlay, retry>>

UnlockBusy == Asked(Unlocks \cup {"reconcile"}) \/ retry # NoOp

ClickUnlock(password) ==
    /\ overlay
    /\ ~UnlockBusy
    /\ Room
    /\ Post(pending, password, NoOp, NoRow)
    /\ UNCHANGED <<outbox, vault, overlay, copying>>

\* Cancel, Escape, or a click beside the dialog.
Cancel ==
    /\ overlay
    /\ CancelDuringUnlock \/ ~UnlockBusy
    /\ overlay' = FALSE
    /\ pendingCopy' = NoOp
    /\ ops' = [o \in Ops |-> IF ops[o].stage = "waiting" THEN Free ELSE ops[o]]
    /\ UNCHANGED <<link, vault, retry, buttons>>

ClickLock ==
    /\ ~overlay
    /\ vaultState = "unlocked"
    /\ ~Asked({"lock"})
    /\ Room
    /\ Post(pending, "lock", NoOp, NoRow)
    /\ UNCHANGED <<outbox, vault, overlay, copying>>

\* The list is loaded again (search, category): new buttons; the operations
\* keep theirs, which nobody sees any more.
NewButtons(current) ==
    /\ ops' = [o \in Ops |-> [current[o] EXCEPT !.attached = FALSE]]
    /\ disabled' = {}
    /\ text' = {}
    /\ label' = {}

Reload ==
    /\ ~Asked({"hello"})
    /\ NewButtons(ops)
    /\ UNCHANGED <<link, vault, overlay, pendingCopy, retry>>

------------------------------------------------------------------------------
\* The host: what it answers, and whether it holds the key then.

\* A plausible bug: hello answers with its error where the vault state belongs.
ReplyError(kind, row) == {<<IF kind = "hello" THEN "error" ELSE "ok", key>>}

Reply(kind, row) ==
    CASE kind = "wrong"     -> {<<"error", key>>}
      [] kind = "right"     -> Replies("unlock", FALSE, key)
      [] kind = "reconcile" -> Replies("hello", FALSE, key)
      [] OTHER              -> Replies(kind, row \in Protected, key)

HostStep ==
    /\ host = "running"
    /\ inbox # << >>
    /\ \E r \in Reply(Head(inbox).kind, Head(inbox).row) :
           /\ outbox' = Append(outbox, [id |-> Head(inbox).id, answer |-> r[1]])
           /\ key' = r[2]
    /\ inbox' = Tail(inbox)
    /\ UNCHANGED <<host, pending, vault, overlay, copying>>

\* The process ends; what it has written is still delivered.
HostEnds ==
    /\ host = "running"
    /\ host' = "gone"
    /\ key' = FALSE
    /\ inbox' = << >>
    /\ UNCHANGED <<outbox, pending, vault, overlay, copying>>

------------------------------------------------------------------------------
\* The popup's events.

\* A plausible bug: any answer to an unlock will do.
ConfirmsAnyhow(kind, answer) == TRUE

\* The vault is open: unlockVault succeeded, or hello says so after a timeout.
Confirms(kind, answer) ==
    answer = IF kind = "reconcile" THEN "unlocked" ELSE "ok"

\* The continuation of the request i, for the answer it got.
Answered(i, answer) ==
    LET kind == pending[i].kind
        o == pending[i].op
        rest == Without(i)
    IN
    \/ /\ kind = "none"
       /\ NoPost(rest)
       /\ UNCHANGED <<vaultState, overlay, copying>>
    \/ /\ kind = "hello"
       /\ vaultState' = answer
       /\ NoPost(rest)
       /\ UNCHANGED <<overlay, copying>>
    \/ /\ kind = "lock"
       /\ vaultState' = "locked"
       /\ NoPost(rest)
       /\ UNCHANGED <<overlay, copying>>
    \/ /\ kind \in Unlocks \cup {"reconcile"}
       /\ Confirms(kind, answer)
       /\ FinishUnlock(rest)
    \/ /\ kind \in Unlocks \cup {"reconcile"}
       /\ ~Confirms(kind, answer)
       /\ NoPost(rest)
       /\ UNCHANGED <<vaultState, overlay, copying>>
    \/ /\ kind = "body"
       /\ \/ /\ answer = "ok"
             /\ ops' = [ops EXCEPT ![o].stage = "clipboard"]
             /\ UNCHANGED <<overlay, pendingCopy, retry, buttons>>
          \/ answer = "vault_locked" /\ AskPassword(o)
          \/ answer = "error" /\ Fail(o) /\ UNCHANGED overlay
       /\ NoPost(rest)
       /\ UNCHANGED vaultState

HandleMessage ==
    /\ outbox # << >>
    /\ outbox' = Tail(outbox)
    /\ Answered(Head(outbox).id, Head(outbox).answer)
    /\ UNCHANGED late

\* An unlock that timed out asks the host for the truth.
Timeout(i) ==
    /\ pending[i] # None
    /\ late' = TRUE
    /\ CASE pending[i].kind = "body" ->
                /\ Fail(pending[i].op)
                /\ NoPost(Without(i))
                /\ UNCHANGED overlay
         [] pending[i].kind \in Unlocks ->
                /\ Post(Without(i), "reconcile", NoOp, NoRow)
                /\ UNCHANGED <<overlay, copying>>
         [] OTHER ->
                /\ NoPost(Without(i))
                /\ UNCHANGED <<overlay, copying>>
    /\ UNCHANGED <<outbox, vaultState>>

\* Every pending request fails; the vault is shown locked; the list is drawn
\* again.
HandleDisconnect ==
    LET failed == {o \in Ops : ops[o].stage = "body"} IN
    /\ host = "gone"
    /\ outbox = << >>
    /\ host' = "none"
    /\ inbox' = << >>
    /\ pending' = [i \in Ids |-> None]
    /\ vaultState' = IF vaultState = "unlocked" THEN "locked" ELSE vaultState
    /\ NewButtons([o \in Ops |-> IF o \in failed THEN Free ELSE ops[o]])
    /\ pendingCopy' = IF pendingCopy \in failed THEN NoOp ELSE pendingCopy
    /\ retry' = IF retry \in failed THEN NoOp ELSE retry
    /\ UNCHANGED <<key, outbox, late, overlay>>

\* writeText resolves or rejects; success shows for a while (showCopySuccess).
Written(o) ==
    /\ ops[o].stage = "clipboard"
    /\ \/ Fail(o)
       \/ /\ ops' = [ops EXCEPT ![o].stage = "feedback",
                                ![o].label = ops[o].row \in label]
          /\ text' = text \cup RowOf(o)
          /\ label' = label \cup RowOf(o)
          /\ Returned(o)
          /\ UNCHANGED <<pendingCopy, disabled>>
    /\ UNCHANGED <<link, vault, overlay>>

\* Plausible bugs: the check mark stays; the pending copy stays.
ResetUnmarked(o) ==
    /\ ops[o].stage = "feedback"
    /\ disabled' = disabled \ RowOf(o)
    /\ pendingCopy' = IF pendingCopy = o THEN NoOp ELSE pendingCopy
    /\ ops' = [ops EXCEPT ![o] = Free]
    /\ UNCHANGED <<link, vault, overlay, retry, text, label>>

ResetKeeping(o) ==
    /\ ops[o].stage = "feedback"
    /\ text' = IF ops[o].text THEN text ELSE text \ RowOf(o)
    /\ label' = IF ops[o].label THEN label ELSE label \ RowOf(o)
    /\ disabled' = disabled \ RowOf(o)
    /\ ops' = [ops EXCEPT ![o] = Free]
    /\ UNCHANGED <<link, vault, overlay, pendingCopy, retry>>

\* The feedback timer puts back what the operation found.
Reset(o) ==
    /\ ops[o].stage = "feedback"
    /\ text' = IF ops[o].text THEN text ELSE text \ RowOf(o)
    /\ label' = IF ops[o].label THEN label ELSE label \ RowOf(o)
    /\ disabled' = disabled \ RowOf(o)
    /\ pendingCopy' = IF pendingCopy = o THEN NoOp ELSE pendingCopy
    /\ ops' = [ops EXCEPT ![o] = Free]
    /\ UNCHANGED <<link, vault, overlay, retry>>

\* The popup closes (pagehide: the client disconnects, the page is gone, the
\* host reads the end of its input and drops the key), and opens again.
Reopen ==
    /\ host' = "running"
    /\ key' = FALSE
    /\ inbox' = <<[id |-> 1, kind |-> "hello", row |-> NoRow]>>
    /\ outbox' = << >>
    /\ pending' = [i \in Ids |-> IF i = 1 THEN [kind |-> "hello", op |-> NoOp]
                                 ELSE None]
    /\ vaultState' = "not_configured"
    /\ late' = FALSE
    /\ overlay' = FALSE
    /\ pendingCopy' = NoOp
    /\ retry' = NoOp
    /\ ops' = [o \in Ops |-> Free]
    /\ disabled' = {}
    /\ text' = {}
    /\ label' = {}

User ==
    \/ \E r \in Rows : ClickCopy(r)
    \/ \E password \in Unlocks : ClickUnlock(password)
    \/ Cancel \/ ClickLock \/ Reload \/ Reopen

Next ==
    \/ User
    \/ HostStep \/ HostEnds
    \/ HandleMessage \/ HandleDisconnect
    \/ \E i \in Ids : Timeout(i)
    \/ \E o \in Ops : Written(o) \/ Reset(o)

\* Timers fire, and the clipboard answers; neither the host nor the user has to
\* do anything.
Fairness ==
    /\ \A i \in Ids : WF_vars(Timeout(i))
    /\ \A o \in Ops : WF_vars(Written(o)) /\ WF_vars(Reset(o))

Spec == Init /\ [][Next]_vars /\ Fairness

------------------------------------------------------------------------------
Messages == [id : Ids, kind : Kinds, row : Rows \cup {NoRow}]
Deliveries == [id : Ids, answer : Answers]
Requests == [kind : Kinds \cup {"none"}, op : Ops \cup {NoOp}]
Operations == [stage : Live \cup {"free", "waiting"}, row : Rows \cup {NoRow},
               attached : BOOLEAN, text : BOOLEAN, label : BOOLEAN]

TypeOK ==
    /\ host \in {"none", "running", "gone"}
    /\ key \in BOOLEAN
    /\ inbox \in Seq(Messages)
    /\ outbox \in Seq(Deliveries)
    /\ pending \in [Ids -> Requests]
    /\ vaultState \in VaultStates
    /\ late \in BOOLEAN
    /\ overlay \in BOOLEAN
    /\ pendingCopy \in Ops \cup {NoOp}
    /\ retry \in Ops \cup {NoOp}
    /\ ops \in [Ops -> Operations]
    /\ disabled \subseteq Rows
    /\ text \subseteq Rows
    /\ label \subseteq Rows

\* Copying never wedges: the pending copy, which turns every other click into
\* nothing, always has something coming that will end it - an answer or its
\* timer, the clipboard, the feedback timer - or the dialog is there to end it.
NeverWedged ==
    pendingCopy # NoOp =>
        LET o == pendingCopy IN
        \/ ops[o].stage = "body" /\ \E i \in Ids : pending[i].op = o
        \/ ops[o].stage \in {"clipboard", "feedback"}
        \/ ops[o].stage = "waiting" /\ overlay

\* A button the user sees is disabled only as long as a copy of it runs.
DisabledMeansBusy ==
    \A r \in disabled : \E o \in Ops : ops[o].stage \in Live /\ r \in RowOf(o)

\* One copy at a time: a body is fetched and written for one operation only,
\* the retry after an unlock included.
OneCopyAtATime == Cardinality({o \in Ops : ops[o].stage \in Live}) <= 1

\* A check mark or a Copied label never outlives the feedback it belongs to.
MarksAreFeedback ==
    \A r \in text \cup label :
        \E o \in Ops : ops[o].stage = "feedback" /\ r \in RowOf(o)

\* Nothing is on its way between the popup and its host.
Quiet == host # "gone" /\ inbox = << >> /\ outbox = << >> /\ ~Asked(Kinds)

\* At rest, the popup shows the vault unlocked exactly if the host holds the
\* key, as long as no answer has missed its timer since the popup opened.
Truthful == Quiet /\ ~late => (vaultState = "unlocked" <=> key)

\* "Retry the original operation exactly once using its captured button"
\* (popup.ts:238): what an unlock retries is the copy that asked for the
\* password.
RetryIsOriginal ==
    [][retry = NoOp /\ retry' # NoOp => ops[pendingCopy].stage = "waiting"]_vars

\* A pending copy ends, or waits for the user's password.
CopyEnds == pendingCopy # NoOp ~> pendingCopy = NoOp \/ overlay

\* The unlock button comes back.
UnlockEnds == UnlockBusy ~> ~UnlockBusy

------------------------------------------------------------------------------
\* The inductive invariant behind them.

\* Bodies are asked for by the operations that wait for one, once each.
BodiesOf(requests, operations) ==
    /\ \A i \in Ids : requests[i].kind = "body" <=> requests[i].op # NoOp
    /\ \A i \in Ids : requests[i].op # NoOp => operations[requests[i].op].stage = "body"
    /\ \A i, j \in Ids : requests[i].op # NoOp /\ requests[i].op = requests[j].op => i = j
    /\ \A o \in Ops : operations[o].stage = "body" => \E i \in Ids : requests[i].op = o

BodiesAsked == BodiesOf(pending, ops)

\* A button is the button of a row.
AttachedToRows == \A o \in Ops : ops[o].attached => ops[o].row \in Rows

\* The pending copy runs, or waits under the dialog; with the bodies that are
\* asked for, NeverWedged follows.
NeverStuck ==
    pendingCopy # NoOp =>
        \/ ops[pendingCopy].stage \in Live
        \/ ops[pendingCopy].stage = "waiting" /\ overlay

\* No two messages carry one id, and what carries the id of a request that waits
\* is that request or an answer to it.
MessagesFit ==
    /\ \A m, n \in DOMAIN inbox : inbox[m].id = inbox[n].id => m = n
    /\ \A m, n \in DOMAIN outbox : outbox[m].id = outbox[n].id => m = n
    /\ \A m \in DOMAIN inbox, n \in DOMAIN outbox : inbox[m].id # outbox[n].id
    /\ \A n \in DOMAIN inbox : pending[inbox[n].id].kind \in {"none", inbox[n].kind}
    /\ \A n \in DOMAIN outbox :
           pending[outbox[n].id].kind = "hello" => outbox[n].answer \in VaultStates

\* A host that is gone holds no key and reads nothing; a popup without a host
\* waits for nothing.
HostsEnd ==
    /\ host # "running" => ~key /\ inbox = << >>
    /\ host = "none" => outbox = << >> /\ \A i \in Ids : pending[i] = None

\* The popup's hello is alone.
HelloFirst ==
    \A i \in Ids : pending[i].kind = "hello" =>
        /\ ~key
        /\ vaultState = "not_configured"
        /\ ~overlay
        /\ pendingCopy = NoOp
        /\ \A j \in Ids : j # i => pending[j] = None
        /\ \A n \in DOMAIN inbox : inbox[n].kind = "hello"

\* While no answer has missed its timer, every message is waited for,
NoneMissed ==
    ~late =>
        /\ \A n \in DOMAIN inbox : pending[inbox[n].id].kind = inbox[n].kind
        /\ \A n \in DOMAIN outbox : pending[outbox[n].id] # None
        /\ ~Asked({"reconcile"})

\* and the last answer that says something of the vault says what it is now; if
\* there is none, the popup shows it.
Tells(n) ==
    LET kind == pending[outbox[n].id].kind IN
    kind \in {"hello", "lock"} \/ (kind \in Unlocks /\ outbox[n].answer = "ok")
Opens(n) ==
    LET kind == pending[outbox[n].id].kind IN
    kind \in Unlocks \/ (kind = "hello" /\ outbox[n].answer = "unlocked")

KeyFollows ==
    ~late /\ host # "gone" =>
        /\ \A n \in DOMAIN outbox :
               Tells(n) /\ (\A m \in DOMAIN outbox : Tells(m) => m <= n) =>
                   (Opens(n) <=> key)
        /\ (\A n \in DOMAIN outbox : ~Tells(n)) => (vaultState = "unlocked" <=> key)

\* A user who waits for the unlock: one unlock at a time, under the dialog;
UnlockUnderDialog ==
    ~CancelDuringUnlock =>
        \A i \in Ids : pending[i].kind \in Unlocks \cup {"reconcile"} =>
            /\ overlay
            /\ retry = NoOp
            /\ \A j \in Ids : pending[j].kind \in Unlocks \cup {"reconcile"} => i = j

\* one operation, the pending copy, which waits if the dialog is there; no mark
\* when an operation begins.
OneOperation ==
    ~CancelDuringUnlock =>
        /\ \A o \in Ops : ops[o].stage # "free" => pendingCopy = o
        /\ overlay /\ pendingCopy # NoOp => ops[pendingCopy].stage = "waiting"
        /\ retry # NoOp => retry = pendingCopy /\ ops[retry].stage \in Busy
        /\ \A o \in Ops : ops[o].stage # "free" => ~ops[o].text /\ ~ops[o].label
        /\ MarksAreFeedback

IInv ==
    /\ TypeOK
    /\ BodiesAsked
    /\ MessagesFit
    /\ HostsEnd
    /\ HelloFirst
    /\ NoneMissed
    /\ KeyFollows
    /\ AttachedToRows
    /\ NeverStuck
    /\ DisabledMeansBusy
    /\ UnlockUnderDialog
    /\ OneOperation
==============================================================================
