------------------------------ MODULE HostProofs ------------------------------
(***************************************************************************)
(* Proofs about module Host, for any vaults, passwords and snippets.       *)
(***************************************************************************)
EXTENDS Host, TLAPS

\* What a response is made of.
LEMMA Responding ==
    ASSUME NEW answer, NEW code, Respond(answer, code)
    PROVE  /\ reply'.to = serving.method
           /\ reply'.answer = answer
           /\ reply'.code = code
           /\ serving' = NoRequest
           /\ meta' = NoVault
BY DEF Respond

\* The host starts with nothing.
LEMMA InitIInv == Init => IInv
<1> SUFFICES ASSUME Init PROVE IInv
  OBVIOUS
<1>1. bodies \in [Snippets -> Bodies]
  BY DEF Init, Bodies
<1>2. TypeOK
  BY <1>1 DEF Init, TypeOK, NoReply, Codes
<1>3. UnlockInProgress /\ NoKeyWithoutPassword /\ KeysAreKnown
  BY DEF Init, UnlockInProgress, Is, NoKeyWithoutPassword,
     KeysAreKnown, NoReply
<1>4. FailsClosed
  BY DEF Init, FailsClosed, NoReply, Terminal, Retryable
<1> QED
  BY <1>2, <1>3, <1>4 DEF IInv

\* A request arrives, or the host starts again.
LEMMA ReceiveExitIInv ==
    ASSUME IInv, (\E request \in Requests : Receive(request)) \/ Exit
    PROVE  IInv'
<1> USE HostAssumption DEF IInv, TypeOK, UnlockInProgress, Is, FailsClosed,
        NoKeyWithoutPassword, KeysAreKnown, desktop, start
<1>1. ASSUME NEW request \in Requests, Receive(request)
      PROVE  IInv'
  <2>1. request.method = "unlock" => request.password \in Passwords
    BY DEF Requests
  <2> QED
    BY <1>1, <2>1 DEF Receive
<1>2. CASE Exit
  BY <1>2 DEF Exit, NoReply, Codes, Terminal, Retryable
<1> QED
  BY <1>1, <1>2

\* The database is opened, or is not.
LEMMA StartIInv ==
    ASSUME IInv, Open \/ FailClosed
    PROVE  IInv'
<1> USE HostAssumption DEF IInv, TypeOK, UnlockInProgress, Is, FailsClosed,
        NoKeyWithoutPassword, KeysAreKnown, desktop, start,
        Terminal, Retryable, Codes, Respond, Refuse, Unavailable
<1>1. CASE Open
  <2>1. ~conn /\ failure = "none" /\ key = NoVault /\ meta = NoVault /\ serving # NoRequest
    BY <1>1 DEF Open, AwaitsDatabase
  <2>2. ASSUME conn' = TRUE, UNCHANGED <<desktop, key, entered, failure, serving, meta, reply>>
        PROVE  IInv'
    BY <2>1, <2>2
  <2>3. ASSUME NEW code \in Terminal, failure' = code,
               UNCHANGED <<desktop, key, entered, conn, serving, meta, reply>>
        PROVE  IInv'
    BY <2>1, <2>3
  <2>4. ASSUME NEW code \in Retryable, Unavailable(code),
               UNCHANGED <<desktop, start, key, entered>>
        PROVE  IInv'
    BY <2>1, <2>4
  <2> QED
    BY <1>1, <2>2, <2>3, <2>4 DEF Open
<1>2. CASE FailClosed
  BY <1>2 DEF FailClosed
<1> QED
  BY <1>1, <1>2

\* A request is answered that changes neither the start nor the key.
LEMMA AnswerIInv ==
    ASSUME IInv, Hello \/ Reads \/ GetSnippetBody \/ Ping \/ RefuseRequest
    PROVE  IInv'
<1> USE HostAssumption DEF IInv, TypeOK, UnlockInProgress, Is, FailsClosed,
        NoKeyWithoutPassword, KeysAreKnown, desktop, start,
        Terminal, Retryable, Codes, Respond, Refuse, Succeed
<1>1. CASE Hello
  BY <1>1 DEF Hello
<1>2. CASE Reads
  BY <1>2 DEF Reads
<1>3. CASE GetSnippetBody
  <2>1. Outcome(serving.id) \in {"not_found", "none", "vault_locked", "decrypt_failed"}
    BY DEF Outcome
  <2> QED
    BY <1>3, <2>1 DEF GetSnippetBody
<1>4. CASE Ping
  BY <1>4 DEF Ping
<1>5. CASE RefuseRequest
  BY <1>5 DEF RefuseRequest
<1> QED
  BY <1>1, <1>2, <1>3, <1>4, <1>5

\* The key comes and goes.
LEMMA VaultIInv ==
    ASSUME IInv, BeginUnlock \/ FinishUnlock \/ LockVault
    PROVE  IInv'
<1> USE HostAssumption DEF IInv, TypeOK, UnlockInProgress, Is, FailsClosed,
        NoKeyWithoutPassword, KeysAreKnown, desktop, start,
        Terminal, Retryable, Codes, Respond, Refuse, Succeed
<1>1. CASE BeginUnlock
  BY <1>1 DEF BeginUnlock
<1>2. CASE FinishUnlock
  BY <1>2 DEF FinishUnlock, Verifies
<1>3. CASE LockVault
  BY <1>3 DEF LockVault
<1> QED
  BY <1>1, <1>2, <1>3

\* The desktop only ever adds to the vaults that were replaced.
LEMMA DesktopIInv ==
    ASSUME IInv, Desktop
    PROVE  IInv'
<1> USE HostAssumption DEF IInv, TypeOK, UnlockInProgress, Is, FailsClosed,
        NoKeyWithoutPassword, KeysAreKnown, start
<1>1. ASSUME NEW v \in Vaults, SetVault(v)
      PROVE  IInv'
  BY <1>1 DEF SetVault
<1>2. CASE RemoveVault
  BY <1>2 DEF RemoveVault, Bodies
<1>3. ASSUME NEW s \in Snippets, NEW body \in Bodies, Store(s, body)
      PROVE  IInv'
  BY <1>3 DEF Store
<1> QED
  BY <1>1, <1>2, <1>3 DEF Desktop

\* The inductive step.
LEMMA NextIInv == IInv /\ [Next]_vars => IInv'
<1> SUFFICES ASSUME IInv, [Next]_vars PROVE IInv'
  OBVIOUS
<1>1. CASE Next
  BY <1>1, ReceiveExitIInv, StartIInv, AnswerIInv, VaultIInv, DesktopIInv
     DEF Next, Serve
<1>2. CASE UNCHANGED vars
  BY <1>2 DEF vars, desktop, start, IInv, TypeOK, UnlockInProgress, Is,
     FailsClosed, NoKeyWithoutPassword, KeysAreKnown
<1> QED
  BY <1>1, <1>2

\* The inductive invariant of the host: its start, its key and its waiting
\* unlock agree with what it was sent and with what the desktop has done.
THEOREM Invariance == Spec => []IInv
  BY InitIInv, NextIInv, PTL DEF Spec

\* A start that failed for good is final, one that can be retried is not
\* (connection, main.rs).
THEOREM StartFailsClosed == Spec => []FailsClosed
<1>1. IInv => FailsClosed
  BY DEF IInv
<1> QED
  BY <1>1, Invariance, PTL

\* No key without its password, sent to this process after the last lock
\* (unlock_vault, lock_vault).
THEOREM KeyIsEarned == Spec => []NoKeyWithoutPassword
<1>1. IInv => NoKeyWithoutPassword
  BY DEF IInv
<1> QED
  BY <1>1, Invariance, PTL

\* A right password and a sound body are refused only where the desktop has
\* replaced the vault, or where they are damaged (get_snippet_body,
\* unlock_vault): what a request was answered with, and the database it then is.
THEOREM RefusalsAreHonest == Spec => HonestRefusals
<1> DEFINE Honest ==
        /\ Answered("decrypt_failed") =>
               key \in retired \/ bodies[serving.id] = "damaged"
        /\ Answered("invalid_password") /\ Is("unlock") /\ vault # NoVault =>
               \/ serving.password # PasswordOf[vault]
               \/ meta \in retired \/ vault \in Broken
<1>1. IInv /\ [Next]_vars => [Honest]_vars
  <2> SUFFICES ASSUME IInv, Next PROVE Honest
    OBVIOUS
  <2> USE HostAssumption DEF Answered, Is, Respond, Refuse, Succeed
  <2>1. ASSUME NEW request \in Requests, Receive(request) PROVE Honest
    BY <2>1 DEF Receive
  <2>2. CASE Open
    BY <2>2 DEF Open, AwaitsDatabase, Unavailable, Retryable
  <2>3. CASE FailClosed
    BY <2>3 DEF FailClosed, Unavailable, IInv, TypeOK, Terminal
  <2>4. CASE Hello
    BY <2>4 DEF Hello
  <2>5. CASE Reads
    BY <2>5 DEF Reads
  <2>6. CASE GetSnippetBody
    <3>0. serving.id \in Snippets
      BY <2>6 DEF GetSnippetBody, IInv, TypeOK, Requests
    <3>1. Outcome(serving.id) = "decrypt_failed" =>
              key \in retired \/ bodies[serving.id] = "damaged"
      BY <3>0 DEF Outcome, Decrypts, IInv, KeysAreKnown, TypeOK, Bodies
    <3>2. Outcome(serving.id) # "invalid_password"
      BY DEF Outcome
    <3> QED
      BY <2>6, <3>1, <3>2 DEF GetSnippetBody
  <2>7. CASE Ping
    BY <2>7 DEF Ping
  <2>8. CASE RefuseRequest
    BY <2>8 DEF RefuseRequest
  <2>9. CASE BeginUnlock
    BY <2>9 DEF BeginUnlock
  <2>10. CASE FinishUnlock
    BY <2>10 DEF FinishUnlock, Verifies, IInv, KeysAreKnown
  <2>11. CASE LockVault
    BY <2>11 DEF LockVault
  <2>12. CASE Exit
    BY <2>12 DEF Exit, NoReply
  <2>13. CASE Desktop
    BY <2>13 DEF Desktop, SetVault, RemoveVault, Store
  <2> QED
    BY <2>1, <2>2, <2>3, <2>4, <2>5, <2>6, <2>7, <2>8, <2>9, <2>10, <2>11,
       <2>12, <2>13 DEF Next, Serve
<1> QED
  BY <1>1, Invariance, PTL DEF Spec, HonestRefusals

------------------------------------------------------------------------------
\* The host implements the service.

LEMMA InitMaps == Init => Service!Init
BY DEF Init, Service!Init, NoReply

\* A response is the answer of the service.
LEMMA RespondMaps ==
    ASSUME NEW answer, NEW code, NEW protected \in BOOLEAN,
           serving \in Requests, Respond(answer, code),
           <<answer, (key # NoVault)'>> \in
               Service!Replies(serving.method, protected, key # NoVault)
    PROVE  Service!Next
<1>1. serving # NoRequest
  BY HostAssumption
<1>2. serving.method # NoRequest
  BY HostAssumption
<1>3. reply'.answer = answer /\ serving' = NoRequest
  BY Responding
<1> QED
  BY <1>1, <1>2, <1>3 DEF Service!Next, Service!Answer

\* Every step of the host is a step of the service, or none.
LEMMA StepMaps == IInv /\ [Next]_vars => [Service!Next]_(Service!vars)
<1> SUFFICES ASSUME IInv, [Next]_vars PROVE [Service!Next]_(Service!vars)
  OBVIOUS
<1> USE HostAssumption
<1> DEFINE stutter == UNCHANGED <<key, serving, reply>>
<1>1. stutter => UNCHANGED Service!vars
  BY DEF Service!vars
<1>2. serving # NoRequest => serving \in Requests
  BY DEF IInv, TypeOK
<1>3. ASSUME NEW request \in Requests, Receive(request)
      PROVE  Service!Next
  <2>1. request.method \in Service!Methods
    BY DEF Requests, Service!Methods
  <2>2. request # NoRequest /\ request.method # NoRequest
    OBVIOUS
  <2> QED
    BY <1>3, <2>1, <2>2 DEF Receive, Service!Next, Service!Ask
<1>4. ASSUME NEW code, Unavailable(code), UNCHANGED key, key = NoVault,
             serving # NoRequest, serving.method \in NeedDatabase
      PROVE  Service!Next
  <2>1. CASE serving.method = "hello"
    BY <1>2, <1>4, <2>1, RespondMaps DEF Unavailable, Service!Replies
  <2>2. CASE serving.method # "hello"
    BY <1>2, <1>4, <2>2, RespondMaps
       DEF Unavailable, Refuse, Service!Replies, NeedDatabase
  <2> QED
    BY <2>1, <2>2
<1>5. CASE Open
  <2>1. key = NoVault
    BY <1>5 DEF Open, AwaitsDatabase, IInv, UnlockInProgress
  <2> QED
    BY <1>1, <1>4, <1>5, <2>1 DEF Open, AwaitsDatabase
<1>6. CASE FailClosed
  <2>1. key = NoVault
    BY <1>6 DEF FailClosed, IInv, FailsClosed
  <2> QED
    BY <1>4, <1>6, <2>1 DEF FailClosed
<1>7. CASE Hello
  BY <1>2, <1>7, RespondMaps DEF Hello, Is, VaultState, Service!Replies
<1>8. CASE Reads
  BY <1>2, <1>8, RespondMaps DEF Reads, Is, Succeed, Refuse, Service!Replies
<1>9. CASE GetSnippetBody
  <2>1. Outcome(serving.id) = "vault_locked" => key = NoVault
    BY DEF Outcome
  <2>2. ASSUME Outcome(serving.id) = "none", Succeed("ok")
        PROVE  Service!Next
    BY <1>2, <1>9, <2>2, RespondMaps DEF GetSnippetBody, Is, Succeed, Service!Replies
  <2>3. ASSUME Outcome(serving.id) = "vault_locked",
               Respond("vault_locked", "vault_locked")
        PROVE  Service!Next
    BY <1>2, <1>9, <2>1, <2>3, RespondMaps DEF GetSnippetBody, Is, Service!Replies
  <2>4. ASSUME NEW code, Refuse(code)
        PROVE  Service!Next
    BY <1>2, <1>9, <2>4, RespondMaps DEF GetSnippetBody, Is, Refuse, Service!Replies
  <2> QED
    BY <1>9, <2>2, <2>3, <2>4 DEF GetSnippetBody
<1>10. CASE Ping
  BY <1>2, <1>10, RespondMaps DEF Ping, Is, Succeed, Service!Replies
<1>11. CASE RefuseRequest
  BY <1>2, <1>11, RespondMaps DEF RefuseRequest, Is, Refuse, Service!Replies
<1>12. CASE BeginUnlock
  <2>1. ASSUME NEW code, Refuse(code)
        PROVE  Service!Next
    BY <1>2, <1>12, <2>1, RespondMaps DEF BeginUnlock, Is, Refuse, Service!Replies
  <2> QED
    BY <1>1, <1>12, <2>1 DEF BeginUnlock
<1>13. CASE FinishUnlock
  BY <1>2, <1>13, RespondMaps DEF FinishUnlock, Is, Succeed, Refuse, Service!Replies
<1>14. CASE LockVault
  BY <1>2, <1>14, RespondMaps DEF LockVault, Is, Succeed, Service!Replies
<1>15. CASE Exit
  BY <1>15 DEF Exit, NoReply, Service!Next, Service!End
<1>16. CASE Desktop
  BY <1>1, <1>16 DEF Desktop, SetVault, RemoveVault, Store
<1>17. CASE UNCHANGED vars
  BY <1>1, <1>17 DEF vars
<1> QED
  BY <1>3, <1>5, <1>6, <1>7, <1>8, <1>9, <1>10, <1>11, <1>12, <1>13, <1>14,
     <1>15, <1>16, <1>17 DEF Next, Serve

\* The host implements the service its popup relies on: one answer to each
\* request, of those module Session counts with, and a key only from a
\* successful unlock to a lock or its end.
THEOREM Implements == Spec => Refinement
<1>1. Init /\ [][Next]_vars /\ []IInv => Service!Spec
  BY InitMaps, StepMaps, PTL DEF Service!Spec
<1> QED
  BY <1>1, Invariance, PTL DEF Spec, Refinement
==============================================================================
