--------------------------------- MODULE Host ---------------------------------
(***************************************************************************)
(* The native host (native-host/src/main.rs): a single thread that reads a *)
(* request, answers it and reads the next.  The database is opened, and    *)
(* migrated, by the first request that needs it; what that came to is kept *)
(* unless it can be retried.  unlock_vault reads the vault's metadata once *)
(* and then waits, for the backoff and for Argon2id, while the desktop may *)
(* replace the vault.                                                      *)
(*                                                                         *)
(* A vault stands for its salt, its canary and the key that opens it; a    *)
(* vault set up later has another salt, hence another key, even with the   *)
(* same password.  The desktop encrypts every protected body under the     *)
(* vault it sets up, in one transaction.  A stored vault or body may be    *)
(* damaged: its base64 or its length is wrong, or it does not authenticate *)
(* (native-host/src/vault.rs).                                             *)
(***************************************************************************)
EXTENDS Integers, FiniteSets

CONSTANTS
    Vaults,       \* the vaults the desktop sets up, each once
    Passwords,
    PasswordOf,   \* the password that opens a vault
    Broken,       \* the vaults whose salt, nonce or canary is damaged
    Snippets,
    NoVault,      \* no vault; no key
    NoRequest

Bodies == {"gone", "plain", "protected", "damaged"}

\* What ensure_canonical_db fails with (module Migration).
Retryable == {"database_busy", "migration_in_progress"}
Terminal == {"legacy_data_corrupt", "migration_failed", "database_unavailable",
             "unsupported_schema_version"}

\* The requests.  refused is what the envelope or the parameters do not allow.
Requests ==
    [method : {"hello", "reads", "lock", "ping", "refused"}]
    \cup [method : {"body"}, id : Snippets]
    \cup [method : {"unlock"}, password : Passwords]

\* The methods that call connection().
NeedDatabase == {"hello", "reads", "body", "unlock"}

ASSUME HostAssumption ==
    /\ PasswordOf \in [Vaults -> Passwords]
    /\ Broken \subseteq Vaults
    /\ NoVault \notin Vaults
    /\ NoRequest \notin Requests
    /\ NoRequest \notin {r.method : r \in Requests}

VARIABLES
    vault,     \* in the database: the vault that is configured
    bodies,    \* in the database: what is stored of each snippet
    retired,   \* history: the vaults that were replaced
    conn,      \* the connection is open
    failure,   \* the cached terminal failure
    key,       \* the vault whose key is held
    entered,   \* history: the passwords received since start or the last lock
    serving,   \* the request being served
    meta,      \* the vault metadata unlock_vault has read
    reply      \* the last response

desktop == <<vault, bodies, retired>>
start == <<conn, failure>>
vars == <<desktop, start, key, entered, serving, meta, reply>>

NoReply == [to |-> "none", answer |-> "none", code |-> "none"]

Init ==
    /\ vault \in Vaults \cup {NoVault}
    /\ bodies \in [Snippets -> IF vault = NoVault THEN Bodies \ {"protected"} ELSE Bodies]
    /\ retired = {}
    /\ conn = FALSE
    /\ failure = "none"
    /\ key = NoVault
    /\ entered = {}
    /\ serving = NoRequest
    /\ meta = NoVault
    /\ reply = NoReply

------------------------------------------------------------------------------
\* The response is written; the thread reads the next request.
Respond(answer, code) ==
    /\ reply' = [to |-> serving.method, answer |-> answer, code |-> code]
    /\ serving' = NoRequest
    /\ meta' = NoVault

Succeed(answer) == Respond(answer, "none")
Refuse(code) == Respond("error", code)

Is(method) == serving # NoRequest /\ serving.method = method

Receive(request) ==
    /\ serving = NoRequest
    /\ serving' = request
    /\ entered' = IF request.method = "unlock"
                  THEN entered \cup {request.password} ELSE entered
    /\ UNCHANGED <<desktop, start, key, meta, reply>>

\* hello succeeds without a database, and names the failure.
Unavailable(code) ==
    IF serving.method = "hello" THEN Respond("not_configured", code)
    ELSE Refuse(code)

AwaitsDatabase ==
    /\ serving # NoRequest
    /\ serving.method \in NeedDatabase
    /\ ~conn
    /\ failure = "none"

\* A plausible bug: every failure to open the database is kept.
OpenKeepingAll ==
    /\ AwaitsDatabase
    /\ \/ conn' = TRUE /\ UNCHANGED <<failure, serving, meta, reply>>
       \/ \E code \in Terminal \cup Retryable :
              failure' = code /\ UNCHANGED <<conn, serving, meta, reply>>
    /\ UNCHANGED <<desktop, key, entered>>

\* connection(): a terminal failure is kept, a retryable one only reported.
Open ==
    /\ AwaitsDatabase
    /\ \/ conn' = TRUE /\ UNCHANGED <<failure, serving, meta, reply>>
       \/ \E code \in Terminal :
              failure' = code /\ UNCHANGED <<conn, serving, meta, reply>>
       \/ \E code \in Retryable : Unavailable(code) /\ UNCHANGED start
    /\ UNCHANGED <<desktop, key, entered>>

\* A plausible bug: the kept failure is found, and nothing is answered.
FailSilently ==
    /\ serving # NoRequest
    /\ serving.method \in NeedDatabase
    /\ failure # "none"
    /\ UNCHANGED vars

FailClosed ==
    /\ serving # NoRequest
    /\ serving.method \in NeedDatabase
    /\ failure # "none"
    /\ Unavailable(failure)
    /\ UNCHANGED <<desktop, start, key, entered>>

\* vault_state, of a configuration that was read.
VaultState == IF vault = NoVault THEN "not_configured"
              ELSE IF key # NoVault THEN "unlocked" ELSE "locked"

\* The schema version and the configuration are read one after the other; each
\* read can fail, and neither failure fails the request.
Hello ==
    /\ Is("hello")
    /\ conn
    /\ \E answer \in {VaultState, "not_configured"},
          code \in {"none", "database_busy", "database_unavailable"} :
           Respond(answer, code)
    /\ UNCHANGED <<desktop, start, key, entered>>

\* list_categories and list_snippets; a large result is replaced by an error.
Reads ==
    /\ Is("reads")
    /\ conn
    /\ \/ Succeed("ok")
       \/ \E code \in {"database_busy", "database_unavailable", "response_too_large"} :
              Refuse(code)
    /\ UNCHANGED <<desktop, start, key, entered>>

\* decrypt_body, with the key that is held.
Decrypts(id) == bodies[id] = "protected" /\ key = vault

\* A plausible bug: decryption is tried before the lock is looked at.
OutcomeUnasked(id) ==
    CASE bodies[id] = "gone"  -> "not_found"
      [] bodies[id] = "plain" -> "none"
      [] OTHER -> IF Decrypts(id) THEN "none" ELSE "decrypt_failed"

\* What get_snippet_body makes of the record it has read.
Outcome(id) ==
    CASE bodies[id] = "gone"  -> "not_found"
      [] bodies[id] = "plain" -> "none"
      [] OTHER -> IF key = NoVault THEN "vault_locked"
                  ELSE IF Decrypts(id) THEN "none" ELSE "decrypt_failed"

GetSnippetBody ==
    /\ Is("body")
    /\ conn
    /\ \/ IF Outcome(serving.id) = "none" THEN Succeed("ok")
          ELSE IF Outcome(serving.id) = "vault_locked"
          THEN Respond("vault_locked", "vault_locked")
          ELSE Refuse(Outcome(serving.id))
       \/ \E code \in {"database_unavailable", "response_too_large"} : Refuse(code)
    /\ UNCHANGED <<desktop, start, key, entered>>

------------------------------------------------------------------------------
\* unlock_vault, up to the sleep: the metadata is read, once.
BeginUnlock ==
    /\ Is("unlock")
    /\ conn
    /\ meta = NoVault
    /\ \/ /\ vault # NoVault
          /\ meta' = vault
          /\ UNCHANGED <<serving, reply>>
       \/ Refuse("vault_not_configured")
    /\ UNCHANGED <<desktop, start, key, entered>>

\* verify_password: the canary decrypts under the key of password and salt.
Verifies(password, v) == v \notin Broken /\ password = PasswordOf[v]

\* A plausible bug: any password will do.
FinishUnlockUnchecked ==
    /\ Is("unlock")
    /\ meta # NoVault
    /\ key' = meta /\ Succeed("ok")
    /\ UNCHANGED <<desktop, start, entered>>

\* After the backoff, with the metadata as read.  A password that fails leaves
\* the key as it is.
FinishUnlock ==
    /\ Is("unlock")
    /\ meta # NoVault
    /\ IF Verifies(serving.password, meta)
       THEN key' = meta /\ Succeed("ok")
       ELSE Refuse("invalid_password") /\ UNCHANGED key
    /\ UNCHANGED <<desktop, start, entered>>

\* A plausible bug: lockVault answers and keeps the key.
LockInName ==
    /\ Is("lock")
    /\ entered' = {}
    /\ Succeed("ok")
    /\ UNCHANGED <<desktop, start, key>>

LockVault ==
    /\ Is("lock")
    /\ key' = NoVault
    /\ entered' = {}
    /\ Succeed("ok")
    /\ UNCHANGED <<desktop, start>>

Ping ==
    /\ Is("ping")
    /\ Succeed("ok")
    /\ UNCHANGED <<desktop, start, key, entered>>

\* parse_request, unknown methods, and the checks of the parameters.
RefuseRequest ==
    /\ Is("refused")
    /\ \E code \in {"invalid_request", "unsupported_protocol_version",
                   "unknown_method", "invalid_params", "invalid_password"} :
           Refuse(code)
    /\ UNCHANGED <<desktop, start, key, entered>>

Serve ==
    \/ Open \/ FailClosed
    \/ Hello \/ Reads \/ GetSnippetBody \/ Ping \/ RefuseRequest
    \/ BeginUnlock \/ FinishUnlock \/ LockVault

\* The input ends or breaks its framing, the output is closed, the process is
\* killed.  The next one starts with nothing.
Exit ==
    /\ conn' = FALSE
    /\ failure' = "none"
    /\ key' = NoVault
    /\ entered' = {}
    /\ serving' = NoRequest
    /\ meta' = NoVault
    /\ reply' = NoReply
    /\ UNCHANGED desktop

------------------------------------------------------------------------------
\* The desktop (external).

SetVault(v) ==
    /\ v \notin retired \cup {vault}
    /\ vault' = v
    /\ retired' = retired \cup ({vault} \ {NoVault})
    /\ UNCHANGED <<bodies, start, key, entered, serving, meta, reply>>

RemoveVault ==
    /\ vault # NoVault
    /\ vault' = NoVault
    /\ retired' = retired \cup {vault}
    /\ bodies' = [s \in Snippets |->
                     IF bodies[s] = "protected" THEN "plain" ELSE bodies[s]]
    /\ UNCHANGED <<start, key, entered, serving, meta, reply>>

Store(s, body) ==
    /\ body = "protected" => vault # NoVault
    /\ bodies' = [bodies EXCEPT ![s] = body]
    /\ UNCHANGED <<vault, retired, start, key, entered, serving, meta, reply>>

Desktop ==
    \/ \E v \in Vaults : SetVault(v)
    \/ RemoveVault
    \/ \E s \in Snippets, body \in Bodies : Store(s, body)

Next ==
    \/ \E request \in Requests : Receive(request)
    \/ Serve \/ Exit \/ Desktop

\* The thread that serves a request goes on; a request need not come.
Fairness == WF_vars(Serve)

Spec == Init /\ [][Next]_vars /\ Fairness

------------------------------------------------------------------------------
Codes == {"none", "not_found", "vault_locked", "decrypt_failed",
          "response_too_large", "vault_not_configured", "invalid_password",
          "invalid_request", "unsupported_protocol_version", "unknown_method",
          "invalid_params"} \cup Terminal \cup Retryable

TypeOK ==
    /\ vault \in Vaults \cup {NoVault}
    /\ bodies \in [Snippets -> Bodies]
    /\ retired \in SUBSET Vaults
    /\ conn \in BOOLEAN
    /\ failure \in Terminal \cup {"none"}
    /\ key \in Vaults \cup {NoVault}
    /\ entered \in SUBSET Passwords
    /\ serving \in Requests \cup {NoRequest}
    /\ meta \in Vaults \cup {NoVault}
    /\ reply.code \in Codes

\* "terminal migration failures are cached and remain fail-closed", retryable
\* ones "do not poison the host process" (docs/architecture.md:12): once a
\* request was answered with a terminal failure of the start, all are; with a
\* retryable one, the next request tries again; and the host that failed holds
\* neither a database nor a key.
FailsClosed ==
    /\ reply.code \in Terminal \ {"database_unavailable"} => failure = reply.code
    /\ serving = NoRequest /\ reply.code \in Retryable => failure = "none"
    /\ failure # "none" => ~conn /\ key = NoVault

\* The host holds a key only if the password that opens it was sent to this very
\* process after the last lock, the password replaced meanwhile included; and
\* never one of a vault that cannot be verified.
NoKeyWithoutPassword ==
    key # NoVault => PasswordOf[key] \in entered /\ key \notin Broken

\* A key the host holds, and the metadata an unlock waits with, belong to the
\* vault that is configured or to one the desktop has replaced meanwhile.
KeysAreKnown == {key, meta} \subseteq {vault, NoVault} \cup retired

\* Only an unlock that has been asked for, over an open database, waits with
\* metadata; and what it was given has been entered.
UnlockInProgress ==
    /\ meta # NoVault => conn /\ Is("unlock")
    /\ Is("unlock") => serving.password \in entered
    /\ key # NoVault => conn
    /\ conn => failure = "none"

\* The inductive invariant.
IInv ==
    /\ TypeOK
    /\ UnlockInProgress
    /\ FailsClosed
    /\ NoKeyWithoutPassword
    /\ KeysAreKnown

Answered(code) ==
    serving # NoRequest /\ serving' = NoRequest /\ reply'.code = code

\* The user is told the truth about a password and a prompt: one that is right
\* for the configured vault is refused only if that vault is damaged, or was set
\* up while the unlock waited; and an unlocked host fails to decrypt only what is
\* damaged, or if the vault was replaced after the unlock.
HonestRefusals ==
    [][/\ Answered("decrypt_failed") =>
              key \in retired \/ bodies[serving.id] = "damaged"
       /\ Answered("invalid_password") /\ Is("unlock") /\ vault # NoVault =>
              \/ serving.password # PasswordOf[vault]
              \/ meta \in retired \/ vault \in Broken]_vars

\* Every request is answered, whatever the database and the desktop do.
EveryRequestAnswered == serving # NoRequest ~> serving = NoRequest

\* What the popup relies on (modules HostService and Session).
Service == INSTANCE HostService WITH
    unlocked <- key # NoVault,
    asked <- IF serving = NoRequest THEN NoRequest ELSE serving.method,
    answer <- reply.answer

Refinement == Service!Spec
==============================================================================
