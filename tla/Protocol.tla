------------------------------- MODULE Protocol -------------------------------
(***************************************************************************)
(* What the popup may be told by its host (main.rs), and what becomes of   *)
(* the vault key: the interface between the modules Session and Host.      *)
(***************************************************************************)

VaultStates == {"locked", "unlocked", "not_configured"}
Answers == VaultStates \cup {"ok", "vault_locked", "error"}

\* reads are listCategories and listSnippets; refused is what the envelope or
\* the parameters do not allow.
Methods == {"hello", "unlock", "lock", "body", "reads", "ping", "refused"}

\* The answers to a request, each with whether the host holds the key then.
\* hello answers not_configured also where the configuration cannot be read.
Replies(method, protected, unlocked) ==
    CASE method = "hello"   -> {<<IF unlocked THEN "unlocked" ELSE "locked", unlocked>>,
                                <<"not_configured", unlocked>>}
      [] method = "unlock"  -> {<<"ok", TRUE>>, <<"error", unlocked>>}
      [] method = "lock"    -> {<<"ok", FALSE>>}
      [] method = "body"    -> {<<IF protected /\ ~unlocked THEN "vault_locked"
                                  ELSE "ok", unlocked>>,
                                <<"error", unlocked>>}
      [] method = "reads"   -> {<<"ok", unlocked>>, <<"error", unlocked>>}
      [] method = "ping"    -> {<<"ok", unlocked>>}
      [] method = "refused" -> {<<"error", unlocked>>}
==============================================================================
