------------------------------ MODULE MCSession ------------------------------
(***************************************************************************)
(* Small instances of Session: a protected row and a plain one.            *)
(***************************************************************************)
EXTENDS Session
==============================================================================
