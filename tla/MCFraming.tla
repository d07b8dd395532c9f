------------------------------ MODULE MCFraming -------------------------------
(***************************************************************************)
(* Small instances of Framing: bits for bytes, at most two of them within  *)
(* the limit and three above it.                                           *)
(***************************************************************************)
EXTENDS Framing

MCArguments == {<<>>, <<"ours">>, <<"flag", "ours">>, <<"other", "ours">>, <<"ours", "other">>}
==============================================================================
