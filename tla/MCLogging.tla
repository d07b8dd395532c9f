------------------------------ MODULE MCLogging -------------------------------
(***************************************************************************)
(* Small instances of Logging.                                             *)
(***************************************************************************)
EXTENDS Logging, TLC

Symmetry == Permutations(Hosts) \cup Permutations(Files)
==============================================================================
