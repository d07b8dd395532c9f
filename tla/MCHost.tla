-------------------------------- MODULE MCHost --------------------------------
(***************************************************************************)
(* Small instances of Host: two vaults with passwords of their own, and a  *)
(* damaged one with the password of the first.                             *)
(***************************************************************************)
EXTENDS Host

CONSTANTS v1, v2, v3, pw1, pw2

MCPasswordOf == [v \in {v1, v2, v3} |-> IF v = v2 THEN pw2 ELSE pw1]
==============================================================================
