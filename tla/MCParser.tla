-------------------------------- MODULE MCParser --------------------------------
(***************************************************************************)
(* Five addresses, one more than are ever live together; no step tells     *)
(* them apart.                                                             *)
(***************************************************************************)
EXTENDS Parser

CONSTANTS b1, b2, b3, b4, b5

MCBlocks == {b1, b2, b3, b4, b5}
Addresses == Permutations(MCBlocks)
=============================================================================
