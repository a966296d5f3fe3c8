------------------------------ MODULE MCMacMemory ------------------------------
(***************************************************************************)
(* Two of the four counters, modulo 3.                                     *)
(***************************************************************************)
EXTENDS MacMemory

MCFields == {"pageins", "swapouts"}
=============================================================================
