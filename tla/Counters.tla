------------------------------- MODULE Counters -------------------------------
(***************************************************************************)
(* The unsigned counters of the kernel and the differences systat takes.   *)
(***************************************************************************)
EXTENDS Integers

CONSTANT Word       \* counters are unsigned, modulo Word (2^64 in the code)

ASSUME WordAssumption == Word \in Nat /\ Word > 1

Counter == 0 .. Word - 1

\* Mutant: a signed difference.
MinusSigned(a, b) == a - b

\* newer - older of two uint64_t, and the kernel's count.
Minus(a, b) == IF a >= b THEN a - b ELSE a - b + Word
Plus(a, n)  == IF a + n < Word THEN a + n ELSE a + n - Word
=============================================================================
