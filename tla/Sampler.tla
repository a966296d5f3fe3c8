-------------------------------- MODULE Sampler --------------------------------
(***************************************************************************)
(* The sampling of cumulative kernel counters by Processor, Disk and       *)
(* Network of c/linux: three maps from device name to counter, last,       *)
(* current and delta, filled by read, copy and diff.  The three classes    *)
(* differ in the file they parse and in the fields of a counter; here a    *)
(* device has one counter, and Devices holds the names read does not skip. *)
(*                                                                         *)
(* The kernel's side is the table in the file: counters that wrap, devices *)
(* that come and go.  The process reads it whenever the loop in main calls *)
(* update.                                                                 *)
(***************************************************************************)
EXTENDS Counters, FiniteSets

CONSTANTS
  Devices,    \* names that may appear in the file
  Fixed       \* devices that are there from the start and stay

ASSUME SamplerAssumption ==
  /\ IsFiniteSet(Devices)
  /\ Fixed \subseteq Devices

VARIABLES
  table,                  \* the file: a counter for every device present
  last, current, delta,   \* the maps of the class
  pc,                     \* "read", "update": in the constructor; then
                          \* "running", or "crashed" on a null pointer
  moved,                  \* what each device moved since the last read
  seen                    \* devices present at the last read

vars == <<table, last, current, delta, pc, moved, seen>>

Maps == UNION {[D -> Counter] : D \in SUBSET Devices}
Empty == [d \in {} |-> 0]
Still == [d \in Devices |-> 0]

-----------------------------------------------------------------------------
\* copy overwrites or adds the entries of src and leaves the others.
Copy(dst, src) ==
  [d \in DOMAIN dst \cup DOMAIN src |-> IF d \in DOMAIN src THEN src[d] ELSE dst[d]]

\* Mutants: read drops, or zeroes, the entries that are not in the file.
ReadFresh(m) == table
ReadZeroing(m) == Copy([d \in DOMAIN m |-> 0], table)

\* So does read with those of the file.
Read(m) == Copy(m, table)

Init ==
  /\ table \in Maps /\ Fixed \subseteq DOMAIN table
  /\ last = Empty /\ current = Empty /\ delta = Empty
  /\ pc = "read"
  /\ moved = Still /\ seen = {}

\* The constructor up to its call of update.
Construct ==
  /\ pc = "read"
  /\ current' = Read(current)
  /\ last' = Copy(last, current')
  /\ delta' = Copy(delta, current')
  /\ pc' = "update"
  /\ moved' = Still /\ seen' = DOMAIN table
  /\ UNCHANGED table

\* The lines of delta are those of the constructor for ever; diff follows the
\* pointers that current and last hold for them.
Diff(d) == Minus(current'[d], last'[d])

\* Mutant: the file is read before current is copied to last.
UpdateSwapped ==
  /\ pc \in {"update", "running"}
  /\ current' = Read(current)
  /\ last' = Copy(last, current')
  /\ delta' = [d \in DOMAIN delta |-> Diff(d)] /\ pc' = "running"
  /\ moved' = Still /\ seen' = DOMAIN table
  /\ UNCHANGED table

Update ==
  /\ pc \in {"update", "running"}
  /\ last' = Copy(last, current)
  /\ current' = Read(current)
  /\ IF DOMAIN delta \subseteq DOMAIN current' \cap DOMAIN last'
     THEN delta' = [d \in DOMAIN delta |-> Diff(d)] /\ pc' = "running"
     ELSE delta' = delta /\ pc' = "crashed"
  /\ moved' = Still /\ seen' = DOMAIN table
  /\ UNCHANGED table

-----------------------------------------------------------------------------
(* The kernel                                                              *)

\* Fewer than Word bytes between two reads.
Traffic(d, n) ==
  /\ d \in DOMAIN table /\ moved[d] + n < Word
  /\ table' = [table EXCEPT ![d] = Plus(@, n)]
  /\ moved' = [moved EXCEPT ![d] = @ + n]
  /\ UNCHANGED <<last, current, delta, pc, seen>>

Unplug(d) ==
  /\ d \in DOMAIN table \ Fixed
  /\ table' = [e \in DOMAIN table \ {d} |-> table[e]]
  /\ UNCHANGED <<last, current, delta, pc, moved, seen>>

\* A device that appears counts from zero.
Plug(d) ==
  /\ d \in Devices \ DOMAIN table
  /\ table' = [e \in DOMAIN table \cup {d} |-> IF e = d THEN 0 ELSE table[e]]
  /\ UNCHANGED <<last, current, delta, pc, moved, seen>>

Kernel ==
  \E d \in Devices :
    \/ \E n \in 1 .. Word - 1 : Traffic(d, n)
    \/ Unplug(d) \/ Plug(d)

Next == Construct \/ Update \/ Kernel

\* The loop in main calls update again and again.
Spec == Init /\ [][Next]_vars /\ WF_vars(Construct) /\ WF_vars(Update)

-----------------------------------------------------------------------------
(* Properties                                                              *)

\* Every variable has its type.
TypeOK ==
  /\ table \in Maps /\ Fixed \subseteq DOMAIN table
  /\ last \in Maps /\ current \in Maps /\ delta \in Maps
  /\ pc \in {"read", "update", "running", "crashed"}
  /\ moved \in [Devices -> Counter]
  /\ seen \subseteq Devices

\* operator[] of last and current never yields a null pointer to diff,
\* whatever devices came and went since the constructor filled delta
\* (Disk.cpp:125-129, Network.cpp:90-93, Processor.cpp:124-127).
NoNullStats == pc # "crashed"

\* A device that is gone at a refresh shows no traffic, although current
\* keeps its last counter.
GoneIsQuiet == pc = "running" => \A d \in DOMAIN delta \ seen : delta[d] = 0

\* The fixed devices see an exact rate meter: every refresh shows what they
\* moved since the one before, also when the counter wraps.
Meter == INSTANCE RateMeter WITH
  Devices <- Fixed,
  pending <- [d \in Fixed |-> IF pc = "read" THEN 0 ELSE moved[d]],
  shown   <- [d \in Fixed |-> IF pc = "running" THEN delta[d] ELSE 0]
MetersFixed == Meter!Spec
=============================================================================
