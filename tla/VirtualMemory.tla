----------------------------- MODULE VirtualMemory -----------------------------
(***************************************************************************)
(* The paging and swapping counters of c/linux/VirtualMemory: read assigns *)
(* the lines of /proc/vmstat to the fields of current, update shifts       *)
(* current to last and stores the difference in delta.                     *)
(***************************************************************************)
EXTENDS Counters

Keys    == {"pgpgin", "pgpgout", "pswpin", "pswpout"}
Fields  == {"page_in", "page_out", "swap_in", "swap_out"}

VARIABLES vmstat,                   \* the file
          last, current, delta,     \* the objects of class VMStats
          constructed,
          moved                     \* counted since the last read

vars == <<vmstat, last, current, delta, constructed, moved>>

Zero  == [f \in Fields |-> 0]
Still == [k \in Keys |-> 0]

-----------------------------------------------------------------------------
\* The lines come in the order of Keys.  Both swap lines are assigned to
\* swap_in, so the last one stays.
Read(stats) == [stats EXCEPT !.page_in  = vmstat.pgpgin,
                             !.page_out = vmstat.pgpgout,
                             !.swap_in  = vmstat.pswpout]

Diff(newer, older) == [f \in Fields |-> Minus(newer[f], older[f])]

\* virtual_memory is a static object: its fields start as zeros.
Init ==
  /\ vmstat \in [Keys -> Counter]
  /\ last = Zero /\ current = Zero /\ delta = Zero
  /\ constructed = FALSE
  /\ moved = Still

Construct ==
  /\ ~constructed /\ constructed' = TRUE
  /\ current' = Read(current)
  /\ last' = current'
  /\ delta' = Diff(current', last')
  /\ moved' = Still
  /\ UNCHANGED vmstat

Update ==
  /\ constructed
  /\ last' = current
  /\ current' = Read(current)
  /\ delta' = Diff(current', last')
  /\ moved' = Still
  /\ UNCHANGED <<vmstat, constructed>>

\* The kernel pages or swaps; fewer than Word times between two reads.
Count(k, n) ==
  /\ moved[k] + n < Word
  /\ vmstat' = [vmstat EXCEPT ![k] = Plus(@, n)]
  /\ moved' = [moved EXCEPT ![k] = @ + n]
  /\ UNCHANGED <<last, current, delta, constructed>>

Next ==
  \/ Construct \/ Update
  \/ \E k \in Keys, n \in 1 .. Word - 1 : Count(k, n)

\* The loop in main calls update again and again.
Spec == Init /\ [][Next]_vars /\ WF_vars(Construct) /\ WF_vars(Update)

-----------------------------------------------------------------------------
(* Properties                                                              *)

KeyOf == [page_in |-> "pgpgin", page_out |-> "pgpgout",
          swap_in |-> "pswpin", swap_out |-> "pswpout"]

\* The columns of paging as a rate meter; that they are one, also when a
\* counter wraps, is proved in PagingProofs.
Pages == {"page_in", "page_out"}
Meter == INSTANCE RateMeter WITH
  Devices <- Pages,
  pending <- [f \in Pages |-> IF constructed THEN moved[KeyOf[f]] ELSE 0],
  shown   <- [f \in Pages |-> delta[f]]

-----------------------------------------------------------------------------
(* What the documentation says of the program and the code does not do.    *)

\* "Virtual Memory activity - paging, swapping info" (README.md:18): what is
\* shown for each of the four fields is what its counter moved.
SwappingShown ==
  [][Update => \A f \in Fields : delta'[f] = moved[KeyOf[f]]]_vars
=============================================================================
