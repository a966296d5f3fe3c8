------------------------------- MODULE MacMemory -------------------------------
(***************************************************************************)
(* The counters of paging and swapping on MacOS.  memory (c/mac/Memory)    *)
(* asks the kernel; virtual_memory (c/mac/VirtualMemory) takes its         *)
(* counters from memory.current and has nobody to ask.  Both are static    *)
(* objects, constructed in the order of the Makefile, and main updates     *)
(* memory first and virtual_memory two calls later.                        *)
(***************************************************************************)
EXTENDS Counters

CONSTANT Fields     \* pageins, pageouts, swapins, swapouts; treated alike

VARIABLES
  kernel,                         \* what host_statistics64 tells
  memLast, memCurrent, memDelta,  \* memory
  last, current, delta,           \* virtual_memory
  pc,                             \* the next call: "read" and "update" of
                                  \* Memory::Memory, "construct" of
                                  \* VirtualMemory, then "memory", "vm" in turn
  moved                           \* counted since memory.current was read

vars == <<kernel, memLast, memCurrent, memDelta, last, current, delta,
          pc, moved>>

Zero == [f \in Fields |-> 0]
Diff(newer, older) == [f \in Fields |-> Minus(newer[f], older[f])]

Init ==
  /\ kernel \in [Fields -> Counter]
  /\ memLast = Zero /\ memCurrent = Zero /\ memDelta = Zero
  /\ last = Zero /\ current = Zero /\ delta = Zero
  /\ pc = "read"
  /\ moved = Zero

\* Memory::Memory: the first read goes to last.
ReadLast ==
  /\ pc = "read" /\ pc' = "update"
  /\ memLast' = kernel
  /\ moved' = Zero
  /\ UNCHANGED <<kernel, memCurrent, memDelta, last, current, delta>>

\* Memory::update, from the constructor and from main: nothing assigns last.
UpdateMemory ==
  /\ pc \in {"update", "memory"}
  /\ memCurrent' = kernel
  /\ memDelta' = Diff(memCurrent', memLast)
  /\ moved' = Zero
  /\ pc' = IF pc = "update" THEN "construct" ELSE "vm"
  /\ UNCHANGED <<kernel, memLast, last, current, delta>>

\* VirtualMemory::VirtualMemory, its call of update included.
Construct ==
  /\ pc = "construct" /\ pc' = "memory"
  /\ current' = memCurrent /\ last' = memCurrent
  /\ delta' = Zero
  /\ UNCHANGED <<kernel, memLast, memCurrent, memDelta, moved>>

\* Mutant: last is copied after current has been read.
UpdateSwapped ==
  /\ pc = "vm" /\ pc' = "memory"
  /\ current' = memCurrent /\ last' = memCurrent
  /\ delta' = Diff(current', last')
  /\ UNCHANGED <<kernel, memLast, memCurrent, memDelta, moved>>

Update ==
  /\ pc = "vm" /\ pc' = "memory"
  /\ last' = current
  /\ current' = memCurrent
  /\ delta' = Diff(current', last')
  /\ UNCHANGED <<kernel, memLast, memCurrent, memDelta, moved>>

\* What VirtualMemory::print shows under Current.
Shown == delta

\* The kernel pages or swaps, also between two calls; fewer than Word times
\* between two reads.
Count(f, n) ==
  /\ moved[f] + n < Word
  /\ kernel' = [kernel EXCEPT ![f] = Plus(@, n)]
  /\ moved' = [moved EXCEPT ![f] = @ + n]
  /\ UNCHANGED <<memLast, memCurrent, memDelta, last, current, delta, pc>>

Program == ReadLast \/ UpdateMemory \/ Construct \/ Update

Next == Program \/ \E f \in Fields, n \in 1 .. Word - 1 : Count(f, n)

\* Static construction and the loop in main go on.
Spec == Init /\ [][Next]_vars /\ WF_vars(Program)

-----------------------------------------------------------------------------
(* Properties                                                              *)

\* Every variable has its type.
TypeOK ==
  /\ kernel \in [Fields -> Counter]
  /\ memLast \in [Fields -> Counter] /\ memCurrent \in [Fields -> Counter]
  /\ memDelta \in [Fields -> Counter]
  /\ last \in [Fields -> Counter] /\ current \in [Fields -> Counter]
  /\ delta \in [Fields -> Counter]
  /\ moved \in [Fields -> Counter]
  /\ pc \in {"read", "update", "construct", "memory", "vm"}

\* The reader of the virtual memory section sees exact rates although its
\* object never asks the kernel and the kernel counts on between the two
\* updates: the table is refreshed when memory is updated, and virtual_memory
\* shows it two calls later (mac/VirtualMemory.cpp:53-57, mac/main.cpp:104-106).
Meter == INSTANCE RateMeter WITH
  Devices <- Fields,
  pending <- IF pc \in {"construct", "memory", "vm"} THEN moved ELSE Zero,
  shown   <- IF pc = "vm" THEN Diff(memCurrent, current) ELSE Shown
MetersVirtualMemory == Meter!Spec

-----------------------------------------------------------------------------
(* What the program says of itself                                         *)

\* memory.print heads the deltas of its virtual memory section "Current",
\* beside "Aggregate" for the counters themselves (mac/Memory.cpp:101-141):
\* each refresh leaves what was counted since the one before.  It does not:
\* no update assigns last again (mac/Memory.cpp:70-90), and from the second
\* on memory.delta holds what was counted since the program started.
CurrentIsRate == [][UpdateMemory => memDelta' = moved]_vars
=============================================================================
