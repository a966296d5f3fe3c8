------------------------------ MODULE PagingProofs ------------------------------
(***************************************************************************)
(* What the virtual memory sections of the two systems show, for every     *)
(* width of the counters and every history of the kernel.  MacMemory is    *)
(* extended, VirtualMemory of Linux is an instance with variables of its   *)
(* own.                                                                    *)
(***************************************************************************)
EXTENDS MacMemory, TLAPS

\* Differences and counts are counters again.
LEMMA CounterType ==
  ASSUME NEW a \in Counter, NEW b \in Counter, NEW n \in 1 .. Word - 1
  PROVE  Minus(a, b) \in Counter /\ Plus(a, n) \in Counter
BY WordAssumption DEF Counter, Minus, Plus

\* What a counter moves adds to a difference, as long as it fits.
LEMMA MinusPlus ==
  ASSUME NEW a \in Counter, NEW b \in Counter, NEW n \in 1 .. Word - 1,
         Minus(a, b) + n < Word
  PROVE  Minus(Plus(a, n), b) = Minus(a, b) + n
BY WordAssumption DEF Counter, Minus, Plus

\* A counter has moved nothing since itself.
LEMMA MinusSelf ==
  ASSUME NEW a \in Counter
  PROVE  Minus(a, a) = 0
BY WordAssumption DEF Counter, Minus

\* A round starts with nothing moved.
LEMMA ZeroCounter == 0 \in Counter
BY WordAssumption DEF Counter

LEMMA ZeroType == Zero \in [Fields -> Counter]
BY ZeroCounter DEF Zero

LEMMA DiffType ==
  ASSUME NEW a \in [Fields -> Counter], NEW b \in [Fields -> Counter]
  PROVE  Diff(a, b) \in [Fields -> Counter]
<1>1. \A x, y \in Counter : Minus(x, y) \in Counter
  BY WordAssumption DEF Minus, Counter
<1> QED BY <1>1 DEF Diff

\* The fields a step of the kernel leaves alone, and the one it counts.
LEMMA CountStep ==
  ASSUME TypeOK, NEW f \in Fields, NEW n \in 1 .. Word - 1, Count(f, n)
  PROVE  /\ kernel' \in [Fields -> Counter] /\ moved' \in [Fields -> Counter]
         /\ \A m \in [Fields -> Counter] :
              (\A g \in Fields : moved[g] = Minus(kernel[g], m[g]))
                => \A g \in Fields : moved'[g] = Minus(kernel'[g], m[g])
<1>1. /\ moved[f] + n < Word
      /\ kernel' = [kernel EXCEPT ![f] = Plus(@, n)]
      /\ moved' = [moved EXCEPT ![f] = @ + n]
      /\ kernel \in [Fields -> Counter] /\ moved \in [Fields -> Counter]
  BY DEF Count, TypeOK
<1>2. Plus(kernel[f], n) \in Counter /\ moved[f] + n \in Counter
  BY <1>1, CounterType, WordAssumption DEF Counter
<1>3. ASSUME NEW m \in [Fields -> Counter], NEW g \in Fields,
             moved[g] = Minus(kernel[g], m[g])
      PROVE  moved'[g] = Minus(kernel'[g], m[g])
  <2>1. CASE g = f
    <3>1. Minus(Plus(kernel[f], n), m[f]) = Minus(kernel[f], m[f]) + n
      BY <1>1, <1>3, <2>1, MinusPlus
    <3> QED BY <1>1, <1>3, <2>1, <3>1
  <2>2. CASE g # f
    BY <1>1, <1>3, <2>2
  <2> QED BY <2>1, <2>2
<1> QED BY <1>1, <1>2, <1>3

-----------------------------------------------------------------------------
(* Type correctness                                                        *)

\* The type invariant of the two objects and the kernel.
THEOREM TypeCorrect == Spec => []TypeOK
<1>1. Init => TypeOK
  BY ZeroType DEF Init, TypeOK
<1>2. TypeOK /\ [Next]_vars => TypeOK'
  <2> SUFFICES ASSUME TypeOK, [Next]_vars PROVE TypeOK'
    OBVIOUS
  <2>1. CASE ReadLast
    BY <2>1, ZeroType DEF ReadLast, TypeOK
  <2>2. CASE UpdateMemory
    <3>1. memCurrent' \in [Fields -> Counter] /\ memDelta' \in [Fields -> Counter]
      BY <2>2, DiffType DEF UpdateMemory, TypeOK
    <3> QED BY <2>2, <3>1, ZeroType DEF UpdateMemory, TypeOK
  <2>3. CASE Construct
    BY <2>3, ZeroType DEF Construct, TypeOK
  <2>4. CASE Update
    <3>1. delta' \in [Fields -> Counter]
      BY <2>4, DiffType DEF Update, TypeOK
    <3> QED BY <2>4, <3>1 DEF Update, TypeOK
  <2>5. ASSUME NEW f \in Fields, NEW n \in 1 .. Word - 1, Count(f, n)
        PROVE  TypeOK'
    BY <2>5, CountStep DEF Count, TypeOK
  <2>6. CASE UNCHANGED vars
    BY <2>6 DEF vars, TypeOK
  <2> QED BY <2>1, <2>2, <2>3, <2>4, <2>5, <2>6 DEF Next, Program
<1> QED BY <1>1, <1>2, PTL DEF Spec

-----------------------------------------------------------------------------
(* What the fields hold                                                    *)

\* The kernel is ahead of memory.current by what it counted since; between
\* two rounds virtual_memory has what memory has.
MemInv ==
  /\ pc \in {"construct", "memory", "vm"} =>
       \A f \in Fields : moved[f] = Minus(kernel[f], memCurrent[f])
  /\ pc = "memory" => current = memCurrent
  /\ pc \in {"read", "update", "construct"} => delta = Zero

LEMMA InvStep == TypeOK /\ TypeOK' /\ MemInv /\ [Next]_vars => MemInv'
<1> SUFFICES ASSUME TypeOK, TypeOK', MemInv, [Next]_vars PROVE MemInv'
  OBVIOUS
<1>1. CASE ReadLast
  BY <1>1 DEF ReadLast, MemInv
<1>2. CASE UpdateMemory
  <2>1. ASSUME NEW f \in Fields
        PROVE  moved'[f] = Minus(kernel'[f], memCurrent'[f])
    BY <1>2, MinusSelf DEF UpdateMemory, Zero, TypeOK
  <2> QED BY <1>2, <2>1 DEF UpdateMemory, MemInv
<1>3. CASE Construct
  BY <1>3 DEF Construct, MemInv
<1>4. CASE Update
  BY <1>4 DEF Update, MemInv
<1>5. ASSUME NEW f \in Fields, NEW n \in 1 .. Word - 1, Count(f, n)
      PROVE  MemInv'
  <2>1. UNCHANGED <<memLast, memCurrent, memDelta, last, current, delta, pc>>
    BY <1>5 DEF Count
  <2>2. CASE pc \in {"construct", "memory", "vm"}
    BY <1>5, <2>1, <2>2, CountStep DEF MemInv, TypeOK
  <2>3. CASE pc \notin {"construct", "memory", "vm"}
    BY <2>1, <2>3 DEF MemInv
  <2> QED BY <2>2, <2>3
<1>6. CASE UNCHANGED vars
  BY <1>6 DEF vars, MemInv
<1> QED BY <1>1, <1>2, <1>3, <1>4, <1>5, <1>6 DEF Next, Program

LEMMA Invariant == Spec => []MemInv
<1>1. Init => MemInv
  BY DEF Init, MemInv
<1> QED BY <1>1, InvStep, TypeCorrect, PTL DEF Spec

-----------------------------------------------------------------------------
\* The virtual memory section is an exact rate meter: every step is a refresh,
\* a move or a stutter of RateMeter (mac/VirtualMemory.cpp:53-57).
THEOREM MetersSafely == Spec => Meter!Safety
<1> USE DEF Shown, Meter!Nothing, Meter!meterVars
<1>1. Init => Meter!Init
  BY DEF Init, Meter!Init, Zero
<1>2. TypeOK /\ MemInv /\ [Next]_vars => [Meter!Next]_Meter!meterVars
  <2> SUFFICES ASSUME TypeOK, MemInv, [Next]_vars
               PROVE  [Meter!Next]_Meter!meterVars
    OBVIOUS
  <2>1. CASE ReadLast
    BY <2>1 DEF ReadLast
  <2>2. CASE UpdateMemory
    <3>1. CASE pc = "update"
      BY <2>2, <3>1 DEF UpdateMemory
    <3>2. CASE pc = "memory"
      <4>1. Diff(memCurrent', current') = moved
        BY <2>2, <3>2 DEF UpdateMemory, MemInv, Diff, TypeOK
      <4> QED BY <2>2, <3>2, <4>1 DEF UpdateMemory, Zero, Meter!Next, Meter!Refresh
    <3> QED BY <2>2, <3>1, <3>2 DEF UpdateMemory
  <2>3. CASE Construct
    BY <2>3 DEF Construct, MemInv
  <2>4. CASE Update
    BY <2>4 DEF Update
  <2>5. ASSUME NEW f \in Fields, NEW n \in 1 .. Word - 1, Count(f, n)
        PROVE  [Meter!Next]_Meter!meterVars
    <3>1. CASE pc \in {"construct", "memory", "vm"}
      <4>1. Meter!Move(f, n)
        BY <2>5, <3>1 DEF Count, Meter!Move
      <4> QED BY <4>1 DEF Meter!Next
    <3>2. CASE pc \notin {"construct", "memory", "vm"}
      BY <2>5, <3>2 DEF Count
    <3> QED BY <3>1, <3>2
  <2>6. CASE UNCHANGED vars
    BY <2>6 DEF vars
  <2> QED BY <2>1, <2>2, <2>3, <2>4, <2>5, <2>6 DEF Next, Program
<1> QED BY <1>1, <1>2, TypeCorrect, Invariant, PTL DEF Spec, Meter!Safety

-----------------------------------------------------------------------------
(* VirtualMemory of Linux                                                  *)

VARIABLES vmstat, vmLast, vmCurrent, vmDelta, constructed, vmMoved

Linux == INSTANCE VirtualMemory WITH
  last <- vmLast, current <- vmCurrent, delta <- vmDelta, moved <- vmMoved

\* Both systems count in the same numbers.
LEMMA SameCounters ==
  /\ Linux!Counter = Counter
  /\ \A a, b : Linux!Minus(a, b) = Minus(a, b) /\ Linux!Plus(a, b) = Plus(a, b)
BY DEF Linux!Counter, Counter, Linux!Minus, Minus, Linux!Plus, Plus

\* What a page counter has moved is how far the file is ahead of current.
VMInv ==
  /\ vmstat \in [Linux!Keys -> Linux!Counter]
  /\ vmLast \in [Linux!Fields -> Linux!Counter] /\ vmCurrent \in [Linux!Fields -> Linux!Counter]
  /\ vmDelta \in [Linux!Fields -> Linux!Counter]
  /\ vmMoved \in [Linux!Keys -> Linux!Counter]
  /\ constructed \in BOOLEAN
  /\ ~constructed => vmDelta = Linux!Zero
  /\ constructed => \A f \in Linux!Pages :
       vmMoved[Linux!KeyOf[f]] = Linux!Minus(vmstat[Linux!KeyOf[f]], vmCurrent[f])

LEMMA KeysOfPages ==
  /\ \A f \in Linux!Pages : Linux!KeyOf[f] \in Linux!Keys /\ f \in Linux!Fields
  /\ Linux!KeyOf["page_in"] = "pgpgin" /\ Linux!KeyOf["page_out"] = "pgpgout"
BY DEF Linux!Pages, Linux!KeyOf, Linux!Keys, Linux!Fields

LEMMA LinuxConstants ==
  /\ Linux!Zero \in [Linux!Fields -> Linux!Counter]
  /\ Linux!Still \in [Linux!Keys -> Linux!Counter]
BY ZeroCounter, SameCounters DEF Linux!Zero, Linux!Still

\* read leaves current with the page counters of the file.
LEMMA ReadPages ==
  ASSUME NEW s \in [Linux!Fields -> Linux!Counter], vmstat \in [Linux!Keys -> Linux!Counter]
  PROVE  /\ Linux!Read(s) \in [Linux!Fields -> Linux!Counter]
         /\ \A f \in Linux!Pages : Linux!Read(s)[f] = vmstat[Linux!KeyOf[f]]
<1>1. /\ Linux!Read(s) \in [Linux!Fields -> Linux!Counter]
      /\ Linux!Read(s)["page_in"] = vmstat["pgpgin"]
      /\ Linux!Read(s)["page_out"] = vmstat["pgpgout"]
  BY DEF Linux!Read, Linux!Fields, Linux!Keys
<1> QED BY <1>1, KeysOfPages DEF Linux!Pages

LEMMA LinuxDiffType ==
  ASSUME NEW a \in [Linux!Fields -> Linux!Counter], NEW b \in [Linux!Fields -> Linux!Counter]
  PROVE  Linux!Diff(a, b) \in [Linux!Fields -> Linux!Counter]
<1>1. \A x, y \in Linux!Counter : Linux!Minus(x, y) \in Linux!Counter
  BY WordAssumption DEF Linux!Minus, Linux!Counter
<1> QED BY <1>1 DEF Linux!Diff

LEMMA LinuxStep == VMInv /\ [Linux!Next]_Linux!vars => VMInv'
<1> SUFFICES ASSUME VMInv, [Linux!Next]_Linux!vars PROVE VMInv'
  OBVIOUS
<1> USE DEF VMInv
<1>1. CASE Linux!Construct
  <2>1. vmCurrent' = Linux!Read(vmCurrent) /\ vmLast' = vmCurrent'
        /\ vmDelta' = Linux!Diff(vmCurrent', vmLast') /\ vmstat' = vmstat /\ vmMoved' = Linux!Still
        /\ constructed' = TRUE
    BY <1>1 DEF Linux!Construct
  <2>2. /\ vmCurrent' \in [Linux!Fields -> Linux!Counter]
        /\ vmDelta' \in [Linux!Fields -> Linux!Counter]
    BY <2>1, ReadPages, LinuxDiffType
  <2>3. \A f \in Linux!Pages :
          vmMoved'[Linux!KeyOf[f]] = Linux!Minus(vmstat'[Linux!KeyOf[f]], vmCurrent'[f])
    BY <2>1, ReadPages, KeysOfPages, MinusSelf, SameCounters DEF Linux!Still
  <2> QED BY <2>1, <2>2, <2>3, LinuxConstants
<1>2. CASE Linux!Update
  <2>1. vmCurrent' = Linux!Read(vmCurrent) /\ vmLast' = vmCurrent
        /\ vmDelta' = Linux!Diff(vmCurrent', vmLast') /\ vmstat' = vmstat /\ vmMoved' = Linux!Still
        /\ constructed' = TRUE
    BY <1>2 DEF Linux!Update
  <2>2. /\ vmCurrent' \in [Linux!Fields -> Linux!Counter]
        /\ vmDelta' \in [Linux!Fields -> Linux!Counter]
    BY <2>1, ReadPages, LinuxDiffType
  <2>3. \A f \in Linux!Pages :
          vmMoved'[Linux!KeyOf[f]] = Linux!Minus(vmstat'[Linux!KeyOf[f]], vmCurrent'[f])
    BY <2>1, ReadPages, KeysOfPages, MinusSelf, SameCounters DEF Linux!Still
  <2> QED BY <2>1, <2>2, <2>3, LinuxConstants
<1>3. ASSUME NEW k \in Linux!Keys, NEW n \in 1 .. Word - 1, Linux!Count(k, n) PROVE VMInv'
  <2>1. /\ vmMoved[k] + n < Word
        /\ vmstat' = [vmstat EXCEPT ![k] = Linux!Plus(@, n)]
        /\ vmMoved' = [vmMoved EXCEPT ![k] = @ + n]
        /\ UNCHANGED <<vmLast, vmCurrent, vmDelta, constructed>>
    BY <1>3 DEF Linux!Count
  <2>2. Linux!Plus(vmstat[k], n) \in Linux!Counter /\ vmMoved[k] + n \in Linux!Counter
    <3>1. vmstat[k] \in Counter /\ vmMoved[k] \in Counter
      BY SameCounters
    <3>2. Plus(vmstat[k], n) \in Counter
      BY <3>1, CounterType
    <3>3. vmMoved[k] + n \in Counter
      BY <2>1, <3>1, WordAssumption DEF Counter
    <3> QED BY <3>2, <3>3, SameCounters
  <2>3. vmstat' \in [Linux!Keys -> Linux!Counter] /\ vmMoved' \in [Linux!Keys -> Linux!Counter]
    BY <2>1, <2>2
  <2>4. ASSUME constructed, NEW f \in Linux!Pages
        PROVE  vmMoved'[Linux!KeyOf[f]] = Linux!Minus(vmstat'[Linux!KeyOf[f]], vmCurrent'[f])
    <3>1. /\ vmCurrent[f] \in Linux!Counter /\ vmstat[k] \in Linux!Counter
          /\ Linux!KeyOf[f] \in Linux!Keys
          /\ vmMoved[Linux!KeyOf[f]] = Linux!Minus(vmstat[Linux!KeyOf[f]], vmCurrent[f])
      BY <2>4, KeysOfPages
    <3>2. CASE Linux!KeyOf[f] = k
      <4>1. Linux!Minus(Linux!Plus(vmstat[k], n), vmCurrent[f])
            = Linux!Minus(vmstat[k], vmCurrent[f]) + n
        BY <2>1, <3>1, <3>2, MinusPlus, SameCounters
      <4> QED BY <2>1, <3>1, <3>2, <4>1
    <3>3. CASE Linux!KeyOf[f] # k
      BY <2>1, <3>1, <3>3
    <3> QED BY <3>2, <3>3
  <2> QED BY <2>1, <2>3, <2>4
<1>4. CASE UNCHANGED Linux!vars
  BY <1>4 DEF Linux!vars
<1> QED BY <1>1, <1>2, <1>3, <1>4 DEF Linux!Next

LEMMA LinuxStart == Linux!Init => VMInv
BY LinuxConstants DEF Linux!Init, VMInv

LEMMA LinuxInvariant == Linux!Spec => []VMInv
BY LinuxStart, LinuxStep, PTL DEF Linux!Spec

-----------------------------------------------------------------------------
\* Every step is a step of the rate meter over the two paging fields, or a
\* stutter: each refresh shows exactly what was paged since the last
\* (VirtualMemory.cpp:54-58).
THEOREM MetersPagesSafely == Linux!Spec => Linux!Meter!Safety
<1> USE DEF Linux!Meter!Nothing, Linux!Meter!meterVars
<1>1. Linux!Init => Linux!Meter!Init
  BY KeysOfPages DEF Linux!Init, Linux!Meter!Init, Linux!Zero
<1>2. VMInv /\ VMInv' /\ [Linux!Next]_Linux!vars => [Linux!Meter!Next]_Linux!Meter!meterVars
  <2> SUFFICES ASSUME VMInv, VMInv', [Linux!Next]_Linux!vars
               PROVE  [Linux!Meter!Next]_Linux!Meter!meterVars
    OBVIOUS
  <2>1. CASE Linux!Construct
    <3>1. vmDelta' = Linux!Zero
      <4>1. \A f \in Linux!Fields : vmCurrent'[f] \in Linux!Counter
        BY DEF VMInv
      <4> QED BY <2>1, <4>1, MinusSelf, SameCounters DEF Linux!Construct, Linux!Diff, Linux!Zero
    <3> QED BY <2>1, <3>1, KeysOfPages DEF Linux!Construct, Linux!Still, Linux!Zero, VMInv
  <2>2. CASE Linux!Update
    <3>1. CASE constructed
      <4>1. \A f \in Linux!Pages : vmDelta'[f] = vmMoved[Linux!KeyOf[f]]
        BY <2>2, <3>1, ReadPages, KeysOfPages DEF Linux!Update, Linux!Diff, VMInv
      <4>2. \A f \in Linux!Pages : vmMoved'[Linux!KeyOf[f]] = 0
        BY <2>2, KeysOfPages DEF Linux!Update, Linux!Still
      <4> QED BY <2>2, <3>1, <4>1, <4>2, KeysOfPages
          DEF Linux!Update, Linux!Meter!Next, Linux!Meter!Refresh
    <3> QED BY <2>2, <3>1 DEF Linux!Update
  <2>3. ASSUME NEW k \in Linux!Keys, NEW n \in 1 .. Word - 1, Linux!Count(k, n)
        PROVE  [Linux!Meter!Next]_Linux!Meter!meterVars
    <3>1. /\ vmMoved[k] + n < Word
          /\ vmMoved' = [vmMoved EXCEPT ![k] = @ + n] /\ vmMoved \in [Linux!Keys -> Linux!Counter]
          /\ UNCHANGED <<vmDelta, constructed>>
      BY <2>3 DEF Linux!Count, VMInv
    <3>2. CASE \E f \in Linux!Pages : constructed /\ Linux!KeyOf[f] = k
      <4>1. PICK f \in Linux!Pages : constructed /\ Linux!KeyOf[f] = k
        BY <3>2
      <4>2. \A g \in Linux!Pages : Linux!KeyOf[g] = k <=> g = f
        BY <4>1 DEF Linux!Pages, Linux!KeyOf
      <4>3. Linux!Meter!Move(f, n)
        BY <3>1, <4>1, <4>2, KeysOfPages DEF Linux!Meter!Move
      <4> QED BY <4>3 DEF Linux!Meter!Next
    <3>3. CASE ~\E f \in Linux!Pages : constructed /\ Linux!KeyOf[f] = k
      BY <3>1, <3>3, KeysOfPages
    <3> QED BY <3>2, <3>3
  <2>4. CASE UNCHANGED Linux!vars
    BY <2>4 DEF Linux!vars
  <2> QED BY <2>1, <2>2, <2>3, <2>4 DEF Linux!Next
<1> QED BY <1>1, <1>2, LinuxInvariant, PTL DEF Linux!Spec, Linux!Meter!Safety
=============================================================================
