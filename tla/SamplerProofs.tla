----------------------------- MODULE SamplerProofs -----------------------------
(***************************************************************************)
(* What holds of the maps of Processor, Disk and Network for every set of  *)
(* devices, every width of the counters and every history of the kernel.   *)
(***************************************************************************)
EXTENDS Sampler, TLAPS

\* Differences and counts are counters again.
LEMMA CounterType ==
  ASSUME NEW a \in Counter, NEW b \in Counter, NEW n \in 1 .. Word - 1
  PROVE  Minus(a, b) \in Counter /\ Plus(a, n) \in Counter
BY WordAssumption DEF Counter, Minus, Plus

\* What a counter moves adds to a difference, as long as it fits.
LEMMA MinusPlus ==
  ASSUME NEW a \in Counter, NEW b \in Counter, NEW n \in 1 .. Word - 1,
         Minus(a, b) + n < Word
  PROVE  Minus(Plus(a, n), b) = Minus(a, b) + n
BY WordAssumption DEF Counter, Minus, Plus

LEMMA MapType ==
  ASSUME NEW m
  PROVE  m \in Maps <=> /\ m = [d \in DOMAIN m |-> m[d]]
                        /\ DOMAIN m \subseteq Devices
                        /\ \A d \in DOMAIN m : m[d] \in Counter
BY DEF Maps

\* What Copy, and so Read, does to a map.
LEMMA CopyMap ==
  ASSUME NEW f \in Maps, NEW g \in Maps
  PROVE  /\ Copy(f, g) \in Maps
         /\ DOMAIN Copy(f, g) = DOMAIN f \cup DOMAIN g
         /\ \A d \in DOMAIN g : Copy(f, g)[d] = g[d]
         /\ \A d \in DOMAIN f \ DOMAIN g : Copy(f, g)[d] = f[d]
BY MapType DEF Copy

-----------------------------------------------------------------------------
(* Type correctness                                                        *)

LEMMA InitType == Init => TypeOK
<1> SUFFICES ASSUME Init PROVE TypeOK
  OBVIOUS
<1>1. Empty \in Maps
  BY DEF Empty, Maps
<1>2. Still \in [Devices -> Counter]
  BY SamplerAssumption, WordAssumption DEF Still, Counter
<1> QED BY <1>1, <1>2 DEF Init, TypeOK

LEMMA NextType == TypeOK /\ [Next]_vars => TypeOK'
<1> SUFFICES ASSUME TypeOK, [Next]_vars PROVE TypeOK'
  OBVIOUS
<1>0. Still \in [Devices -> Counter]
  BY SamplerAssumption, WordAssumption DEF Still, Counter
<1>1. CASE Construct
  <2>1. current' \in Maps
    BY <1>1, CopyMap DEF TypeOK, Construct, Read
  <2>2. last' \in Maps /\ delta' \in Maps
    BY <1>1, <2>1, CopyMap DEF TypeOK, Construct
  <2>3. seen' \subseteq Devices
    BY <1>1, MapType DEF TypeOK, Construct
  <2> QED BY <1>0, <1>1, <2>1, <2>2, <2>3 DEF TypeOK, Construct
<1>2. CASE Update
  <2>1. last' \in Maps /\ current' \in Maps
    BY <1>2, CopyMap DEF TypeOK, Update, Read
  <2>2. delta' \in Maps /\ pc' \in {"running", "crashed"}
    <3>1. CASE ~(DOMAIN delta \subseteq DOMAIN current' \cap DOMAIN last')
      BY <1>2, <3>1 DEF TypeOK, Update
    <3>2. CASE DOMAIN delta \subseteq DOMAIN current' \cap DOMAIN last'
      <4>1. delta' = [d \in DOMAIN delta |-> Diff(d)] /\ pc' = "running"
        BY <1>2, <3>2 DEF Update
      <4>2. \A d \in DOMAIN delta : Minus(current'[d], last'[d]) \in Counter
        BY <2>1, <3>2, MapType, SamplerAssumption, WordAssumption DEF Minus, Counter
      <4>3. DOMAIN delta \subseteq Devices
        BY MapType DEF TypeOK
      <4> QED BY <4>1, <4>2, <4>3, MapType DEF Diff
    <3> QED BY <3>1, <3>2
  <2>3. seen' \subseteq Devices
    BY <1>2, MapType DEF TypeOK, Update
  <2> QED BY <1>0, <1>2, <2>1, <2>2, <2>3 DEF TypeOK, Update
<1>3. ASSUME NEW d \in Devices, NEW n \in 1 .. Word - 1, Traffic(d, n)
      PROVE  TypeOK'
  <2>1. table' \in Maps /\ DOMAIN table' = DOMAIN table
    <3>1. /\ DOMAIN table \subseteq Devices /\ d \in DOMAIN table
          /\ \A e \in DOMAIN table : table[e] \in Counter
      BY <1>3, MapType DEF TypeOK, Traffic
    <3>2. Plus(table[d], n) \in Counter
      BY <3>1, CounterType
    <3>3. table' = [table EXCEPT ![d] = Plus(@, n)]
      BY <1>3 DEF Traffic
    <3> QED BY <3>1, <3>2, <3>3, MapType
  <2>2. moved' \in [Devices -> Counter]
    BY <1>3, SamplerAssumption, WordAssumption DEF TypeOK, Traffic, Counter
  <2> QED BY <1>3, <2>1, <2>2 DEF TypeOK, Traffic
<1>4. ASSUME NEW d \in Devices, Unplug(d) PROVE TypeOK'
  <2>1. table' \in Maps /\ Fixed \subseteq DOMAIN table'
    BY <1>4, MapType DEF TypeOK, Unplug
  <2> QED BY <1>4, <2>1 DEF TypeOK, Unplug
<1>5. ASSUME NEW d \in Devices, Plug(d) PROVE TypeOK'
  <2>1. 0 \in Counter
    BY SamplerAssumption, WordAssumption DEF Counter
  <2>2. table' \in Maps /\ Fixed \subseteq DOMAIN table'
    BY <1>5, <2>1, MapType DEF TypeOK, Plug
  <2> QED BY <1>5, <2>2 DEF TypeOK, Plug
<1>6. CASE UNCHANGED vars
  BY <1>6 DEF TypeOK, vars
<1> QED BY <1>1, <1>2, <1>3, <1>4, <1>5, <1>6 DEF Next, Kernel

\* Every variable keeps its type; in particular every difference is a counter.
THEOREM TypeCorrect == Spec => []TypeOK
BY InitType, NextType, PTL DEF Spec

-----------------------------------------------------------------------------
(* The inductive invariant: once constructed, every line of delta and      *)
(* every device ever read has an entry in current, and for a device that   *)
(* stays what it moved is the distance of its counter from the last read.  *)

Sampled == pc \in {"update", "running"}

SamplerInv ==
  /\ pc \in {"read", "update", "running"}
  /\ pc = "read" => last = Empty /\ current = Empty /\ delta = Empty
  /\ Sampled => /\ DOMAIN delta \subseteq DOMAIN current
                /\ seen \subseteq DOMAIN current
                /\ Fixed \subseteq DOMAIN delta
                /\ \A d \in Fixed : moved[d] = Minus(table[d], current[d])
  /\ GoneIsQuiet

\* Both reads leave current with the counters of the file, and so the fixed
\* devices with nothing moved.
LEMMA AfterRead ==
  ASSUME TypeOK, current' = Read(current), moved' = Still, table' = table
  PROVE  /\ DOMAIN current' = DOMAIN current \cup DOMAIN table
         /\ \A d \in DOMAIN table : current'[d] = table[d]
         /\ \A d \in DOMAIN current \ DOMAIN table : current'[d] = current[d]
         /\ \A d \in Fixed : moved'[d] = Minus(table'[d], current'[d])
<1>1. /\ DOMAIN current' = DOMAIN current \cup DOMAIN table
      /\ \A d \in DOMAIN table : current'[d] = table[d]
      /\ \A d \in DOMAIN current \ DOMAIN table : current'[d] = current[d]
  <2>1. current \in Maps /\ table \in Maps
    BY DEF TypeOK
  <2>2. current' = Copy(current, table)
    BY DEF Read
  <2>3. /\ DOMAIN Copy(current, table) = DOMAIN current \cup DOMAIN table
        /\ \A d \in DOMAIN table : Copy(current, table)[d] = table[d]
        /\ \A d \in DOMAIN current \ DOMAIN table :
              Copy(current, table)[d] = current[d]
    BY <2>1, CopyMap
  <2> QED BY <2>2, <2>3
<1>2. ASSUME NEW d \in Fixed PROVE moved'[d] = Minus(table'[d], current'[d])
  <2>1. d \in DOMAIN table /\ d \in Devices
    BY MapType DEF TypeOK
  <2>2. moved'[d] = 0
    BY <2>1 DEF Still
  <2>3. table[d] \in Counter
    BY <2>1, MapType DEF TypeOK
  <2> QED BY <1>1, <2>1, <2>2, <2>3, SamplerAssumption, WordAssumption DEF Minus, Counter
<1> QED BY <1>1, <1>2

\* update: last becomes the old current, so that diff measures what happened
\* between two reads.
LEMMA AfterUpdate ==
  ASSUME TypeOK, SamplerInv, Update
  PROVE  /\ pc' = "running" /\ DOMAIN delta' = DOMAIN delta
         /\ \A d \in DOMAIN delta : delta'[d] = Minus(current'[d], current[d])
<1>1. DOMAIN current \subseteq DOMAIN current'
  BY AfterRead DEF Update
<1>2. /\ DOMAIN current \subseteq DOMAIN last'
      /\ \A d \in DOMAIN current : last'[d] = current[d]
  <2>1. last \in Maps /\ current \in Maps
    BY DEF TypeOK
  <2>2. last' = Copy(last, current)
    BY DEF Update
  <2> QED BY <2>1, <2>2, CopyMap
<1>3. DOMAIN delta \subseteq DOMAIN current
  BY DEF SamplerInv, Update, Sampled
<1>4. DOMAIN delta \subseteq DOMAIN current' \cap DOMAIN last'
  BY <1>1, <1>2, <1>3
<1>5. pc' = "running" /\ delta' = [d \in DOMAIN delta |-> Diff(d)]
  BY <1>4 DEF Update
<1> QED BY <1>2, <1>3, <1>5 DEF Diff

LEMMA InvInit == Init => SamplerInv
BY DEF Init, SamplerInv, Sampled, GoneIsQuiet

LEMMA InvStep == TypeOK /\ SamplerInv /\ [Next]_vars => SamplerInv'
<1> SUFFICES ASSUME TypeOK, SamplerInv, [Next]_vars PROVE SamplerInv'
  OBVIOUS
<1>0. Fixed \subseteq DOMAIN table /\ DOMAIN table \subseteq Devices
  BY MapType DEF TypeOK
<1>1. CASE Construct
  <2>1. pc' = "update" /\ seen' = DOMAIN table
    BY <1>1 DEF Construct
  <2>2. current' = Read(current) /\ moved' = Still /\ table' = table
    BY <1>1 DEF Construct
  <2>3. current' \in Maps
    BY <2>2, CopyMap DEF TypeOK, Read
  <2>4. DOMAIN delta' = DOMAIN current'
    <3>1. delta \in Maps /\ DOMAIN delta = {}
      BY <1>1 DEF Construct, SamplerInv, TypeOK, Empty
    <3>2. delta' = Copy(delta, current')
      BY <1>1 DEF Construct
    <3>3. DOMAIN delta' = {} \cup DOMAIN current'
      BY <2>3, <3>1, <3>2, CopyMap
    <3> QED BY <3>3
  <2> QED BY <1>0, <2>1, <2>2, <2>4, AfterRead
          DEF SamplerInv, Sampled, GoneIsQuiet
<1>2. CASE Update
  <2>1. current' = Read(current) /\ moved' = Still /\ table' = table
        /\ seen' = DOMAIN table
    BY <1>2 DEF Update
  <2>2. /\ DOMAIN delta \subseteq DOMAIN current /\ Fixed \subseteq DOMAIN delta
        /\ pc' = "running" /\ DOMAIN delta' = DOMAIN delta
    BY <1>2, AfterUpdate DEF SamplerInv, Sampled, Update
  <2>3. GoneIsQuiet'
    <3>1. ASSUME NEW d \in DOMAIN delta' \ seen' PROVE delta'[d] = 0
      <4>1. d \in DOMAIN current \ DOMAIN table
        BY <2>1, <2>2, <3>1
      <4>2. current'[d] = current[d] /\ current[d] \in Counter
        BY <2>1, <4>1, AfterRead, MapType DEF TypeOK
      <4>3. delta'[d] = Minus(current'[d], current[d])
        BY <1>2, <2>2, <3>1, AfterUpdate
      <4> QED BY <4>2, <4>3, SamplerAssumption, WordAssumption DEF Minus, Counter
    <3> QED BY <3>1 DEF GoneIsQuiet
  <2> QED BY <1>0, <2>1, <2>2, <2>3, AfterRead DEF SamplerInv, Sampled
<1>3. ASSUME NEW d \in Devices, NEW n \in 1 .. Word - 1, Traffic(d, n)
      PROVE  SamplerInv'
  <2>1. UNCHANGED <<last, current, delta, pc, seen>>
    BY <1>3 DEF Traffic
  <2>2. ASSUME NEW e \in Fixed, Sampled
        PROVE  moved'[e] = Minus(table'[e], current'[e])
    <3>1. e \in Devices /\ e \in DOMAIN table /\ e \in DOMAIN current
          /\ moved[e] = Minus(table[e], current[e])
      BY <1>0, <2>2 DEF SamplerInv
    <3>2. CASE e # d
      BY <1>3, <2>1, <3>1, <3>2 DEF Traffic, TypeOK
    <3>3. CASE e = d
      <4>1. table[e] \in Counter /\ current[e] \in Counter
        BY <3>1, MapType DEF TypeOK
      <4>2. moved'[e] = moved[e] + n /\ table'[e] = Plus(table[e], n)
            /\ moved[e] + n < Word
        BY <1>3, <3>1, <3>3 DEF Traffic, TypeOK
      <4> QED BY <2>1, <3>1, <4>1, <4>2, MinusPlus
    <3> QED BY <3>2, <3>3
  <2> QED BY <2>1, <2>2 DEF SamplerInv, Sampled, GoneIsQuiet
<1>4. ASSUME NEW d \in Devices, Unplug(d) \/ Plug(d) PROVE SamplerInv'
  <2>1. UNCHANGED <<last, current, delta, pc, moved, seen>>
    BY <1>4 DEF Unplug, Plug
  <2>2. \A e \in Fixed : table'[e] = table[e]
    BY <1>0, <1>4 DEF Unplug, Plug
  <2> QED BY <2>1, <2>2 DEF SamplerInv, Sampled, GoneIsQuiet
<1>5. CASE UNCHANGED vars
  BY <1>5 DEF vars, SamplerInv, Sampled, GoneIsQuiet
<1> QED BY <1>1, <1>2, <1>3, <1>4, <1>5 DEF Next, Kernel

LEMMA SamplerSafe == Spec => []SamplerInv
BY InvInit, InvStep, TypeCorrect, PTL DEF Spec

\* No refresh ever follows a null pointer, whatever the kernel adds to or
\* drops from its table.
THEOREM NeverNull == Spec => []NoNullStats
<1>1. SamplerInv => NoNullStats
  BY DEF SamplerInv, NoNullStats
<1> QED BY <1>1, SamplerSafe, PTL

\* A device that has gone shows zero from the first refresh without it.
THEOREM GoneStaysQuiet == Spec => []GoneIsQuiet
<1>1. SamplerInv => GoneIsQuiet
  BY DEF SamplerInv
<1> QED BY <1>1, SamplerSafe, PTL

-----------------------------------------------------------------------------
(* The maps implement the rate meter.                                      *)

MeterPending == [d \in Fixed |-> IF pc = "read" THEN 0 ELSE moved[d]]
MeterShown   == [d \in Fixed |-> IF pc = "running" THEN delta[d] ELSE 0]

LEMMA MeterInit == Init => Meter!Init
BY SamplerAssumption, WordAssumption DEF Init, Still, Meter!Init, Meter!Nothing

LEMMA MeterStep ==
  TypeOK /\ SamplerInv /\ [Next]_vars => [Meter!Next]_(Meter!meterVars)
<1> SUFFICES ASSUME TypeOK, SamplerInv, [Next]_vars
             PROVE  Meter!Next \/ UNCHANGED Meter!meterVars
  OBVIOUS
<1> USE DEF MeterPending, MeterShown
<1>0. Fixed \subseteq DOMAIN table /\ Fixed \subseteq Devices
  BY SamplerAssumption DEF TypeOK
<1>a. ASSUME UNCHANGED <<MeterPending, MeterShown>>
      PROVE  UNCHANGED Meter!meterVars
  BY <1>a DEF Meter!meterVars
<1>1. CASE Construct
  <2>1. pc = "read" /\ pc' = "update" /\ moved' = Still
    BY <1>1 DEF Construct
  <2>2. MeterPending' = MeterPending /\ MeterShown' = MeterShown
    BY <1>0, <2>1 DEF Still
  <2> QED BY <1>a, <2>2
<1>2. CASE Update
  <2>1. pc \in {"update", "running"} /\ pc' = "running" /\ moved' = Still
    BY <1>2, AfterUpdate DEF Update
  <2>2. MeterPending' = [d \in Fixed |-> 0]
    BY <1>0, <2>1 DEF Still
  <2>3. ASSUME NEW d \in Fixed PROVE delta'[d] = moved[d]
    <3>1. d \in DOMAIN delta /\ moved[d] = Minus(table[d], current[d])
      BY <2>1 DEF SamplerInv, Sampled
    <3>2. current'[d] = table[d]
      BY <1>0, <1>2, AfterRead DEF Update
    <3> QED BY <1>2, <3>1, <3>2, AfterUpdate
  <2>4. MeterShown' = MeterPending
    BY <2>1, <2>3
  <2>5. Meter!Refresh
    BY <2>2, <2>4 DEF Meter!Refresh, Meter!Nothing
  <2> QED BY <2>5 DEF Meter!Next
<1>3. ASSUME NEW d \in Devices, NEW n \in 1 .. Word - 1, Traffic(d, n)
      PROVE  Meter!Next \/ UNCHANGED Meter!meterVars
  <2>1. /\ moved[d] + n < Word /\ moved' = [moved EXCEPT ![d] = @ + n]
        /\ UNCHANGED <<delta, pc>> /\ moved \in [Devices -> Counter]
    BY <1>3 DEF Traffic, TypeOK
  <2>2. CASE d \in Fixed /\ pc # "read"
    <3>1. MeterPending' = [MeterPending EXCEPT ![d] = @ + n]
      BY <1>0, <2>1, <2>2
    <3>2. MeterPending[d] + n < Word
      BY <2>1, <2>2
    <3>3. MeterShown' = MeterShown
      BY <2>1
    <3>4. Meter!Move(d, n)
      BY <3>1, <3>2, <3>3 DEF Meter!Move
    <3> QED BY <2>2, <3>4 DEF Meter!Next
  <2>3. CASE ~(d \in Fixed /\ pc # "read")
    <3>1. MeterPending' = MeterPending /\ MeterShown' = MeterShown
      BY <1>0, <2>1, <2>3
    <3> QED BY <1>a, <3>1
  <2> QED BY <2>2, <2>3
<1>4. ASSUME NEW d \in Devices, Unplug(d) \/ Plug(d)
      PROVE  UNCHANGED Meter!meterVars
  <2>1. UNCHANGED <<delta, pc, moved>>
    BY <1>4 DEF Unplug, Plug
  <2> QED BY <1>a, <2>1
<1>5. CASE UNCHANGED vars
  BY <1>5, <1>a DEF vars
<1> QED BY <1>1, <1>2, <1>3, <1>4, <1>5 DEF Next, Kernel

\* For the devices that stay, the three maps and their modular differences
\* are a rate meter: a refresh shows exactly what moved since the last one.
\* (The fairness of MetersFixed is checked by TLC.)
THEOREM MetersFixedSafely == Spec => Meter!Safety
<1>1. Init => Meter!Init
  BY MeterInit
<1>2. TypeOK /\ SamplerInv /\ [Next]_vars => [Meter!Next]_(Meter!meterVars)
  BY MeterStep
<1> QED BY <1>1, <1>2, TypeCorrect, SamplerSafe, PTL DEF Spec, Meter!Safety
=============================================================================
