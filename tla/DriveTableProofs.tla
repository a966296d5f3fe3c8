---------------------------- MODULE DriveTableProofs ----------------------------
(***************************************************************************)
(* The table of drives of MacOS, for every set of media, every length of   *)
(* the array, every order of the iterators and every outcome of qsort.     *)
(***************************************************************************)
EXTENDS DriveTable, FiniteSetTheorems, TLAPS

Tables == [Slots -> Entries \cup {Unused, Garbage}]

\* The entry record_device leaves for m.
Recorded(m) == [driver |-> m, name |-> IF m \in named THEN m ELSE 0]

\* The first n entries of t are those of the drives of k, one for each.
Faithful(t, n, k) == \A i \in 1..n : t[i].driver \in k /\ t[i] = Recorded(t[i].driver)
Complete(t, n, k) == \A m \in k : \E i \in 1..n : t[i].driver = m
Distinct(t, n)    == \A i, j \in 1..n : i # j => t[i].driver # t[j].driver
Holds(t, n, k)    == Faithful(t, n, k) /\ Complete(t, n, k) /\ Distinct(t, n)

TypeInv ==
  /\ block \subseteq Media /\ named \subseteq Media
  /\ iter \subseteq Media /\ taken \subseteq Media
  /\ pc \in {"record", "remove", "built", "crashed"}
  /\ num_devices \in 0 .. MaxDrives
  /\ drivestat \in Tables

\* What the iterator has still to deliver is not in the table, the entries
\* behind it have not been written, and no drive has been left out for
\* another reason than a full table.
Recording ==
  pc = "record" =>
    /\ iter \cap taken = {} /\ taken \subseteq block
    /\ \A i \in Slots : i > num_devices => drivestat[i] = Unused
    /\ block \ taken \subseteq iter \/ num_devices = MaxDrives

InOrder == pc \in {"remove", "built"} => Ordered(drivestat, num_devices)

TableInv == TypeInv /\ Holds(drivestat, num_devices, taken) /\ Recording /\ InOrder

-----------------------------------------------------------------------------
(* qsort and memmove                                                       *)

\* An order of n entries names every entry.
LEMMA PermutationOnto ==
  ASSUME NEW n \in Nat, NEW p \in Permutations(n), NEW j \in 1..n
  PROVE  \E i \in 1..n : p[i] = j
<1>1. p \in Injection(1..n, 1..n)
  BY DEF Permutations, Injection, IsInjective
<1>2. IsFiniteSet(1..n)
  BY FS_Interval
<1>3. p \in Surjection(1..n, 1..n)
  BY <1>1, <1>2, FS_Injection
<1> QED BY <1>3 DEF Surjection

\* Sorting permutes the first n entries and leaves the others alone.
LEMMA SortedEntries ==
  ASSUME NEW t, NEW n \in 0 .. MaxDrives, NEW s \in Sorted(t, n)
  PROVE  /\ Ordered(s, n)
         /\ \E p \in Permutations(n) :
              /\ \A i \in 1..n : p[i] \in 1..n /\ s[i] = t[p[i]]
              /\ s = [i \in Slots |-> IF i <= n THEN t[p[i]] ELSE t[i]]
<1>1. Ordered(s, n)
  BY DEF Sorted
<1>2. PICK p \in Permutations(n) :
        s = [i \in Slots |-> IF i <= n THEN t[p[i]] ELSE t[i]]
  BY DEF Sorted
<1>3. \A i \in 1..n : p[i] \in 1..n
  BY DEF Permutations
<1>4. \A i \in 1..n : i \in Slots /\ i <= n
  BY DriveTableAssumption DEF Slots
<1>5. \A i \in 1..n : s[i] = t[p[i]]
  BY <1>2, <1>4
<1> QED BY <1>1, <1>2, <1>3, <1>5

LEMMA SortedType ==
  ASSUME NEW t \in Tables, NEW n \in 0 .. MaxDrives, NEW s \in Sorted(t, n)
  PROVE  s \in Tables
<1>1. PICK p \in Permutations(n) :
        /\ \A i \in 1..n : p[i] \in 1..n
        /\ s = [i \in Slots |-> IF i <= n THEN t[p[i]] ELSE t[i]]
  BY SortedEntries
<1>2. ASSUME NEW i \in Slots, i <= n PROVE p[i] \in Slots
  <2>1. n \in Int /\ n <= MaxDrives /\ i \in 1..n
    BY <1>2, DriveTableAssumption DEF Slots
  <2> QED BY <1>1, <2>1, DriveTableAssumption DEF Slots
<1> QED BY <1>1, <1>2 DEF Tables

LEMMA SortedHolds ==
  ASSUME NEW t, NEW n \in 0 .. MaxDrives, NEW k, Holds(t, n, k), NEW s \in Sorted(t, n)
  PROVE  Holds(s, n, k)
<1>1. PICK p \in Permutations(n) : \A i \in 1..n : p[i] \in 1..n /\ s[i] = t[p[i]]
  BY SortedEntries
<1>2. Faithful(s, n, k)
  BY <1>1 DEF Holds, Faithful
<1>3. Complete(s, n, k)
  <2>1. ASSUME NEW m \in k PROVE \E i \in 1..n : s[i].driver = m
    <3>1. PICK j \in 1..n : t[j].driver = m
      BY DEF Holds, Complete
    <3>2. PICK i \in 1..n : p[i] = j
      BY PermutationOnto
    <3> QED BY <1>1, <3>1, <3>2
  <2> QED BY <2>1 DEF Complete
<1>4. Distinct(s, n)
  <2>1. ASSUME NEW i \in 1..n, NEW j \in 1..n, i # j PROVE s[i].driver # s[j].driver
    <3>1. p[i] # p[j]
      BY <2>1 DEF Permutations
    <3> QED BY <1>1, <3>1 DEF Holds, Distinct
  <2> QED BY <2>1 DEF Distinct
<1> QED BY <1>2, <1>3, <1>4 DEF Holds

\* memmove closes the gap: what lies behind the array never gets among the
\* entries in use.
LEMMA ShiftEntries ==
  ASSUME NEW t, NEW n \in 1 .. MaxDrives, NEW i \in 1..n, NEW j \in 1 .. n - 1
  PROVE  Shift(t, i)[j] = IF j < i THEN t[j] ELSE t[j + 1]
BY DriveTableAssumption DEF Shift, Slots

LEMMA ShiftType ==
  ASSUME NEW t \in Tables, NEW i \in Slots
  PROVE  Shift(t, i) \in Tables
<1>1. ASSUME NEW j \in Slots, j < MaxDrives PROVE j + 1 \in Slots
  BY <1>1, DriveTableAssumption DEF Slots
<1> QED BY <1>1 DEF Shift, Tables

LEMMA ShiftHolds ==
  ASSUME NEW t, NEW n \in 1 .. MaxDrives, NEW k, Holds(t, n, k), NEW i \in 1..n
  PROVE  Holds(Shift(t, i), n - 1, k \ {t[i].driver})
<1> DEFINE at(j) == IF j < i THEN j ELSE j + 1
<1>1. \A j \in 1 .. n - 1 : Shift(t, i)[j] = t[at(j)] /\ at(j) \in 1..n /\ at(j) # i
  BY ShiftEntries, DriveTableAssumption
<1>2. \A j, l \in 1 .. n - 1 : j # l => at(j) # at(l)
  OBVIOUS
<1>3. \A l \in 1..n : l # i => \E j \in 1 .. n - 1 : at(j) = l
  <2>1. ASSUME NEW l \in 1..n, l # i PROVE \E j \in 1 .. n - 1 : at(j) = l
    <3>1. CASE l < i
      BY <3>1
    <3>2. CASE l > i
      <4>1. l - 1 \in 1 .. n - 1 /\ at(l - 1) = l
        BY <3>2
      <4> QED BY <4>1
    <3> QED BY <2>1, <3>1, <3>2
  <2> QED BY <2>1
<1> HIDE DEF at
<1>4. \A j, l \in 1..n : j # l => t[j].driver # t[l].driver
  BY DEF Holds, Distinct
<1>5. Faithful(Shift(t, i), n - 1, k \ {t[i].driver})
  BY <1>1, <1>4 DEF Holds, Faithful
<1>6. Complete(Shift(t, i), n - 1, k \ {t[i].driver})
  <2>1. ASSUME NEW m \in k \ {t[i].driver}
        PROVE  \E j \in 1 .. n - 1 : Shift(t, i)[j].driver = m
    <3>1. PICK l \in 1..n : t[l].driver = m
      BY DEF Holds, Complete
    <3>2. PICK j \in 1 .. n - 1 : at(j) = l
      BY <1>3, <2>1, <3>1
    <3> QED BY <1>1, <3>1, <3>2
  <2> QED BY <2>1 DEF Complete
<1>7. Distinct(Shift(t, i), n - 1)
  BY <1>1, <1>2, <1>4 DEF Distinct
<1> QED BY <1>5, <1>6, <1>7 DEF Holds

-----------------------------------------------------------------------------
(* The invariant                                                           *)

LEMMA InitTable == Init => TableInv
<1> SUFFICES ASSUME Init PROVE TableInv
  OBVIOUS
<1>1. drivestat \in Tables
  BY DEF Init, Tables
<1>2. TypeInv
  BY <1>1, DriveTableAssumption DEF Init, TypeInv
<1>3. Holds(drivestat, num_devices, taken)
  BY DEF Init, Holds, Faithful, Complete, Distinct
<1>4. Recording
  BY DEF Init, Recording
<1>5. InOrder
  BY DEF Init, InOrder
<1> QED BY <1>2, <1>3, <1>4, <1>5 DEF TableInv

\* Nothing but the table says which entries are right.
LEMMA SameTable ==
  ASSUME TableInv, UNCHANGED <<block, named, drivestat, num_devices, taken>>
  PROVE  /\ Holds(drivestat, num_devices, taken)'
         /\ TypeInv' <=> iter' \subseteq Media /\ pc' \in {"record", "remove", "built", "crashed"}
<1>1. Holds(drivestat, num_devices, taken)'
  BY DEF TableInv, Holds, Faithful, Complete, Distinct, Recorded
<1>2. TypeInv' <=> iter' \subseteq Media /\ pc' \in {"record", "remove", "built", "crashed"}
  BY DEF TableInv, TypeInv
<1> QED BY <1>1, <1>2

LEMMA RecordTable ==
  ASSUME TableInv, NEW m \in Media, Record(m)
  PROVE  TableInv'
<1> DEFINE n == num_devices + 1
           e == Recorded(m)
<1>1. /\ pc = "record" /\ pc' = "record" /\ m \in iter /\ m \in block
      /\ num_devices < MaxDrives /\ num_devices' = n
      /\ iter' = iter \ {m} /\ taken' = taken \cup {m}
      /\ block' = block /\ named' = named
  BY DEF Record, Room
<1>2. n \in Slots /\ n \in 1 .. MaxDrives /\ n > num_devices /\ num_devices \in Nat
  BY <1>1, DriveTableAssumption DEF TableInv, TypeInv, Slots
<1>3. drivestat \in Tables /\ drivestat[n] = Unused
  BY <1>1, <1>2 DEF TableInv, TypeInv, Recording
<1>4. drivestat' = [drivestat EXCEPT ![n] = e]
  BY <1>3 DEF Record, Recorded, Unused
<1>5. e \in Entries /\ e.driver = m
  BY DEF Recorded, Entries
<1>6. /\ drivestat' \in Tables /\ drivestat'[n] = e
      /\ \A i \in Slots : i # n => drivestat'[i] = drivestat[i]
  BY <1>2, <1>3, <1>4, <1>5 DEF Tables
<1>7. \A i \in 1 .. n : i \in Slots /\ (i # n => i \in 1 .. num_devices)
  BY <1>1, <1>2, DriveTableAssumption DEF Slots
<1>8. m \notin taken
  BY <1>1 DEF TableInv, Recording
<1> HIDE DEF n, e
<1>9. Faithful(drivestat, num_devices, taken)'
  <2>1. ASSUME NEW i \in 1 .. n
        PROVE  /\ drivestat'[i].driver \in taken'
               /\ drivestat'[i] = Recorded(drivestat'[i].driver)
    <3>1. CASE i = n
      BY <1>1, <1>5, <1>6, <3>1 DEF e
    <3>2. CASE i # n
      BY <1>1, <1>6, <1>7, <3>2 DEF TableInv, Holds, Faithful
    <3> QED BY <3>1, <3>2
  <2> QED BY <1>1, <2>1 DEF Faithful, Recorded
<1>10. Complete(drivestat, num_devices, taken)'
  <2>1. ASSUME NEW k \in taken' PROVE \E i \in 1 .. n : drivestat'[i].driver = k
    <3>1. CASE k = m
      BY <1>2, <1>5, <1>6, <3>1
    <3>2. CASE k # m
      <4>1. PICK i \in 1 .. num_devices : drivestat[i].driver = k
        BY <1>1, <3>2 DEF TableInv, Holds, Complete
      <4>2. i \in 1 .. n /\ i # n
        BY <1>2 DEF n
      <4> QED BY <1>6, <1>7, <4>1, <4>2
    <3> QED BY <3>1, <3>2
  <2> QED BY <1>1, <2>1 DEF Complete
<1>11. Distinct(drivestat, num_devices)'
  <2>1. ASSUME NEW i \in 1 .. n, i # n
        PROVE  drivestat'[i] = drivestat[i] /\ drivestat'[i].driver # m
    BY <1>6, <1>7, <1>8, <2>1 DEF TableInv, Holds, Faithful
  <2>2. ASSUME NEW i \in 1 .. n, NEW j \in 1 .. n, i # j
        PROVE  drivestat'[i].driver # drivestat'[j].driver
    <3>1. CASE i = n \/ j = n
      BY <1>5, <1>6, <2>1, <2>2, <3>1
    <3>2. CASE i # n /\ j # n
      BY <1>7, <2>1, <2>2, <3>2 DEF TableInv, Holds, Distinct
    <3> QED BY <3>1, <3>2
  <2> QED BY <1>1, <2>2 DEF Distinct
<1>12. TypeInv'
  BY <1>1, <1>2, <1>6 DEF TableInv, TypeInv
<1>13. Recording'
  <2>1. \A i \in Slots : i > n => drivestat'[i] = Unused
    BY <1>1, <1>2, <1>6 DEF TableInv, Recording, Slots, n
  <2>2. block \ taken \subseteq iter
    BY <1>1, <1>2 DEF TableInv, Recording
  <2> QED BY <1>1, <2>1, <2>2 DEF TableInv, Recording
<1> QED BY <1>1, <1>9, <1>10, <1>11, <1>12, <1>13 DEF TableInv, Holds, InOrder

LEMMA RemoveTable ==
  ASSUME TableInv, NEW m \in Media, Remove(m)
  PROVE  TableInv'
<1>1. PICK i \in 1..num_devices :
        /\ drivestat[i].name = m
        /\ drivestat' \in Sorted(Shift(drivestat, i), num_devices - 1)
  BY DEF Remove
<1>2. /\ pc = "remove" /\ pc' = "remove" /\ m \in named
      /\ num_devices' = num_devices - 1
      /\ iter' = iter \ {m} /\ taken' = taken \ {m}
      /\ block' = block /\ named' = named
  BY DEF Remove
<1>3. /\ num_devices \in 1 .. MaxDrives /\ num_devices - 1 \in 0 .. MaxDrives
      /\ i \in Slots
  BY DriveTableAssumption DEF TableInv, TypeInv, Slots
<1>4. drivestat[i].driver = m
  <2> DEFINE d == drivestat[i].driver
  <2>1. drivestat[i] = Recorded(d) /\ m # 0
    BY DriveTableAssumption DEF TableInv, Holds, Faithful
  <2>2. Recorded(d).name = IF d \in named THEN d ELSE 0
    BY DEF Recorded
  <2> HIDE DEF d
  <2>3. d = m
    BY <1>1, <2>1, <2>2
  <2> QED BY <2>3 DEF d
<1>5. Holds(Shift(drivestat, i), num_devices - 1, taken \ {m})
  BY <1>3, <1>4, ShiftHolds DEF TableInv
<1>6. Holds(drivestat', num_devices - 1, taken \ {m})
  BY <1>1, <1>3, <1>5, SortedHolds
<1>7. Holds(drivestat, num_devices, taken)'
  BY <1>2, <1>6 DEF Holds, Faithful, Complete, Distinct, Recorded
<1>8. Shift(drivestat, i) \in Tables
  BY <1>3, ShiftType DEF TableInv, TypeInv
<1>9. drivestat' \in Tables
  BY <1>1, <1>3, <1>8, SortedType
<1>10. TypeInv'
  BY <1>2, <1>3, <1>9 DEF TableInv, TypeInv
<1>11. Ordered(drivestat', num_devices')
  BY <1>1, <1>2, <1>3, SortedEntries
<1> QED BY <1>2, <1>7, <1>10, <1>11 DEF TableInv, Recording, InOrder, Ordered

LEMMA EndRecordTable ==
  ASSUME TableInv, EndRecord
  PROVE  TableInv'
<1>1. /\ drivestat' \in Sorted(drivestat, num_devices)
      /\ iter' \subseteq Media /\ pc' = "remove"
      /\ block' = block /\ named' = named /\ num_devices' = num_devices /\ taken' = taken
  BY DEF EndRecord
<1>2. num_devices \in 0 .. MaxDrives /\ drivestat \in Tables
  BY DEF TableInv, TypeInv
<1>3. Holds(drivestat', num_devices, taken)
  BY <1>1, <1>2, SortedHolds DEF TableInv
<1>4. Holds(drivestat, num_devices, taken)'
  BY <1>1, <1>3 DEF Holds, Faithful, Complete, Distinct, Recorded
<1>5. drivestat' \in Tables /\ Ordered(drivestat', num_devices)
  BY <1>1, <1>2, SortedType, SortedEntries
<1> QED BY <1>1, <1>4, <1>5 DEF TableInv, TypeInv, Recording, InOrder, Ordered

LEMMA NextTable == TableInv /\ [Next]_vars => TableInv'
<1> SUFFICES ASSUME TableInv, [Next]_vars PROVE TableInv'
  OBVIOUS
<1>1. ASSUME NEW m \in Media, Record(m) PROVE TableInv'
  BY <1>1, RecordTable
<1>2. ASSUME NEW m \in Media, Pass(m) PROVE TableInv'
  <2>1. /\ UNCHANGED <<block, named, drivestat, num_devices, taken>>
        /\ pc = "record" /\ pc' = "record" /\ iter' = iter \ {m}
        /\ num_devices >= MaxDrives \/ m \notin block
    BY <1>2, DriveTableAssumption DEF Pass, Room, TableInv, TypeInv
  <2>2. TypeInv' /\ Holds(drivestat, num_devices, taken)'
    BY <2>1, SameTable DEF TableInv, TypeInv
  <2>3. num_devices >= MaxDrives => num_devices = MaxDrives
    BY DriveTableAssumption DEF TableInv, TypeInv
  <2>4. Recording'
    BY <2>1, <2>3 DEF TableInv, Recording
  <2> QED BY <2>1, <2>2, <2>4 DEF TableInv, InOrder
<1>3. ASSUME NEW m \in Media, Vanish(m) PROVE TableInv'
  <2>1. /\ UNCHANGED <<block, named, drivestat, num_devices, iter, taken>>
        /\ pc' = "crashed"
    BY <1>3 DEF Vanish
  <2>2. TypeInv' /\ Holds(drivestat, num_devices, taken)'
    BY <2>1, SameTable DEF TableInv, TypeInv
  <2> QED BY <2>1, <2>2 DEF TableInv, Recording, InOrder
<1>4. ASSUME NEW m \in Media, Remove(m) PROVE TableInv'
  BY <1>4, RemoveTable
<1>5. ASSUME NEW m \in Media, Ignore(m) PROVE TableInv'
  <2>1. /\ UNCHANGED <<block, named, drivestat, num_devices, taken>>
        /\ pc = "remove" /\ pc' = "remove" /\ iter' = iter \ {m}
    BY <1>5 DEF Ignore
  <2>2. TypeInv' /\ Holds(drivestat, num_devices, taken)'
    BY <2>1, SameTable DEF TableInv, TypeInv
  <2> QED BY <2>1, <2>2 DEF TableInv, Recording, InOrder, Ordered
<1>6. CASE EndRecord
  BY <1>6, EndRecordTable
<1>7. CASE EndRemove
  <2>1. /\ UNCHANGED <<block, named, drivestat, num_devices, iter, taken>>
        /\ pc = "remove" /\ pc' = "built"
    BY <1>7 DEF EndRemove
  <2>2. TypeInv' /\ Holds(drivestat, num_devices, taken)'
    BY <2>1, SameTable DEF TableInv, TypeInv
  <2> QED BY <2>1, <2>2 DEF TableInv, Recording, InOrder, Ordered
<1>8. CASE Ended \/ UNCHANGED vars
  <2>1. /\ UNCHANGED <<block, named, drivestat, num_devices, taken>>
        /\ iter' = iter /\ pc' = pc
    BY <1>8 DEF Ended, vars
  <2>2. TypeInv' /\ Holds(drivestat, num_devices, taken)'
    BY <2>1, SameTable DEF TableInv, TypeInv
  <2> QED BY <2>1, <2>2 DEF TableInv, Recording, InOrder, Ordered
<1> QED BY <1>1, <1>2, <1>3, <1>4, <1>5, <1>6, <1>7, <1>8 DEF Next

LEMMA TableAlways == Spec => []TableInv
BY InitTable, NextTable, PTL DEF Spec

-----------------------------------------------------------------------------
(* What the invariant says of the entries in use                           *)

Drivers == {e.driver : e \in Used}

LEMMA DriversTaken == TableInv => Drivers = taken
<1> SUFFICES ASSUME TableInv PROVE Drivers = taken
  OBVIOUS
<1>1. \A i \in 1..num_devices : drivestat[i].driver \in taken
  BY DEF TableInv, Holds, Faithful
<1>2. \A m \in taken : \E i \in 1..num_devices : drivestat[i].driver = m
  BY DEF TableInv, Holds, Complete
<1> QED BY <1>1, <1>2 DEF Used, Drivers

\* There are as many entries, and as many drives, as num_devices says.
LEMMA CountExact ==
  TableInv => Cardinality(Used) = num_devices /\ Cardinality(taken) = num_devices
<1> SUFFICES ASSUME TableInv
             PROVE  Cardinality(Used) = num_devices /\ Cardinality(taken) = num_devices
  OBVIOUS
<1> DEFINE entry == [i \in 1..num_devices |-> drivestat[i]]
           drive == [i \in 1..num_devices |-> drivestat[i].driver]
<1>1. num_devices \in Nat
  BY DriveTableAssumption DEF TableInv, TypeInv
<1>2. \A i, j \in 1..num_devices : i # j => drivestat[i].driver # drivestat[j].driver
  BY DEF TableInv, Holds, Distinct
<1>3. entry \in Bijection(1..num_devices, Used)
  <2>1. entry \in [1..num_devices -> Used]
    BY DEF Used
  <2>2. \A e \in Used : \E i \in 1..num_devices : entry[i] = e
    BY DEF Used
  <2> QED BY <1>2, <2>1, <2>2 DEF Bijection, Injection, Surjection, IsInjective
<1>4. drive \in Bijection(1..num_devices, taken)
  <2>1. drive \in [1..num_devices -> taken]
    BY DEF TableInv, Holds, Faithful
  <2>2. \A m \in taken : \E i \in 1..num_devices : drive[i] = m
    BY DEF TableInv, Holds, Complete
  <2> QED BY <1>2, <2>1, <2>2 DEF Bijection, Injection, Surjection, IsInjective
<1> HIDE DEF entry, drive
<1>5. ExistsBijection(1..num_devices, Used) /\ ExistsBijection(1..num_devices, taken)
  BY <1>3, <1>4 DEF ExistsBijection
<1> QED BY <1>1, <1>5, FS_CountingElements

\* The number of drives stays within the array, and the entries in use are
\* drives, never what memmove read behind it (Disk.cpp:145-149, :164).
THEOREM TableType == Spec => []TypeOK
<1>1. TableInv => TypeOK
  <2> SUFFICES ASSUME TableInv PROVE TypeOK
    OBVIOUS
  <2>1. \A i \in 1..num_devices : drivestat[i] \in Entries
    <3>1. ASSUME NEW i \in 1..num_devices PROVE drivestat[i] \in Entries
      <4>1. PICK m \in Media : drivestat[i] = Recorded(m)
        BY DEF TableInv, Holds, Faithful, TypeInv
      <4> QED BY <4>1 DEF Recorded, Entries
    <3> QED BY <3>1
  <2> QED BY <2>1 DEF TableInv, TypeInv, TypeOK, Used, Tables
<1> QED BY <1>1, TableAlways, PTL

\* After construction the table has the drives in the order of their names,
\* none twice, none missing but for want of room, in every order in which the
\* iterators deliver them.
THEOREM TableIsExact == Spec => []TableExact
<1>1. TableInv => TableExact
  <2> SUFFICES ASSUME TableInv, pc = "built"
               PROVE  /\ Ordered(drivestat, num_devices)
                      /\ {e.driver : e \in Used} = taken /\ Cardinality(Used) = num_devices
                      /\ \A e \in Used : e.name = IF e.driver \in named THEN e.driver ELSE 0
    BY DEF TableExact
  <2>1. Ordered(drivestat, num_devices)
    BY DEF TableInv, InOrder
  <2>2. \A e \in Used : e = Recorded(e.driver)
    BY DEF TableInv, Holds, Faithful, Used
  <2>3. \A e \in Used : Recorded(e.driver).name = IF e.driver \in named THEN e.driver ELSE 0
    BY DEF Recorded
  <2> QED BY <2>1, <2>2, <2>3, DriversTaken, CountExact DEF Drivers
<1> QED BY <1>1, TableAlways, PTL

\* A drive is left out only when the table is full.
THEOREM OnlyFullLeavesOut == Spec => NoneLeftOut
<1>1. TableInv /\ [Next]_vars => [EndRecord => block = taken \/ num_devices = MaxDrives]_vars
  <2> SUFFICES ASSUME TableInv, EndRecord
               PROVE  block = taken \/ num_devices = MaxDrives
    OBVIOUS
  <2>1. pc = "record" /\ iter = {}
    BY DEF EndRecord
  <2> QED BY <2>1 DEF TableInv, Recording
<1> QED BY <1>1, TableAlways, PTL DEF Spec, NoneLeftOut

-----------------------------------------------------------------------------
(* The bounded set                                                         *)

LEMMA RecordAttaches ==
  ASSUME TableInv, NEW m \in Media, Record(m)
  PROVE  m \notin taken /\ Cardinality(taken) < MaxDrives /\ taken' = taken \cup {m}
<1>1. pc = "record" /\ m \in iter /\ num_devices < MaxDrives /\ taken' = taken \cup {m}
  BY DEF Record, Room
<1> QED BY <1>1, CountExact DEF TableInv, Recording

LEMMA RemoveDetaches ==
  ASSUME TableInv, NEW m \in Media, Remove(m)
  PROVE  m \in taken /\ taken' = taken \ {m}
<1>1. PICK i \in 1..num_devices : drivestat[i].name = m
  BY DEF Remove
<1>2. drivestat[i].driver \in taken /\ drivestat[i] = Recorded(drivestat[i].driver)
  BY DEF TableInv, Holds, Faithful
<1>3. drivestat[i].driver = m
  BY <1>1, <1>2, DriveTableAssumption DEF Recorded
<1> QED BY <1>2, <1>3 DEF Remove

LEMMA OthersStutter ==
  ASSUME [Next]_vars, \A m \in Media : ~Record(m) /\ ~Remove(m)
  PROVE  taken' = taken
BY DEF Next, Pass, Vanish, Ignore, EndRecord, EndRemove, Ended, vars

\* The table implements a bounded set: sorting and shifting lose and invent
\* nothing, and a drive without a name costs no other drive its entry.
THEOREM TableIsSet == Spec => ImplementsSet
<1>1. Init => Table!Init
  BY DEF Init, Table!Init, Used
<1>2. TableInv' => (Drivers = taken)'
  BY DriversTaken, PTL
<1> \A S : Table!Cardinality(S) = Cardinality(S)
  BY DEF Table!Cardinality, Cardinality
<1>3. TableInv /\ TableInv' /\ [Next]_vars => [Table!Next]_Drivers
  <2> SUFFICES ASSUME TableInv, TableInv', [Next]_vars PROVE [Table!Next]_Drivers
    OBVIOUS
  <2>1. Drivers = taken
    BY DriversTaken
  <2>2. Drivers' = taken'
    BY <1>2
  <2>3. CASE \E m \in Media : Record(m)
    <3>1. PICK m \in Media : Record(m)
      BY <2>3
    <3>2. Table!Attach(m)
      BY <2>1, <2>2, <3>1, RecordAttaches DEF Table!Attach, Drivers
    <3> QED BY <3>2 DEF Table!Next
  <2>4. CASE \E m \in Media : Remove(m)
    <3>1. PICK m \in Media : Remove(m)
      BY <2>4
    <3>2. Table!Detach(m)
      BY <2>1, <2>2, <3>1, RemoveDetaches DEF Table!Detach, Drivers
    <3> QED BY <3>2 DEF Table!Next
  <2>5. CASE \A m \in Media : ~Record(m) /\ ~Remove(m)
    BY <2>1, <2>2, <2>5, OthersStutter
  <2> QED BY <2>3, <2>4, <2>5
<1> QED BY <1>1, <1>3, TableAlways, PTL DEF Spec, ImplementsSet, Table!Spec, Drivers
=============================================================================
