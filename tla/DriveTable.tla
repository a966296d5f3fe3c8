------------------------------- MODULE DriveTable -------------------------------
(***************************************************************************)
(* The table of drives of MacOS (c/mac/Disk.cpp), as Disk::Disk fills it:  *)
(* record_drivelist takes the drives an iterator of IOKit delivers, in any *)
(* order, remove_drivelist those that have terminated meanwhile.  Both are *)
(* registered as callbacks too, but no run loop of the program calls them. *)
(*                                                                         *)
(* A drive is a number, and so is its BSD name: strcmp is <, 0 is "".      *)
(***************************************************************************)
EXTENDS Integers, FiniteSets

CONSTANTS
  Media,        \* whole IOMedia objects of the machine
  MaxDrives     \* MAXDRIVES, the length of drivestat

ASSUME DriveTableAssumption ==
  /\ Media \subseteq Nat \ {0} /\ IsFiniteSet(Media)
  /\ MaxDrives \in Nat \ {0}

VARIABLES
  block,        \* media whose parent is an IOBlockStorageDriver
  named,        \* media with a BSD name
  drivestat, num_devices,
  iter,         \* what the iterator at work has still to deliver
  pc,
  taken         \* drives recorded so far

vars == <<block, named, drivestat, num_devices, iter, pc, taken>>

Slots   == 1 .. MaxDrives
Unused  == [driver |-> 0, name |-> 0]
Garbage == [driver |-> -1, name |-> -1]   \* what lies behind the array
Entries == [driver : Media, name : Media \cup {0}]

\* qsort of the first n entries by name; equal names in any order.
Permutations(n) ==
  {p \in [1..n -> 1..n] : \A i, j \in 1..n : i # j => p[i] # p[j]}
Ordered(t, n) == \A i, j \in 1..n : i < j => t[i].name <= t[j].name
Sorted(t, n) ==
  {s \in {[i \in Slots |-> IF i <= n THEN t[p[i]] ELSE t[i]] : p \in Permutations(n)} :
     Ordered(s, n)}

\* memmove of the entries behind i, the one behind the array included; the
\* last entry of a full array stays where it is.
Shift(t, i) ==
  IF i = MaxDrives THEN t
  ELSE [j \in Slots |-> IF j < i THEN t[j]
                        ELSE IF j < MaxDrives THEN t[j + 1] ELSE Garbage]

-----------------------------------------------------------------------------
Init ==
  /\ block \in SUBSET Media /\ named \in SUBSET Media
  /\ drivestat = [i \in Slots |-> Unused] /\ num_devices = 0
  /\ iter = Media /\ pc = "record"
  /\ taken = {}

\* Mutants: the room in the table is not checked, or one entry is never used.
RoomAlways  == TRUE
RoomOneLess == num_devices < MaxDrives - 1

Room == num_devices < MaxDrives

\* record_device of a drive.  Without a BSD name it calls abort, which returns,
\* and the entry keeps the name it had.
Record(m) ==
  /\ pc = "record" /\ m \in iter /\ m \in block /\ Room
  /\ drivestat' = [drivestat EXCEPT ![num_devices + 1] =
                     [driver |-> m, name |-> IF m \in named THEN m ELSE @.name]]
  /\ num_devices' = num_devices + 1
  /\ iter' = iter \ {m} /\ taken' = taken \cup {m}
  /\ UNCHANGED <<block, named, pc>>

\* No room for m, or no drive.
Pass(m) ==
  /\ pc = "record" /\ m \in iter
  /\ ~Room \/ m \notin block
  /\ iter' = iter \ {m}
  /\ UNCHANGED <<block, named, drivestat, num_devices, pc, taken>>

\* m terminates before its parent or its properties are fetched: abort returns
\* and record_device goes on with an uninitialised pointer.
Vanish(m) ==
  /\ pc = "record" /\ m \in iter /\ Room
  /\ pc' = "crashed"
  /\ UNCHANGED <<block, named, drivestat, num_devices, iter, taken>>

\* Mutant: the entries stay in the order of the iterator.
EndRecordUnsorted ==
  /\ pc = "record" /\ iter = {}
  /\ iter' \in SUBSET Media
  /\ pc' = "remove"
  /\ UNCHANGED <<block, named, drivestat, num_devices, taken>>

\* record_drivelist sorts, and the second iterator has what terminated.
EndRecord ==
  /\ pc = "record" /\ iter = {}
  /\ drivestat' \in Sorted(drivestat, num_devices)
  /\ iter' \in SUBSET Media
  /\ pc' = "remove"
  /\ UNCHANGED <<block, named, num_devices, taken>>

\* Mutant: the number of devices stays.
RemoveKeepsCount(m) ==
  /\ pc = "remove" /\ m \in iter \cap named
  /\ \E i \in 1..num_devices : drivestat[i].name = m /\ drivestat' = Shift(drivestat, i)
  /\ iter' = iter \ {m} /\ taken' = taken \ {m}
  /\ UNCHANGED <<block, named, num_devices, pc>>

\* remove_drivelist of a drive that is in the table.
Remove(m) ==
  /\ pc = "remove" /\ m \in iter \cap named
  /\ \E i \in 1..num_devices :
       /\ drivestat[i].name = m
       /\ drivestat' \in Sorted(Shift(drivestat, i), num_devices - 1)
  /\ num_devices' = num_devices - 1
  /\ iter' = iter \ {m} /\ taken' = taken \ {m}
  /\ UNCHANGED <<block, named, pc>>

\* m is not in the table, has no name, or its properties are gone already.
Ignore(m) ==
  /\ pc = "remove" /\ m \in iter
  /\ iter' = iter \ {m}
  /\ UNCHANGED <<block, named, drivestat, num_devices, pc, taken>>

EndRemove ==
  /\ pc = "remove" /\ iter = {} /\ pc' = "built"
  /\ UNCHANGED <<block, named, drivestat, num_devices, iter, taken>>

Ended == pc \in {"built", "crashed"} /\ UNCHANGED vars

Next ==
  \/ \E m \in Media : Record(m) \/ Pass(m) \/ Vanish(m) \/ Remove(m) \/ Ignore(m)
  \/ EndRecord \/ EndRemove \/ Ended

Spec == Init /\ [][Next]_vars

-----------------------------------------------------------------------------
(* Properties                                                              *)

Used == {drivestat[i] : i \in 1..num_devices}

\* The number of drives stays within the array, and the entries in use are
\* drives, never what memmove read behind it (Disk.cpp:145-149, :164).
TypeOK ==
  /\ block \subseteq Media /\ named \subseteq Media
  /\ iter \subseteq Media /\ taken \subseteq Media
  /\ pc \in {"record", "remove", "built", "crashed"}
  /\ num_devices \in 0 .. MaxDrives
  /\ drivestat \in [Slots -> Entries \cup {Unused, Garbage}]
  /\ Used \subseteq Entries

\* After construction the table has the drives in the order of their names,
\* none twice; one that is missing found the table full or has terminated.
TableExact ==
  pc = "built" =>
    /\ Ordered(drivestat, num_devices)
    /\ {e.driver : e \in Used} = taken /\ Cardinality(Used) = num_devices
    /\ \A e \in Used : e.name = IF e.driver \in named THEN e.driver ELSE 0

\* The table implements a bounded set: sorting and shifting lose and invent
\* nothing, and a drive without a name costs no other drive its entry.
Table == INSTANCE DriveSet WITH drives <- {e.driver : e \in Used}
ImplementsSet == Table!Spec

\* A drive is left out only when the table is full.
NoneLeftOut == [][EndRecord => block = taken \/ num_devices = MaxDrives]_vars
=============================================================================
