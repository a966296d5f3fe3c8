----------------------------- MODULE DeviceTables -----------------------------
(***************************************************************************)
(* The six classes that sample a table of the kernel, Processor, Disk and  *)
(* Network of c/linux and of c/mac, one at a time: class says which.  All  *)
(* have the maps last, current and delta, and the same order of read, copy *)
(* and diff; they differ in what LinuxDevices and MacDevices say.  Sampler *)
(* is the abstraction the Linux classes and the interfaces of MacOS        *)
(* implement.                                                              *)
(***************************************************************************)
EXTENDS LinuxDevices, MacDevices, FiniteSets

CONSTANT Active     \* a bound: the devices that count, or switch; the others
                    \* only come and go.  All cores of MacOS count.

VARIABLES
  class,                  \* which of the six
  file,                   \* the kernel: device -> [count, on]
  last, current, delta,   \* the maps of the class: name -> entry
  drives,                 \* what num_devices and drivestat of c/mac/Disk hold
  room,                   \* the length c/mac/Network asked sysctl for
  pc,                     \* "read", "update": in the constructor; then
                          \* "running", or "crashed" on a null pointer
  moved,                  \* what each device moved since the last read
  steady,                 \* devices present, and undisturbed, since then
  seen                    \* devices present at the last read

vars == <<class, file, last, current, delta, drives, room, pc, moved, steady, seen>>
maps == <<last, current, delta>>
process == <<last, current, delta, drives, room, pc, seen>>

Sampled == {"linux_cpu", "linux_disk", "linux_net", "mac_net"}
Classes == Sampled \cup {"mac_cpu", "mac_disk"}

Unasked == -1
Failed  == -2
Line    == [count : Counter, on : BOOLEAN]
Names   == Devices \cup {Total}
Empty   == [d \in {} |-> 0]
Still   == [d \in Devices |-> 0]
Idle    == [count |-> 0, on |-> TRUE]
Busy    == IF class = "mac_cpu" THEN Devices ELSE Active

-----------------------------------------------------------------------------
(* read, copy and diff of a class                                          *)

Lines(c) ==
  CASE c = "linux_cpu"  -> LinuxCpuRead(file)
    [] c = "linux_disk" -> LinuxDiskRead(file)
    [] c = "linux_net"  -> LinuxNetRead(file)
    [] c = "mac_cpu"    -> MacCpuRead(file)
    [] c = "mac_disk"   -> MacDiskRead(file, drives')
    [] c = "mac_net"    -> MacNetRead(file)

Copied ==
  [linux_cpu |-> LinuxCpuCopied, linux_disk |-> LinuxDiskCopied,
   linux_net |-> LinuxNetCopied, mac_cpu |-> MacCpuCopied,
   mac_disk  |-> MacDiskCopied,  mac_net |-> MacNetCopied]

Diffed ==
  [linux_cpu |-> LinuxCpuDiffed, linux_disk |-> LinuxDiskDiffed,
   linux_net |-> LinuxNetDiffed, mac_cpu |-> MacCpuDiffed,
   mac_disk  |-> MacDiskDiffed,  mac_net |-> MacNetDiffed]

\* The fields of delta and of current that print uses.
UsedOfDelta ==
  [linux_cpu |-> LinuxCpuShown, linux_disk |-> LinuxDiskShown,
   linux_net |-> LinuxNetShown, mac_cpu |-> MacCpuShown,
   mac_disk  |-> MacDiskShown,  mac_net |-> MacNetShown]
UsedOfCurrent ==
  [c \in Classes |-> IF c \in {"linux_net", "mac_net"} THEN {"count"} ELSE {}]

\* The fields of s that are in F, written into e; one that has no value in s
\* has none in the result.
Assign(e, s, F) ==
  [f \in (DOMAIN e \ F) \cup (DOMAIN s \cap F) |-> IF f \in F THEN s[f] ELSE e[f]]

\* Every name of src gets its fields F in dst, in a new entry if it has none.
Merge(dst, src, F) ==
  [d \in DOMAIN dst \cup DOMAIN src |->
    IF d \notin DOMAIN src THEN dst[d]
    ELSE Assign(IF d \in DOMAIN dst THEN dst[d] ELSE Empty, src[d], F)]

Fields == {"count", "major", "rx_multicast", "up", "blocksize", "driver"}

\* Mutant: read starts from an empty map.
ReadFresh(m) == Merge(Empty, Lines(class), Fields)

Read(m) == Merge(m, Lines(class), Fields)

\* Mutant: the assignments belong to the new entry, so that an old one stays.
CopyOnce(dst, src) == Merge(Merge(dst, src, Copied[class]), dst, Fields)

Copy(dst, src) == Merge(dst, src, Copied[class])

\* Mutant: older minus newer.
DiffBackwards(e, newer, older) ==
  Assign(e,
    [f \in DOMAIN newer \cap DOMAIN older \cap Diffed[class] |-> Minus(older[f], newer[f])],
    Diffed[class])

\* diff leaves the other fields of the entry as they are.
Diff(e, newer, older) ==
  Assign(e,
    [f \in DOMAIN newer \cap DOMAIN older \cap Diffed[class] |-> Minus(newer[f], older[f])],
    Diffed[class])

\* What print shows a row for.
Rows ==
  CASE class = "linux_net" -> LinuxNetRows(delta, current)
    [] class = "mac_net"   -> MacNetRows(delta, current)
    [] class = "mac_disk"  -> MacDiskRows(delta)
    [] class = "mac_cpu"   -> MacCpuRows(delta)
    [] OTHER               -> DOMAIN delta

-----------------------------------------------------------------------------
(* The process                                                             *)

\* The ghosts start again at every read.
Note ==
  /\ moved' = Still /\ seen' = DOMAIN file
  /\ steady' = {d \in DOMAIN file : class = "mac_disk" => file[d].on}

Init ==
  /\ class \in Classes
  /\ file \in UNION {[D -> Line] : D \in SUBSET Devices}
  /\ class \notin {"mac_net", "mac_disk"} => \A d \in DOMAIN file : file[d].on
  /\ class = "mac_cpu" =>
       DOMAIN file = Devices /\ \A d \in Devices : file[d].count < TickWord
  /\ \A d \in DOMAIN file \ Busy : file[d] = Idle
  /\ last = Empty /\ current = Empty /\ delta = Empty
  /\ drives = {} /\ room = Unasked /\ pc = "read"
  /\ moved = Still /\ steady = {} /\ seen = {}

\* Network::read of MacOS asks for the length of the list before it fetches it.
Ask ==
  /\ class = "mac_net" /\ room = Unasked
  /\ pc \in {"read", "update", "running"}
  /\ room' = Cardinality(DOMAIN file)
  /\ UNCHANGED <<class, file, maps, drives, pc, moved, steady, seen>>

Fits == class = "mac_net" => Cardinality(DOMAIN file) <= room

\* The list has grown: sysctl fails, and the process exits.
Outgrown ==
  /\ class = "mac_net" /\ room \in Nat /\ Cardinality(DOMAIN file) > room
  /\ room' = Failed
  /\ UNCHANGED <<class, file, maps, drives, pc, moved, steady, seen>>

\* The constructor.  Disk of MacOS, which has recorded its drives before, is
\* the only one that does not call update at its end.
Construct ==
  /\ pc = "read" /\ Fits
  /\ drives' = IF class = "mac_disk" THEN DOMAIN file ELSE {}
  /\ current' = Read(current)
  /\ last' = Copy(last, current')
  /\ delta' = Copy(delta, current')
  /\ pc' = "update" /\ room' = Unasked
  /\ Note
  /\ UNCHANGED <<class, file>>

Update ==
  /\ pc \in {"update", "running"} /\ Fits
  /\ drives' = drives
  /\ last' = Copy(last, current)
  /\ current' = Read(current)
  /\ IF DOMAIN delta \subseteq DOMAIN current' \cap DOMAIN last'
     THEN /\ delta' = [d \in DOMAIN delta |-> Diff(delta[d], current'[d], last'[d])]
          /\ pc' = "running"
     ELSE delta' = delta /\ pc' = "crashed"
  /\ room' = Unasked
  /\ Note
  /\ UNCHANGED <<class, file>>

-----------------------------------------------------------------------------
(* The kernel                                                              *)

\* Fewer than Word between two reads.  The ticks of a core wrap earlier.
Count(d) ==
  /\ d \in DOMAIN file \cap Busy /\ moved[d] + 1 < Word
  /\ LET ticks == class = "mac_cpu" /\ file[d].count + 1 = TickWord IN
     /\ file' = [file EXCEPT ![d].count = IF ticks THEN 0 ELSE Plus(@, 1)]
     /\ steady' = IF ticks THEN steady \ {d} ELSE steady
  /\ moved' = [moved EXCEPT ![d] = @ + 1]
  /\ UNCHANGED <<class, process>>

\* Cores of MacOS do not come and go; a drive that has gone stays away.
Leave(d) ==
  /\ d \in DOMAIN file /\ class # "mac_cpu"
  /\ file' = [e \in DOMAIN file \ {d} |-> file[e]]
  /\ steady' = steady \ {d}
  /\ UNCHANGED <<class, process, moved>>

Appear(d) ==
  /\ d \in Devices \ DOMAIN file /\ class \in Sampled
  /\ file' = [e \in DOMAIN file \cup {d} |-> IF e = d THEN Idle ELSE file[e]]
  /\ UNCHANGED <<class, process, moved, steady>>

\* An interface goes up or down; a drive loses or regains its statistics.
Switch(d) ==
  /\ d \in DOMAIN file \cap Active /\ class \in {"mac_net", "mac_disk"}
  /\ file' = [file EXCEPT ![d].on = ~@]
  /\ steady' = IF class = "mac_disk" THEN steady \ {d} ELSE steady
  /\ UNCHANGED <<class, process, moved>>

Kernel == \E d \in Devices : Count(d) \/ Leave(d) \/ Appear(d) \/ Switch(d)

Next == Ask \/ Outgrown \/ Construct \/ Update \/ Kernel

Spec == Init /\ [][Next]_vars

-----------------------------------------------------------------------------
(* Properties                                                              *)

\* Every variable has its type, and an entry has no field but its class's.
TypeOK ==
  /\ class \in Classes
  /\ DOMAIN file \subseteq Devices /\ \A d \in DOMAIN file : file[d] \in Line
  /\ \A m \in {last, current, delta} :
       /\ DOMAIN m \subseteq Names
       /\ \A d \in DOMAIN m :
            /\ DOMAIN m[d] \subseteq Fields
            /\ "count" \in DOMAIN m[d] => m[d].count \in Counter
  /\ drives \subseteq Devices
  /\ room \in {Unasked, Failed} \cup 0 .. Cardinality(Devices)
  /\ pc \in {"read", "update", "running", "crashed"}
  /\ moved \in [Devices -> Counter] /\ steady \subseteq seen /\ seen \subseteq Devices

\* No class follows a null pointer of its maps, whatever comes and goes.
NeverNull == pc # "crashed"

\* print uses no field that was never given a value, although Network of Linux
\* does not copy rx_multicast, Disk of Linux not major, and no one ever reads
\* the driver that Disk of MacOS copies (linux/Network.cpp:74, mac/Disk.cpp:248).
UsedIsDefined ==
  pc = "running" => \A d \in DOMAIN delta :
    /\ UsedOfDelta[class] \subseteq DOMAIN delta[d]
    /\ UsedOfCurrent[class] \subseteq DOMAIN current[d]

\* The line CPU of MacOS is the sum of the lines of the cores, also after a
\* counter wrapped (mac/Processor.cpp:57-81).
TotalIsSum ==
  class = "mac_cpu" /\ pc = "running" =>
    delta[Total].count = MapThenSumSet(LAMBDA d : delta[d].count, Devices) % Word

\* A refresh shows what an undisturbed device moved since the one before, and
\* nothing for one that has gone.  Nothing is said of a drive of MacOS that has
\* gone, where the code and its comment disagree: "take some defaults"
\* (mac/Disk.cpp:274-277), but the entry keeps what it had (288).
RatesExact ==
  [][Update => \A d \in DOMAIN delta \cap Devices :
       /\ d \in steady => delta'[d].count = moved[d]
       /\ d \notin DOMAIN file /\ class # "mac_disk" => delta'[d].count = 0]_vars

\* A row goes away only when its counter is back at zero: while the counters
\* grow, a frame never shrinks at the same height, and main need not clear.
RowsOnlyGrow ==
  [][pc = "running" /\ pc' = "running" =>
       \A d \in Rows \ Rows' : current'[d].count = 0]_vars

\* The classes of Linux, and the interfaces of MacOS, implement Sampler: the
\* other fields, the filters and the length of the list do not show.
Counts(m) == [d \in DOMAIN m \ Hidden |-> m[d].count]
Real      == class \in Sampled
S == INSTANCE Sampler WITH
  Devices <- Devices \ Hidden,
  Fixed   <- {},
  table   <- IF Real THEN Counts(file) ELSE Empty,
  last    <- IF Real THEN Counts(last) ELSE Empty,
  current <- IF Real THEN Counts(current) ELSE Empty,
  delta   <- IF Real THEN Counts(delta) ELSE Empty,
  pc      <- IF Real THEN pc ELSE "read",
  moved   <- IF Real THEN [d \in Devices \ Hidden |-> moved[d]]
             ELSE [d \in Devices \ Hidden |-> 0],
  seen    <- IF Real THEN seen \ Hidden ELSE {}
ClassesSample == S!Init /\ [][S!Next]_(S!vars)
=============================================================================
