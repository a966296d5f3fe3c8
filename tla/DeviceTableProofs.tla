--------------------------- MODULE DeviceTableProofs ---------------------------
(***************************************************************************)
(* What the six classes promise for every set of devices, every filter,    *)
(* every width of the counters and every history of the kernel.            *)
(***************************************************************************)
EXTENDS DeviceTables, FiniteSetTheorems, TLAPS

\* Differences and counts are counters again.
LEMMA CounterType ==
  ASSUME NEW a \in Counter, NEW b \in Counter, NEW n \in 1 .. Word - 1
  PROVE  Minus(a, b) \in Counter /\ Plus(a, n) \in Counter
BY WordAssumption DEF Counter, Minus, Plus

\* What a counter moves adds to a difference, as long as it fits.
LEMMA MinusPlus ==
  ASSUME NEW a \in Counter, NEW b \in Counter, NEW n \in 1 .. Word - 1,
         Minus(a, b) + n < Word
  PROVE  Minus(Plus(a, n), b) = Minus(a, b) + n
BY WordAssumption DEF Counter, Minus, Plus

\* A counter has moved nothing since itself.
LEMMA MinusSelf ==
  ASSUME NEW a \in Counter
  PROVE  Minus(a, a) = 0
BY WordAssumption DEF Counter, Minus

\* A round starts with nothing moved.
LEMMA ZeroCounter == 0 \in Counter
BY WordAssumption DEF Counter

-----------------------------------------------------------------------------
(* Assign and Merge                                                        *)

LEMMA AssignField ==
  ASSUME NEW e, NEW s, NEW F, NEW f \in DOMAIN s \cap F
  PROVE  Assign(e, s, F)[f] = s[f]
BY DEF Assign

\* A map loses no name, keeps the entries the source does not have, and has
\* the fields F of those it has.
LEMMA MergeDomain ==
  ASSUME NEW dst, NEW src, NEW F
  PROVE  DOMAIN Merge(dst, src, F) = DOMAIN dst \cup DOMAIN src
BY DEF Merge

LEMMA MergeOld ==
  ASSUME NEW dst, NEW src, NEW F, NEW d \in DOMAIN dst \ DOMAIN src
  PROVE  Merge(dst, src, F)[d] = dst[d]
BY DEF Merge

LEMMA MergeField ==
  ASSUME NEW dst, NEW src, NEW F, NEW d \in DOMAIN src, NEW f \in DOMAIN src[d] \cap F
  PROVE  /\ f \in DOMAIN Merge(dst, src, F)[d]
         /\ Merge(dst, src, F)[d][f] = src[d][f]
<1>1. PICK e : Merge(dst, src, F)[d] = Assign(e, src[d], F)
  BY DEF Merge
<1>2. /\ f \in DOMAIN Assign(e, src[d], F)
      /\ Assign(e, src[d], F)[f] = src[d][f]
  BY DEF Assign
<1> QED BY <1>1, <1>2

-----------------------------------------------------------------------------
(* The kernel's side                                                       *)

FileType ==
  /\ class \in Classes
  /\ DOMAIN file \subseteq Devices
  /\ \A d \in DOMAIN file : file[d] \in Line /\ file[d].count \in Counter
  /\ moved \in [Devices -> Counter]

\* What read takes from the file: names that are in it, their counters, and
\* every field that print will ask delta for, copied.
LEMMA LinesOfClass ==
  ASSUME FileType
  PROVE  /\ DOMAIN Lines(class) \cap Devices \subseteq DOMAIN file
         /\ \A d \in DOMAIN Lines(class) :
              UsedOfDelta[class] \subseteq DOMAIN Lines(class)[d] \cap Copied[class] \cap Fields
         /\ \A d \in DOMAIN Lines(class) \cap Devices :
              /\ Lines(class)[d].count \in Counter
              /\ (class = "mac_disk" => file[d].on) => Lines(class)[d].count = file[d].count
<1> USE TickAssumption DEF FileType, Classes, Sampled, UsedOfDelta, Copied, Fields,
      LinuxCpuShown, LinuxDiskShown, LinuxNetShown, MacCpuShown, MacDiskShown, MacNetShown
<1>1. CASE class = "linux_cpu"
  <2>1. Lines(class) = LinuxCpuRead(file)
    BY <1>1 DEF Lines
  <2> QED BY <1>1, <2>1 DEF LinuxCpuRead, LinuxCpuCopied
<1>2. CASE class = "linux_disk"
  <2>1. Lines(class) = LinuxDiskRead(file)
    BY <1>2 DEF Lines
  <2> QED BY <1>2, <2>1 DEF LinuxDiskRead, LinuxDiskCopied
<1>3. CASE class = "linux_net"
  <2>1. Lines(class) = LinuxNetRead(file)
    BY <1>3 DEF Lines
  <2> QED BY <1>3, <2>1 DEF LinuxNetRead, LinuxNetCopied
<1>4. CASE class = "mac_cpu"
  <2>1. Lines(class) = MacCpuRead(file)
    BY <1>4 DEF Lines
  <2>2. /\ DOMAIN MacCpuRead(file) = DOMAIN file \cup {Total}
        /\ \A d \in DOMAIN file \cup {Total} : DOMAIN MacCpuRead(file)[d] = {"count"}
        /\ \A d \in DOMAIN file : MacCpuRead(file)[d].count = file[d].count
    BY DEF MacCpuRead
  <2> QED BY <1>4, <2>1, <2>2 DEF MacCpuCopied
<1>5. CASE class = "mac_disk"
  <2>1. Lines(class) = MacDiskRead(file, drives')
    BY <1>5 DEF Lines
  <2> QED BY <1>5, <2>1, ZeroCounter DEF MacDiskRead, MacDiskCopied
<1>6. CASE class = "mac_net"
  <2>1. Lines(class) = MacNetRead(file)
    BY <1>6 DEF Lines
  <2> QED BY <1>6, <2>1 DEF MacNetRead, MacNetCopied
<1> QED BY <1>1, <1>2, <1>3, <1>4, <1>5, <1>6

-----------------------------------------------------------------------------
(* The kernel keeps its types                                              *)

LEMMA InitFile == Init => FileType
BY ZeroCounter DEF Init, FileType, Line, Still

LEMMA NextFile == FileType /\ [Next]_vars => FileType'
<1> SUFFICES ASSUME FileType, [Next]_vars PROVE FileType'
  OBVIOUS
<1>0. Still \in [Devices -> Counter]
  BY ZeroCounter DEF Still
<1>1. CASE Ask
  BY <1>1 DEF Ask, FileType
<1>2. CASE Outgrown
  BY <1>2 DEF Outgrown, FileType
<1>3. CASE Construct
  BY <1>0, <1>3 DEF Construct, Note, FileType
<1>4. CASE Update
  BY <1>0, <1>4 DEF Update, Note, FileType
<1>5. ASSUME NEW d \in Devices, Count(d) PROVE FileType'
  <2>1. d \in DOMAIN file /\ file[d].count \in Counter /\ moved[d] + 1 \in Counter
    BY <1>5, WordAssumption DEF Count, FileType, Counter
  <2>2. Plus(file[d].count, 1) \in Counter
    BY <2>1, CounterType, WordAssumption DEF Counter, Plus
  <2>3. PICK n \in Counter : file' = [file EXCEPT ![d].count = n]
    BY <1>5, <2>2, ZeroCounter DEF Count
  <2>4. \A e \in DOMAIN file : file[e] \in Line
    BY DEF FileType
  <2>5. file'[d] \in Line /\ \A e \in DOMAIN file \ {d} : file'[e] = file[e]
    BY <2>1, <2>3, <2>4 DEF Line
  <2>6. DOMAIN file' = DOMAIN file /\ \A e \in DOMAIN file : file'[e] \in Line
    BY <2>3, <2>4, <2>5
  <2>7. \A e \in DOMAIN file : file'[e].count \in Counter
    BY <2>6 DEF Line
  <2>8. moved' \in [Devices -> Counter]
    BY <1>5, <2>1 DEF Count, FileType
  <2> QED BY <1>5, <2>6, <2>7, <2>8 DEF Count, FileType
<1>6. ASSUME NEW d \in Devices, Leave(d) PROVE FileType'
  BY <1>6 DEF Leave, process, FileType
<1>7. ASSUME NEW d \in Devices, Appear(d) PROVE FileType'
  <2>1. Idle \in Line /\ Idle.count \in Counter
    BY ZeroCounter DEF Idle, Line
  <2> QED BY <1>7, <2>1 DEF Appear, process, FileType
<1>8. ASSUME NEW d \in Devices, Switch(d) PROVE FileType'
  <2>1. d \in DOMAIN file /\ file' = [file EXCEPT ![d].on = ~@]
    BY <1>8 DEF Switch
  <2>2. \A e \in DOMAIN file : file[e] \in Line
    BY DEF FileType
  <2>3. file'[d] \in Line /\ \A e \in DOMAIN file \ {d} : file'[e] = file[e]
    BY <2>1, <2>2 DEF Line
  <2>4. DOMAIN file' = DOMAIN file /\ \A e \in DOMAIN file : file'[e] \in Line
    BY <2>1, <2>2, <2>3
  <2>5. \A e \in DOMAIN file : file'[e].count \in Counter
    BY <2>4 DEF Line
  <2> QED BY <1>8, <2>4, <2>5 DEF Switch, process, FileType
<1>9. CASE UNCHANGED vars
  BY <1>9 DEF vars, FileType
<1> QED BY <1>1, <1>2, <1>3, <1>4, <1>5, <1>6, <1>7, <1>8, <1>9 DEF Next, Kernel

-----------------------------------------------------------------------------
(* The pointers                                                            *)

\* diff finds every name of delta in current, and current never loses one.
NamesKept ==
  /\ pc \in {"read", "update", "running"}
  /\ DOMAIN delta \subseteq DOMAIN current

LEMMA ReadDomain ==
  ASSUME NEW m PROVE DOMAIN Read(m) = DOMAIN m \cup DOMAIN Lines(class)
BY MergeDomain DEF Read

LEMMA CopyDomain ==
  ASSUME NEW dst, NEW src PROVE DOMAIN Copy(dst, src) = DOMAIN dst \cup DOMAIN src
BY MergeDomain DEF Copy

LEMMA KernelKeeps ==
  ASSUME NEW d \in Devices, Count(d) \/ Leave(d) \/ Appear(d) \/ Switch(d)
  PROVE  UNCHANGED <<class, last, current, delta, drives, room, pc, seen>>
BY DEF Count, Leave, Appear, Switch, process

LEMMA NamesStep == NamesKept /\ [Next]_vars => NamesKept'
<1> SUFFICES ASSUME NamesKept, [Next]_vars PROVE NamesKept'
  OBVIOUS
<1>1. CASE Ask
  BY <1>1 DEF Ask, maps, NamesKept
<1>2. CASE Outgrown
  BY <1>2 DEF Outgrown, maps, NamesKept
<1>3. CASE Construct
  <2>1. DOMAIN current' = DOMAIN current \cup DOMAIN Lines(class)
    BY <1>3, ReadDomain DEF Construct
  <2>2. DOMAIN delta' = DOMAIN delta \cup DOMAIN current'
    BY <1>3, CopyDomain DEF Construct
  <2> QED BY <1>3, <2>1, <2>2 DEF Construct, NamesKept
<1>4. CASE Update
  <2>1. DOMAIN current' = DOMAIN current \cup DOMAIN Lines(class)
    BY <1>4, ReadDomain DEF Update
  <2>2. DOMAIN last' = DOMAIN last \cup DOMAIN current
    BY <1>4, CopyDomain DEF Update
  <2>3. DOMAIN delta \subseteq DOMAIN current' \cap DOMAIN last'
    BY <2>1, <2>2 DEF NamesKept
  <2>4. pc' = "running" /\ DOMAIN delta' = DOMAIN delta
    BY <1>4, <2>3 DEF Update
  <2> QED BY <2>3, <2>4 DEF NamesKept
<1>5. CASE Kernel
  BY <1>5, KernelKeeps DEF Kernel, NamesKept
<1>6. CASE UNCHANGED vars
  BY <1>6 DEF vars, NamesKept
<1> QED BY <1>1, <1>2, <1>3, <1>4, <1>5, <1>6 DEF Next

LEMMA NamesAlways == Spec => []NamesKept
<1>1. Init => NamesKept
  BY DEF Init, NamesKept, Empty
<1> QED BY <1>1, NamesStep, PTL DEF Spec

\* No class follows a null pointer, whatever devices come and go.
THEOREM NoNullPointer == Spec => []NeverNull
<1>1. NamesKept => NeverNull
  BY DEF NamesKept, NeverNull
<1> QED BY <1>1, NamesAlways, PTL

-----------------------------------------------------------------------------
(* The fields                                                              *)

LEMMA UsedAreCopied ==
  ASSUME class \in Classes
  PROVE  /\ UsedOfDelta[class] \subseteq Copied[class] \cap Fields
         /\ UsedOfCurrent[class] \subseteq UsedOfDelta[class]
         /\ "count" \in UsedOfDelta[class] \cap Diffed[class]
<1> USE DEF Classes, Sampled, UsedOfDelta, UsedOfCurrent, Copied, Diffed, Fields,
      LinuxCpuShown, LinuxDiskShown, LinuxNetShown, MacCpuShown, MacDiskShown, MacNetShown
<1>1. CASE class = "linux_cpu"
  BY <1>1 DEF LinuxCpuCopied, LinuxCpuDiffed
<1>2. CASE class = "linux_disk"
  BY <1>2 DEF LinuxDiskCopied, LinuxDiskDiffed
<1>3. CASE class = "linux_net"
  BY <1>3 DEF LinuxNetCopied, LinuxNetDiffed
<1>4. CASE class = "mac_cpu"
  BY <1>4 DEF MacCpuCopied, MacCpuDiffed
<1>5. CASE class = "mac_disk"
  BY <1>5 DEF MacDiskCopied, MacDiskDiffed
<1>6. CASE class = "mac_net"
  BY <1>6 DEF MacNetCopied, MacNetDiffed
<1> QED BY <1>1, <1>2, <1>3, <1>4, <1>5, <1>6

\* Every entry of current and of delta has the fields print asks delta for.
FieldsKept ==
  /\ \A d \in DOMAIN current : UsedOfDelta[class] \subseteq DOMAIN current[d]
  /\ \A d \in DOMAIN delta : UsedOfDelta[class] \subseteq DOMAIN delta[d]

\* read gives every entry of current its fields.
LEMMA ReadFields ==
  ASSUME FileType, FieldsKept, current' = Read(current), NEW d \in DOMAIN current'
  PROVE  UsedOfDelta[class] \subseteq DOMAIN current'[d]
<1>1. DOMAIN current' = DOMAIN current \cup DOMAIN Lines(class)
  BY ReadDomain
<1>2. CASE d \in DOMAIN Lines(class)
  <2>1. UsedOfDelta[class] \subseteq DOMAIN Lines(class)[d] \cap Fields
    BY <1>2, LinesOfClass
  <2>2. \A f \in DOMAIN Lines(class)[d] \cap Fields :
          f \in DOMAIN Merge(current, Lines(class), Fields)[d]
    BY <1>2, MergeField
  <2> QED BY <2>1, <2>2 DEF Read
<1>3. CASE d \notin DOMAIN Lines(class)
  <2>1. d \in DOMAIN current
    BY <1>1, <1>3
  <2>2. Merge(current, Lines(class), Fields)[d] = current[d]
    BY <1>3, <2>1, MergeOld
  <2> QED BY <2>1, <2>2 DEF Read, FieldsKept
<1> QED BY <1>2, <1>3

\* So does copy, for what it copies.
LEMMA CopyFields ==
  ASSUME FileType, NEW dst, NEW src, NEW d \in DOMAIN src,
         UsedOfDelta[class] \subseteq DOMAIN src[d]
  PROVE  /\ UsedOfDelta[class] \subseteq DOMAIN Copy(dst, src)[d]
         /\ Copy(dst, src)[d].count = src[d].count
<1>1. UsedOfDelta[class] \subseteq Copied[class] /\ "count" \in UsedOfDelta[class]
  BY UsedAreCopied DEF FileType
<1>2. \A f \in DOMAIN src[d] \cap Copied[class] :
        /\ f \in DOMAIN Merge(dst, src, Copied[class])[d]
        /\ Merge(dst, src, Copied[class])[d][f] = src[d][f]
  BY MergeField
<1> QED BY <1>1, <1>2 DEF Copy

LEMMA DiffFields ==
  ASSUME FileType, NEW e, NEW newer, NEW older,
         UsedOfDelta[class] \subseteq DOMAIN e,
         UsedOfDelta[class] \subseteq DOMAIN newer,
         UsedOfDelta[class] \subseteq DOMAIN older
  PROVE  /\ UsedOfDelta[class] \subseteq DOMAIN Diff(e, newer, older)
         /\ Diff(e, newer, older).count = Minus(newer.count, older.count)
<1> DEFINE s == [f \in DOMAIN newer \cap DOMAIN older \cap Diffed[class]
                   |-> Minus(newer[f], older[f])]
<1>1. "count" \in UsedOfDelta[class] \cap Diffed[class]
  BY UsedAreCopied DEF FileType
<1>2. "count" \in DOMAIN s /\ s["count"] = Minus(newer["count"], older["count"])
  BY <1>1
<1>3. DOMAIN s = DOMAIN newer \cap DOMAIN older \cap Diffed[class]
  OBVIOUS
<1>4. Diff(e, newer, older) = Assign(e, s, Diffed[class])
  BY DEF Diff
<1> HIDE DEF s
<1>5. UsedOfDelta[class] \subseteq DOMAIN Assign(e, s, Diffed[class])
  <2>1. DOMAIN Assign(e, s, Diffed[class])
          = (DOMAIN e \ Diffed[class]) \cup (DOMAIN s \cap Diffed[class])
    BY DEF Assign
  <2> QED BY <1>3, <2>1
<1>6. Assign(e, s, Diffed[class])["count"] = s["count"]
  BY <1>1, <1>2, AssignField
<1> QED BY <1>2, <1>4, <1>5, <1>6

LEMMA FieldsStep == FileType /\ NamesKept /\ FieldsKept /\ [Next]_vars => FieldsKept'
<1> SUFFICES ASSUME FileType, NamesKept, FieldsKept, [Next]_vars PROVE FieldsKept'
  OBVIOUS
<1>1. CASE Ask
  BY <1>1 DEF Ask, maps, FieldsKept
<1>2. CASE Outgrown
  BY <1>2 DEF Outgrown, maps, FieldsKept
<1>3. CASE Construct
  <2>1. current' = Read(current) /\ delta' = Copy(delta, current') /\ class' = class
    BY <1>3 DEF Construct
  <2>2. \A d \in DOMAIN current' : UsedOfDelta[class] \subseteq DOMAIN current'[d]
    BY <2>1, ReadFields
  <2>3. DOMAIN delta' = DOMAIN delta \cup DOMAIN current'
    BY <2>1, CopyDomain
  <2>4. DOMAIN current \subseteq DOMAIN current'
    BY <2>1, ReadDomain
  <2>5. DOMAIN delta' = DOMAIN current'
    BY <2>3, <2>4 DEF NamesKept
  <2>6. \A d \in DOMAIN delta' : UsedOfDelta[class] \subseteq DOMAIN delta'[d]
    BY <2>1, <2>2, <2>5, CopyFields
  <2> QED BY <2>1, <2>2, <2>6 DEF FieldsKept
<1>4. CASE Update
  <2>1. current' = Read(current) /\ last' = Copy(last, current) /\ class' = class
    BY <1>4 DEF Update
  <2>2. \A d \in DOMAIN current' : UsedOfDelta[class] \subseteq DOMAIN current'[d]
    BY <2>1, ReadFields
  <2>3. DOMAIN current \subseteq DOMAIN current'
    BY <2>1, ReadDomain
  <2>4. CASE delta' = delta
    BY <2>1, <2>2, <2>4 DEF FieldsKept
  <2>5. CASE delta' = [d \in DOMAIN delta |-> Diff(delta[d], current'[d], last'[d])]
    <3>1. ASSUME NEW d \in DOMAIN delta
          PROVE  UsedOfDelta[class] \subseteq DOMAIN Diff(delta[d], current'[d], last'[d])
      <4>1. d \in DOMAIN current /\ d \in DOMAIN current'
        BY <2>3 DEF NamesKept
      <4>2. UsedOfDelta[class] \subseteq DOMAIN last'[d]
        BY <2>1, <4>1, CopyFields DEF FieldsKept
      <4>3. UsedOfDelta[class] \subseteq DOMAIN current'[d]
        BY <2>2, <4>1
      <4>4. UsedOfDelta[class] \subseteq DOMAIN delta[d]
        BY DEF FieldsKept
      <4> QED BY <4>2, <4>3, <4>4, DiffFields
    <3> QED BY <2>1, <2>2, <2>5, <3>1 DEF FieldsKept
  <2> QED BY <1>4, <2>4, <2>5 DEF Update
<1>5. CASE Kernel
  BY <1>5, KernelKeeps DEF Kernel, FieldsKept
<1>6. CASE UNCHANGED vars
  BY <1>6 DEF vars, FieldsKept
<1> QED BY <1>1, <1>2, <1>3, <1>4, <1>5, <1>6 DEF Next

LEMMA FieldsAlways == Spec => [](FileType /\ NamesKept /\ FieldsKept)
<1>1. Init => FileType /\ FieldsKept
  BY InitFile DEF Init, FieldsKept, Empty
<1>2. FileType /\ NamesKept /\ FieldsKept /\ [Next]_vars => FileType' /\ FieldsKept'
  BY NextFile, FieldsStep
<1> QED BY <1>1, <1>2, NamesAlways, PTL DEF Spec

\* print uses no field that was never given a value.
THEOREM PrintedIsDefined == Spec => []UsedIsDefined
<1>1. FileType /\ NamesKept /\ FieldsKept => UsedIsDefined
  <2> SUFFICES ASSUME FileType, NamesKept, FieldsKept, NEW d \in DOMAIN delta
               PROVE  /\ UsedOfDelta[class] \subseteq DOMAIN delta[d]
                      /\ UsedOfCurrent[class] \subseteq DOMAIN current[d]
    BY DEF UsedIsDefined
  <2>1. UsedOfDelta[class] \subseteq DOMAIN delta[d]
    BY DEF FieldsKept
  <2>2. UsedOfDelta[class] \subseteq DOMAIN current[d]
    BY DEF FieldsKept, NamesKept
  <2>3. UsedOfCurrent[class] \subseteq UsedOfDelta[class]
    BY UsedAreCopied DEF FileType
  <2> QED BY <2>1, <2>2, <2>3
<1> QED BY <1>1, FieldsAlways, PTL

-----------------------------------------------------------------------------
(* The rates                                                               *)

\* A name of current that is in the file is one that read takes: the filter
\* of a class and its list of drives do not change.
NamesRead ==
  /\ pc = "read" => DOMAIN current = {}
  /\ class \in {"linux_cpu", "linux_disk"} => DOMAIN current \cap Hidden = {}
  /\ class = "mac_disk" => DOMAIN current \subseteq drives

LEMMA LinesNames ==
  ASSUME FileType
  PROVE  /\ class \in {"linux_cpu", "linux_disk"} =>
              DOMAIN Lines(class) = DOMAIN file \ Hidden
         /\ class = "mac_disk" => DOMAIN Lines(class) = drives' \cap DOMAIN file
         /\ class \in {"linux_net", "mac_net"} => DOMAIN Lines(class) = DOMAIN file
         /\ class = "mac_cpu" => DOMAIN Lines(class) = DOMAIN file \cup {Total}
<1>1. CASE class = "linux_cpu"
  BY <1>1 DEF Lines, LinuxCpuRead
<1>2. CASE class = "linux_disk"
  BY <1>2 DEF Lines, LinuxDiskRead
<1>3. CASE class = "linux_net"
  BY <1>3 DEF Lines, LinuxNetRead
<1>4. CASE class = "mac_cpu"
  <2>1. DOMAIN MacCpuRead(file) = DOMAIN file \cup {Total}
    BY DEF MacCpuRead
  <2> QED BY <1>4, <2>1 DEF Lines
<1>5. CASE class = "mac_disk"
  BY <1>5 DEF Lines, MacDiskRead
<1>6. CASE class = "mac_net"
  BY <1>6 DEF Lines, MacNetRead
<1> QED BY <1>1, <1>2, <1>3, <1>4, <1>5, <1>6 DEF FileType, Classes, Sampled

\* A name of the next current that is in the file has just been read.
LEMMA NamesAreRead ==
  ASSUME FileType, NamesRead, Construct \/ Update,
         NEW d \in DOMAIN file, d \in DOMAIN current \cup DOMAIN Lines(class)
  PROVE  d \in DOMAIN Lines(class)
<1>1. CASE class \in {"linux_cpu", "linux_disk"}
  BY <1>1, LinesNames DEF NamesRead
<1>2. CASE class = "mac_disk"
  <2>1. CASE Construct
    BY <2>1 DEF Construct, NamesRead
  <2>2. CASE Update
    BY <1>2, <2>2, LinesNames DEF Update, NamesRead
  <2> QED BY <2>1, <2>2
<1>3. CASE class \in {"linux_net", "mac_net", "mac_cpu"}
  BY <1>3, LinesNames
<1> QED BY <1>1, <1>2, <1>3 DEF FileType, Classes, Sampled

LEMMA NamesReadStep == FileType /\ NamesRead /\ [Next]_vars => NamesRead'
<1> SUFFICES ASSUME FileType, NamesRead, [Next]_vars PROVE NamesRead'
  OBVIOUS
<1>1. CASE Ask
  BY <1>1 DEF Ask, maps, NamesRead
<1>2. CASE Outgrown
  BY <1>2 DEF Outgrown, maps, NamesRead
<1>3. CASE Construct
  <2>1. DOMAIN current' = DOMAIN current \cup DOMAIN Lines(class)
    BY <1>3, ReadDomain DEF Construct
  <2>2. class' = class /\ pc' = "update" /\ DOMAIN current = {}
    BY <1>3 DEF Construct, NamesRead
  <2>3. class \in {"linux_cpu", "linux_disk"} => DOMAIN current' \cap Hidden = {}
    BY <2>1, <2>2, LinesNames
  <2>4. class = "mac_disk" => DOMAIN current' \subseteq drives'
    BY <2>1, <2>2, LinesNames
  <2> QED BY <2>2, <2>3, <2>4 DEF NamesRead
<1>4. CASE Update
  <2>1. DOMAIN current' = DOMAIN current \cup DOMAIN Lines(class)
    BY <1>4, ReadDomain DEF Update
  <2>2. class' = class /\ pc' # "read" /\ drives' = drives
    BY <1>4 DEF Update
  <2>3. class \in {"linux_cpu", "linux_disk"} => DOMAIN current' \cap Hidden = {}
    BY <2>1, LinesNames DEF NamesRead
  <2>4. class = "mac_disk" => DOMAIN current' \subseteq drives'
    BY <2>1, <2>2, LinesNames DEF NamesRead
  <2> QED BY <2>2, <2>3, <2>4 DEF NamesRead
<1>5. CASE Kernel
  BY <1>5, KernelKeeps DEF Kernel, NamesRead
<1>6. CASE UNCHANGED vars
  BY <1>6 DEF vars, NamesRead
<1> QED BY <1>1, <1>2, <1>3, <1>4, <1>5, <1>6 DEF Next

\* What an undisturbed device moved since the last read is the difference the
\* next one will find.
Tracked ==
  /\ steady \subseteq DOMAIN file
  /\ \A d \in DOMAIN current \cap Devices : current[d].count \in Counter
  /\ \A d \in DOMAIN current \cap steady :
       /\ class = "mac_disk" => file[d].on
       /\ moved[d] = Minus(file[d].count, current[d].count)

\* read takes a counter from the file, and leaves that of a device that has
\* gone.
LEMMA ReadCounts ==
  ASSUME FileType, NamesRead, Tracked, Construct \/ Update,
         NEW d \in DOMAIN current' \cap Devices
  PROVE  /\ current'[d].count \in Counter
         /\ d \in DOMAIN file /\ (class = "mac_disk" => file[d].on) =>
              current'[d].count = file[d].count
         /\ d \notin DOMAIN file => d \in DOMAIN current /\ current'[d] = current[d]
<1>1. current' = Read(current)
  BY DEF Construct, Update
<1>2. DOMAIN current' = DOMAIN current \cup DOMAIN Lines(class)
  BY <1>1, ReadDomain
<1>3. CASE d \in DOMAIN Lines(class)
  <2>1. /\ Lines(class)[d].count \in Counter /\ d \in DOMAIN file
        /\ (class = "mac_disk" => file[d].on) => Lines(class)[d].count = file[d].count
    BY <1>3, LinesOfClass
  <2>2. "count" \in DOMAIN Lines(class)[d] \cap Fields
    BY <1>3, LinesOfClass, UsedAreCopied DEF FileType
  <2>3. Merge(current, Lines(class), Fields)[d]["count"] = Lines(class)[d]["count"]
    BY <1>3, <2>2, MergeField
  <2> QED BY <1>1, <2>1, <2>3 DEF Read
<1>4. CASE d \notin DOMAIN Lines(class)
  <2>1. d \in DOMAIN current /\ d \notin DOMAIN file
    BY <1>2, <1>4, NamesAreRead
  <2>2. Merge(current, Lines(class), Fields)[d] = current[d]
    BY <1>4, <2>1, MergeOld
  <2> QED BY <1>1, <2>1, <2>2 DEF Read, Tracked
<1> QED BY <1>3, <1>4

\* After a read nothing has moved.
LEMMA ReadTracks ==
  ASSUME FileType, NamesRead, Tracked, Construct \/ Update
  PROVE  Tracked'
<1>1. /\ class' = class /\ file' = file /\ moved' = Still
      /\ steady' = {d \in DOMAIN file : class = "mac_disk" => file[d].on}
  BY DEF Construct, Update, Note
<1>2. \A d \in DOMAIN current' \cap Devices : current'[d].count \in Counter
  BY ReadCounts
<1>3. ASSUME NEW d \in DOMAIN current' \cap steady'
      PROVE  moved'[d] = Minus(file'[d].count, current'[d].count)
  <2>1. d \in DOMAIN file /\ d \in Devices /\ (class = "mac_disk" => file[d].on)
    BY <1>1 DEF FileType
  <2>2. current'[d].count = file[d].count /\ file[d].count \in Counter
    BY <2>1, ReadCounts DEF FileType
  <2> QED BY <1>1, <2>1, <2>2, MinusSelf DEF Still
<1> QED BY <1>1, <1>2, <1>3 DEF Tracked

LEMMA TrackedStep == FileType /\ NamesRead /\ Tracked /\ [Next]_vars => Tracked'
<1> SUFFICES ASSUME FileType, NamesRead, Tracked, [Next]_vars PROVE Tracked'
  OBVIOUS
<1>1. CASE Ask
  BY <1>1 DEF Ask, maps, Tracked
<1>2. CASE Outgrown
  BY <1>2 DEF Outgrown, maps, Tracked
<1>3. CASE Construct
  BY <1>3, ReadTracks
<1>4. CASE Update
  BY <1>4, ReadTracks
<1>5. ASSUME NEW d \in Devices, Count(d) PROVE Tracked'
  <2>1. class' = class /\ current' = current /\ d \in DOMAIN file
    BY <1>5 DEF Count, process
  <2>2. DOMAIN file' = DOMAIN file /\ steady' \subseteq steady
    BY <1>5 DEF Count
  <2>3. ASSUME NEW e \in DOMAIN current' \cap steady'
        PROVE  /\ class = "mac_disk" => file'[e].on
               /\ moved'[e] = Minus(file'[e].count, current'[e].count)
    <3>1. /\ class = "mac_disk" => file[e].on
          /\ moved[e] = Minus(file[e].count, current[e].count)
          /\ e \in DOMAIN file /\ e \in Devices
          /\ current[e].count \in Counter /\ file[e].count \in Counter
      BY <2>1, <2>2 DEF Tracked, FileType
    <3>2. CASE e = d
      <4>1. ~(class = "mac_cpu" /\ file[d].count + 1 = TickWord)
        BY <1>5, <3>2 DEF Count
      <4>2. file' = [file EXCEPT ![d].count = Plus(@, 1)] /\ moved[d] + 1 < Word
        BY <1>5, <4>1 DEF Count
      <4>3. moved'[d] = moved[d] + 1
        BY <1>5, <3>1, <3>2 DEF Count, FileType
      <4>4. file'[d].count = Plus(file[d].count, 1)
        BY <2>1, <4>2 DEF FileType, Line
      <4>5. class = "mac_disk" => file'[d].on
        BY <2>1, <3>1, <3>2, <4>2 DEF FileType, Line
      <4>6. Minus(Plus(file[e].count, 1), current[e].count)
              = Minus(file[e].count, current[e].count) + 1
        <5>1. 1 \in 1 .. Word - 1
          BY WordAssumption
        <5> QED BY <3>1, <3>2, <4>2, <5>1, MinusPlus
      <4> QED BY <2>1, <3>1, <3>2, <4>3, <4>4, <4>5, <4>6
    <3>3. CASE e # d
      <4>1. file'[e] = file[e] /\ moved'[e] = moved[e]
        BY <1>5, <3>1, <3>3 DEF Count, FileType
      <4> QED BY <2>1, <3>1, <4>1
    <3> QED BY <3>2, <3>3
  <2> QED BY <2>1, <2>2, <2>3 DEF Tracked
<1>6. ASSUME NEW d \in Devices, Leave(d) PROVE Tracked'
  BY <1>6 DEF Leave, process, Tracked
<1>7. ASSUME NEW d \in Devices, Appear(d) PROVE Tracked'
  <2>1. /\ class' = class /\ current' = current /\ steady' = steady /\ moved' = moved
        /\ d \notin DOMAIN file
        /\ DOMAIN file' = DOMAIN file \cup {d}
        /\ \A e \in DOMAIN file : file'[e] = file[e]
    BY <1>7 DEF Appear, process
  <2> QED BY <2>1 DEF Tracked
<1>8. ASSUME NEW d \in Devices, Switch(d) PROVE Tracked'
  <2>1. /\ class' = class /\ current' = current /\ moved' = moved
        /\ d \in DOMAIN file /\ DOMAIN file' = DOMAIN file
        /\ \A e \in DOMAIN file : file'[e].count = file[e].count
        /\ \A e \in DOMAIN file \ {d} : file'[e] = file[e]
        /\ steady' \subseteq steady
        /\ class = "mac_disk" => d \notin steady'
    BY <1>8 DEF Switch, process
  <2> QED BY <2>1 DEF Tracked
<1>9. CASE UNCHANGED vars
  BY <1>9 DEF vars, Tracked
<1> QED BY <1>1, <1>2, <1>3, <1>4, <1>5, <1>6, <1>7, <1>8, <1>9 DEF Next, Kernel

\* The inductive invariant: the five parts together.
ClassInv == FileType /\ NamesKept /\ FieldsKept /\ NamesRead /\ Tracked

LEMMA ClassInvAlways == Spec => []ClassInv
<1>1. Init => NamesRead /\ Tracked
  BY DEF Init, NamesRead, Tracked, Empty
<1>2. FileType /\ NamesRead /\ Tracked /\ [Next]_vars => NamesRead' /\ Tracked'
  BY NamesReadStep, TrackedStep
<1> QED BY <1>1, <1>2, FieldsAlways, PTL DEF Spec, ClassInv

\* A refresh shows what an undisturbed device moved, and zero for one that has
\* gone (but for a drive of MacOS), for any counters, filters and comings and
\* goings.
THEOREM RatesAreExact == Spec => RatesExact
<1>1. ASSUME ClassInv, Update, NEW d \in DOMAIN delta \cap Devices
      PROVE  /\ d \in steady => delta'[d].count = moved[d]
             /\ d \notin DOMAIN file /\ class # "mac_disk" => delta'[d].count = 0
  <2> USE <1>1 DEF ClassInv
  <2>0. current' = Read(current) /\ last' = Copy(last, current)
    BY DEF Update
  <2>1. DOMAIN current \subseteq DOMAIN current' /\ DOMAIN current \subseteq DOMAIN last'
    <3>1. DOMAIN current' = DOMAIN current \cup DOMAIN Lines(class)
      BY <2>0, ReadDomain
    <3>2. DOMAIN last' = DOMAIN last \cup DOMAIN current
      BY <2>0, CopyDomain
    <3> QED BY <3>1, <3>2
  <2>2. d \in DOMAIN current /\ d \in DOMAIN current'
    BY <2>1 DEF NamesKept
  <2>3. delta' = [e \in DOMAIN delta |-> Diff(delta[e], current'[e], last'[e])]
    BY <2>1 DEF Update, NamesKept
  <2>4. UsedOfDelta[class] \subseteq DOMAIN last'[d] /\ last'[d].count = current[d].count
    BY <2>0, <2>2, CopyFields DEF FieldsKept
  <2>5. UsedOfDelta[class] \subseteq DOMAIN current'[d]
    BY <2>0, <2>2, ReadFields
  <2>6. UsedOfDelta[class] \subseteq DOMAIN delta[d]
    BY DEF FieldsKept
  <2>7. Diff(delta[d], current'[d], last'[d]).count
          = Minus(current'[d].count, last'[d].count)
    BY <2>4, <2>5, <2>6, DiffFields
  <2>8. delta'[d].count = Minus(current'[d].count, current[d].count)
    BY <2>3, <2>4, <2>7
  <2>9. ASSUME d \in steady PROVE delta'[d].count = moved[d]
    <3>1. d \in DOMAIN file /\ (class = "mac_disk" => file[d].on)
      BY <2>2, <2>9 DEF Tracked
    <3>2. current'[d].count = file[d].count
      BY <2>2, <3>1, ReadCounts
    <3> QED BY <2>2, <2>8, <2>9, <3>2 DEF Tracked
  <2>10. ASSUME d \notin DOMAIN file PROVE delta'[d].count = 0
    <3>1. current'[d] = current[d]
      BY <2>2, <2>10, ReadCounts
    <3>2. current[d].count \in Counter
      BY <2>2 DEF Tracked
    <3> QED BY <2>8, <3>1, <3>2, MinusSelf
  <2> QED BY <2>9, <2>10
<1>2. ClassInv => [Update => \A d \in DOMAIN delta \cap Devices :
                       /\ d \in steady => delta'[d].count = moved[d]
                       /\ d \notin DOMAIN file /\ class # "mac_disk" =>
                            delta'[d].count = 0]_vars
  BY <1>1
<1> QED BY <1>2, ClassInvAlways, PTL DEF RatesExact

-----------------------------------------------------------------------------
(* The rows                                                                *)

\* diff leaves the flags of an interface alone.
LEMMA DiffKeeps ==
  ASSUME NEW e, NEW newer, NEW older, NEW f \in DOMAIN e \ Diffed[class]
  PROVE  Diff(e, newer, older)[f] = e[f]
<1>1. \A s : Assign(e, s, Diffed[class])[f] = e[f]
  BY DEF Assign
<1> QED BY <1>1 DEF Diff

LEMMA RowsInDelta ==
  ASSUME class \in Classes
  PROVE  Rows \subseteq DOMAIN delta
BY DEF Rows, Classes, Sampled, LinuxNetRows, MacNetRows, MacDiskRows, MacCpuRows

\* A row goes away only when its counter is back at zero.
THEOREM RowsGrow == Spec => RowsOnlyGrow
<1>1. ASSUME ClassInv, Update, pc' = "running", NEW d \in Rows \ Rows'
      PROVE  current'[d].count = 0
  <2> USE <1>1 DEF ClassInv
  <2>1. class' = class /\ class \in Classes
    BY DEF Update, FileType
  <2>2. delta' = [e \in DOMAIN delta |-> Diff(delta[e], current'[e], last'[e])]
    BY DEF Update
  <2>3. d \in DOMAIN delta /\ DOMAIN delta' = DOMAIN delta
    BY <2>1, <2>2, RowsInDelta
  <2>4. CASE class = "linux_net"
    <3>1. Rows = LinuxNetRows(delta, current) /\ Rows' = LinuxNetRows(delta', current')
      BY <2>1, <2>4 DEF Rows
    <3> QED BY <2>3, <3>1 DEF LinuxNetRows
  <2>5. CASE class = "mac_net"
    <3>1. Rows = MacNetRows(delta, current) /\ Rows' = MacNetRows(delta', current')
      BY <2>1, <2>5 DEF Rows
    <3>2. "up" \in DOMAIN delta[d] \ Diffed[class]
      BY <2>3, <2>5
      DEF FieldsKept, UsedOfDelta, MacNetShown, Diffed, MacNetDiffed, Classes, Sampled
    <3>3. delta'[d]["up"] = delta[d]["up"]
      BY <2>2, <2>3, <3>2, DiffKeeps
    <3> QED BY <2>3, <3>1, <3>3 DEF MacNetRows
  <2>6. CASE class \in {"mac_disk", "mac_cpu", "linux_cpu", "linux_disk"}
    <3>1. Rows = DOMAIN delta /\ Rows' = DOMAIN delta'
      BY <2>1, <2>6 DEF Rows, MacDiskRows, MacCpuRows
    <3> QED BY <2>3, <3>1
  <2> QED BY <2>1, <2>4, <2>5, <2>6 DEF Classes, Sampled
<1>2. ASSUME ClassInv, [Next]_vars, pc = "running", pc' = "running", NEW d \in Rows \ Rows'
      PROVE  current'[d].count = 0
  <2>1. CASE UNCHANGED <<class, delta, current>>
    BY <1>2, <2>1 DEF Rows
  <2>2. CASE Update
    BY <1>1, <1>2, <2>2
  <2>3. CASE Ask \/ Outgrown
    BY <2>1, <2>3 DEF Ask, Outgrown, maps
  <2>4. CASE Construct
    BY <1>2, <2>4 DEF Construct
  <2>5. CASE Kernel
    BY <2>1, <2>5, KernelKeeps DEF Kernel
  <2>6. CASE UNCHANGED vars
    BY <2>1, <2>6 DEF vars
  <2> QED BY <1>2, <2>2, <2>3, <2>4, <2>5, <2>6 DEF Next
<1>3. ClassInv /\ [Next]_vars =>
        [pc = "running" /\ pc' = "running" =>
           \A d \in Rows \ Rows' : current'[d].count = 0]_vars
  BY <1>2
<1> QED BY <1>3, ClassInvAlways, PTL DEF RowsOnlyGrow, Spec

-----------------------------------------------------------------------------
(* Sums                                                                    *)

LEMMA SetInduction ==
  ASSUME NEW G, 0 \in G, \A n \in Nat : n \in G => n + 1 \in G
  PROVE  Nat \subseteq G
<1> SUFFICES ASSUME Nat \ G # {} PROVE FALSE
  OBVIOUS
<1>1. PICK n \in Nat \ G : \A m \in Nat \ G : ~(<<m, n>> \in OpToRel(<, Nat))
  BY NatLessThanWellFounded, WFMin
<1>2. n # 0 /\ n - 1 \in Nat /\ n - 1 < n
  OBVIOUS
<1>3. n - 1 \notin G
  <2>1. (n - 1) + 1 = n
    OBVIOUS
  <2> QED BY <1>2, <2>1
<1>4. <<n - 1, n>> \in OpToRel(<, Nat)
  BY <1>2 DEF OpToRel
<1> QED BY <1>1, <1>2, <1>3, <1>4

Pick(s) == CHOOSE x \in s : TRUE
Small(D, n) == {s \in SUBSET D : Cardinality(s) <= n}

\* sum is the recursion of MapThenSumSet for f on the sets of a family.
Adds(sum, f, family) ==
  sum = [s \in family |-> IF s = {} THEN 0 ELSE f[Pick(s)] + sum[s \ {Pick(s)}]]

LEMMA PickIn == \A s : s # {} => Pick(s) \in s
BY DEF Pick

LEMMA SmallLess ==
  ASSUME NEW D, IsFiniteSet(D), NEW n \in Nat, NEW s \in Small(D, n + 1), s # {}
  PROVE  s \ {Pick(s)} \in Small(D, n)
<1>1. s \in SUBSET D /\ Cardinality(s) <= n + 1 /\ IsFiniteSet(s)
  BY FS_Subset DEF Small
<1>2. Cardinality(s \ {Pick(s)}) = Cardinality(s) - 1 /\ Cardinality(s) \in Nat
  BY <1>1, PickIn, FS_RemoveElement, FS_CardinalityType
<1> QED BY <1>1, <1>2 DEF Small

LEMMA SmallNone ==
  ASSUME NEW D, IsFiniteSet(D), NEW s \in Small(D, 0)
  PROVE  s = {}
<1>1. IsFiniteSet(s) /\ Cardinality(s) <= 0
  BY FS_Subset DEF Small
<1>2. Cardinality(s) = 0
  BY <1>1, FS_CardinalityType
<1> QED BY <1>1, <1>2, FS_EmptySet

LEMMA SmallAll ==
  ASSUME NEW D, IsFiniteSet(D)
  PROVE  Cardinality(D) \in Nat /\ Small(D, Cardinality(D)) = SUBSET D
BY FS_CardinalityType, FS_Subset DEF Small

LEMMA PickInduction ==
  ASSUME NEW D, IsFiniteSet(D), NEW G, {} \in G,
         \A s \in SUBSET D : s # {} /\ s \ {Pick(s)} \in G => s \in G
  PROVE  SUBSET D \subseteq G
<1> DEFINE N == {n \in Nat : Small(D, n) \subseteq G}
<1>1. 0 \in N
  BY SmallNone
<1>2. ASSUME NEW n \in Nat, n \in N PROVE n + 1 \in N
  <2>1. ASSUME NEW s \in Small(D, n + 1) PROVE s \in G
    <3>1. s \in SUBSET D
      BY DEF Small
    <3>2. CASE s # {}
      BY <1>2, <3>1, <3>2, SmallLess
    <3> QED BY <3>2
  <2> QED BY <2>1
<1> HIDE DEF N
<1>3. Cardinality(D) \in N
  BY <1>1, <1>2, SmallAll, SetInduction
<1> QED BY <1>3, SmallAll DEF N

\* The recursion has a solution on every finite set.
LEMMA SumExists ==
  ASSUME NEW D, IsFiniteSet(D), NEW f \in [D -> Nat]
  PROVE  \E sum \in [SUBSET D -> Nat] : Adds(sum, f, SUBSET D)
<1> DEFINE G == {n \in Nat : \E sum \in [Small(D, n) -> Nat] : Adds(sum, f, Small(D, n))}
<1>1. 0 \in G
  <2>1. \A s \in Small(D, 0) : s = {}
    BY SmallNone
  <2> DEFINE sum == [s \in Small(D, 0) |-> 0]
  <2>2. sum \in [Small(D, 0) -> Nat]
    OBVIOUS
  <2>3. Adds(sum, f, Small(D, 0))
    BY <2>1 DEF Adds
  <2> QED BY <2>2, <2>3
<1>2. ASSUME NEW n \in Nat, n \in G PROVE n + 1 \in G
  <2>1. PICK g \in [Small(D, n) -> Nat] : Adds(g, f, Small(D, n))
    BY <1>2
  <2> DEFINE h == [s \in Small(D, n + 1) |-> IF s = {} THEN 0 ELSE f[Pick(s)] + g[s \ {Pick(s)}]]
  <2>2. ASSUME NEW s \in Small(D, n + 1), s # {}
        PROVE  /\ s \ {Pick(s)} \in Small(D, n) /\ f[Pick(s)] \in Nat
               /\ g[s \ {Pick(s)}] \in Nat
    <3>1. s \ {Pick(s)} \in Small(D, n)
      BY <2>2, SmallLess
    <3>2. Pick(s) \in D
      BY <2>2, PickIn DEF Small
    <3> QED BY <2>1, <3>1, <3>2
  <2>3. h \in [Small(D, n + 1) -> Nat]
    BY <2>2
  <2>4. Small(D, n) \subseteq Small(D, n + 1)
    <3>1. ASSUME NEW s \in Small(D, n) PROVE s \in Small(D, n + 1)
      <4>1. s \in SUBSET D /\ Cardinality(s) <= n /\ Cardinality(s) \in Nat
        BY FS_Subset, FS_CardinalityType DEF Small
      <4> QED BY <4>1 DEF Small
    <3> QED BY <3>1
  <2>5. ASSUME NEW s \in Small(D, n) PROVE h[s] = g[s]
    <3>1. g[s] = IF s = {} THEN 0 ELSE f[Pick(s)] + g[s \ {Pick(s)}]
      BY <2>1 DEF Adds
    <3> QED BY <2>4, <3>1
  <2>6. ASSUME NEW s \in Small(D, n + 1)
        PROVE  h[s] = IF s = {} THEN 0 ELSE f[Pick(s)] + h[s \ {Pick(s)}]
    BY <2>2, <2>5
  <2> HIDE DEF h
  <2>7. Adds(h, f, Small(D, n + 1))
    <3>1. h = [s \in Small(D, n + 1) |-> h[s]]
      BY <2>3
    <3> QED BY <2>6, <3>1 DEF Adds
  <2> QED BY <2>3, <2>7
<1> HIDE DEF G
<1>3. Cardinality(D) \in G
  BY <1>1, <1>2, SmallAll, SetInduction
<1> QED BY <1>3, SmallAll DEF G

LEMMA AddsType ==
  ASSUME NEW D, IsFiniteSet(D), NEW f \in [D -> Nat], NEW sum, Adds(sum, f, SUBSET D)
  PROVE  sum \in [SUBSET D -> Nat]
<1> DEFINE G == {s \in SUBSET D : sum[s] \in Nat}
<1>1. {} \in G
  BY DEF Adds
<1>2. ASSUME NEW s \in SUBSET D, s # {}, s \ {Pick(s)} \in G PROVE s \in G
  <2>1. Pick(s) \in D /\ s \ {Pick(s)} \in SUBSET D
    BY <1>2, PickIn
  <2>2. sum[s] = f[Pick(s)] + sum[s \ {Pick(s)}]
    BY <1>2 DEF Adds
  <2> QED BY <1>2, <2>1, <2>2
<1> HIDE DEF G
<1>3. SUBSET D \subseteq G
  BY <1>1, <1>2, PickInduction
<1> QED BY <1>3 DEF G, Adds


\* The sum of the counts of m over D, the way MacCpuRead and TotalIsSum have it.
SumOf(m, D) == MapThenSumSet(LAMBDA d : m[d].count, D)
CountsOf(m, D) == [d \in D |-> m[d].count]

LEMMA SumIs ==
  ASSUME NEW D, IsFiniteSet(D), NEW m, \A d \in D : m[d].count \in Nat
  PROVE  \E sum \in [SUBSET D -> Nat] :
           Adds(sum, CountsOf(m, D), SUBSET D) /\ SumOf(m, D) = sum[D]
<1> DEFINE same(sum) ==
             sum = [s \in SUBSET D |->
                     IF s = {} THEN 0 ELSE m[Pick(s)].count + sum[s \ {Pick(s)}]]
           it == CHOOSE sum : same(sum)
<1>1. SumOf(m, D) = it[D]
  BY DEF SumOf, MapThenSumSet, MapThenFoldSet, Pick
<1>2. CountsOf(m, D) \in [D -> Nat]
  BY DEF CountsOf
<1>3. \A s \in SUBSET D : s # {} => CountsOf(m, D)[Pick(s)] = m[Pick(s)].count
  BY PickIn DEF CountsOf
<1>4. \A sum : Adds(sum, CountsOf(m, D), SUBSET D) <=> same(sum)
  BY <1>3 DEF Adds
<1>5. \E sum : same(sum)
  <2> HIDE DEF same
  <2>1. PICK sum \in [SUBSET D -> Nat] : Adds(sum, CountsOf(m, D), SUBSET D)
    BY <1>2, SumExists
  <2> QED BY <1>4, <2>1
<1> HIDE DEF same
<1>6. same(it)
  BY <1>5
<1> HIDE DEF it
<1>7. Adds(it, CountsOf(m, D), SUBSET D) /\ it \in [SUBSET D -> Nat]
  BY <1>2, <1>4, <1>6, AddsType
<1> QED BY <1>1, <1>7

LEMMA ModRange == ASSUME NEW a \in Nat PROVE (a % Word) \in Counter
BY WordAssumption DEF Counter

LEMMA ModQuotient == ASSUME NEW a \in Nat PROVE \E q \in Nat : a = q * Word + (a % Word)
<1>1. a = (a \div Word) * Word + (a % Word) /\ a \div Word \in Nat
  BY WordAssumption
<1> QED BY <1>1

LEMMA ModUnique == ASSUME NEW q \in Int, NEW r \in Counter PROVE (q * Word + r) % Word = r
BY WordAssumption DEF Counter

LEMMA ModPlus == ASSUME NEW a \in Nat, NEW b \in Counter
  PROVE (a + b) % Word = Plus(a % Word, b)
<1>1. PICK q \in Nat : a = q * Word + (a % Word)
  BY ModQuotient
<1>2. (a % Word) \in Counter /\ (a % Word) \in Int /\ b \in Int
  BY ModRange DEF Counter
<1> DEFINE p == q * Word
<1>5. p \in Int /\ a = p + (a % Word)
  BY <1>1, WordAssumption
<1>3. CASE (a % Word) + b < Word
  <2>1. (a % Word) + b \in Counter
    BY <1>2, <1>3, WordAssumption DEF Counter
  <2>2. a + b = q * Word + ((a % Word) + b)
    <3> HIDE DEF p
    <3>1. a + b = p + ((a % Word) + b)
      BY <1>2, <1>5
    <3> QED BY <3>1 DEF p
  <2> QED BY <1>3, <2>1, <2>2, ModUnique DEF Plus
<1>4. CASE ~((a % Word) + b < Word)
  <2>1. (a % Word) + b - Word \in Counter
    BY <1>2, <1>4, WordAssumption DEF Counter
  <2>2. a + b = (q + 1) * Word + ((a % Word) + b - Word)
    <3>1. (q + 1) * Word = q * Word + Word
      BY WordAssumption
    <3> HIDE DEF p
    <3>2. a + b = p + Word + ((a % Word) + b - Word)
      BY <1>2, <1>5, WordAssumption
    <3> QED BY <3>1, <3>2 DEF p
  <2>3. q + 1 \in Int
    OBVIOUS
  <2> QED BY <1>4, <2>1, <2>2, <2>3, ModUnique DEF Plus
<1> QED BY <1>3, <1>4

\* Sums and differences of counters go together.
LEMMA MinusOfPlus ==
  ASSUME NEW a \in Counter, NEW b \in Counter, NEW x \in Counter, NEW y \in Counter
  PROVE  Plus(Minus(a, b), Minus(x, y)) = Minus(Plus(a, x), Plus(b, y))
BY WordAssumption DEF Counter, Plus, Minus

LEMMA SumsSubtract ==
  ASSUME NEW D, IsFiniteSet(D), NEW f, NEW g, NEW h,
         \A d \in D : /\ f[d].count \in Counter /\ g[d].count \in Counter
                      /\ h[d].count = Minus(f[d].count, g[d].count)
  PROVE  SumOf(h, D) % Word = Minus(SumOf(f, D) % Word, SumOf(g, D) % Word)
<1>1. \A a, b \in Counter : Minus(a, b) \in Counter
  BY WordAssumption DEF Counter, Minus
<1>2. /\ \A d \in D : /\ f[d].count \in Nat /\ g[d].count \in Nat
                      /\ h[d].count \in Nat /\ h[d].count \in Counter
      /\ Counter \subseteq Nat
  BY <1>1, WordAssumption DEF Counter
<1>3. PICK sf \in [SUBSET D -> Nat] : Adds(sf, CountsOf(f, D), SUBSET D) /\ SumOf(f, D) = sf[D]
  BY <1>2, SumIs
<1>4. PICK sg \in [SUBSET D -> Nat] : Adds(sg, CountsOf(g, D), SUBSET D) /\ SumOf(g, D) = sg[D]
  BY <1>2, SumIs
<1>5. PICK sh \in [SUBSET D -> Nat] : Adds(sh, CountsOf(h, D), SUBSET D) /\ SumOf(h, D) = sh[D]
  BY <1>2, SumIs
<1> DEFINE G == {s \in SUBSET D : sh[s] % Word = Minus(sf[s] % Word, sg[s] % Word)}
<1>6. {} \in G
  <2>1. sf[{}] = 0 /\ sg[{}] = 0 /\ sh[{}] = 0
    BY <1>3, <1>4, <1>5 DEF Adds
  <2>2. 0 % Word = 0 /\ Minus(0, 0) = 0
    BY WordAssumption DEF Minus
  <2> QED BY <2>1, <2>2
<1>7. ASSUME NEW s \in SUBSET D, s # {}, s \ {Pick(s)} \in G PROVE s \in G
  <2> DEFINE t == s \ {Pick(s)}
             p == Pick(s)
  <2>1. p \in D /\ t \in SUBSET D
    BY <1>7, PickIn
  <2>2. /\ sf[s] = CountsOf(f, D)[p] + sf[t] /\ sg[s] = CountsOf(g, D)[p] + sg[t]
        /\ sh[s] = CountsOf(h, D)[p] + sh[t]
    BY <1>3, <1>4, <1>5, <1>7 DEF Adds
  <2>3. sh[t] % Word = Minus(sf[t] % Word, sg[t] % Word)
    BY <1>7
  <2> HIDE DEF t, p
  <2>4. /\ sf[s] = sf[t] + f[p].count /\ sg[s] = sg[t] + g[p].count
        /\ sh[s] = sh[t] + h[p].count
        /\ sf[t] \in Nat /\ sg[t] \in Nat /\ sh[t] \in Nat
    BY <1>2, <2>1, <2>2 DEF CountsOf
  <2>5. /\ sf[s] % Word = Plus(sf[t] % Word, f[p].count)
        /\ sg[s] % Word = Plus(sg[t] % Word, g[p].count)
        /\ sh[s] % Word = Plus(sh[t] % Word, h[p].count)
    BY <1>2, <2>1, <2>4, ModPlus
  <2>6. (sf[t] % Word) \in Counter /\ (sg[t] % Word) \in Counter
    BY <2>4, ModRange
  <2>7. /\ f[p].count \in Counter /\ g[p].count \in Counter
        /\ h[p].count = Minus(f[p].count, g[p].count)
    BY <2>1
  <2>8. sh[s] % Word = Minus(sf[s] % Word, sg[s] % Word)
    <3>1. Plus(Minus(sf[t] % Word, sg[t] % Word), Minus(f[p].count, g[p].count)) =
            Minus(Plus(sf[t] % Word, f[p].count), Plus(sg[t] % Word, g[p].count))
      BY <2>6, <2>7, MinusOfPlus
    <3> QED BY <2>3, <2>5, <2>7, <3>1, Zenon
  <2> QED BY <2>8
<1> HIDE DEF G
<1>8. D \in G
  BY <1>6, <1>7, PickInduction
<1> QED BY <1>3, <1>4, <1>5, <1>8 DEF G

\* A sum depends on the counts alone.
LEMMA SameSum ==
  ASSUME NEW D, IsFiniteSet(D), NEW f, NEW g,
         \A d \in D : f[d].count \in Nat /\ g[d].count = f[d].count
  PROVE  SumOf(g, D) = SumOf(f, D)
<1>1. CountsOf(f, D) = CountsOf(g, D)
  BY DEF CountsOf
<1>2. PICK sf \in [SUBSET D -> Nat] : Adds(sf, CountsOf(f, D), SUBSET D) /\ SumOf(f, D) = sf[D]
  BY SumIs
<1>3. PICK sg \in [SUBSET D -> Nat] : Adds(sg, CountsOf(f, D), SUBSET D) /\ SumOf(g, D) = sg[D]
  BY <1>1, SumIs
<1> DEFINE G == {s \in SUBSET D : sf[s] = sg[s]}
<1>4. {} \in G
  BY <1>2, <1>3 DEF Adds
<1>5. ASSUME NEW s \in SUBSET D, s # {}, s \ {Pick(s)} \in G PROVE s \in G
  <2>1. sf[s] = CountsOf(f, D)[Pick(s)] + sf[s \ {Pick(s)}]
    BY <1>2, <1>5 DEF Adds
  <2>2. sg[s] = CountsOf(f, D)[Pick(s)] + sg[s \ {Pick(s)}]
    BY <1>3, <1>5 DEF Adds
  <2>3. sf[s \ {Pick(s)}] = sg[s \ {Pick(s)}]
    BY <1>5
  <2> QED BY <2>1, <2>2, <2>3
<1> HIDE DEF G
<1>6. D \in G
  BY <1>4, <1>5, PickInduction
<1> QED BY <1>2, <1>3, <1>6 DEF G

-----------------------------------------------------------------------------
(* The types                                                               *)

\* A map of the class: names of devices, or the total, and entries with no
\* field but the class's.
EntryMap(m) ==
  /\ DOMAIN m \subseteq Names
  /\ \A d \in DOMAIN m :
       /\ DOMAIN m[d] \subseteq Fields
       /\ "count" \in DOMAIN m[d] => m[d].count \in Counter

MapsType == EntryMap(last) /\ EntryMap(current) /\ EntryMap(delta)

BoundsType ==
  /\ drives \subseteq Devices
  /\ room \in {Unasked, Failed} \cup 0 .. Cardinality(Devices)
  /\ steady \subseteq seen /\ seen \subseteq Devices

LEMMA CopiedFields ==
  ASSUME class \in Classes
  PROVE  Copied[class] \subseteq Fields \cup {"driver"} /\ Diffed[class] \subseteq Fields
BY DEF Classes, Sampled, Copied, Diffed, Fields, LinuxCpuCopied, LinuxDiskCopied,
       LinuxNetCopied, MacCpuCopied, MacDiskCopied, MacNetCopied, LinuxCpuDiffed,
       LinuxDiskDiffed, LinuxNetDiffed, MacCpuDiffed, MacDiskDiffed, MacNetDiffed

LEMMA MergeType ==
  ASSUME NEW dst, NEW src, NEW F, EntryMap(dst), EntryMap(src)
  PROVE  EntryMap(Merge(dst, src, F))
<1>0. DOMAIN Merge(dst, src, F) = DOMAIN dst \cup DOMAIN src
  BY MergeDomain
<1>1. DOMAIN Merge(dst, src, F) \subseteq Names
  BY <1>0 DEF EntryMap
<1>2. ASSUME NEW d \in DOMAIN Merge(dst, src, F)
      PROVE  /\ DOMAIN Merge(dst, src, F)[d] \subseteq Fields
             /\ "count" \in DOMAIN Merge(dst, src, F)[d] =>
                  Merge(dst, src, F)[d].count \in Counter
  <2>1. CASE d \notin DOMAIN src
    <3>1. d \in DOMAIN dst
      BY <1>0, <2>1
    <3> QED BY <2>1, <3>1, MergeOld DEF EntryMap
  <2>2. CASE d \in DOMAIN src
    <3>1. PICK e : /\ Merge(dst, src, F)[d] = Assign(e, src[d], F)
                   /\ e = IF d \in DOMAIN dst THEN dst[d] ELSE Empty
      BY <2>2 DEF Merge
    <3>2. DOMAIN e \subseteq Fields /\ ("count" \in DOMAIN e => e["count"] \in Counter)
      BY <3>1 DEF EntryMap, Empty
    <3>3. /\ DOMAIN src[d] \subseteq Fields
          /\ "count" \in DOMAIN src[d] => src[d]["count"] \in Counter
      BY <2>2 DEF EntryMap
    <3> DEFINE a == Assign(e, src[d], F)
    <3>4. DOMAIN a = (DOMAIN e \ F) \cup (DOMAIN src[d] \cap F)
      BY DEF Assign
    <3>5. ASSUME NEW f \in DOMAIN a PROVE a[f] = IF f \in F THEN src[d][f] ELSE e[f]
      BY DEF Assign
    <3> HIDE DEF a
    <3>6. DOMAIN a \subseteq Fields /\ ("count" \in DOMAIN a => a["count"] \in Counter)
      BY <3>2, <3>3, <3>4, <3>5
    <3> QED BY <3>1, <3>6 DEF a
  <2> QED BY <2>1, <2>2
<1> QED BY <1>1, <1>2 DEF EntryMap

LEMMA DiffType ==
  ASSUME class \in Classes, NEW e, NEW newer, NEW older,
         DOMAIN e \subseteq Fields, "count" \in DOMAIN e => e.count \in Counter,
         "count" \in DOMAIN newer => newer.count \in Counter,
         "count" \in DOMAIN older => older.count \in Counter
  PROVE  /\ DOMAIN Diff(e, newer, older) \subseteq Fields
         /\ "count" \in DOMAIN Diff(e, newer, older) => Diff(e, newer, older).count \in Counter
<1> DEFINE s == [f \in DOMAIN newer \cap DOMAIN older \cap Diffed[class]
                   |-> Minus(newer[f], older[f])]
           a == Assign(e, s, Diffed[class])
<1>1. Diff(e, newer, older) = a
  BY DEF Diff
<1>2. /\ DOMAIN s = DOMAIN newer \cap DOMAIN older \cap Diffed[class]
      /\ \A f \in DOMAIN s : s[f] = Minus(newer[f], older[f])
  OBVIOUS
<1> HIDE DEF s
<1>3. DOMAIN a = (DOMAIN e \ Diffed[class]) \cup (DOMAIN s \cap Diffed[class])
  BY DEF Assign
<1>4. \A f \in DOMAIN a : a[f] = IF f \in Diffed[class] THEN s[f] ELSE e[f]
  BY DEF Assign
<1> HIDE DEF a
<1>5. DOMAIN a \subseteq Fields
  BY <1>2, <1>3, CopiedFields
<1>6. "count" \in DOMAIN s => s["count"] \in Counter
  <2>1. \A x, y \in Counter : Minus(x, y) \in Counter
    BY WordAssumption DEF Counter, Minus
  <2> QED BY <1>2, <2>1
<1>7. "count" \in DOMAIN a => a["count"] \in Counter
  BY <1>3, <1>4, <1>6
<1> QED BY <1>1, <1>5, <1>7

\* A file is a map of finitely many counters, and the sum of all is a number.
LEMMA FileSum ==
  ASSUME FileType
  PROVE  SumOf(file, DOMAIN file) \in Nat /\ IsFiniteSet(DOMAIN file)
<1>1. IsFiniteSet(DOMAIN file)
  BY NamesAssumption, FS_Subset DEF FileType
<1>2. \A d \in DOMAIN file : file[d].count \in Nat
  BY WordAssumption DEF FileType, Counter
<1>3. PICK sum \in [SUBSET (DOMAIN file) -> Nat] :
        /\ Adds(sum, CountsOf(file, DOMAIN file), SUBSET (DOMAIN file))
        /\ SumOf(file, DOMAIN file) = sum[DOMAIN file]
  BY <1>1, <1>2, SumIs
<1> QED BY <1>1, <1>3

LEMMA CpuLines ==
  ASSUME FileType, class = "mac_cpu"
  PROVE  /\ DOMAIN Lines(class) = DOMAIN file \cup {Total}
         /\ \A d \in DOMAIN file \cup {Total} : DOMAIN Lines(class)[d] = {"count"}
         /\ \A d \in DOMAIN file : Lines(class)[d].count = file[d].count
         /\ Lines(class)[Total].count = SumOf(file, DOMAIN file) % Word
<1>1. Lines(class) = [d \in DOMAIN file \cup {Total} |->
        [count |-> IF d = Total THEN SumOf(file, DOMAIN file) % Word ELSE file[d].count]]
  BY DEF Lines, MacCpuRead, SumOf
<1>2. Total \notin DOMAIN file
  BY TickAssumption DEF FileType
<1> QED BY <1>1, <1>2

LEMMA LinesType ==
  ASSUME FileType
  PROVE  EntryMap(Lines(class))
<1>1. \A d \in DOMAIN file : d \in Names /\ file[d].count \in Counter
  BY DEF FileType, Names
<1>2. CASE class = "linux_cpu"
  <2>1. Lines(class) = LinuxCpuRead(file)
    BY <1>2 DEF Lines
  <2> QED BY <1>1, <2>1 DEF LinuxCpuRead, EntryMap, Fields
<1>3. CASE class = "linux_disk"
  <2>1. Lines(class) = LinuxDiskRead(file)
    BY <1>3 DEF Lines
  <2> QED BY <1>1, <2>1 DEF LinuxDiskRead, EntryMap, Fields
<1>4. CASE class = "linux_net"
  <2>1. Lines(class) = LinuxNetRead(file)
    BY <1>4 DEF Lines
  <2> QED BY <1>1, <2>1 DEF LinuxNetRead, EntryMap, Fields
<1>5. CASE class = "mac_cpu"
  <2>1. (SumOf(file, DOMAIN file) % Word) \in Counter
    BY FileSum, ModRange
  <2> QED BY <1>1, <1>5, <2>1, CpuLines DEF EntryMap, Names, Fields
<1>6. CASE class = "mac_disk"
  <2>1. Lines(class) = MacDiskRead(file, drives')
    BY <1>6 DEF Lines
  <2> QED BY <1>1, <2>1, ZeroCounter DEF MacDiskRead, EntryMap, Fields
<1>7. CASE class = "mac_net"
  <2>1. Lines(class) = MacNetRead(file)
    BY <1>7 DEF Lines
  <2> QED BY <1>1, <2>1 DEF MacNetRead, EntryMap, Fields
<1> QED BY <1>2, <1>3, <1>4, <1>5, <1>6, <1>7 DEF FileType, Classes, Sampled

LEMMA MapsStep == FileType /\ MapsType /\ [Next]_vars => MapsType'
<1> SUFFICES ASSUME FileType, MapsType, [Next]_vars PROVE MapsType'
  OBVIOUS
<1>1. CASE UNCHANGED maps
  BY <1>1 DEF maps, MapsType, EntryMap
<1>2. ASSUME Construct \/ Update PROVE EntryMap(current') /\ EntryMap(last')
  <2>1. current' = Merge(current, Lines(class), Fields)
    BY <1>2 DEF Construct, Update, Read
  <2>2. EntryMap(current')
    BY <2>1, LinesType, MergeType DEF MapsType
  <2>3. \/ last' = Merge(last, current', Copied[class])
        \/ last' = Merge(last, current, Copied[class])
    BY <1>2 DEF Construct, Update, Copy
  <2> QED BY <2>2, <2>3, MergeType DEF MapsType
<1>3. CASE Construct
  <2>1. delta' = Merge(delta, current', Copied[class])
    BY <1>3 DEF Construct, Copy
  <2>2. EntryMap(delta')
    BY <1>2, <1>3, <2>1, MergeType DEF MapsType
  <2> QED BY <1>2, <1>3, <2>2 DEF MapsType, EntryMap
<1>4. CASE Update
  <2>1. EntryMap(delta')
    <3>1. CASE delta' = delta
      BY <3>1 DEF MapsType
    <3>2. CASE /\ DOMAIN delta \subseteq DOMAIN current' \cap DOMAIN last'
               /\ delta' = [d \in DOMAIN delta |-> Diff(delta[d], current'[d], last'[d])]
      <4>1. ASSUME NEW d \in DOMAIN delta
            PROVE  /\ DOMAIN delta'[d] \subseteq Fields
                   /\ "count" \in DOMAIN delta'[d] => delta'[d].count \in Counter
        BY <1>2, <1>4, <3>2, DiffType DEF MapsType, EntryMap, FileType
      <4> QED BY <3>2, <4>1 DEF EntryMap, MapsType
    <3> QED BY <1>4, <3>1, <3>2 DEF Update
  <2> QED BY <1>2, <1>4, <2>1 DEF MapsType, EntryMap
<1>5. CASE Ask \/ Outgrown
  BY <1>1, <1>5 DEF Ask, Outgrown
<1>6. CASE Kernel
  BY <1>1, <1>6, KernelKeeps DEF Kernel, maps
<1>7. CASE UNCHANGED vars
  BY <1>1, <1>7 DEF vars, maps
<1> QED BY <1>3, <1>4, <1>5, <1>6, <1>7 DEF Next

LEMMA BoundsStep == FileType /\ BoundsType /\ [Next]_vars => BoundsType'
<1> SUFFICES ASSUME FileType, BoundsType, [Next]_vars PROVE BoundsType'
  OBVIOUS
<1>1. Cardinality(DOMAIN file) \in 0 .. Cardinality(Devices)
  <2>1. /\ Cardinality(DOMAIN file) <= Cardinality(Devices)
        /\ Cardinality(DOMAIN file) \in Nat /\ Cardinality(Devices) \in Nat
    BY NamesAssumption, FS_Subset, FS_CardinalityType DEF FileType
  <2> QED BY <2>1
<1>2. CASE Ask
  BY <1>1, <1>2 DEF Ask, BoundsType
<1>3. CASE Outgrown
  BY <1>3 DEF Outgrown, BoundsType
<1>4. CASE Construct
  BY <1>4 DEF Construct, Note, BoundsType, FileType
<1>5. CASE Update
  BY <1>5 DEF Update, Note, BoundsType, FileType
<1>6. ASSUME NEW d \in Devices, Count(d) \/ Leave(d) \/ Appear(d) \/ Switch(d)
      PROVE  BoundsType'
  <2>1. steady' \subseteq steady
    BY <1>6 DEF Count, Leave, Appear, Switch
  <2> QED BY <1>6, <2>1, KernelKeeps DEF BoundsType
<1>7. CASE UNCHANGED vars
  BY <1>7 DEF vars, BoundsType
<1> QED BY <1>2, <1>3, <1>4, <1>5, <1>6, <1>7 DEF Next, Kernel

LEMMA TypesAlways == Spec => [](MapsType /\ BoundsType)
<1>1. Init => MapsType /\ BoundsType
  BY DEF Init, MapsType, EntryMap, BoundsType, Empty
<1>2. ClassInv => FileType
  BY DEF ClassInv
<1> QED BY <1>1, <1>2, MapsStep, BoundsStep, ClassInvAlways, PTL DEF Spec

\* Every variable has its type, and an entry has no field but its class's.
THEOREM ClassesType == Spec => []TypeOK
<1>1. ClassInv /\ MapsType /\ BoundsType => TypeOK
  BY DEF ClassInv, FileType, NamesKept, MapsType, EntryMap, BoundsType, TypeOK
<1> QED BY <1>1, ClassInvAlways, TypesAlways, PTL

-----------------------------------------------------------------------------
(* The line of all cores                                                   *)

Cores == Devices \cup {Total}

\* The entry Total of m is the sum of the others.
Summed(m) ==
  /\ Cores \subseteq DOMAIN m
  /\ \A d \in Cores : m[d].count \in Counter
  /\ m[Total].count = SumOf(m, Devices) % Word

Totalled ==
  class = "mac_cpu" =>
    /\ DOMAIN file = Devices
    /\ pc # "read" => Summed(current) /\ Cores \subseteq DOMAIN delta
    /\ pc = "running" => delta[Total].count = SumOf(delta, Devices) % Word

LEMMA CounterIsNat == Counter \subseteq Nat
BY WordAssumption DEF Counter

\* read takes the counters of all cores, and their sum.
LEMMA ReadSums ==
  ASSUME FileType, Totalled, class = "mac_cpu", current' = Read(current)
  PROVE  Summed(current')
<1>1. DOMAIN file = Devices
  BY DEF Totalled
<1>2. \A d \in Cores : d \in DOMAIN Lines(class) /\ DOMAIN Lines(class)[d] = {"count"}
  BY <1>1, CpuLines DEF Cores
<1>3. Cores \subseteq DOMAIN current'
  <2>1. DOMAIN current' = DOMAIN current \cup DOMAIN Lines(class)
    BY ReadDomain
  <2> QED BY <1>2, <2>1
<1>4. ASSUME NEW d \in Cores PROVE current'[d].count = Lines(class)[d].count
  <2>1. "count" \in DOMAIN Lines(class)[d] \cap Fields
    BY <1>2 DEF Fields
  <2>2. Merge(current, Lines(class), Fields)[d]["count"] = Lines(class)[d]["count"]
    BY <1>2, <2>1, MergeField
  <2> QED BY <2>2 DEF Read
<1>5. \A d \in Devices : current'[d].count = file[d].count /\ file[d].count \in Counter
  BY <1>1, <1>4, CpuLines DEF Cores, FileType
<1>6. SumOf(current', Devices) = SumOf(file, Devices)
  BY <1>5, CounterIsNat, NamesAssumption, SameSum
<1>7. current'[Total].count = SumOf(file, Devices) % Word
  BY <1>1, <1>4, CpuLines DEF Cores
<1>8. (SumOf(file, Devices) % Word) \in Counter
  BY <1>1, FileSum, ModRange
<1> QED BY <1>3, <1>5, <1>6, <1>7, <1>8 DEF Summed, Cores

LEMMA UpdateSums ==
  ASSUME ClassInv, Totalled, class = "mac_cpu", Update
  PROVE  Totalled'
<1> USE DEF ClassInv
<1>1. /\ pc \in {"update", "running"} /\ class' = class /\ file' = file
      /\ current' = Read(current) /\ last' = Copy(last, current)
  BY DEF Update
<1>2. Summed(current) /\ Summed(current') /\ Cores \subseteq DOMAIN delta
  BY <1>1, ReadSums DEF Totalled
<1>3. DOMAIN delta \subseteq DOMAIN current /\ DOMAIN current \subseteq DOMAIN current'
      /\ DOMAIN current \subseteq DOMAIN last'
  <2>1. DOMAIN current' = DOMAIN current \cup DOMAIN Lines(class)
    BY <1>1, ReadDomain
  <2>2. DOMAIN last' = DOMAIN last \cup DOMAIN current
    BY <1>1, CopyDomain
  <2> QED BY <2>1, <2>2 DEF NamesKept
<1>4. delta' = [e \in DOMAIN delta |-> Diff(delta[e], current'[e], last'[e])]
  BY <1>3 DEF Update
<1>5. ASSUME NEW d \in Cores
      PROVE  delta'[d].count = Minus(current'[d].count, current[d].count)
  <2>1. d \in DOMAIN delta /\ d \in DOMAIN current /\ d \in DOMAIN current'
    BY <1>2, <1>3
  <2>2. UsedOfDelta[class] \subseteq DOMAIN last'[d] /\ last'[d].count = current[d].count
    BY <1>1, <2>1, CopyFields DEF FieldsKept
  <2>3. UsedOfDelta[class] \subseteq DOMAIN current'[d]
    BY <1>1, <2>1, ReadFields
  <2>4. UsedOfDelta[class] \subseteq DOMAIN delta[d]
    BY <2>1 DEF FieldsKept
  <2>5. Diff(delta[d], current'[d], last'[d]).count = Minus(current'[d].count, last'[d].count)
    BY <2>2, <2>3, <2>4, DiffFields
  <2> QED BY <1>4, <2>1, <2>2, <2>5
<1>6. SumOf(delta', Devices) % Word
        = Minus(SumOf(current', Devices) % Word, SumOf(current, Devices) % Word)
  BY <1>2, <1>5, NamesAssumption, SumsSubtract DEF Summed, Cores
<1>7. delta'[Total].count = Minus(current'[Total].count, current[Total].count)
  BY <1>5 DEF Cores
<1>8. delta'[Total].count = SumOf(delta', Devices) % Word
  BY <1>2, <1>6, <1>7 DEF Summed
<1>9. Cores \subseteq DOMAIN delta'
  BY <1>2, <1>4
<1> QED BY <1>1, <1>2, <1>8, <1>9 DEF Totalled

LEMMA TotalledStep == ClassInv /\ Totalled /\ [Next]_vars => Totalled'
<1> SUFFICES ASSUME ClassInv, Totalled, [Next]_vars, class' = "mac_cpu" PROVE Totalled'
  BY DEF Totalled
<1>0. class = "mac_cpu"
  BY KernelKeeps DEF Next, Ask, Outgrown, Construct, Update, Kernel, vars
<1>1. ASSUME DOMAIN file' = DOMAIN file, UNCHANGED <<current, delta, pc>>
      PROVE  Totalled'
  BY <1>0, <1>1 DEF Totalled
<1>2. CASE Ask \/ Outgrown
  BY <1>0, <1>2 DEF Ask, Outgrown
<1>3. CASE Construct
  <2>1. /\ file' = file /\ pc' = "update"
        /\ current' = Read(current) /\ delta' = Copy(delta, current')
    BY <1>3 DEF Construct
  <2>2. Summed(current')
    BY <1>0, <2>1, ReadSums DEF ClassInv
  <2>3. DOMAIN delta' = DOMAIN delta \cup DOMAIN current'
    BY <2>1, CopyDomain
  <2>4. Cores \subseteq DOMAIN delta'
    BY <2>2, <2>3 DEF Summed
  <2> QED BY <1>0, <2>1, <2>2, <2>4 DEF Totalled
<1>4. CASE Update
  BY <1>0, <1>4, UpdateSums
<1>5. ASSUME NEW d \in Devices, Count(d) PROVE Totalled'
  <2>1. DOMAIN file' = DOMAIN file
    BY <1>5 DEF Count
  <2> QED BY <1>1, <1>5, <2>1, KernelKeeps
<1>6. ASSUME NEW d \in Devices, Leave(d) \/ Appear(d) \/ Switch(d) PROVE FALSE
  BY <1>0, <1>6 DEF Leave, Appear, Switch, Sampled
<1>7. CASE UNCHANGED vars
  BY <1>1, <1>7 DEF vars
<1> QED BY <1>2, <1>3, <1>4, <1>5, <1>6, <1>7 DEF Next, Kernel

\* The line CPU of MacOS is the sum of the lines of the cores, for any number
\* of cores, also after a counter or the sum of them wrapped.
THEOREM TotalIsTheSum == Spec => []TotalIsSum
<1>1. Init => Totalled
  BY DEF Init, Totalled
<1>2. Totalled => TotalIsSum
  BY DEF Totalled, TotalIsSum, SumOf
<1> QED BY <1>1, <1>2, TotalledStep, ClassInvAlways, PTL DEF Spec

-----------------------------------------------------------------------------
(* The abstraction                                                         *)

LEMMA CountsDef ==
  ASSUME NEW m
  PROVE  DOMAIN Counts(m) = DOMAIN m \ Hidden /\ \A d \in DOMAIN m \ Hidden : Counts(m)[d] = m[d].count
BY DEF Counts

\* copy of a class does to the counters what that of Sampler does.
LEMMA CountsCopy ==
  ASSUME FileType, NEW dst, NEW src,
         \A d \in DOMAIN src : UsedOfDelta[class] \subseteq DOMAIN src[d]
  PROVE  Counts(Copy(dst, src)) = S!Copy(Counts(dst), Counts(src))
<1>1. DOMAIN Copy(dst, src) = DOMAIN dst \cup DOMAIN src
  BY CopyDomain
<1>2. ASSUME NEW d \in DOMAIN src PROVE Copy(dst, src)[d].count = src[d].count
  BY CopyFields
<1>3. ASSUME NEW d \in DOMAIN dst \ DOMAIN src PROVE Copy(dst, src)[d] = dst[d]
  BY MergeOld DEF Copy
<1> QED BY <1>1, <1>2, <1>3 DEF Counts, S!Copy

\* So does read, but for the names a filter of read or of print refuses.
LEMMA CountsRead ==
  ASSUME FileType, class \in Sampled, NEW m
  PROVE  Counts(Read(m)) = S!Copy(Counts(m), Counts(file))
<1>1. DOMAIN Read(m) = DOMAIN m \cup DOMAIN Lines(class)
  BY ReadDomain
<1>2. DOMAIN Lines(class) \ Hidden = DOMAIN file \ Hidden
  BY LinesNames DEF Sampled
<1>3. ASSUME NEW d \in DOMAIN file \ Hidden PROVE Read(m)[d].count = file[d].count
  <2>1. d \in DOMAIN Lines(class) \cap Devices
    BY <1>2, <1>3 DEF FileType
  <2>2. Lines(class)[d].count = file[d].count
    BY <2>1, LinesOfClass DEF Sampled
  <2>3. "count" \in DOMAIN Lines(class)[d] \cap Fields
    BY <2>1, LinesOfClass, UsedAreCopied DEF FileType
  <2>4. Merge(m, Lines(class), Fields)[d]["count"] = Lines(class)[d]["count"]
    BY <2>1, <2>3, MergeField
  <2> QED BY <2>2, <2>4 DEF Read
<1>4. ASSUME NEW d \in (DOMAIN m \ Hidden) \ DOMAIN file PROVE Read(m)[d] = m[d]
  BY <1>2, <1>4, MergeOld DEF Read
<1> QED BY <1>1, <1>2, <1>3, <1>4 DEF Counts, S!Copy

LEMMA InitSamples == Init => S!Init
<1> SUFFICES ASSUME Init PROVE S!Init
  OBVIOUS
<1>1. FileType
  BY InitFile
<1>2. Counts(Empty) = Empty
  BY DEF Counts, Empty
<1>3. /\ last = Empty /\ current = Empty /\ delta = Empty /\ pc = "read"
      /\ moved = Still /\ seen = {}
  BY DEF Init
<1>4. Counts(file) \in UNION {[D -> Counter] : D \in SUBSET (Devices \ Hidden)}
  <2>1. DOMAIN file \ Hidden \in SUBSET (Devices \ Hidden)
    BY <1>1 DEF FileType
  <2>2. Counts(file) \in [DOMAIN file \ Hidden -> Counter]
    BY <1>1 DEF FileType, Counts
  <2> QED BY <2>1, <2>2
<1>5. Empty \in UNION {[D -> Counter] : D \in SUBSET (Devices \ Hidden)}
  BY DEF Empty
<1>6. [d \in Devices \ Hidden |-> moved[d]] = [d \in Devices \ Hidden |-> 0]
  BY <1>3 DEF Still
<1> QED BY <1>2, <1>3, <1>4, <1>5, <1>6
    DEF S!Init, S!Maps, S!Counter, Counter, S!Empty, Empty, S!Still

\* A step of a class of MacOS with a map of its own does not show.
LEMMA OthersStutter ==
  ASSUME [Next]_vars, class \notin Sampled
  PROVE  UNCHANGED S!vars
<1>1. class' = class
  BY KernelKeeps DEF Next, Ask, Outgrown, Construct, Update, Kernel, vars
<1> QED BY <1>1 DEF S!vars, Real

LEMMA ReadGhosts ==
  ASSUME FileType, Note
  PROVE  /\ [d \in Devices \ Hidden |-> moved'[d]] = [d \in Devices \ Hidden |-> 0]
         /\ seen' \ Hidden = DOMAIN Counts(file)
BY DEF Note, Still, Counts

LEMMA ConstructSamples ==
  ASSUME ClassInv, Construct, class \in Sampled
  PROVE  S!Construct
<1> USE DEF ClassInv
<1>1. /\ pc = "read" /\ pc' = "update" /\ Note /\ class' = class /\ file' = file
      /\ current' = Read(current) /\ last' = Copy(last, current')
      /\ delta' = Copy(delta, current')
  BY DEF Construct
<1>2. Real /\ Real'
  BY <1>1 DEF Real
<1>3. \A d \in DOMAIN current' : UsedOfDelta[class] \subseteq DOMAIN current'[d]
  BY <1>1, ReadFields
<1>4. Counts(current') = S!Copy(Counts(current), Counts(file))
  BY <1>1, CountsRead
<1>5. Counts(last') = S!Copy(Counts(last), Counts(current'))
  BY <1>1, <1>3, CountsCopy
<1>6. Counts(delta') = S!Copy(Counts(delta), Counts(current'))
  BY <1>1, <1>3, CountsCopy
<1>7. /\ [d \in Devices \ Hidden |-> moved'[d]] = [d \in Devices \ Hidden |-> 0]
      /\ seen' \ Hidden = DOMAIN Counts(file)
  BY <1>1, ReadGhosts
<1> QED BY <1>1, <1>2, <1>4, <1>5, <1>6, <1>7 DEF S!Construct, S!Read, S!Still

LEMMA UpdateSamples ==
  ASSUME ClassInv, Update, class \in Sampled
  PROVE  S!Update
<1> USE DEF ClassInv
<1>1. /\ pc \in {"update", "running"} /\ Note /\ class' = class /\ file' = file
      /\ current' = Read(current) /\ last' = Copy(last, current)
  BY DEF Update
<1>2. Real /\ Real'
  BY <1>1 DEF Real
<1>3. \A d \in DOMAIN current' : UsedOfDelta[class] \subseteq DOMAIN current'[d]
  BY <1>1, ReadFields
<1>4. Counts(current') = S!Copy(Counts(current), Counts(file))
  BY <1>1, CountsRead
<1>5. Counts(last') = S!Copy(Counts(last), Counts(current))
  BY <1>1, CountsCopy DEF FieldsKept
<1>6. DOMAIN delta \subseteq DOMAIN current /\ DOMAIN current \subseteq DOMAIN current'
      /\ DOMAIN current \subseteq DOMAIN last'
  <2>1. DOMAIN current' = DOMAIN current \cup DOMAIN Lines(class)
    BY <1>1, ReadDomain
  <2>2. DOMAIN last' = DOMAIN last \cup DOMAIN current
    BY <1>1, CopyDomain
  <2> QED BY <2>1, <2>2 DEF NamesKept
<1>7. /\ delta' = [e \in DOMAIN delta |-> Diff(delta[e], current'[e], last'[e])]
      /\ pc' = "running"
  BY <1>6 DEF Update
<1>8. ASSUME NEW d \in DOMAIN delta
      PROVE  delta'[d].count = Minus(current'[d].count, last'[d].count)
  <2>1. UsedOfDelta[class] \subseteq DOMAIN last'[d]
    BY <1>1, <1>6, CopyFields DEF FieldsKept
  <2>2. UsedOfDelta[class] \subseteq DOMAIN current'[d]
    BY <1>3, <1>6
  <2>3. UsedOfDelta[class] \subseteq DOMAIN delta[d]
    BY DEF FieldsKept
  <2>4. Diff(delta[d], current'[d], last'[d]).count = Minus(current'[d].count, last'[d].count)
    BY <2>1, <2>2, <2>3, DiffFields
  <2> QED BY <1>7, <2>4
<1>9. Counts(delta') = [d \in DOMAIN Counts(delta) |-> Minus(Counts(current')[d], Counts(last')[d])]
  <2>1. DOMAIN Counts(delta') = DOMAIN delta \ Hidden /\ DOMAIN Counts(delta) = DOMAIN delta \ Hidden
    BY <1>7, CountsDef
  <2>2. ASSUME NEW d \in DOMAIN delta \ Hidden
        PROVE  Counts(delta')[d] = Minus(Counts(current')[d], Counts(last')[d])
    <3>1. d \in DOMAIN delta' /\ d \in DOMAIN current' /\ d \in DOMAIN last' /\ d \notin Hidden
      BY <1>6, <1>7
    <3>2. /\ Counts(delta')[d] = delta'[d].count /\ Counts(current')[d] = current'[d].count
          /\ Counts(last')[d] = last'[d].count
      BY <3>1, CountsDef
    <3> QED BY <1>8, <3>2
  <2>3. Counts(delta') = [d \in DOMAIN Counts(delta') |-> Counts(delta')[d]]
    BY DEF Counts
  <2> QED BY <2>1, <2>2, <2>3
<1>10. DOMAIN Counts(delta) \subseteq DOMAIN Counts(current') \cap DOMAIN Counts(last')
  BY <1>6, CountsDef
<1>11. /\ [d \in Devices \ Hidden |-> moved'[d]] = [d \in Devices \ Hidden |-> 0]
       /\ seen' \ Hidden = DOMAIN Counts(file)
  BY <1>1, ReadGhosts
<1>12. \A a, b : S!Minus(a, b) = Minus(a, b)
  BY DEF S!Minus, Minus
<1> QED BY <1>1, <1>2, <1>4, <1>5, <1>7, <1>9, <1>10, <1>11, <1>12
    DEF S!Update, S!Read, S!Still, S!Diff

LEMMA CountSamples ==
  ASSUME FileType, NEW d \in Devices, Count(d), class \in Sampled
  PROVE  S!Kernel \/ UNCHANGED S!vars
<1>1. /\ class' = class /\ UNCHANGED <<last, current, delta, pc, seen>>
      /\ d \in DOMAIN file /\ moved[d] + 1 < Word
      /\ file' = [file EXCEPT ![d].count = Plus(@, 1)]
      /\ moved' = [moved EXCEPT ![d] = @ + 1]
  BY DEF Count, process, Sampled
<1>2. Real /\ Real'
  BY <1>1 DEF Real
<1>3. /\ DOMAIN file' = DOMAIN file
      /\ \A e \in DOMAIN file : file'[e].count = IF e = d THEN Plus(file[d].count, 1) ELSE file[e].count
  BY <1>1 DEF FileType, Line
<1>4. \A e \in Devices : moved'[e] = IF e = d THEN moved[d] + 1 ELSE moved[e]
  BY <1>1 DEF FileType
<1>5. CASE d \in Hidden
  <2>1. Counts(file') = Counts(file)
    BY <1>3, <1>5 DEF Counts
  <2>2. [e \in Devices \ Hidden |-> moved'[e]] = [e \in Devices \ Hidden |-> moved[e]]
    BY <1>4, <1>5
  <2> QED BY <1>1, <1>2, <2>1, <2>2 DEF S!vars
<1>6. CASE d \notin Hidden
  <2>1. Counts(file') = [Counts(file) EXCEPT ![d] = Plus(@, 1)] /\ d \in DOMAIN Counts(file)
    BY <1>1, <1>3, <1>6 DEF Counts
  <2> DEFINE M == [e \in Devices \ Hidden |-> moved[e]]
  <2>2. /\ [e \in Devices \ Hidden |-> moved'[e]] = [M EXCEPT ![d] = @ + 1]
        /\ M[d] + 1 < Word
    BY <1>1, <1>4, <1>6
  <2>3. S!Traffic(d, 1)
    BY <1>1, <1>2, <2>1, <2>2 DEF S!Traffic, S!Plus, Plus
  <2>4. 1 \in 1 .. Word - 1
    BY WordAssumption
  <2> QED BY <1>6, <2>3, <2>4 DEF S!Kernel
<1> QED BY <1>5, <1>6

LEMMA LeaveSamples ==
  ASSUME FileType, NEW d \in Devices, Leave(d), class \in Sampled
  PROVE  S!Kernel \/ UNCHANGED S!vars
<1>1. /\ class' = class /\ UNCHANGED <<last, current, delta, pc, moved, seen>>
      /\ d \in DOMAIN file /\ file' = [e \in DOMAIN file \ {d} |-> file[e]]
  BY DEF Leave, process
<1>2. Real /\ Real'
  BY <1>1 DEF Real
<1>3. CASE d \in Hidden
  <2>1. Counts(file') = Counts(file)
    BY <1>1, <1>3 DEF Counts
  <2> QED BY <1>1, <1>2, <2>1 DEF S!vars
<1>4. CASE d \notin Hidden
  <2>1. /\ Counts(file') = [e \in DOMAIN Counts(file) \ {d} |-> Counts(file)[e]]
        /\ d \in DOMAIN Counts(file)
    BY <1>1, <1>4 DEF Counts
  <2>2. S!Unplug(d)
    BY <1>1, <1>2, <2>1 DEF S!Unplug
  <2> QED BY <1>4, <2>2 DEF S!Kernel
<1> QED BY <1>3, <1>4

LEMMA AppearSamples ==
  ASSUME FileType, NEW d \in Devices, Appear(d), class \in Sampled
  PROVE  S!Kernel \/ UNCHANGED S!vars
<1>1. /\ class' = class /\ UNCHANGED <<last, current, delta, pc, moved, seen>>
      /\ d \notin DOMAIN file
      /\ file' = [e \in DOMAIN file \cup {d} |-> IF e = d THEN Idle ELSE file[e]]
  BY DEF Appear, process
<1>2. Real /\ Real'
  BY <1>1 DEF Real
<1>3. CASE d \in Hidden
  <2>1. Counts(file') = Counts(file)
    BY <1>1, <1>3 DEF Counts
  <2> QED BY <1>1, <1>2, <2>1 DEF S!vars
<1>4. CASE d \notin Hidden
  <2>1. /\ Counts(file') = [e \in DOMAIN Counts(file) \cup {d} |->
                             IF e = d THEN 0 ELSE Counts(file)[e]]
        /\ d \in (Devices \ Hidden) \ DOMAIN Counts(file)
    BY <1>1, <1>4 DEF Counts, Idle
  <2>2. S!Plug(d)
    BY <1>1, <1>2, <2>1 DEF S!Plug
  <2> QED BY <1>4, <2>2 DEF S!Kernel
<1> QED BY <1>3, <1>4

LEMMA SwitchSamples ==
  ASSUME FileType, NEW d \in Devices, Switch(d), class \in Sampled
  PROVE  UNCHANGED S!vars
<1>1. /\ class' = class /\ UNCHANGED <<last, current, delta, pc, moved, seen>>
      /\ d \in DOMAIN file /\ file' = [file EXCEPT ![d].on = ~@]
  BY DEF Switch, process
<1>2. Real /\ Real'
  BY <1>1 DEF Real
<1>3. DOMAIN file' = DOMAIN file /\ \A e \in DOMAIN file : file'[e].count = file[e].count
  BY <1>1 DEF FileType, Line
<1>4. Counts(file') = Counts(file)
  BY <1>3 DEF Counts
<1> QED BY <1>1, <1>2, <1>4 DEF S!vars

LEMMA NextSamples == ClassInv /\ [Next]_vars => [S!Next]_(S!vars)
<1> SUFFICES ASSUME ClassInv, [Next]_vars, class \in Sampled PROVE [S!Next]_(S!vars)
  BY OthersStutter
<1>0. FileType
  BY DEF ClassInv
<1>1. ASSUME UNCHANGED <<class, file, maps, pc, moved, seen>> PROVE UNCHANGED S!vars
  <2>1. Real' = Real
    BY <1>1 DEF Real
  <2> QED BY <1>1, <2>1 DEF S!vars, maps
<1>2. CASE Ask \/ Outgrown
  BY <1>1, <1>2 DEF Ask, Outgrown
<1>3. CASE Construct
  BY <1>3, ConstructSamples DEF S!Next
<1>4. CASE Update
  BY <1>4, UpdateSamples DEF S!Next
<1>5. ASSUME NEW d \in Devices, Count(d) \/ Leave(d) \/ Appear(d) \/ Switch(d)
      PROVE  [S!Next]_(S!vars)
  BY <1>0, <1>5, CountSamples, LeaveSamples, AppearSamples, SwitchSamples DEF S!Next
<1>6. CASE UNCHANGED vars
  BY <1>1, <1>6 DEF vars, maps
<1> QED BY <1>2, <1>3, <1>4, <1>5, <1>6 DEF Next, Kernel

\* The classes of Linux, and the interfaces of MacOS, implement Sampler,
\* whatever the filters refuse and however the list of interfaces grows.
THEOREM ClassesImplementSampler == Spec => ClassesSample
BY InitSamples, NextSamples, ClassInvAlways, PTL DEF Spec, ClassesSample
=============================================================================
