------------------------------ MODULE MacDevices ------------------------------
(***************************************************************************)
(* The same of the three classes of c/mac, in the form of LinuxDevices.    *)
(* The kernel counts the ticks of a core in 32 bits, TickWord, and a line  *)
(* has a switch: an interface is up, a drive has statistics.               *)
(***************************************************************************)
EXTENDS DeviceNames, FiniteSetsExt

CONSTANTS
  Total,      \* the entry "CPU"; no core has that name
  TickWord    \* ticks of a core are unsigned, modulo TickWord

ASSUME TickAssumption == TickWord \in 1 .. Word /\ Total \notin Devices

-----------------------------------------------------------------------------
(* Processor: the sum of the cores is an entry of its own                  *)

\* Mutant: the loop stops before the last core.
MacCpuReadShort(file) ==
  LET cores == DOMAIN file
      last  == CHOOSE d \in cores : TRUE
      sum   == MapThenSumSet(LAMBDA d : file[d].count, cores \ {last})
  IN  [d \in cores \cup {Total} |->
        [count |-> IF d = Total THEN sum % Word ELSE file[d].count]]

MacCpuRead(file) ==
  LET cores == DOMAIN file
      sum   == MapThenSumSet(LAMBDA d : file[d].count, cores)
  IN  [d \in cores \cup {Total} |->
        [count |-> IF d = Total THEN sum % Word ELSE file[d].count]]
MacCpuCopied == {"count"}
MacCpuDiffed == {"count"}
MacCpuShown == {"count"}
MacCpuRows(delta) == DOMAIN delta

-----------------------------------------------------------------------------
(* Network: the flags are copied and never taken over by diff              *)

MacNetRead(file) ==
  [d \in DOMAIN file |-> [count |-> file[d].count, up |-> file[d].on]]
MacNetCopied == {"count", "up"}
MacNetDiffed == {"count"}
MacNetShown == {"count", "up"}
MacNetRows(delta, current) ==
  {d \in DOMAIN delta \ Hidden : delta[d].up /\ current[d].count # 0}

-----------------------------------------------------------------------------
(* Disk: driver is copied and never read, blocksize is never subtracted    *)

\* Mutant: the block size is not copied.
MacDiskCopiedLess == {"count", "driver"}

\* A drive without properties is passed over, in spite of the defaults the
\* comment announces; one without statistics counts 0.
MacDiskRead(file, drives) ==
  [d \in drives \cap DOMAIN file |->
    [count |-> IF file[d].on THEN file[d].count ELSE 0, blocksize |-> 1]]
MacDiskCopied == {"count", "blocksize", "driver"}
MacDiskDiffed == {"count"}
MacDiskShown == {"count", "blocksize"}
MacDiskRows(delta) == DOMAIN delta
=============================================================================
