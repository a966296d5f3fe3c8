----------------------------- MODULE LinuxDevices -----------------------------
(***************************************************************************)
(* The three classes of c/linux that sample a table of the kernel, as data *)
(* and operators: what a line of the file becomes, which fields copy and   *)
(* diff touch, which of them print takes from delta, which devices have a  *)
(* row.  DeviceTables runs them.                                           *)
(*                                                                         *)
(* An entry is a record of the fields the program has given a value: a     *)
(* field not in its domain is uninitialised memory.  Fields that a class   *)
(* treats alike are one field, count.  A line of a file is a record with   *)
(* the counter the kernel keeps for the device; a name in Hidden is one    *)
(* that the filters of a class refuse.                                     *)
(***************************************************************************)
EXTENDS DeviceNames

-----------------------------------------------------------------------------
(* Processor: every counter of a CPU is read, copied and subtracted        *)

LinuxCpuRead(file) == [d \in DOMAIN file \ Hidden |-> [count |-> file[d].count]]
LinuxCpuCopied == {"count"}
LinuxCpuDiffed == {"count"}
LinuxCpuShown == {"count"}

-----------------------------------------------------------------------------
(* Disk: major and minor are read and never copied                         *)

LinuxDiskRead(file) ==
  [d \in DOMAIN file \ Hidden |-> [count |-> file[d].count, major |-> 0]]
LinuxDiskCopied == {"count"}
LinuxDiskDiffed == {"count"}
LinuxDiskShown == {"count"}

-----------------------------------------------------------------------------
(* Network: copy names rx_multicast and assigns nothing; the filter is in  *)
(* print, for the loopback interface and those that never sent             *)

LinuxNetRead(file) ==
  [d \in DOMAIN file |-> [count |-> file[d].count, rx_multicast |-> file[d].count]]
LinuxNetCopied == {"count"}
LinuxNetDiffed == {"count", "rx_multicast"}
LinuxNetShown == {"count"}

\* Mutant: a row for what sent since the last refresh.
LinuxNetRowsDelta(delta, current) == {d \in DOMAIN delta \ Hidden : delta[d].count # 0}

LinuxNetRows(delta, current) == {d \in DOMAIN delta \ Hidden : current[d].count # 0}
=============================================================================
