------------------------------ MODULE DeviceNames ------------------------------
(***************************************************************************)
(* The names the device classes of both systems find in their tables.      *)
(***************************************************************************)
EXTENDS Counters, FiniteSets

CONSTANTS
  Devices,    \* names of CPUs, disks or interfaces
  Hidden      \* those that a filter refuses: a line of /proc/stat that is no
              \* cpu; a partition, loop or dm- device; lo, utun0 or awdl0

ASSUME NamesAssumption == IsFiniteSet(Devices) /\ Hidden \subseteq Devices
=============================================================================
