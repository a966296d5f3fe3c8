-------------------------------- MODULE DriveSet --------------------------------
(***************************************************************************)
(* What a table of drives promises: a set of at most MaxDrives drives that *)
(* come and go one at a time.                                              *)
(***************************************************************************)
EXTENDS Naturals, FiniteSets

CONSTANTS Media, MaxDrives

VARIABLE drives

Init == drives = {}

Attach(m) ==
  /\ m \notin drives /\ Cardinality(drives) < MaxDrives
  /\ drives' = drives \cup {m}

Detach(m) == m \in drives /\ drives' = drives \ {m}

Next == \E m \in Media : Attach(m) \/ Detach(m)

Spec == Init /\ [][Next]_drives
=============================================================================
