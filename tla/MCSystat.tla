------------------------------- MODULE MCSystat -------------------------------
(***************************************************************************)
(* Small instances of the main program: one processor line or two, a disk  *)
(* or none, up to one interface, windows on both sides of every decision   *)
(* of fit.                                                                 *)
(***************************************************************************)
EXTENDS SystatScreen

\* CpuLines = 2 and no disk: the full frame claims 21 + ifaces rows, with one
\* processor line 20 + ifaces, without blank lines 14 + ifaces.
LinuxHeights == {14, 15, 20, 21, 22}

\* The same with a disk, one row more of each.
MacHeights == {15, 16, 22, 23}
TallHeights == {23}
=============================================================================
