------------------------------- MODULE MCHeading -------------------------------
(***************************************************************************)
(* A heading of three columns, in windows without a width, one column too  *)
(* narrow, just wide enough and wider.                                     *)
(***************************************************************************)
EXTENDS Heading

MCWidths == {0, 3, 4, 6}

ASSUME UptimeIsUptime ==
  \A s \in {0, 59, 60, 3599, 3600, 86399, 86400, 172861} :
    /\ Hours(s) \in 0 .. 23 /\ Minutes(s) \in 0 .. 59
    /\ s - (Days(s) * 86400 + Hours(s) * 3600 + Minutes(s) * 60) \in 0 .. 59
=============================================================================
