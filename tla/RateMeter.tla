------------------------------- MODULE RateMeter -------------------------------
(***************************************************************************)
(* What a table of rates promises its reader: every refresh shows, for     *)
(* each device, exactly what it moved since the refresh before.            *)
(***************************************************************************)
EXTENDS Integers

CONSTANTS Devices,  \* the devices of the table
          Word      \* counters take the values 0 .. Word - 1

VARIABLES pending,  \* moved since the last refresh
          shown     \* on display

meterVars == <<pending, shown>>

Nothing == [d \in Devices |-> 0]

Init == pending = Nothing /\ shown = Nothing

\* A device moves n bytes; fewer than Word fit between two refreshes.
Move(d, n) ==
  /\ pending[d] + n < Word
  /\ pending' = [pending EXCEPT ![d] = @ + n]
  /\ UNCHANGED shown

Refresh ==
  /\ shown' = pending
  /\ pending' = Nothing

Next == Refresh \/ \E d \in Devices, n \in 1 .. Word - 1 : Move(d, n)

Safety == Init /\ [][Next]_meterVars

\* What moved does not stay unseen.
Spec == Safety /\ WF_meterVars(Refresh)
=============================================================================
