---------------------------- MODULE MCDeviceTables ----------------------------
(***************************************************************************)
(* One name the filters let pass and one they refuse.                      *)
(***************************************************************************)
EXTENDS DeviceTables

CONSTANTS en, lo

MCDevices == {en, lo}
MCHidden  == {lo}
MCActive  == {en}
=============================================================================
