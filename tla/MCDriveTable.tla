------------------------------ MODULE MCDriveTable ------------------------------
(***************************************************************************)
(* Four media and a table for three drives.                                *)
(***************************************************************************)
EXTENDS DriveTable

MCMedia == 1..4
=============================================================================
