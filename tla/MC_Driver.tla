------------------------------ MODULE MC_Driver ------------------------------
(***************************************************************************)
(* Short inputs, every file that cannot be opened, every result.           *)
(***************************************************************************)
EXTENDS Driver

MCAddresses == 1 .. 20
=============================================================================
