------------------------------ MODULE MC_Parser ------------------------------
(***************************************************************************)
(* Every input within the bounds, cut off by an error at every point.      *)
(***************************************************************************)
EXTENDS Parser

MCAddresses == 1 .. 30
=============================================================================
