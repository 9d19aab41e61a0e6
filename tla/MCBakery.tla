------------------------------- MODULE MCBakery -------------------------------
(***************************************************************************)
(* Instances of Bakery for TLC, with the constants given in the cfgs.      *)
(***************************************************************************)
EXTENDS Bakery
===============================================================================
