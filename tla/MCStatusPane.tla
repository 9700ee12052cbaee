---------------------------- MODULE MCStatusPane ----------------------------
(***************************************************************************)
(* StatusPane for TLC: two plugins, listed in this order.                  *)
(***************************************************************************)
EXTENDS StatusPane

CONSTANTS p1, p2
TwoPlugins == <<p1, p2>>
=============================================================================
