---------------------------- MODULE PluginSlot ----------------------------
(***************************************************************************)
(* What overwrite-by-id promises, without directories: a plugin id names   *)
(* one version; an install offers another, which either takes its place in *)
(* one step or is given up.  Nothing else changes the version, and an      *)
(* installed plugin never disappears.                                      *)
(***************************************************************************)
CONSTANTS Versions, None

VARIABLES
  installed,  \* the version the id names, or None
  offered     \* the version being installed, or None

slotVars == <<installed, offered>>

SlotInit == installed = None /\ offered = None

Offer(v) ==
  /\ offered = None
  /\ offered' = v
  /\ UNCHANGED installed

Accept ==
  /\ offered # None
  /\ installed' = offered
  /\ offered' = None

GiveUp ==
  /\ offered # None
  /\ offered' = None
  /\ UNCHANGED installed

SlotNext == (\E v \in Versions : Offer(v)) \/ Accept \/ GiveUp

SlotSpec == SlotInit /\ [][SlotNext]_slotVars
=============================================================================
