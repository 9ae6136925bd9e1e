---------------------------- MODULE MCUnitEdits ----------------------------
(***************************************************************************)
(* Small instances of UnitEdits: one unit, one that was deleted, one file  *)
(* of every kind.                                                          *)
(***************************************************************************)
EXTENDS UnitEdits

MC_AllButName == AllAttributes \ {"name"}
MC_Ids == 1..MaxEmits

\* The instance is a setting of the theorems about UnitEdits.
ASSUME InSetting == OneEditAtATime /\ UndoIsComplete
=============================================================================
