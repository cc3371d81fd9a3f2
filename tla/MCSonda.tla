------------------------------ MODULE MCSonda ------------------------------
(***************************************************************************)
(* Sonda watching two store nodes with a threshold of two: every           *)
(* combination of the last two outcomes of either node occurs.             *)
(***************************************************************************)
EXTENDS Sonda

MCStoreNodes == <<"near", "far">>
=============================================================================
