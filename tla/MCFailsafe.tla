------------------------------ MODULE MCFailsafe ------------------------------
(***************************************************************************)
(* Failsafe settings for TLC.                                              *)
(***************************************************************************)
EXTENDS Failsafe

LandOrDrop == {[procedure |-> "AUTO_LANDING", switchMode |-> "STAGE2"],
               [procedure |-> "DROP_IT", switchMode |-> "KILL"]}
=============================================================================
