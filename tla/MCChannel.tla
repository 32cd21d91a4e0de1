----------------------------- MODULE MCChannel -----------------------------
(* Instances of Channel for TLC.                                           *)
EXTENDS Channel, TLC
=============================================================================
