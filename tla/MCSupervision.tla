---------------------------- MODULE MCSupervision ----------------------------
(* Instances of Supervision for TLC; the cfg files give the constants.     *)
EXTENDS SupervisionProperties
=============================================================================
