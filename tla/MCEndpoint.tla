------------------------------ MODULE MCEndpoint ------------------------------
(* Instances of Endpoint for TLC; the cfg file gives the constants.        *)
EXTENDS Endpoint
=============================================================================
