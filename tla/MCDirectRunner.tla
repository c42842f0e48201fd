--------------------------- MODULE MCDirectRunner ---------------------------
(* Instances of DirectRunner for TLC; the cfg files give the constants.    *)
EXTENDS DirectRunner
=============================================================================
