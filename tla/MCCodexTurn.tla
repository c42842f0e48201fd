----------------------------- MODULE MCCodexTurn -----------------------------
(* Instances of CodexTurn for TLC; the cfg files give the constants.       *)
EXTENDS CodexTurn
=============================================================================
