-------------------------------- MODULE MCHost --------------------------------
(* An instance of Host for TLC: two deliveries, one of which asks for a    *)
(* port that the other one may have been given.                            *)
EXTENDS Host, TLC

CONSTANTS d1, d2, p1, p2

MCDeliveries == {d1, d2}
MCPorts == {p1, p2}
MCPortOf == (d1 :> NoPort @@ d2 :> p1)
=============================================================================
