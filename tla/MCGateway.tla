----------------------------- MODULE MCGateway -----------------------------
(* Values of the constants for the run of Gateway.                         *)
EXTENDS Gateway

CONSTANTS s1, s2
=============================================================================
