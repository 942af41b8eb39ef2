------------------------- MODULE MCGatewayRegistry -------------------------
(* Small instances of GatewayRegistry: a media gateway beside a SIP gateway   *)
(* (refreshed on demand), a SIP gateway whose number a loop takes under a     *)
(* second name, or a single gateway.                                          *)
EXTENDS GatewayRegistry, TLC

CONSTANTS g1, g2, g3, h1, n1, n2

MCHost == [g \in Gateways |-> h1]
MCNumber == [g \in Gateways |-> IF g = g1 THEN n1 ELSE n2]

=============================================================================
