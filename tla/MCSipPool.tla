----------------------------- MODULE MCSipPool -----------------------------
(* A small instance of SipPool: one machine of two gateways, of one contact   *)
(* each, which a later container of the gateway takes over.                   *)
EXTENDS SipPool, TLC

CONSTANTS g1, g2, h1, a1, a2

MCHosts == (g1 :> h1) @@ (g2 :> h1)
MCUsers == (a1 :> g1) @@ (a2 :> g2)

LargeAndSmall == <<2, 1>>

Day == [maxGw |-> 2, minGw |-> 0, unlockedMin |-> 2, loadMax |-> 75]
Night == [maxGw |-> 1, minGw |-> 0, unlockedMin |-> 0, loadMax |-> 100]
DayAndNight == {Day, Night}

=============================================================================
