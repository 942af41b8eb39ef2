---------------------------- MODULE MCMediaPool ----------------------------
(* Small instances of MediaPool: two machines of one gateway each, under two  *)
(* slots that grow and shrink the pool.                                       *)
EXTENDS MediaPool, TLC

CONSTANTS g1, g2, h1, h2

MCApart == (g1 :> h1) @@ (g2 :> h2)
MCNumber == [g \in Gateways |-> g]

Small == <<1>>

Day == [maxGw |-> 2, minGw |-> 0, unlockedMin |-> 2, loadMax |-> 75]
Evening == [maxGw |-> 2, minGw |-> 0, unlockedMin |-> 1, loadMax |-> 100]

DayAndEvening == {Day, Evening}

=============================================================================
