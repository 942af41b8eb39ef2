---------------------------- MODULE ScalerPolicy ----------------------------
(***************************************************************************)
(* The arithmetic of deploy/scaler/src/Scaler.py: how many gateways one      *)
(* iteration wants, from the time slot's settings and the two counts it      *)
(* read.  loadMax is a percentage here; the quotient is rounded up, as       *)
(* math.ceil of the whole difference does (the other terms are integers).    *)
(***************************************************************************)
EXTENDS Integers

Higher(a, b) == IF a > b THEN a ELSE b
Lower(a, b) == IF a < b THEN a ELSE b

\* Rounded towards plus infinity, for a positive b and any a.
CeilDiv(a, b) == -((-a) \div b)

\* The settings of a time slot; unlockedMin and minGw are 0 when left out.
IsSlot(s) ==
    /\ s.maxGw \in Nat
    /\ s.minGw \in Nat
    /\ s.unlockedMin \in Nat
    /\ s.loadMax \in 1..100

\* A bug: the calls under way are left out of the floor.
MinCapacityWithoutCalls(s, inCall) == Higher(s.minGw, s.unlockedMin)

MinCapacity(s, inCall) == Higher(s.minGw, s.unlockedMin + inCall)

TargetCapacity(s, inCall) ==
    Lower(s.maxGw, Higher(MinCapacity(s, inCall), CeilDiv(100 * inCall, s.loadMax)))

\* `capacity` and `ready` are read one after the other, so capacity - ready,
\* the calls under way, is any integer: nothing makes it a natural number.
CapacityIncrease(s, capacity, ready) ==
    TargetCapacity(s, capacity - ready) - capacity

\* upScale orders the first of the instance types that fits, until nothing is
\* left to order.  `types` lists them, in gateways per machine, as the code sorts them: by
\* their CPU counts taken as strings, the greatest first ("8", "4", "16").
SizeFor(types, n) ==
    types[CHOOSE i \in DOMAIN types : types[i] <= n /\ \A j \in 1..(i - 1) : types[j] > n]

=============================================================================
