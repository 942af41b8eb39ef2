------------------------ MODULE ScalerPolicy_proofs ------------------------
(* What the arithmetic of Scaler.py promises, for every setting and count.    *)
EXTENDS ScalerPolicy, TLAPS, WellFoundedInduction

LEMMA CeilDivType == \A a \in Int, b \in 1..100 : CeilDiv(a, b) \in Int
  BY DEF CeilDiv

\* Rounding up: the quotient is enough, and one less is not.
LEMMA CeilDivBounds ==
    ASSUME NEW a \in Int, NEW b \in 1..100
    PROVE  b * CeilDiv(a, b) >= a /\ b * (CeilDiv(a, b) - 1) < a
<1> DEFINE q == (-a) \div b
<1>1. q \in Int /\ CeilDiv(a, b) = -q
  BY DEF CeilDiv
<1>2. b * q <= -a /\ -a < b * q + b
  BY Z3
<1>3. b * (-q) = -(b * q) /\ b * (-q - 1) = -(b * q) - b
  BY <1>1
<1> QED BY <1>1, <1>2, <1>3

LEMMA IncreaseType ==
    ASSUME NEW s, IsSlot(s), NEW capacity \in Nat, NEW ready \in Nat
    PROVE  CapacityIncrease(s, capacity, ready) \in Int
<1>1. 100 * (capacity - ready) \in Int /\ s.loadMax \in 1..100
  BY DEF IsSlot
<1>2. CeilDiv(100 * (capacity - ready), s.loadMax) \in Int
  BY <1>1, CeilDivType
<1> QED
  BY <1>2 DEF IsSlot, CapacityIncrease, TargetCapacity, MinCapacity, Higher, Lower

\* Shrinking takes at most the gateways counted idle beyond the buffer, or what
\* exceeds the slot's maximum, even when the two counts contradict each other.
THEOREM ShrinkSparesTheBuffer ==
    ASSUME NEW s, IsSlot(s), NEW capacity \in Nat, NEW ready \in Nat
    PROVE  -CapacityIncrease(s, capacity, ready)
              <= Higher(ready - s.unlockedMin, capacity - s.maxGw)
<1>1. 100 * (capacity - ready) \in Int /\ s.loadMax \in 1..100
  BY DEF IsSlot
<1>2. CeilDiv(100 * (capacity - ready), s.loadMax) \in Int
  BY <1>1, CeilDivType
<1> QED
  BY <1>2 DEF IsSlot, CapacityIncrease, TargetCapacity, MinCapacity, Higher, Lower

\* The target satisfies the load ratio, the floor and the buffer together, or it
\* is the slot's maximum.
THEOREM TargetIsEnough ==
    ASSUME NEW s, IsSlot(s), NEW inCall \in Int
    PROVE  LET target == TargetCapacity(s, inCall) IN
           \/ target = s.maxGw
           \/ /\ target <= s.maxGw
              /\ target >= s.minGw
              /\ target >= s.unlockedMin + inCall
              /\ s.loadMax * target >= 100 * inCall
<1> DEFINE wanted == CeilDiv(100 * inCall, s.loadMax)
           target == TargetCapacity(s, inCall)
<1>1. s.loadMax \in 1..100 /\ 100 * inCall \in Int
  BY DEF IsSlot
<1>2. wanted \in Int /\ s.loadMax * wanted >= 100 * inCall
  BY <1>1, CeilDivType, CeilDivBounds
<1>3. CASE target # s.maxGw
  <2>1. /\ target \in Int /\ target <= s.maxGw /\ target >= wanted
        /\ target >= s.minGw /\ target >= s.unlockedMin + inCall
    BY <1>2, <1>3 DEF IsSlot, TargetCapacity, MinCapacity, Higher, Lower
  <2>2. s.loadMax * target >= s.loadMax * wanted
    BY <1>1, <1>2, <2>1
  <2> QED BY <1>1, <1>2, <2>1, <2>2
<1> QED BY <1>3

-----------------------------------------------------------------------------
(* The choice of a machine.                                                  *)

\* A non-empty set of indices has a first one.
LEMMA FirstIsThere ==
    ASSUME NEW S \in SUBSET Nat, S # {}
    PROVE  \E i \in S : \A j \in S : i <= j
<1> DEFINE R == OpToRel(<, Nat)
<1>1. R = {ss \in Nat \X Nat : ss[1] < ss[2]}
  BY DEF OpToRel
<1>2. IsWellFoundedOn(R, Nat)
  BY NatLessThanWellFounded
<1> HIDE DEF R
<1>3. PICK i \in S : \A j \in S : ~(<<j, i>> \in R)
  BY <1>2, WFMin
<1>4. \A j \in S : j < i => <<j, i>> \in {ss \in Nat \X Nat : ss[1] < ss[2]}
  OBVIOUS
<1>5. \A j \in S : ~(j < i)
  BY <1>1, <1>3, <1>4, Zenon
<1> QED BY <1>5

\* With a type of one gateway among them, whatever their order, upScale finds one
\* for any number it has left to order, and never one that is too large.
LEMMA SizeForFits ==
    ASSUME NEW len \in Nat, NEW types \in [1..len -> Nat \ {0}],
           \E i \in 1..len : types[i] = 1, NEW n \in Nat \ {0}
    PROVE  SizeFor(types, n) \in 1..n
<1> DEFINE Fits == {i \in 1..len : types[i] <= n}
<1>0. Fits \in SUBSET Nat /\ Fits # {}
  OBVIOUS
<1>1. PICK i \in Fits : \A j \in Fits : i <= j
  BY <1>0, FirstIsThere
<1>2. i \in DOMAIN types /\ types[i] <= n /\ \A j \in 1..(i - 1) : types[j] > n
  BY <1>1
<1> DEFINE first == CHOOSE k \in DOMAIN types :
                        types[k] <= n /\ \A j \in 1..(k - 1) : types[j] > n
<1>3. first \in DOMAIN types /\ types[first] <= n
  BY <1>2
<1> QED BY <1>3 DEF SizeFor

=============================================================================
