------------------------ MODULE OrgUnitRules_proofs ------------------------
(***************************************************************************)
(* What the rules of the manager guarantee for any number of consoles,       *)
(* rules, patterns and callers.                                              *)
(***************************************************************************)
EXTENDS OrgUnitRules, FiniteSetTheorems, WellFoundedInduction, TLAPS

-----------------------------------------------------------------------------
(* The list.  `Above` orders the rules strictly, whatever ties and missing   *)
(* positions there are, so that every place is the place of one rule.        *)

RuleSpace == [unit : Units, pattern : DOMAIN Fold, active : BOOLEAN, position : Nat]

RulesType ==
    /\ DOMAIN rules \subseteq Nat /\ IsFiniteSet(DOMAIN rules)
    /\ rules \in [DOMAIN rules -> RuleSpace]

LEMMA AboveOrders ==
    RulesType => \A i, j, k \in DOMAIN rules :
        /\ ~Above(i, i)
        /\ Above(i, j) \/ Above(j, i) \/ i = j
        /\ Above(i, j) /\ Above(j, k) => Above(i, k)
        /\ Ahead(i, j) <=> Above(j, i)
  BY SMT DEF RulesType, RuleSpace, Above, Ahead

\* The place of a rule counts the rules above it.
LEMMA PlaceCounts ==
    ASSUME RulesType, NEW i \in DOMAIN rules
    PROVE  LET over == {j \in DOMAIN rules : Above(j, i)} IN
           /\ IsFiniteSet(over) /\ Cardinality(over) \in Nat
           /\ Place(i) = 1 + Cardinality(over)
           /\ Place(i) \in 1..Cardinality(DOMAIN rules)
           /\ Cardinality(DOMAIN rules) \in Nat
<1> DEFINE over == {j \in DOMAIN rules : Above(j, i)}
           D == DOMAIN rules
<1>1. over \in SUBSET D /\ D # over /\ IsFiniteSet(D)
  BY AboveOrders DEF RulesType
<1>2. Place(i) = 1 + Cardinality(over)
  BY DEF Place
<1> HIDE DEF over, D
<1>3. IsFiniteSet(over) /\ Cardinality(over) <= Cardinality(D) /\ Cardinality(D) # Cardinality(over)
  BY <1>1, FS_Subset
<1>4. Cardinality(over) \in Nat /\ Cardinality(D) \in Nat
  BY <1>1, <1>3, FS_CardinalityType
<1>5. Place(i) \in 1..Cardinality(D)
  BY <1>2, <1>3, <1>4
<1> QED BY <1>2, <1>3, <1>4, <1>5 DEF over, D

LEMMA PlaceGrows ==
    ASSUME RulesType, NEW i \in DOMAIN rules, NEW j \in DOMAIN rules, Above(i, j)
    PROVE  Place(i) < Place(j)
<1> DEFINE over(k) == {l \in DOMAIN rules : Above(l, k)}
<1>1. over(i) \in SUBSET over(j)
  BY AboveOrders
<1>2. i \in over(j) /\ i \notin over(i)
  BY AboveOrders
<1>3. /\ IsFiniteSet(over(i)) /\ Cardinality(over(i)) \in Nat /\ Place(i) = 1 + Cardinality(over(i))
      /\ IsFiniteSet(over(j)) /\ Cardinality(over(j)) \in Nat /\ Place(j) = 1 + Cardinality(over(j))
  BY PlaceCounts, Zenon
<1> HIDE DEF over
<1>4. Cardinality(over(i)) <= Cardinality(over(j)) /\ Cardinality(over(i)) # Cardinality(over(j))
  BY <1>1, <1>2, <1>3, FS_Subset
<1> QED BY <1>3, <1>4

LEMMA PlacesOrder ==
    RulesType => \A i, j \in DOMAIN rules :
        /\ Place(i) \in 1..Cardinality(DOMAIN rules)
        /\ Place(i) < Place(j) <=> Above(i, j)
        /\ Place(i) = Place(j) => i = j
<1> SUFFICES ASSUME RulesType, NEW i \in DOMAIN rules, NEW j \in DOMAIN rules
             PROVE  /\ Place(i) \in 1..Cardinality(DOMAIN rules)
                    /\ Place(i) < Place(j) <=> Above(i, j)
                    /\ Place(i) = Place(j) => i = j
  OBVIOUS
<1>1. /\ Place(i) \in 1..Cardinality(DOMAIN rules) /\ Place(j) \in 1..Cardinality(DOMAIN rules)
      /\ Cardinality(DOMAIN rules) \in Nat
  BY PlaceCounts, Zenon
<1>2. Above(i, j) \/ Above(j, i) \/ i = j
  BY AboveOrders
<1>3. (Above(i, j) => Place(i) < Place(j)) /\ (Above(j, i) => Place(j) < Place(i))
  BY PlaceGrows
<1> QED BY <1>1, <1>2, <1>3

\* What the console shows are the rules, each of them at its place.
LEMMA ShownIsTheList ==
    RulesType =>
      /\ Cardinality(DOMAIN rules) \in Nat
      /\ DOMAIN Shown = 1..Cardinality(DOMAIN rules)
      /\ \A k \in DOMAIN Shown : Shown[k] \in DOMAIN rules /\ Place(Shown[k]) = k
      /\ \A i \in DOMAIN rules : Place(i) \in DOMAIN Shown /\ Shown[Place(i)] = i
<1> SUFFICES ASSUME RulesType
             PROVE  /\ Cardinality(DOMAIN rules) \in Nat
                    /\ DOMAIN Shown = 1..Cardinality(DOMAIN rules)
                    /\ \A k \in DOMAIN Shown : Shown[k] \in DOMAIN rules /\ Place(Shown[k]) = k
                    /\ \A i \in DOMAIN rules : Place(i) \in DOMAIN Shown /\ Shown[Place(i)] = i
  OBVIOUS
<1> DEFINE D == DOMAIN rules
           n == Cardinality(D)
           f == [i \in D |-> Place(i)]
<1>1. IsFiniteSet(D) /\ n \in Nat
  BY FS_CardinalityType DEF RulesType
<1>2. \A i, j \in D : Place(i) \in 1..n /\ (Place(i) = Place(j) => i = j)
  BY PlacesOrder
<1>3. \A k \in 1..n : \E i \in D : Place(i) = k
  <2>1. f \in Injection(D, 1..n)
    BY <1>2 DEF Injection, IsInjective
  <2>2. IsFiniteSet(1..n) /\ Cardinality(1..n) = n
    BY <1>1, FS_Interval
  <2> HIDE DEF D, n, f
  <2>3. f \in Surjection(D, 1..n)
    <3>1. Cardinality(D) = n
      BY DEF n
    <3> QED BY <2>1, <2>2, <3>1, FS_Injection
  <2> QED BY <2>3 DEF Surjection, f, D
<1>4. \A k \in 1..n : Shown[k] \in D /\ Place(Shown[k]) = k
  BY <1>3 DEF Shown
<1>5. DOMAIN Shown = 1..n
  BY DEF Shown
<1> HIDE DEF D, n
<1>6. \A i \in D : Shown[Place(i)] = i
  BY <1>2, <1>4
<1> QED BY <1>1, <1>2, <1>4, <1>5, <1>6 DEF D, n

\* The one that all the others are above is at the bottom.
LEMMA BottomIsLast ==
    RulesType => \A i \in DOMAIN rules :
        (\A j \in DOMAIN rules \ {i} : Above(j, i)) => Last(Shown) = i
<1> SUFFICES ASSUME RulesType, NEW i \in DOMAIN rules, \A j \in DOMAIN rules \ {i} : Above(j, i)
             PROVE  Last(Shown) = i
  OBVIOUS
<1> DEFINE n == Cardinality(DOMAIN rules)
<1>1. /\ n \in Nat /\ DOMAIN Shown = 1..n
      /\ \A k \in 1..n : Shown[k] \in DOMAIN rules /\ Place(Shown[k]) = k
      /\ Place(i) \in 1..n /\ Shown[Place(i)] = i
  BY ShownIsTheList
<1>2. Len(Shown) = n
  <2> DEFINE at(k) == CHOOSE j \in DOMAIN rules : Place(j) = k
  <2>1. Shown = [k \in 1..n |-> at(k)]
    BY DEF Shown
  <2> HIDE DEF n, at
  <2> QED BY <1>1, <2>1
<1>3. n \in 1..n /\ Shown[n] \in DOMAIN rules /\ Place(Shown[n]) = n
  BY <1>1
<1>4. Shown[n] = i
  <2> SUFFICES ASSUME Shown[n] # i PROVE FALSE
    OBVIOUS
  <2>1. Place(Shown[n]) < Place(i)
    BY <1>3, PlacesOrder
  <2> QED BY <1>1, <1>3, <2>1
<1> QED BY <1>2, <1>4 DEF Last

LEMMA MaxIsThere ==
    ASSUME NEW n \in Nat, NEW S \in SUBSET (1..n), S # {}
    PROVE  Max(S) \in S /\ \A k \in S : Max(S) >= k
<1> DEFINE R == OpToRel(<, Nat)
           T == {n - i : i \in S}
<1>1. R = {ss \in Nat \X Nat : ss[1] < ss[2]} /\ IsWellFoundedOn(R, Nat)
  BY NatLessThanWellFounded DEF OpToRel
<1>2. T \subseteq Nat /\ T # {}
  <2>1. \A i \in S : i \in Int /\ i <= n
    OBVIOUS
  <2>2. \A i \in S : n - i \in Nat
    BY <2>1
  <2> QED BY <2>2
<1> HIDE DEF R
<1>3. PICK t \in T : \A u \in T : ~(<<u, t>> \in R)
  BY <1>1, <1>2, WFMin
<1>4. PICK i \in S : t = n - i
  OBVIOUS
<1>5. \A j \in S : n - j \in T /\ n - j \in Nat /\ t \in Nat
  OBVIOUS
<1>6. \A j \in S : n - j < t => <<n - j, t>> \in {ss \in Nat \X Nat : ss[1] < ss[2]}
  BY <1>5
<1>7. \A j \in S : ~(n - j < t)
  BY <1>1, <1>3, <1>5, <1>6, Zenon
<1>8. \A j \in S : i >= j
  BY <1>4, <1>7
<1> QED BY <1>8 DEF Max

\* The list read from the bottom by the statement, and from the top by the
\* console, comes to the same rule.
LEMMA SameRuleDecides == RulesType => DecidesAsShown
<1> SUFFICES ASSUME RulesType, NEW c \in Callers
             PROVE  Resolve(c) = Winner(c)
  BY DEF DecidesAsShown
<1> DEFINE Decides(i) == Matches(i, c) /\ rules[i].unit \in enabled
           matching == {i \in DOMAIN rules : Decides(i)}
           deciding == {k \in DOMAIN Shown : Decides(Shown[k])}
           m == Max(deciding)
           First_(i) == \A j \in matching \ {i} : Ahead(i, j)
<1>1. /\ Resolve(c) = IF matching = {} THEN NoUnit ELSE rules[CHOOSE i \in matching : First_(i)].unit
      /\ Winner(c) = IF deciding = {} THEN NoUnit ELSE rules[Shown[m]].unit
  BY Zenon DEF Resolve, Winner
<1> HIDE DEF Decides
<1>2. \A k \in deciding : Shown[k] \in matching /\ Place(Shown[k]) = k
  BY ShownIsTheList
<1>3. \A i \in matching : Place(i) \in deciding /\ Shown[Place(i)] = i /\ i \in DOMAIN rules
  BY ShownIsTheList
<1>4. /\ deciding \in SUBSET (1..Cardinality(DOMAIN rules)) /\ deciding \subseteq Int
      /\ Cardinality(DOMAIN rules) \in Nat
  BY ShownIsTheList
<1>5. CASE deciding = {}
  BY <1>1, <1>3, <1>5
<1>6. CASE deciding # {}
  <2> HIDE DEF matching, deciding, First_
  <2>1. m \in deciding /\ \A k \in deciding : m >= k
    BY <1>4, <1>6, MaxIsThere
  <2>2. Shown[m] \in matching /\ Place(Shown[m]) = m
    BY <1>2, <2>1
  <2>3. \A j \in matching \ {Shown[m]} : Ahead(Shown[m], j)
    <3> SUFFICES ASSUME NEW j \in matching, j # Shown[m]
                 PROVE  Ahead(Shown[m], j)
      OBVIOUS
    <3>1. /\ j \in DOMAIN rules /\ Shown[m] \in DOMAIN rules
          /\ Place(j) \in deciding /\ m >= Place(j)
      BY <1>3, <2>1, <2>2
    <3>2. Place(j) # m
      BY <1>3, <2>2
    <3>3. Place(j) \in Int /\ m \in Int
      BY <1>4, <2>1, <3>1
    <3>4. Place(j) < Place(Shown[m])
      BY <2>2, <3>1, <3>2, <3>3
    <3> QED BY <3>1, <3>4, PlacesOrder, AboveOrders
  <2>4. \A i \in matching : First_(i) => i = Shown[m]
    <3> SUFFICES ASSUME NEW i \in matching, First_(i), i # Shown[m]
                 PROVE  FALSE
      OBVIOUS
    <3>1. Ahead(i, Shown[m]) /\ Ahead(Shown[m], i)
      BY <2>2, <2>3 DEF First_
    <3>2. i \in DOMAIN rules /\ Shown[m] \in DOMAIN rules
      BY <1>3, <2>2
    <3> QED BY <3>1, <3>2, AboveOrders
  <2>5. (CHOOSE i \in matching : First_(i)) = Shown[m]
    <3>1. First_(Shown[m])
      BY <2>3 DEF First_
    <3> QED BY <2>2, <2>4, <3>1
  <2>6. matching # {}
    BY <2>2
  <2> QED BY <1>1, <1>6, <2>5, <2>6
<1> QED BY <1>5, <1>6

-----------------------------------------------------------------------------
(* The inductive invariant.  What a console was told by its checks, or has   *)
(* computed, still holds of the table while no write that could change it    *)
(* has crossed; and no rule has the id of one that is about to be inserted.  *)

Writes == {"insert", "update", "delete", "order"}
Lists == {ids \in Seq(Nat) : IsInjective(ids)}

Requests ==
    [pc : {"idle"}]
      \cup [pc : {"asks"}, body : Bodies, crossed : SUBSET Writes]
      \cup [pc : {"inserts"}, id : Nat, position : Nat, body : Bodies, crossed : SUBSET Writes]
      \cup [pc : {"updates"}, id : Nat, body : Bodies, crossed : SUBSET Writes]
      \cup [pc : {"checked"}, ids : Lists, crossed : SUBSET Writes]
      \cup [pc : {"orders"}, ids : Lists, moves : SUBSET Nat, crossed : SUBSET Writes]

Inserting(r) == r.pc = "inserts"
Ordering(r) == r.pc \in {"checked", "orders"}

\* The duplicate that was looked for is not there.
StillAlone(r) ==
    r.pc \in {"asks", "inserts", "updates"} /\ r.crossed \cap {"insert", "update"} = {}
      => ~Twins(r.body, IF r.pc = "updates" THEN DOMAIN rules \ {r.id} ELSE DOMAIN rules)

\* The position that was computed is below all the others in the list.
StillBottom(r) ==
    Inserting(r) /\ r.crossed \cap {"insert", "order"} = {}
      => \A i \in DOMAIN rules : rules[i].position < r.position

\* The rows that the snapshot had in their place are there.
StillPlaced(r) ==
    r.pc = "orders"
      => /\ r.moves \subseteq DOMAIN r.ids
         /\ "order" \notin r.crossed
              => \A k \in DOMAIN r.ids \ r.moves :
                    r.ids[k] \in DOMAIN rules => rules[r.ids[k]].position = k

\* The ids that a request has, among those that were given.
IdsGiven(r) ==
    /\ Inserting(r) => r.id < nextId /\ r.id \notin DOMAIN rules
    /\ Ordering(r) => \A k \in DOMAIN r.ids : r.ids[k] < nextId

Apart(r, s) ==
    Inserting(r) => /\ Inserting(s) => s.id # r.id
                    /\ Ordering(s) => \A k \in DOMAIN s.ids : s.ids[k] # r.id

RequestInv(r) ==
    r \in Requests /\ IdsGiven(r) /\ StillAlone(r) /\ StillBottom(r) /\ StillPlaced(r)

RulesInv ==
    /\ RulesType
    /\ nextId \in Nat /\ \A i \in DOMAIN rules : i < nextId
    /\ DOMAIN request = Admins /\ request = [a \in Admins |-> request[a]]
    /\ \A a \in Admins : RequestInv(request[a])
    /\ \A a, d \in Admins : a # d => Apart(request[a], request[d])

Cross(r, kind) == [r EXCEPT !.crossed = @ \cup {kind}]

LEMMA CrossedIs ==
    ASSUME NEW r \in Requests, r # Idle, NEW kind \in Writes
    PROVE  /\ r.pc # "idle"
           /\ Cross(r, kind) \in Requests /\ Cross(r, kind).pc = r.pc
           /\ r.crossed \subseteq Cross(r, kind).crossed /\ kind \in Cross(r, kind).crossed
           /\ r.pc \in {"asks", "inserts", "updates"} => Cross(r, kind).body = r.body
           /\ r.pc \in {"inserts", "updates"} => Cross(r, kind).id = r.id
           /\ Inserting(r) => Cross(r, kind).position = r.position
           /\ Ordering(r) => Cross(r, kind).ids = r.ids
           /\ r.pc = "orders" => Cross(r, kind).moves = r.moves
<1> USE DEF Cross, Inserting, Ordering
<1>1. CASE r \in [pc : {"idle"}]
  BY <1>1 DEF Idle
<1>2. CASE r \in [pc : {"asks"}, body : Bodies, crossed : SUBSET Writes]
  BY <1>2 DEF Requests
<1>3. CASE r \in [pc : {"inserts"}, id : Nat, position : Nat, body : Bodies, crossed : SUBSET Writes]
  BY <1>3 DEF Requests
<1>4. CASE r \in [pc : {"updates"}, id : Nat, body : Bodies, crossed : SUBSET Writes]
  BY <1>4 DEF Requests
<1>5. CASE r \in [pc : {"checked"}, ids : Lists, crossed : SUBSET Writes]
  BY <1>5 DEF Requests
<1>6. CASE r \in [pc : {"orders"}, ids : Lists, moves : SUBSET Nat, crossed : SUBSET Writes]
  BY <1>6 DEF Requests
<1> QED BY <1>1, <1>2, <1>3, <1>4, <1>5, <1>6 DEF Requests

\* What a request says of the table survives a write that crosses it: the
\* writes that could change it are recorded, and the others do not change it.
LEMMA CrossingKeeps ==
    ASSUME RulesType, NEW r, RequestInv(r), r # Idle, NEW kind \in Writes, nextId' = nextId,
           \A i \in DOMAIN rules' : i \notin DOMAIN rules =>
               /\ kind = "insert"
               /\ Inserting(r) => r.id # i
               /\ Ordering(r) => \A k \in DOMAIN r.ids : r.ids[k] # i,
           \A i \in DOMAIN rules \cap DOMAIN rules' :
               /\ kind # "update" => rules'[i].pattern = rules[i].pattern
               /\ kind # "order" => rules'[i].position = rules[i].position
    PROVE  RequestInv(Cross(r, kind))'
<1> DEFINE x == Cross(r, kind)
<1>1. /\ x \in Requests /\ x.pc = r.pc /\ r.pc # "idle" /\ r.crossed \subseteq x.crossed /\ kind \in x.crossed
      /\ r.pc \in {"asks", "inserts", "updates"} => x.body = r.body
      /\ r.pc \in {"inserts", "updates"} => x.id = r.id
      /\ Inserting(r) => x.position = r.position
      /\ Ordering(r) => x.ids = r.ids
      /\ r.pc = "orders" => x.moves = r.moves
  BY CrossedIs DEF RequestInv
<1> HIDE DEF x
<1>2. IdsGiven(x)'
  BY <1>1 DEF RequestInv, IdsGiven, Inserting, Ordering
<1>3. StillAlone(x)'
  BY <1>1 DEF RequestInv, StillAlone, Twins
<1>4. StillBottom(x)'
  BY <1>1 DEF RequestInv, StillBottom, Inserting
<1>5. StillPlaced(x)'
  BY <1>1 DEF RequestInv, StillPlaced, Ordering
<1>6. RequestInv(x)'
  BY <1>1, <1>2, <1>3, <1>4, <1>5 DEF RequestInv
<1> QED BY <1>6 DEF x

LEMMA IdleIsLight == RequestInv(Idle) /\ ~Inserting(Idle) /\ ~Ordering(Idle)
  BY DEF Idle, RequestInv, Requests, IdsGiven, StillAlone, StillBottom, StillPlaced, Inserting, Ordering

\* A console goes on by itself.
LEMMA OneMoves ==
    ASSUME RulesInv, NEW a \in Admins, NEW r, request' = [request EXCEPT ![a] = r],
           rules' = rules, nextId' \in Nat, nextId <= nextId', RequestInv(r)',
           \A d \in Admins \ {a} : Apart(r, request[d]) /\ Apart(request[d], r)
    PROVE  RulesInv'
<1>1. RulesType'
  BY DEF RulesInv, RulesType
<1>2. nextId' \in Nat /\ \A i \in DOMAIN rules' : i < nextId'
  BY DEF RulesInv, RulesType
<1>3. DOMAIN request' = Admins /\ request' = [d \in Admins |-> request'[d]]
  BY DEF RulesInv
<1>4. request'[a] = r /\ \A d \in Admins \ {a} : request'[d] = request[d]
  BY DEF RulesInv
<1>5. \A d \in Admins : RequestInv(request[d])'
  <2> SUFFICES ASSUME NEW d \in Admins, d # a
               PROVE  RequestInv(request[d])'
    BY <1>4
  <2> DEFINE x == request[d]
  <2>1. RequestInv(x) /\ request'[d] = x
    BY <1>4 DEF RulesInv
  <2>2. IdsGiven(request[d])'
    <3>1. Ordering(x) => \A k \in DOMAIN x.ids : x.ids[k] \in Nat
      BY <2>1 DEF RequestInv, Requests, Lists, Ordering
    <3>2. Inserting(x) => x.id \in Nat
      BY <2>1 DEF RequestInv, Requests, Inserting
    <3> QED BY <2>1, <3>1, <3>2 DEF RulesInv, RequestInv, IdsGiven, Inserting, Ordering
  <2>3. StillAlone(request[d])' /\ StillBottom(request[d])' /\ StillPlaced(request[d])'
    BY <2>1 DEF RequestInv, StillAlone, Twins, StillBottom, StillPlaced, Inserting
  <2> QED BY <2>1, <2>2, <2>3 DEF RequestInv
<1>6. \A d, e \in Admins : d # e => Apart(request[d], request[e])'
  BY <1>4 DEF RulesInv, Apart, Inserting, Ordering
<1> QED BY <1>1, <1>2, <1>3, <1>5, <1>6 DEF RulesInv

LEMMA RefusalKeeps ==
    ASSUME RulesInv, NEW a \in Admins, Refused(a), rules' = rules, nextId' = nextId
    PROVE  RulesInv'
<1>1. RequestInv(Idle)'
  BY IdleIsLight DEF Idle, RequestInv, Requests, IdsGiven, StillAlone, StillBottom, StillPlaced,
                     Inserting, Ordering
<1>2. \A d \in Admins \ {a} : Apart(Idle, request[d]) /\ Apart(request[d], Idle)
  BY IdleIsLight DEF Apart
<1>3. nextId' \in Nat /\ nextId <= nextId'
  BY DEF RulesInv
<1>4. request' = [request EXCEPT ![a] = Idle]
  BY DEF Refused
<1> QED BY <1>1, <1>2, <1>3, <1>4, OneMoves

\* A console writes: the others are crossed.
LEMMA WriteKeeps ==
    ASSUME RulesInv, NEW a \in Admins, NEW kind \in Writes, Ends(a, kind), nextId' = nextId,
           RulesType', \A i \in DOMAIN rules' : i < nextId,
           \A i \in DOMAIN rules' : i \notin DOMAIN rules =>
               /\ kind = "insert"
               /\ \A d \in Admins \ {a} :
                     /\ Inserting(request[d]) => request[d].id # i
                     /\ Ordering(request[d]) => \A k \in DOMAIN request[d].ids : request[d].ids[k] # i,
           \A i \in DOMAIN rules \cap DOMAIN rules' :
               /\ kind # "update" => rules'[i].pattern = rules[i].pattern
               /\ kind # "order" => rules'[i].position = rules[i].position
    PROVE  RulesInv'
<1>1. nextId' \in Nat /\ \A i \in DOMAIN rules' : i < nextId'
  BY DEF RulesInv
<1>2. DOMAIN request' = Admins /\ request' = [d \in Admins |-> request'[d]]
  BY DEF Ends
<1>3. request'[a] = Idle
  BY DEF Ends
<1>4. \A d \in Admins \ {a} :
         request'[d] = IF request[d] = Idle THEN Idle ELSE Cross(request[d], kind)
  BY DEF Ends, Cross
<1>5. \A d \in Admins : RequestInv(request[d])'
  <2>1. RequestInv(Idle)'
    BY DEF Idle, RequestInv, Requests, IdsGiven, StillAlone, StillBottom, StillPlaced,
           Inserting, Ordering
  <2>2. SUFFICES ASSUME NEW d \in Admins, d # a, request[d] # Idle
                 PROVE  RequestInv(request[d])'
    BY <1>3, <1>4, <2>1
  <2>3. \A x : x = request[d] => RequestInv(Cross(x, kind))'
    <3> SUFFICES ASSUME NEW x, x = request[d]
                 PROVE  RequestInv(Cross(x, kind))'
      OBVIOUS
    <3>1. RulesType /\ RequestInv(x) /\ x # Idle
      BY <2>2 DEF RulesInv
    <3> QED BY <2>2, <3>1, CrossingKeeps
  <2>4. \A y : y = request'[d] => RequestInv(y)'
    BY <1>4, <2>2, <2>3
  <2> QED BY <2>4
<1>6. \A d, e \in Admins : d # e => Apart(request[d], request[e])'
  <2> DEFINE Light(x, y) == /\ Inserting(y) => Inserting(x) /\ y.id = x.id
                            /\ Ordering(y) => Ordering(x) /\ y.ids = x.ids
  <2>1. \A d \in Admins : Light(request[d], request'[d])
    <3> SUFFICES ASSUME NEW d \in Admins PROVE Light(request[d], request'[d])
      OBVIOUS
    <3>1. CASE d = a \/ request[d] = Idle
      BY <1>3, <1>4, <3>1, IdleIsLight
    <3>2. CASE d # a /\ request[d] # Idle
      BY <1>4, <3>2, CrossedIs DEF RulesInv, RequestInv, Inserting, Ordering
    <3> QED BY <3>1, <3>2
  <2> QED BY <2>1 DEF RulesInv, Apart, Inserting, Ordering
<1> QED BY <1>1, <1>2, <1>5, <1>6 DEF RulesInv

\* One lemma per action.
LEMMA InitRulesInv == Init => RulesInv
<1> SUFFICES ASSUME Init PROVE RulesInv
  OBVIOUS
<1>1. PICK given \in BOOLEAN : rules = [i \in DOMAIN First |-> Rule(First[i], IF given THEN i ELSE Null)]
  BY DEF Init
<1>2. First \in Seq(Bodies) /\ Len(First) \in Nat /\ DOMAIN First = 1..Len(First)
  BY RulesAssumption DEF RulesAssumption
<1>3. IsFiniteSet(1..Len(First))
  BY <1>2, FS_Interval
<1>4. \A i \in DOMAIN First : Rule(First[i], IF given THEN i ELSE Null) \in RuleSpace
  BY <1>2, RulesAssumption DEF RulesAssumption, Rule, RuleSpace, Null
<1>5. RulesType
  BY <1>1, <1>2, <1>3, <1>4 DEF RulesType
<1>6. nextId \in Nat /\ \A i \in DOMAIN rules : i < nextId
  BY <1>1, <1>2 DEF Init
<1>7. request = [a \in Admins |-> Idle]
  BY DEF Init
<1>8. \A a, d \in Admins : RequestInv(request[a]) /\ Apart(request[a], request[d])
  BY <1>7, IdleIsLight DEF Apart
<1> QED BY <1>5, <1>6, <1>7, <1>8 DEF RulesInv

LEMMA AsksRuleKeeps ==
    ASSUME RulesInv, NEW a \in Admins, NEW b \in Bodies, AsksRule(a, b)
    PROVE  RulesInv'
<1> DEFINE r == [pc |-> "asks", body |-> b, crossed |-> {}]
<1>1. RequestInv(r)'
  BY DEF AsksRule, RequestInv, Requests, IdsGiven, StillAlone, Twins, StillBottom, StillPlaced,
         Inserting, Ordering
<1>2. \A d \in Admins \ {a} : Apart(r, request[d]) /\ Apart(request[d], r)
  BY DEF Apart, Inserting, Ordering
<1>3. request' = [request EXCEPT ![a] = r] /\ rules' = rules /\ nextId' \in Nat /\ nextId <= nextId'
  BY DEF AsksRule, RulesInv
<1> QED BY <1>1, <1>2, <1>3, OneMoves

LEMMA AsksUpdateKeeps ==
    ASSUME RulesInv, NEW a \in Admins, NEW i \in DOMAIN rules, NEW b \in Bodies, AsksUpdate(a, i, b)
    PROVE  RulesInv'
<1> DEFINE r == [pc |-> "updates", id |-> i, body |-> b, crossed |-> {}]
<1>1. RequestInv(r)'
  BY DEF AsksUpdate, RulesInv, RulesType, RequestInv, Requests, IdsGiven, StillAlone, Twins, StillBottom,
         StillPlaced, Inserting, Ordering
<1>2. \A d \in Admins \ {a} : Apart(r, request[d]) /\ Apart(request[d], r)
  BY DEF Apart, Inserting, Ordering
<1>3. request' = [request EXCEPT ![a] = r] /\ rules' = rules /\ nextId' \in Nat /\ nextId <= nextId'
  BY DEF AsksUpdate, RulesInv
<1> QED BY <1>1, <1>2, <1>3, OneMoves

LEMMA AsksOrderKeeps ==
    ASSUME RulesInv, NEW a \in Admins, NEW ids \in [1..Cardinality(DOMAIN rules) -> DOMAIN rules],
           AsksOrder(a, ids)
    PROVE  RulesInv'
<1> DEFINE r == [pc |-> "checked", ids |-> ids, crossed |-> {}]
<1>1. ids \in Lists
  <2>1. Cardinality(DOMAIN rules) \in Nat /\ DOMAIN rules \subseteq Nat
    BY FS_CardinalityType DEF RulesInv, RulesType
  <2>2. IsInjective(ids)
    BY DEF AsksOrder
  <2> QED BY <2>1, <2>2 DEF Lists
<1>2. \A k \in DOMAIN ids : ids[k] \in DOMAIN rules /\ ids[k] < nextId
  BY DEF RulesInv
<1>3. RequestInv(r)'
  BY <1>1, <1>2 DEF AsksOrder, RequestInv, Requests, IdsGiven, StillAlone, StillBottom,
         StillPlaced, Inserting, Ordering
<1>4. \A d \in Admins \ {a} : Apart(r, request[d]) /\ Apart(request[d], r)
  BY <1>2 DEF RulesInv, RequestInv, IdsGiven, Apart, Inserting, Ordering
<1>5. request' = [request EXCEPT ![a] = r] /\ rules' = rules /\ nextId' \in Nat /\ nextId <= nextId'
  BY DEF AsksOrder, RulesInv
<1> QED BY <1>3, <1>4, <1>5, OneMoves

\* The highest position is that of the last rule of the list.
LEMMA NextPositionIsBelow ==
    ASSUME RulesType
    PROVE  NextPosition \in Nat /\ \A i \in DOMAIN rules : rules[i].position < NextPosition
<1> DEFINE S == {rules[i].position : i \in DOMAIN rules} \cup {Null}
           n == Cardinality(DOMAIN rules)
<1>1. S \subseteq Nat
  BY DEF RulesType, RuleSpace, Null
<1>2. \E top \in S : \A p \in S : top >= p
  <2>1. CASE DOMAIN rules = {}
    <3>1. S = {Null}
      BY <2>1, Zenon
    <3> QED BY <3>1 DEF Null
  <2>2. CASE DOMAIN rules # {}
    <3>1. /\ n \in Nat /\ \A i \in DOMAIN rules : Place(i) \in 1..n
          /\ \A k \in 1..n : Shown[k] \in DOMAIN rules /\ Place(Shown[k]) = k
      BY ShownIsTheList
    <3>2. PICK i \in DOMAIN rules : Place(i) \in 1..n
      BY <2>2, <3>1
    <3> DEFINE last == Shown[n]
    <3> HIDE DEF n
    <3>3. n \in 1..n
      BY <3>1, <3>2
    <3>4. last \in DOMAIN rules /\ Place(last) = n
      BY <3>1, <3>3
    <3> HIDE DEF last
    <3>5. \A j \in DOMAIN rules : ~Above(last, j)
      BY <3>1, <3>4, PlacesOrder
    <3>6. \A j \in DOMAIN rules : /\ rules[last].position \in Nat /\ rules[j].position \in Nat
                                  /\ rules[last].position >= rules[j].position
      BY <3>4, <3>5 DEF RulesType, RuleSpace, Above
    <3> QED BY <3>4, <3>6 DEF Null
  <2> QED BY <2>1, <2>2
<1>3. Max(S) \in S /\ \A p \in S : Max(S) >= p
  <2> HIDE DEF S
  <2> QED BY <1>2 DEF Max
<1>4. NextPosition = Max(S) + 1
  BY DEF NextPosition
<1>5. \A i \in DOMAIN rules : rules[i].position \in S
  OBVIOUS
<1> DEFINE top == Max(S)
<1> HIDE DEF S, top
<1>6. top \in Nat /\ \A i \in DOMAIN rules : rules[i].position \in Nat /\ top >= rules[i].position
  BY <1>1, <1>3, <1>5, Zenon DEF top
<1>7. NextPosition = top + 1
  BY <1>4 DEF top
<1> QED BY <1>6, <1>7

LEMMA InsertsKeeps ==
    ASSUME RulesInv, NEW a \in Admins, Inserts(a)
    PROVE  RulesInv'
<1>1. SUFFICES ASSUME NEW r, r = [pc |-> "inserts", id |-> nextId, position |-> NextPosition,
                                  body |-> request[a].body, crossed |-> request[a].crossed]
               PROVE  RulesInv'
  OBVIOUS
<1>2. RequestInv(request[a]) /\ request[a].pc = "asks"
  BY DEF RulesInv, Inserts
<1>3. request[a].body \in Bodies /\ request[a].crossed \in SUBSET Writes
  BY <1>2 DEF RequestInv, Requests
<1>4. NextPosition \in Nat /\ \A i \in DOMAIN rules : rules[i].position < NextPosition
  BY NextPositionIsBelow DEF RulesInv
<1>5. nextId \in Nat /\ nextId' = nextId + 1 /\ rules' = rules /\ request' = [request EXCEPT ![a] = r]
  BY <1>1 DEF RulesInv, Inserts
<1>6. \A i \in DOMAIN rules : i < nextId
  BY DEF RulesInv
<1>7. RequestInv(r)'
  <2>1. r \in Requests
    BY <1>1, <1>3, <1>4, <1>5 DEF Requests
  <2>2. IdsGiven(r)'
    BY <1>1, <1>5, <1>6 DEF IdsGiven, Inserting, Ordering
  <2>3. StillAlone(r)'
    BY <1>1, <1>2, <1>5 DEF RequestInv, StillAlone, Twins
  <2>4. StillBottom(r)' /\ StillPlaced(r)'
    BY <1>1, <1>4, <1>5 DEF StillBottom, StillPlaced
  <2> QED BY <2>1, <2>2, <2>3, <2>4 DEF RequestInv
<1>8. ASSUME NEW d \in Admins \ {a}
      PROVE  Apart(r, request[d]) /\ Apart(request[d], r)
  <2>1. /\ Inserting(request[d]) => request[d].id < nextId
        /\ Ordering(request[d]) => \A k \in DOMAIN request[d].ids : request[d].ids[k] < nextId
    BY DEF RulesInv, RequestInv, IdsGiven
  <2>2. r.id = nextId /\ r.pc = "inserts"
    BY <1>1
  <2> QED BY <1>5, <2>1, <2>2 DEF Apart, Inserting, Ordering
<1>9. nextId' \in Nat /\ nextId <= nextId'
  BY <1>5
<1> QED BY <1>5, <1>7, <1>8, <1>9, OneMoves

LEMMA RuleFits ==
    ASSUME NEW b \in Bodies, NEW p \in Nat
    PROVE  Rule(b, p) \in RuleSpace /\ Rule(b, p).pattern = b.pattern /\ Rule(b, p).position = p
  BY RulesAssumption DEF RulesAssumption, Rule, RuleSpace

\* What is inserted was not there.
LEMMA InsertionIs ==
    ASSUME RulesInv, NEW a \in Admins, Inserted(a), ~Taken(request[a].body, DOMAIN rules)
    PROVE  /\ Ends(a, "insert") /\ RulesType' /\ nextId' = nextId
           /\ Inserting(request[a]) /\ request[a].id \notin DOMAIN rules /\ request[a].id < nextId
           /\ DOMAIN rules' = DOMAIN rules \cup {request[a].id}
           /\ \A i \in DOMAIN rules : rules'[i] = rules[i]
           /\ rules'[request[a].id].pattern = request[a].body.pattern
           /\ rules'[request[a].id].position = request[a].position
<1> DEFINE r == request[a]
           D == DOMAIN rules \cup {r.id}
<1>1. RequestInv(r) /\ r.pc = "inserts"
  BY DEF RulesInv, Inserted
<1>2. r.id \in Nat /\ r.position \in Nat /\ r.body \in Bodies
  BY <1>1 DEF RequestInv, Requests
<1>3. r.id \notin DOMAIN rules /\ r.id < nextId
  BY <1>1 DEF RequestInv, IdsGiven, Inserting
<1>4. /\ Ends(a, "insert") /\ nextId' = nextId
      /\ rules' = [i \in D |-> IF i = r.id THEN Rule(r.body, r.position) ELSE rules[i]]
  BY DEF Inserted
<1>5. /\ Rule(r.body, r.position) \in RuleSpace
      /\ Rule(r.body, r.position).pattern = r.body.pattern
      /\ Rule(r.body, r.position).position = r.position
  BY <1>2, RuleFits
<1>6. IsFiniteSet(D) /\ D \subseteq Nat
  BY <1>2, FS_AddElement DEF RulesInv, RulesType
<1>7. RulesType'
  BY <1>4, <1>5, <1>6 DEF RulesInv, RulesType
<1>8. DOMAIN rules' = D /\ \A i \in DOMAIN rules : rules'[i] = rules[i]
  BY <1>3, <1>4
<1>9. rules'[r.id] = Rule(r.body, r.position)
  BY <1>4
<1> QED BY <1>1, <1>3, <1>4, <1>5, <1>7, <1>8, <1>9 DEF Inserting

LEMMA InsertedKeeps ==
    ASSUME RulesInv, NEW a \in Admins, Inserted(a)
    PROVE  RulesInv'
<1>1. CASE Taken(request[a].body, DOMAIN rules)
  BY <1>1, RefusalKeeps DEF Inserted
<1>2. CASE ~Taken(request[a].body, DOMAIN rules)
  <2> DEFINE id == request[a].id
  <2>1. /\ Ends(a, "insert") /\ RulesType' /\ nextId' = nextId
        /\ Inserting(request[a]) /\ id \notin DOMAIN rules /\ id < nextId
        /\ DOMAIN rules' = DOMAIN rules \cup {id}
        /\ \A i \in DOMAIN rules : rules'[i] = rules[i]
    BY <1>2, InsertionIs
  <2>2. \A i \in DOMAIN rules' : i < nextId
    BY <2>1 DEF RulesInv
  <2>3. \A i \in DOMAIN rules' : i \notin DOMAIN rules =>
           \A d \in Admins \ {a} :
              /\ Inserting(request[d]) => request[d].id # i
              /\ Ordering(request[d]) => \A k \in DOMAIN request[d].ids : request[d].ids[k] # i
    BY <2>1 DEF RulesInv, Apart
  <2> QED BY <2>1, <2>2, <2>3, WriteKeeps DEF Writes
<1> QED BY <1>1, <1>2

LEMMA UpdateIs ==
    ASSUME RulesInv, NEW a \in Admins, Updated(a), request[a].id \in DOMAIN rules,
           ~Taken(request[a].body, DOMAIN rules \ {request[a].id})
    PROVE  /\ Ends(a, "update") /\ RulesType' /\ nextId' = nextId
           /\ request[a].pc = "updates" /\ DOMAIN rules' = DOMAIN rules
           /\ \A i \in DOMAIN rules : rules'[i].position = rules[i].position
           /\ \A i \in DOMAIN rules \ {request[a].id} : rules'[i] = rules[i]
           /\ rules'[request[a].id].pattern = request[a].body.pattern
<1> DEFINE r == request[a]
           p == rules[r.id].position
<1>1. RequestInv(r) /\ r.pc = "updates"
  BY DEF RulesInv, Updated
<1>2. r.body \in Bodies
  BY <1>1 DEF RequestInv, Requests
<1>3. p \in Nat
  BY DEF RulesInv, RulesType, RuleSpace
<1>4. /\ Rule(r.body, p) \in RuleSpace
      /\ Rule(r.body, p).pattern = r.body.pattern /\ Rule(r.body, p).position = p
  BY <1>2, <1>3, RuleFits
<1>5. Ends(a, "update") /\ nextId' = nextId /\ rules' = [rules EXCEPT ![r.id] = Rule(r.body, p)]
  BY DEF Updated
<1>6. RulesType'
  BY <1>4, <1>5 DEF RulesInv, RulesType
<1>7. /\ DOMAIN rules' = DOMAIN rules /\ rules'[r.id] = Rule(r.body, p)
      /\ \A i \in DOMAIN rules \ {r.id} : rules'[i] = rules[i]
  BY <1>5
<1> QED BY <1>1, <1>4, <1>5, <1>6, <1>7

LEMMA UpdatedKeeps ==
    ASSUME RulesInv, NEW a \in Admins, Updated(a)
    PROVE  RulesInv'
<1>1. CASE request[a].id \notin DOMAIN rules \/ Taken(request[a].body, DOMAIN rules \ {request[a].id})
  BY <1>1, RefusalKeeps DEF Updated
<1>2. CASE request[a].id \in DOMAIN rules /\ ~Taken(request[a].body, DOMAIN rules \ {request[a].id})
  <2>1. /\ Ends(a, "update") /\ RulesType' /\ nextId' = nextId /\ DOMAIN rules' = DOMAIN rules
        /\ \A i \in DOMAIN rules : rules'[i].position = rules[i].position
    BY <1>2, UpdateIs
  <2>2. \A i \in DOMAIN rules' : i < nextId
    BY <2>1 DEF RulesInv
  <2> QED BY <2>1, <2>2, WriteKeeps DEF Writes
<1> QED BY <1>1, <1>2

LEMMA DeletedKeeps ==
    ASSUME RulesInv, NEW a \in Admins, NEW i \in DOMAIN rules, Deleted(a, i)
    PROVE  RulesInv'
<1> DEFINE D == DOMAIN rules \ {i}
<1>1. Ends(a, "delete") /\ nextId' = nextId /\ rules' = [j \in D |-> rules[j]]
  BY DEF Deleted
<1>2. IsFiniteSet(D) /\ D \subseteq Nat
  BY FS_RemoveElement DEF RulesInv, RulesType
<1>3. RulesType'
  BY <1>1, <1>2 DEF RulesInv, RulesType
<1>4. DOMAIN rules' = D /\ \A j \in D : rules'[j] = rules[j]
  BY <1>1
<1>5. \A j \in DOMAIN rules' : j < nextId /\ j \in DOMAIN rules
  BY <1>4 DEF RulesInv
<1> QED BY <1>1, <1>3, <1>4, <1>5, WriteKeeps DEF Writes

LEMMA OrdersKeeps ==
    ASSUME RulesInv, NEW a \in Admins, Orders(a)
    PROVE  RulesInv'
<1>1. SUFFICES ASSUME NEW r, r = [pc |-> "orders", ids |-> request[a].ids,
                                  moves |-> Misplaced(request[a].ids), crossed |-> {}]
               PROVE  RulesInv'
  OBVIOUS
<1>2. RequestInv(request[a]) /\ request[a].pc = "checked"
  BY DEF RulesInv, Orders
<1>3. request[a].ids \in Lists
  BY <1>2 DEF RequestInv, Requests
<1>4. nextId' \in Nat /\ nextId <= nextId' /\ nextId' = nextId /\ rules' = rules
      /\ request' = [request EXCEPT ![a] = r]
  BY <1>1 DEF RulesInv, Orders
<1>5. r.moves \subseteq DOMAIN r.ids /\ r.moves \subseteq Nat
  BY <1>1, <1>3 DEF Misplaced, Lists
<1>6. RequestInv(r)'
  <2>1. r \in Requests
    BY <1>1, <1>3, <1>5 DEF Requests
  <2>2. IdsGiven(r)'
    BY <1>1, <1>2, <1>4 DEF RequestInv, IdsGiven, Inserting, Ordering
  <2>3. StillAlone(r)' /\ StillBottom(r)'
    BY <1>1 DEF StillAlone, StillBottom, Inserting
  <2>4. StillPlaced(r)'
    BY <1>1, <1>4, <1>5 DEF StillPlaced, Misplaced
  <2> QED BY <2>1, <2>2, <2>3, <2>4 DEF RequestInv
<1>7. \A d \in Admins \ {a} : Apart(r, request[d]) /\ Apart(request[d], r)
  BY <1>1, <1>2 DEF RulesInv, Apart, Inserting, Ordering
<1> QED BY <1>4, <1>6, <1>7, OneMoves

\* What an order does: of the listed rules that are still there, those to move
\* have the position that was asked for them and the others their own.
LEMMA OrderIs ==
    ASSUME RulesInv, NEW a \in Admins, Ordered(a)
    PROVE  /\ RulesType' /\ nextId' = nextId /\ request[a].pc = "orders"
           /\ (Refused(a) /\ rules' = rules) \/ Ends(a, "order")
           /\ DOMAIN rules' = DOMAIN rules
           /\ \A i \in DOMAIN rules : rules'[i].pattern = rules[i].pattern
           /\ \A k \in DOMAIN request[a].ids : request[a].ids[k] \in DOMAIN rules =>
                 rules'[request[a].ids[k]].position =
                   IF k \in request[a].moves THEN k ELSE rules[request[a].ids[k]].position
<1> DEFINE r == request[a]
           moved == {r.ids[k] : k \in r.moves \cap Misplaced(r.ids)}
           at(i) == CHOOSE k \in r.moves : r.ids[k] = i
<1>1. RequestInv(r) /\ r.pc = "orders"
  BY DEF RulesInv, Ordered
<1>2. r.ids \in Seq(Nat) /\ IsInjective(r.ids) /\ r.moves \subseteq Nat /\ r.moves \subseteq DOMAIN r.ids
  BY <1>1 DEF RequestInv, Requests, Lists, StillPlaced
<1>3. /\ nextId' = nextId
      /\ rules' = [i \in DOMAIN rules |->
                      IF i \in moved THEN [rules[i] EXCEPT !.position = at(i)] ELSE rules[i]]
      /\ IF moved = {} THEN Refused(a) ELSE Ends(a, "order")
  BY DEF Ordered
<1>4. \A k \in r.moves : r.ids[k] \in moved => at(r.ids[k]) = k
  BY <1>2 DEF IsInjective
<1>5. \A i \in moved : at(i) \in Nat
  BY <1>2
<1>6. \A k \in DOMAIN r.ids : r.ids[k] \in moved <=> k \in r.moves \cap Misplaced(r.ids)
  BY <1>2 DEF IsInjective
<1> HIDE DEF moved, at
<1>7. \A i \in DOMAIN rules : /\ rules[i] \in RuleSpace /\ rules'[i] \in RuleSpace
                             /\ rules'[i].pattern = rules[i].pattern
                             /\ rules'[i].position = IF i \in moved THEN at(i) ELSE rules[i].position
  BY <1>3, <1>5 DEF RulesInv, RulesType, RuleSpace
<1>8. DOMAIN rules' = DOMAIN rules /\ rules' = [i \in DOMAIN rules |-> rules'[i]]
  BY <1>3
<1>9. RulesType'
  BY <1>7, <1>8 DEF RulesInv, RulesType
<1>10. moved = {} => rules' = rules
  BY <1>3 DEF RulesInv, RulesType
<1>11. ASSUME NEW k \in DOMAIN r.ids, r.ids[k] \in DOMAIN rules
       PROVE  rules'[r.ids[k]].position = IF k \in r.moves THEN k ELSE rules[r.ids[k]].position
  <2>1. CASE k \in r.moves \cap Misplaced(r.ids)
    BY <1>4, <1>6, <1>7, <1>11, <2>1
  <2>2. CASE k \notin r.moves
    BY <1>6, <1>7, <1>11, <2>2
  <2>3. CASE k \notin Misplaced(r.ids)
    <3>1. rules[r.ids[k]].position = k
      BY <1>11, <2>3 DEF Misplaced
    <3> QED BY <1>6, <1>7, <1>11, <2>3, <3>1
  <2> QED BY <2>1, <2>2, <2>3
<1> QED BY <1>1, <1>3, <1>7, <1>8, <1>9, <1>10, <1>11

LEMMA OrderedKeeps ==
    ASSUME RulesInv, NEW a \in Admins, Ordered(a)
    PROVE  RulesInv'
<1>1. /\ RulesType' /\ nextId' = nextId /\ DOMAIN rules' = DOMAIN rules
      /\ (Refused(a) /\ rules' = rules) \/ Ends(a, "order")
      /\ \A i \in DOMAIN rules : rules'[i].pattern = rules[i].pattern
  BY OrderIs
<1>2. CASE Refused(a) /\ rules' = rules
  BY <1>1, <1>2, RefusalKeeps
<1>3. CASE Ends(a, "order")
  <2>1. \A i \in DOMAIN rules' : i < nextId
    BY <1>1 DEF RulesInv
  <2> QED BY <1>1, <1>3, <2>1, WriteKeeps DEF Writes
<1> QED BY <1>1, <1>2, <1>3

LEMMA NextRulesInv == RulesInv /\ [Next]_vars => RulesInv'
<1> SUFFICES ASSUME RulesInv, [Next]_vars
             PROVE  RulesInv'
  OBVIOUS
<1>1. ASSUME NEW a \in Admins, NEW b \in Bodies, AsksRule(a, b) PROVE RulesInv'
  BY <1>1, AsksRuleKeeps
<1>2. ASSUME NEW a \in Admins, NEW b \in Bodies, NEW i \in DOMAIN rules, AsksUpdate(a, i, b)
      PROVE  RulesInv'
  BY <1>2, AsksUpdateKeeps
<1>3. ASSUME NEW a \in Admins, Inserts(a) PROVE RulesInv'
  BY <1>3, InsertsKeeps
<1>4. ASSUME NEW a \in Admins, Inserted(a) PROVE RulesInv'
  BY <1>4, InsertedKeeps
<1>5. ASSUME NEW a \in Admins, Updated(a) PROVE RulesInv'
  BY <1>5, UpdatedKeeps
<1>6. ASSUME NEW a \in Admins, NEW i \in DOMAIN rules, Deleted(a, i) PROVE RulesInv'
  BY <1>6, DeletedKeeps
<1>7. ASSUME NEW a \in Admins, NEW ids \in [1..Cardinality(DOMAIN rules) -> DOMAIN rules],
             AsksOrder(a, ids)
      PROVE  RulesInv'
  BY <1>7, AsksOrderKeeps
<1>8. ASSUME NEW a \in Admins, Orders(a) PROVE RulesInv'
  BY <1>8, OrdersKeeps
<1>9. ASSUME NEW a \in Admins, Ordered(a) PROVE RulesInv'
  BY <1>9, OrderedKeeps
<1>10. ASSUME NEW a \in Admins, Deadlocked(a) PROVE RulesInv'
  BY <1>10, RefusalKeeps DEF Deadlocked
<1>11. CASE (\E u \in Units : UnitSet(u)) \/ UNCHANGED vars
  <2>1. rules' = rules /\ nextId' = nextId /\ request' = request
    BY <1>11 DEF UnitSet, vars
  <2> QED BY <2>1 DEF RulesInv, RulesType, RequestInv, IdsGiven, StillAlone, Twins, StillBottom,
                      StillPlaced, Apart, Inserting, Ordering
<1> QED BY <1>1, <1>2, <1>3, <1>4, <1>5, <1>6, <1>7, <1>8, <1>9, <1>10, <1>11 DEF Next

LEMMA RulesHold == Spec => []RulesInv
  BY InitRulesInv, NextRulesInv, PTL DEF Spec

-----------------------------------------------------------------------------
(* The theorems. *)

\* The entity that a call is given is the one that the console shows to decide
\* (resolve_org_unit; org_units.py: testRules).
THEOREM CallsAreDecidedAsShown == Spec => []DecidesAsShown
<1>1. RulesInv => DecidesAsShown
  BY SameRuleDecides DEF RulesInv
<1> QED BY <1>1, RulesHold, PTL

\* A console completes its own statement.
LEMMA WhoCompletes ==
    ASSUME RulesInv, [Next]_vars, NEW a \in Admins, Completes(a, "inserts")
    PROVE  Inserted(a) /\ ~Taken(request[a].body, DOMAIN rules)
<1>1. request[a].pc = "inserts" /\ request[a] # Idle /\ request'[a] = Idle /\ rules' # rules
  BY DEF Completes, Idle
<1>2. \A d \in Admins \ {a}, kind \in Writes : ~Ends(d, kind)
  <2> SUFFICES ASSUME NEW d \in Admins \ {a}, NEW kind \in Writes, Ends(d, kind)
               PROVE  FALSE
    OBVIOUS
  <2>1. request'[a] = Cross(request[a], kind)
    BY <1>1 DEF Ends, Cross
  <2> QED BY <1>1, <2>1, CrossedIs DEF RulesInv, RequestInv, Idle
<1>3. \A d \in Admins : ~Refused(d) \/ d = a
  BY <1>1 DEF RulesInv, Refused
<1>4. \E d \in Admins : Inserted(d) \/ Updated(d) \/ Ordered(d) \/ \E i \in DOMAIN rules : Deleted(d, i)
  BY <1>1 DEF Next, vars, AsksRule, AsksUpdate, AsksOrder, Inserts, Orders, Deadlocked, UnitSet
<1>5. Inserted(a)
  BY <1>1, <1>2, <1>3, <1>4 DEF Inserted, Updated, Ordered, Deleted, Writes, Idle
<1>6. ~Taken(request[a].body, DOMAIN rules)
  BY <1>1, <1>5 DEF Inserted
<1> QED BY <1>5, <1>6

\* What holds of the list holds of it after the step.
LEMMA ListAfter ==
    RulesType' =>
      /\ \A i, j \in DOMAIN rules' : Above(i, j)' => Place(i)' < Place(j)'
      /\ \A i \in DOMAIN rules' : (\A j \in DOMAIN rules' \ {i} : Above(j, i)') => Last(Shown') = i
<1>1. (RulesType => /\ \A i, j \in DOMAIN rules : Above(i, j) => Place(i) < Place(j)
                    /\ \A i \in DOMAIN rules :
                         (\A j \in DOMAIN rules \ {i} : Above(j, i)) => Last(Shown) = i)
  BY PlacesOrder, BottomIsLast
<1>2. (RulesType => /\ \A i, j \in DOMAIN rules : Above(i, j) => Place(i) < Place(j)
                    /\ \A i \in DOMAIN rules :
                         (\A j \in DOMAIN rules \ {i} : Above(j, i)) => Last(Shown) = i)'
  BY <1>1, PTL
<1> QED BY <1>2

\* A new rule is the last of the list, that which wins over all the others,
\* unless the list was written meanwhile (org_units.py: createRule).
THEOREM NewRulesDecide == Spec => NewRuleDecides
<1>1. ASSUME RulesInv, [Next]_vars, NEW a \in Admins, Completes(a, "inserts"),
             request[a].crossed \cap {"insert", "order"} = {}, NEW id, id = request[a].id
      PROVE  Last(Shown') = id
  <2> DEFINE r == request[a]
  <2>1. Inserted(a) /\ ~Taken(r.body, DOMAIN rules)
    BY <1>1, WhoCompletes
  <2>2. /\ RulesType' /\ Inserting(r) /\ id \notin DOMAIN rules
        /\ DOMAIN rules' = DOMAIN rules \cup {id}
        /\ \A i \in DOMAIN rules : rules'[i] = rules[i]
        /\ rules'[id].position = r.position
    BY <1>1, <2>1, InsertionIs
  <2>3. \A i \in DOMAIN rules : rules[i].position < r.position
    BY <1>1, <2>2 DEF RulesInv, RequestInv, StillBottom
  <2>4. \A j \in DOMAIN rules' \ {id} : Above(j, id)'
    BY <2>2, <2>3 DEF Above
  <2> QED BY <2>2, <2>4, ListAfter
<1>2. RulesInv /\ [Next]_vars =>
        [\A a \in Admins : Completes(a, "inserts") /\ request[a].crossed \cap {"insert", "order"} = {}
           => Last(Shown') = request[a].id]_vars
  BY <1>1
<1> QED BY <1>2, RulesHold, PTL DEF Spec, NewRuleDecides

\* An order that was accepted is the order of its rules, unless another one was
\* written at the same time (org_units.py: orderRules).
THEOREM OrdersAreKept == Spec => OrderAsAsked
<1>1. ASSUME RulesInv, NEW a \in Admins, Ordered(a), "order" \notin request[a].crossed,
             NEW ids, ids = request[a].ids
      PROVE  ListedAs(ids)'
  <2>1. /\ RulesType' /\ request[a].pc = "orders" /\ DOMAIN rules' = DOMAIN rules
        /\ \A k \in DOMAIN ids : ids[k] \in DOMAIN rules =>
              rules'[ids[k]].position = IF k \in request[a].moves THEN k ELSE rules[ids[k]].position
    BY <1>1, OrderIs
  <2>2. \A k \in DOMAIN ids \ request[a].moves :
           ids[k] \in DOMAIN rules => rules[ids[k]].position = k
    BY <1>1, <2>1 DEF RulesInv, RequestInv, StillPlaced
  <2>3. \A k \in DOMAIN ids : ids[k] \in DOMAIN rules' => rules'[ids[k]].position = k
    BY <2>1, <2>2
  <2>4. DOMAIN ids \subseteq Nat
    BY <1>1, <2>1 DEF RulesInv, RequestInv, Requests, Lists
  <2>5. ASSUME NEW k \in DOMAIN ids, NEW l \in DOMAIN ids, k < l, {ids[k], ids[l]} \subseteq DOMAIN rules'
        PROVE  Place(ids[k])' < Place(ids[l])'
    <3>1. Above(ids[k], ids[l])'
      BY <2>3, <2>4, <2>5 DEF Above
    <3> QED BY <2>1, <2>5, <3>1, ListAfter
  <2> QED BY <2>5 DEF ListedAs
<1>2. RulesInv /\ [Next]_vars =>
        [\A a \in Admins : Ordered(a) /\ "order" \notin request[a].crossed
           => \A ids \in {request[a].ids} : ListedAs(ids)']_vars
  BY <1>1
<1> QED BY <1>2, RulesHold, PTL DEF Spec, OrderAsAsked

\* Two rules that differ by the case alone come only of two checks that crossed
\* (org_units.py: duplicate).
THEOREM TwinsComeOfRaces == Spec => TwinsOnlyInRace
<1> DEFINE Alike(i, j) == {i, j} \subseteq DOMAIN rules /\ Fold[rules[i].pattern] = Fold[rules[j].pattern]
           Raced(a) == /\ Completes(a, "inserts") \/ Completes(a, "updates")
                       /\ request[a].crossed \cap {"insert", "update"} # {}
<1>1. ASSUME RulesInv, [Next]_vars, NEW i \in DOMAIN rules', NEW j \in DOMAIN rules', i # j,
             Fold[rules'[i].pattern] = Fold[rules'[j].pattern], ~Alike(i, j)
      PROVE  \E a \in Admins : Raced(a)
  <2>1. ~(/\ DOMAIN rules' \subseteq DOMAIN rules
          /\ \A k \in DOMAIN rules' : rules'[k].pattern = rules[k].pattern)
    BY <1>1
  <2>2. ASSUME NEW a \in Admins, Inserted(a)
        PROVE  Raced(a)
    <3> DEFINE r == request[a]
    <3>1. ~Taken(r.body, DOMAIN rules)
      BY <2>1, <2>2 DEF Inserted
    <3>2. /\ Ends(a, "insert") /\ Inserting(r) /\ r.id \notin DOMAIN rules
          /\ DOMAIN rules' = DOMAIN rules \cup {r.id}
          /\ \A k \in DOMAIN rules : rules'[k] = rules[k]
          /\ rules'[r.id].pattern = r.body.pattern
      BY <1>1, <2>2, <3>1, InsertionIs
    <3>3. Twins(r.body, DOMAIN rules)
      BY <1>1, <3>2 DEF Twins
    <3>4. r.crossed \cap {"insert", "update"} # {}
      BY <1>1, <3>2, <3>3 DEF RulesInv, RequestInv, StillAlone, Inserting
    <3>5. Completes(a, "inserts")
      BY <3>2 DEF Completes, Ends, Inserting
    <3> QED BY <3>4, <3>5
  <2>3. ASSUME NEW a \in Admins, Updated(a)
        PROVE  Raced(a)
    <3> DEFINE r == request[a]
    <3>1. r.id \in DOMAIN rules /\ ~Taken(r.body, DOMAIN rules \ {r.id})
      BY <2>1, <2>3 DEF Updated
    <3>2. /\ Ends(a, "update") /\ r.pc = "updates" /\ DOMAIN rules' = DOMAIN rules
          /\ \A k \in DOMAIN rules \ {r.id} : rules'[k] = rules[k]
          /\ rules'[r.id].pattern = r.body.pattern
      BY <1>1, <2>3, <3>1, UpdateIs
    <3>3. Twins(r.body, DOMAIN rules \ {r.id})
      BY <1>1, <3>2 DEF Twins
    <3>4. r.crossed \cap {"insert", "update"} # {}
      BY <1>1, <3>2, <3>3 DEF RulesInv, RequestInv, StillAlone
    <3>5. Completes(a, "updates")
      BY <2>1, <3>2 DEF Completes, Ends
    <3> QED BY <3>4, <3>5
  <2>4. \A a \in Admins : ~Ordered(a)
    BY <1>1, <2>1, OrderIs
  <2>5. \A a \in Admins, k \in DOMAIN rules : ~Deleted(a, k)
    BY <2>1 DEF Deleted
  <2>6. rules' # rules
    BY <2>1
  <2> QED BY <1>1, <2>2, <2>3, <2>4, <2>5, <2>6
          DEF Next, vars, AsksRule, AsksUpdate, AsksOrder, Inserts, Orders, Deadlocked, UnitSet
<1>2. RulesInv /\ [Next]_vars =>
        [\A i, j \in DOMAIN rules' :
           /\ i # j /\ Fold[rules'[i].pattern] = Fold[rules'[j].pattern]
           /\ ~({i, j} \subseteq DOMAIN rules /\ Fold[rules[i].pattern] = Fold[rules[j].pattern])
           => \E a \in Admins : /\ Completes(a, "inserts") \/ Completes(a, "updates")
                                /\ request[a].crossed \cap {"insert", "update"} # {}]_vars
  BY <1>1
<1> QED BY <1>2, RulesHold, PTL DEF Spec, TwinsOnlyInRace
=============================================================================
