---------------------------- MODULE OrgUnitRules ----------------------------
(***************************************************************************)
(* The rules of the manager that attach a caller to an entity: a list read *)
(* from top to bottom of which the last rule that matches decides          *)
(* (manager/api/org_units.py, db/schema_org_units.sql).  A request of the  *)
(* console checks what it wants to write in transactions of their own, and *)
(* its statement reads the table as it was when it began.                  *)
(***************************************************************************)
EXTENDS Naturals, FiniteSets, SequencesExt

CONSTANTS
    Admins,     \* consoles, each with one request at a time
    Units,      \* codes of entities
    Bodies,     \* what a console may want a rule to be, and the first rules
    Fold,       \* lower(), on the patterns of the bodies
    Callers,
    Claims,     \* the callers that a pattern in lower case matches
    NoUnit,
    First,      \* the bodies of the rules that the deployment came with
    MaxRules    \* bound: no rule is created beyond this many

ASSUME RulesAssumption ==
    /\ \A b \in Bodies : /\ b.unit \in Units /\ b.active \in BOOLEAN
                         /\ b.pattern \in DOMAIN Fold /\ Fold[b.pattern] \in DOMAIN Claims
    /\ NoUnit \notin Units /\ MaxRules \in Nat
    /\ First \in Seq(Bodies) /\ Len(First) <= MaxRules

VARIABLES
    rules,     \* the table org_unit_rules, by id
    nextId,    \* the sequence behind the ids
    enabled,   \* the entities that are active
    request    \* what each console has under way; `crossed`: the writes of
               \* others since it checked, or since its statement began to order

vars == <<rules, nextId, enabled, request>>

\* A position may be NULL, which is first in the list: no other is below 1.
Null == 0
Rule(b, p) == [unit |-> b.unit, pattern |-> b.pattern, active |-> b.active, position |-> p]

Idle == [pc |-> "idle"]

-----------------------------------------------------------------------------
(* What the list decides. *)

\* ORDER BY position NULLS FIRST, id
Above(i, j) ==
    \/ rules[i].position < rules[j].position
    \/ rules[i].position = rules[j].position /\ i < j

Place(i) == 1 + Cardinality({j \in DOMAIN rules : Above(j, i)})

Shown == [k \in 1..Cardinality(DOMAIN rules) |-> CHOOSE i \in DOMAIN rules : Place(i) = k]

Matches(i, c) == rules[i].active /\ c \in Claims[Fold[rules[i].pattern]]

\* testRules: the last of the rows that matched whose entity is active.
Winner(c) ==
    LET deciding == {k \in DOMAIN Shown : Matches(Shown[k], c) /\ rules[Shown[k]].unit \in enabled}
    IN IF deciding = {} THEN NoUnit ELSE rules[Shown[Max(deciding)]].unit

\* A bug: DESC without NULLS LAST.
AheadNullsFirst(i, j) ==
    LET rank(k) == IF rules[k].position = Null THEN 2 * MaxRules + 1 ELSE rules[k].position
    IN rank(i) > rank(j) \/ (rank(i) = rank(j) /\ i > j)

\* ORDER BY position DESC NULLS LAST, id DESC
Ahead(i, j) ==
    \/ rules[i].position > rules[j].position
    \/ rules[i].position = rules[j].position /\ i > j

\* resolve_org_unit
Resolve(c) ==
    LET matching == {i \in DOMAIN rules : Matches(i, c) /\ rules[i].unit \in enabled}
    IN IF matching = {} THEN NoUnit
       ELSE rules[CHOOSE i \in matching : \A j \in matching \ {i} : Ahead(i, j)].unit

-----------------------------------------------------------------------------
(* The requests. *)

\* A bug: the duplicate is looked for as it is typed.
TwinsAsTyped(b, others) == \E j \in others : rules[j].pattern = b.pattern

\* duplicate
Twins(b, others) == \E j \in others : Fold[rules[j].pattern] = Fold[b.pattern]

\* UNIQUE (field, match_type, pattern)
Taken(b, others) == \E j \in others : rules[j].pattern = b.pattern

\* The others are crossed by a write of this console, whose request is over.
Ends(a, kind) ==
    request' = [d \in Admins |-> IF d = a THEN Idle
                                 ELSE IF request[d] = Idle THEN Idle
                                 ELSE [request[d] EXCEPT !.crossed = @ \cup {kind}]]

Refused(a) == request' = [request EXCEPT ![a] = Idle]

\* createRule up to the statement.
AsksRule(a, b) ==
    /\ request[a] = Idle /\ nextId <= MaxRules /\ ~Twins(b, DOMAIN rules)
    /\ request' = [request EXCEPT ![a] = [pc |-> "asks", body |-> b, crossed |-> {}]]
    /\ UNCHANGED <<rules, nextId, enabled>>

\* A bug: a new rule goes to the top.
NextPositionTop == 1

NextPosition == Max({rules[i].position : i \in DOMAIN rules} \cup {Null}) + 1

\* Its statement begins: the position and the id are computed.
Inserts(a) ==
    /\ request[a].pc = "asks" /\ nextId <= MaxRules
    /\ request' = [request EXCEPT ![a] = [pc |-> "inserts", id |-> nextId, position |-> NextPosition,
                                          body |-> @.body, crossed |-> @.crossed]]
    /\ nextId' = nextId + 1
    /\ UNCHANGED <<rules, enabled>>

\* It is committed, or meets the unique index.
Inserted(a) ==
    /\ request[a].pc = "inserts"
    /\ LET r == request[a] IN
       IF Taken(r.body, DOMAIN rules) THEN Refused(a) /\ UNCHANGED rules
       ELSE /\ Ends(a, "insert")
            /\ rules' = [i \in DOMAIN rules \cup {r.id} |->
                            IF i = r.id THEN Rule(r.body, r.position) ELSE rules[i]]
    /\ UNCHANGED <<nextId, enabled>>

\* updateRule up to the statement...
AsksUpdate(a, i, b) ==
    /\ request[a] = Idle /\ ~Twins(b, DOMAIN rules \ {i})
    /\ request' = [request EXCEPT ![a] = [pc |-> "updates", id |-> i, body |-> b, crossed |-> {}]]
    /\ UNCHANGED <<rules, nextId, enabled>>

\* ... which leaves the position as it is.
Updated(a) ==
    /\ request[a].pc = "updates"
    /\ LET r == request[a] IN
       IF r.id \notin DOMAIN rules \/ Taken(r.body, DOMAIN rules \ {r.id})
       THEN Refused(a) /\ UNCHANGED rules
       ELSE /\ Ends(a, "update")
            /\ rules' = [rules EXCEPT ![r.id] = Rule(r.body, @.position)]
    /\ UNCHANGED <<nextId, enabled>>

\* deleteRule
Deleted(a, i) ==
    /\ request[a] = Idle /\ i \in DOMAIN rules
    /\ Ends(a, "delete")
    /\ rules' = [j \in DOMAIN rules \ {i} |-> rules[j]]
    /\ UNCHANGED <<nextId, enabled>>

\* orderRules up to the statement: it is the whole list, as it is now.
AsksOrder(a, ids) ==
    /\ request[a] = Idle /\ IsInjective(ids) /\ ToSet(ids) = DOMAIN rules
    /\ request' = [request EXCEPT ![a] = [pc |-> "checked", ids |-> ids, crossed |-> {}]]
    /\ UNCHANGED <<rules, nextId, enabled>>

\* A bug: "<>" for IS DISTINCT FROM: a row without a position is not moved.
MisplacedNotNull(ids) ==
    {k \in DOMAIN ids : /\ ids[k] \in DOMAIN rules
                        /\ rules[ids[k]].position \notin {Null, k}}

\* The rows of the list whose position IS DISTINCT FROM the wanted one.
Misplaced(ids) == {k \in DOMAIN ids : ids[k] \in DOMAIN rules /\ rules[ids[k]].position # k}

\* The statement begins: the rows to move are those of its snapshot.
Orders(a) ==
    /\ request[a].pc = "checked"
    /\ request' = [request EXCEPT ![a] = [pc |-> "orders", ids |-> @.ids,
                                          moves |-> Misplaced(@.ids), crossed |-> {}]]
    /\ UNCHANGED <<rules, nextId, enabled>>

\* It is committed.  A row that another statement has moved or removed
\* meanwhile was waited for and is looked at again.
Ordered(a) ==
    /\ request[a].pc = "orders"
    /\ LET r == request[a]
           moved == {r.ids[k] : k \in r.moves \cap Misplaced(r.ids)}
       IN /\ rules' = [i \in DOMAIN rules |->
                          IF i \in moved
                          THEN [rules[i] EXCEPT !.position = CHOOSE k \in r.moves : r.ids[k] = i]
                          ELSE rules[i]]
          /\ IF moved = {} THEN Refused(a) ELSE Ends(a, "order")
    /\ UNCHANGED <<nextId, enabled>>

\* Two orders that wait for each other's rows: one of them is given up.
Deadlocked(a) ==
    /\ request[a].pc = "orders"
    /\ \E d \in Admins \ {a} : request[d].pc = "orders"
    /\ Refused(a)
    /\ UNCHANGED <<rules, nextId, enabled>>

\* updateUnit
UnitSet(u) ==
    /\ enabled' = IF u \in enabled THEN enabled \ {u} ELSE enabled \cup {u}
    /\ UNCHANGED <<rules, nextId, request>>

-----------------------------------------------------------------------------

\* The first rules were loaded by hand, without positions, or were given them
\* by the schema.
Init ==
    /\ \E given \in BOOLEAN :
          rules = [i \in DOMAIN First |-> Rule(First[i], IF given THEN i ELSE Null)]
    /\ nextId = Len(First) + 1
    /\ enabled = Units
    /\ request = [a \in Admins |-> Idle]

Next ==
    \/ \E a \in Admins :
          \/ \E b \in Bodies : AsksRule(a, b) \/ \E i \in DOMAIN rules : AsksUpdate(a, i, b)
          \/ Inserts(a) \/ Inserted(a) \/ Updated(a)
          \/ \E i \in DOMAIN rules : Deleted(a, i)
          \/ \E ids \in [1..Cardinality(DOMAIN rules) -> DOMAIN rules] : AsksOrder(a, ids)
          \/ Orders(a) \/ Ordered(a) \/ Deadlocked(a)
    \/ \E u \in Units : UnitSet(u)

Spec == Init /\ [][Next]_vars

-----------------------------------------------------------------------------
(* Properties. *)

\* The entity that a call is given at its insertion is the one that the console
\* shows to decide, whatever ties and missing positions the writes have left
\* (resolve_org_unit; org_units.py: testRules).
DecidesAsShown == \A c \in Callers : Resolve(c) = Winner(c)

Completes(a, step) == request[a].pc = step /\ rules' # rules /\ request'[a] = Idle

\* "A new rule goes to the bottom of the list: it wins over every rule above
\* it" (org_units.py: createRule), unless the list was written since the console
\* asked for it.
NewRuleDecides ==
    [][\A a \in Admins : Completes(a, "inserts") /\ request[a].crossed \cap {"insert", "order"} = {}
          => Last(Shown') = request[a].id]_vars

ListedAs(ids) ==
    \A k, l \in DOMAIN ids : k < l /\ {ids[k], ids[l]} \subseteq DOMAIN rules => Place(ids[k]) < Place(ids[l])

\* An order that was accepted is the order of its rules, unless another one was
\* written at the same time, and whatever rules come and go after the check
\* (org_units.py: orderRules).
OrderAsAsked ==
    [][\A a \in Admins : Ordered(a) /\ "order" \notin request[a].crossed
          => \A ids \in {request[a].ids} : ListedAs(ids)']_vars

\* Two rules that differ by the case alone come only of two checks that crossed
\* (org_units.py: duplicate).
TwinsOnlyInRace ==
    [][\A i, j \in DOMAIN rules' :
          /\ i # j /\ Fold[rules'[i].pattern] = Fold[rules'[j].pattern]
          /\ ~({i, j} \subseteq DOMAIN rules /\ Fold[rules[i].pattern] = Fold[rules[j].pattern])
          => \E a \in Admins : /\ Completes(a, "inserts") \/ Completes(a, "updates")
                               /\ request[a].crossed \cap {"insert", "update"} # {}]_vars

=============================================================================
