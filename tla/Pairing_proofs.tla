---------------------------- MODULE Pairing_proofs ----------------------------
(***************************************************************************)
(* A code leads to the screen it was read on, unless it was drawn while it  *)
(* was in use, and the misses of an address are bounded, for any gateways,  *)
(* visitors, codes and limit.                                               *)
(***************************************************************************)
EXTENDS Pairing, FiniteSetTheorems, TLAPS

-----------------------------------------------------------------------------
(* The inductive invariant behind DrivesWhatItRead: what a code can mean,    *)
(* from its drawing to the hand of a visitor.                                *)

\* No other gateway shows the code of one that shared none.
ScreensApart ==
    \A g, h \in Gateways : screen[g] = screen[h] /\ screen[g] # None /\ g \notin shared => g = h

\* A code that a gateway shows is mapped to it or not at all, or both share it.
ScreensTrue ==
    \A g \in Gateways :
        screen[g] \in Codes /\ owner[screen[g]] \notin {g, None} => {g, owner[screen[g]]} \subseteq shared

\* The entry of a gateway that shared no code has its own address.
EntriesTrue == \A g \in Gateways : g \notin shared => entry[g] \in {g, None}

\* The code in a visitor's hand is that of the screen it was read on, or of none
\* any more; the name it led to is that of this gateway.
HandTrue(v) ==
    visit[v].of \notin shared \cup {None} =>
        /\ visit[v].pc \in {"holds", "asks"} =>
              /\ visit[v].code \in Codes
              /\ owner[visit[v].code] \in {visit[v].of, None}
              /\ \A g \in Gateways : screen[g] = visit[v].code => g = visit[v].of
        /\ visit[v].pc \in {"knows", "drives"} => visit[v].gw = visit[v].of

HandsTrue == \A v \in Visitors : HandTrue(v)

CodesInv == ScreensApart /\ ScreensTrue /\ EntriesTrue /\ HandsTrue

\* Those who have passed the throttle may all miss.
Asking == {v \in Visitors : visit[v].pc = "asks"}
MissesInv == tries + Cardinality(Asking) <= Limit + Cardinality(Visitors) - 1

-----------------------------------------------------------------------------

LEMMA AwayTyped == Away \in VisitStates
  BY DEF Away, VisitStates

LEMMA InitTyped == Init => PairingTypeOK
<1> SUFFICES ASSUME Init PROVE PairingTypeOK OBVIOUS
<1>1. visit \in [Visitors -> VisitStates] BY AwayTyped DEF Init
<1>2. tries \in Nat /\ deaths \in 0..MaxDeaths BY PairingAssumption DEF Init, PairingAssumption
<1>3. QED BY <1>1, <1>2 DEF Init, PairingTypeOK, Away

\* One lemma for the gateways' steps, one for the visitors'.
LEMMA GatewaysTyped ==
  ASSUME PairingTypeOK, NEW g \in Gateways,
         \/ Restarts(g) \/ Forgotten(g) \/ Renews(g) \/ Misses(g)
         \/ \E heard \in BOOLEAN : Enrols(g, heard)
  PROVE  PairingTypeOK'
<1> USE PairingAssumption DEF PairingTypeOK, PairingAssumption, Mapped
<1>1. CASE Restarts(g) BY <1>1 DEF Restarts
<1>2. CASE Forgotten(g) BY <1>2 DEF Forgotten
<1>3. CASE Renews(g) BY <1>3 DEF Renews
<1>4. CASE Misses(g) BY <1>4 DEF Misses
<1>5. ASSUME NEW heard \in BOOLEAN, Enrols(g, heard) PROVE PairingTypeOK'
  <2>1. PICK c \in Codes : Draws(g, c) /\ screen' = IF heard THEN [screen EXCEPT ![g] = c] ELSE screen
    BY <1>5 DEF Enrols
  <2>2. Users(c) \subseteq Gateways BY DEF Users, VisitStates
  <2>3. shared' \subseteq Gateways BY <2>1, <2>2 DEF Draws
  <2>4. QED BY <1>5, <2>1, <2>3 DEF Enrols, Draws
<1>6. QED BY <1>1, <1>2, <1>3, <1>4, <1>5

LEMMA LooksTyped ==
  ASSUME PairingTypeOK, NEW v \in Visitors, Looks(v)
  PROVE  /\ visit' \in [Visitors -> VisitStates]
         /\ \A w \in Visitors : visit'[w].pc \in {"knows", "drives"} => visit'[w].gw \in Gateways
         /\ tries' \in Nat /\ armed' \in BOOLEAN /\ deaths' = deaths
<1> DEFINE Knowing == [pc |-> "knows", code |-> None, of |-> visit[v].of, gw |-> owner[visit[v].code]]
<1>1. /\ visit' \in [Visitors -> VisitStates]
      /\ \A w \in Visitors : visit'[w].pc \in {"knows", "drives"} => visit'[w].gw \in Gateways
  <2>1. CASE visit[v].code \in Mapped
    <3>1. owner[visit[v].code] \in Gateways
      BY <2>1, PairingAssumption DEF Mapped, PairingTypeOK, PairingAssumption
    <3>2. Knowing \in VisitStates BY <3>1 DEF PairingTypeOK, VisitStates
    <3>3. visit' = [visit EXCEPT ![v] = Knowing] BY <2>1 DEF Looks
    <3>4. QED BY <3>1, <3>2, <3>3 DEF PairingTypeOK
  <2>2. CASE visit[v].code \notin Mapped BY <2>2, AwayTyped DEF Looks, PairingTypeOK, Away
  <2>3. QED BY <2>1, <2>2
<1>2. tries' \in Nat /\ deaths' = deaths BY DEF PairingTypeOK, Looks, Counted
<1>3. armed' \in BOOLEAN BY DEF PairingTypeOK, Looks, Counted
<1>4. QED BY <1>1, <1>2, <1>3

LEMMA VisitorsTyped ==
  ASSUME PairingTypeOK, NEW v \in Visitors,
         \/ \E g \in Gateways : ReadsScreen(v, g)
         \/ Mistypes(v) \/ Leaves(v) \/ AsksResolve(v) \/ Resolves(v) \/ Interacts(v)
         \/ DiesCounting(v) \/ Drives(v)
  PROVE  PairingTypeOK'
<1> USE DEF PairingTypeOK, VisitStates, Away
<1>1. ASSUME NEW g \in Gateways, ReadsScreen(v, g) PROVE PairingTypeOK' BY <1>1 DEF ReadsScreen
<1>2. CASE Mistypes(v) BY <1>2 DEF Mistypes
<1>3. CASE Leaves(v) BY <1>3 DEF Leaves
<1>4. CASE AsksResolve(v) BY <1>4 DEF AsksResolve
<1>5. CASE Resolves(v) BY <1>5, LooksTyped DEF Resolves
<1>6. CASE Interacts(v) BY <1>6, LooksTyped DEF Interacts
<1>7. CASE DiesCounting(v) BY <1>7, PairingAssumption DEF DiesCounting, PairingAssumption
<1>8. CASE Drives(v)
  <2>1. visit[v].gw \in Gateways BY <1>8 DEF Drives
  <2>2. QED BY <1>8, <2>1 DEF Drives
<1>9. QED BY <1>1, <1>2, <1>3, <1>4, <1>5, <1>6, <1>7, <1>8

LEMMA NextTyped == PairingTypeOK /\ [Next]_vars => PairingTypeOK'
<1> SUFFICES ASSUME PairingTypeOK, [Next]_vars PROVE PairingTypeOK' OBVIOUS
<1>1. ASSUME NEW c \in Codes, Expires(c) PROVE PairingTypeOK' BY <1>1 DEF Expires, PairingTypeOK
<1>2. CASE WindowEnds BY <1>2 DEF WindowEnds, PairingTypeOK
<1>3. CASE UNCHANGED vars BY <1>3 DEF vars, PairingTypeOK
<1>4. QED BY <1>1, <1>2, <1>3, GatewaysTyped, VisitorsTyped DEF Next

\* The keys of the proxy and what visitors know of them keep their types, for
\* any gateways, visitors and codes (proxy.py).
THEOREM PairingTyped == Spec => []PairingTypeOK
<1>1. QED BY InitTyped, NextTyped, PTL DEF Spec

-----------------------------------------------------------------------------
(* Where a code leads. *)

LEMMA InitCodes == Init => CodesInv
  BY PairingAssumption
  DEF Init, CodesInv, ScreensApart, ScreensTrue, EntriesTrue, HandsTrue, HandTrue, Away, PairingAssumption

\* Those who used a code that is drawn share it from then on.
LEMMA EnrolsKeeps ==
  ASSUME PairingTypeOK, CodesInv, NEW g \in Gateways, NEW heard \in BOOLEAN, Enrols(g, heard)
  PROVE  CodesInv'
<1> USE PairingAssumption DEF PairingTypeOK, PairingAssumption, CodesInv
<1>1. PICK c \in Codes : Draws(g, c) /\ screen' = IF heard THEN [screen EXCEPT ![g] = c] ELSE screen
  BY DEF Enrols
<1>2. owner' = [owner EXCEPT ![c] = g] /\ shared \subseteq shared' BY <1>1 DEF Draws
<1>3. ASSUME NEW h \in Gateways, h # g,
             \/ owner[c] = h \/ screen[h] = c
             \/ \E v \in Visitors : visit[v].code = c /\ visit[v].of = h
      PROVE  h \in shared' /\ g \in shared'
  <2>1. h \in Users(c) BY <1>3 DEF Users
  <2>2. shared' = shared \cup (Users(c) \cup {g}) BY <1>1, <1>3, <2>1 DEF Draws
  <2>3. QED BY <2>1, <2>2
<1>4. c # None /\ screen[g] \notin Mapped BY DEF Enrols
<1>5. entry' = [entry EXCEPT ![g] = g] /\ visit' = visit BY DEF Enrols
<1>6. ScreensApart'
  <2> SUFFICES ASSUME NEW h \in Gateways, NEW k \in Gateways, screen'[h] = screen'[k],
                      screen'[h] # None, h \notin shared', h # k
               PROVE  FALSE
    BY DEF ScreensApart
  <2>1. ~(screen[h] = screen[k] /\ screen[h] # None) BY <1>2 DEF ScreensApart
  <2>2. heard /\ (h = g \/ k = g) BY <1>1, <2>1
  <2>3. screen' = [screen EXCEPT ![g] = c] BY <1>1, <2>2
  <2>4. CASE h = g
    <3>1. screen[k] = c BY <2>3, <2>4
    <3>2. QED BY <1>3, <2>4, <3>1
  <2>5. CASE k = g
    <3>1. screen[h] = c BY <2>3, <2>5
    <3>2. QED BY <1>3, <2>5, <3>1
  <2>6. QED BY <2>2, <2>4, <2>5
<1>7. ScreensTrue'
  <2> SUFFICES ASSUME NEW h \in Gateways, screen'[h] \in Codes, owner'[screen'[h]] \notin {h, None}
               PROVE  {h, owner'[screen'[h]]} \subseteq shared'
    BY DEF ScreensTrue
  <2>1. CASE screen'[h] = c
    <3>1. owner'[screen'[h]] = g /\ h # g BY <1>2, <2>1
    <3>2. screen[h] = c BY <1>1, <2>1, <3>1
    <3>3. QED BY <1>3, <3>1, <3>2
  <2>2. CASE screen'[h] # c
    <3>1. screen'[h] = screen[h] /\ owner'[screen'[h]] = owner[screen[h]] BY <1>1, <1>2, <2>2
    <3>2. QED BY <1>2, <3>1 DEF ScreensTrue
  <2>3. QED BY <2>1, <2>2
<1>8. EntriesTrue' BY <1>2, <1>5 DEF EntriesTrue
<1>9. HandsTrue'
  <2> SUFFICES ASSUME NEW v \in Visitors, visit[v].of \notin shared' \cup {None} PROVE HandTrue(v)'
    BY <1>5 DEF HandsTrue, HandTrue
  <2>1. HandTrue(v) BY DEF HandsTrue
  <2>2. visit[v] \in VisitStates BY DEF PairingTypeOK
  <2>3. visit[v].of \in Gateways /\ visit[v].of \notin shared BY <1>2, <2>2 DEF VisitStates
  <2>4. CASE visit[v].pc \in {"holds", "asks"}
    <3>1. /\ visit[v].code \in Codes /\ owner[visit[v].code] \in {visit[v].of, None}
          /\ \A h \in Gateways : screen[h] = visit[v].code => h = visit[v].of
      BY <2>1, <2>3, <2>4 DEF HandTrue
    <3>2. visit[v].code = c => visit[v].of = g BY <1>3, <2>3
    <3>3. owner'[visit[v].code] \in {visit[v].of, None} BY <1>2, <3>1, <3>2
    <3>4. \A h \in Gateways : screen'[h] = visit[v].code => h = visit[v].of BY <1>1, <3>1, <3>2
    <3>5. QED BY <1>5, <2>4, <3>1, <3>3, <3>4 DEF HandTrue
  <2>5. CASE visit[v].pc \notin {"holds", "asks"} BY <1>5, <2>1, <2>3, <2>5 DEF HandTrue
  <2>6. QED BY <2>4, <2>5
<1>10. QED BY <1>6, <1>7, <1>8, <1>9

LEMMA GatewaysKeep ==
  ASSUME PairingTypeOK, CodesInv, NEW g \in Gateways,
         \/ Restarts(g) \/ Forgotten(g) \/ Renews(g) \/ Misses(g)
         \/ \E heard \in BOOLEAN : Enrols(g, heard)
  PROVE  CodesInv'
<1> USE PairingAssumption
    DEF PairingTypeOK, PairingAssumption, CodesInv, ScreensApart, ScreensTrue, EntriesTrue, HandsTrue, HandTrue, Mapped
<1>1. CASE Restarts(g) BY <1>1 DEF Restarts
<1>2. CASE Forgotten(g) BY <1>2 DEF Forgotten
<1>3. CASE Renews(g)
  <2>1. owner[screen[g]] # g => owner[screen[g]] \in shared BY <1>3 DEF Renews
  <2>2. QED BY <1>3, <2>1 DEF Renews
<1>4. CASE Misses(g) BY <1>4 DEF Misses
<1>5. QED BY <1>1, <1>2, <1>3, <1>4, EnrolsKeeps

\* The screens and the mappings stay as they are: only hands move.
LEMMA VisitorsKeep ==
  ASSUME PairingTypeOK, CodesInv, NEW v \in Visitors,
         \/ \E g \in Gateways : ReadsScreen(v, g)
         \/ Mistypes(v) \/ Leaves(v) \/ AsksResolve(v) \/ Resolves(v) \/ Interacts(v)
         \/ DiesCounting(v) \/ Drives(v)
  PROVE  CodesInv'
<1>1. UNCHANGED <<screen, owner, entry, shared>>
  BY DEF ReadsScreen, Mistypes, Leaves, AsksResolve, Resolves, Interacts, DiesCounting, Drives
<1>2. (ScreensApart /\ ScreensTrue /\ EntriesTrue)'
  BY <1>1 DEF CodesInv, ScreensApart, ScreensTrue, EntriesTrue
<1>3. HandTrue(v) BY DEF CodesInv, HandsTrue
<1>4. visit[v] \in VisitStates BY DEF PairingTypeOK
<1>5. \A w \in Visitors : w # v => visit'[w] = visit[w] \/ visit'[w] = Away
  BY DEF PairingTypeOK, ReadsScreen, Mistypes, Leaves, AsksResolve, Resolves, Interacts, Looks,
         DiesCounting, Drives
<1>6. \A w \in Visitors : w # v => HandTrue(w)'
  BY <1>1, <1>5 DEF HandTrue, CodesInv, HandsTrue, Away
<1>7. visit'[v] = Away => HandTrue(v)' BY DEF HandTrue, Away
<1> DEFINE Now(r) == visit'[v] = r
<1>8. ASSUME NEW g \in Gateways, ReadsScreen(v, g) PROVE HandTrue(v)'
  <2>1. screen[g] \in Codes /\ (g \notin shared => owner[screen[g]] \in {g, None})
    BY <1>8 DEF ReadsScreen, CodesInv, ScreensTrue, PairingTypeOK
  <2>2. \A h \in Gateways : screen[h] = screen[g] /\ g \notin shared => h = g
    BY <1>8 DEF ReadsScreen, CodesInv, ScreensApart
  <2>3. Now([pc |-> "holds", code |-> screen[g], of |-> g, gw |-> None])
    BY <1>8 DEF ReadsScreen, PairingTypeOK
  <2>4. QED BY <1>1, <2>1, <2>2, <2>3 DEF HandTrue
<1>9. ASSUME Mistypes(v) PROVE HandTrue(v)'
  <2>1. Now([pc |-> "holds", code |-> None, of |-> None, gw |-> None])
    BY <1>9 DEF Mistypes, PairingTypeOK
  <2>2. QED BY <2>1 DEF HandTrue
<1>10. ASSUME Leaves(v) PROVE HandTrue(v)'
  BY <1>7, <1>10 DEF Leaves, PairingTypeOK
<1>11. ASSUME AsksResolve(v) PROVE HandTrue(v)'
  <2>1. visit'[v] = Away \/ (Now([visit[v] EXCEPT !.pc = "asks"]) /\ visit[v].pc = "holds")
    BY <1>11 DEF AsksResolve, PairingTypeOK
  <2>2. QED BY <1>1, <1>3, <1>4, <1>7, <2>1 DEF HandTrue, VisitStates
<1>12. ASSUME Looks(v), visit[v].pc \in {"holds", "asks"} PROVE HandTrue(v)'
  <2>1. \/ visit'[v] = Away
        \/ /\ Now([pc |-> "knows", code |-> None, of |-> visit[v].of, gw |-> owner[visit[v].code]])
           /\ owner[visit[v].code] # None
    BY <1>12 DEF Looks, Mapped, PairingTypeOK
  <2>2. /\ visit'[v] # Away => owner[visit[v].code] # None
        /\ visit[v].of \notin shared \cup {None} => owner[visit[v].code] \in {visit[v].of, None}
    BY <1>3, <1>12, <2>1 DEF HandTrue
  <2>3. QED BY <1>1, <1>7, <2>1, <2>2 DEF HandTrue
<1>13. ASSUME Resolves(v) PROVE HandTrue(v)'
  BY <1>12, <1>13 DEF Resolves
<1>14. ASSUME Interacts(v) PROVE HandTrue(v)'
  BY <1>7, <1>12, <1>14 DEF Interacts, PairingTypeOK
<1>15. ASSUME DiesCounting(v) PROVE HandTrue(v)'
  BY <1>7, <1>15 DEF DiesCounting, PairingTypeOK
<1>16. ASSUME Drives(v) PROVE HandTrue(v)'
  <2>1. visit[v].gw \in Gateways BY <1>16 DEF Drives, PairingTypeOK
  <2>2. visit[v].gw \notin shared => entry[visit[v].gw] \in {visit[v].gw, None}
    BY <2>1 DEF CodesInv, EntriesTrue
  <2>3. visit[v].pc = "knows" BY <1>16 DEF Drives
  <2>4. visit[v].of \notin shared \cup {None} => visit[v].gw = visit[v].of BY <1>3, <2>3 DEF HandTrue
  <2> DEFINE there == entry[visit[v].gw]
  <2>5. /\ visit'[v] = Away \/ Now([visit[v] EXCEPT !.pc = "drives", !.gw = there])
        /\ visit'[v] # Away => there # None
    BY <1>16 DEF Drives, PairingTypeOK
  <2>6. visit'[v] # Away /\ visit[v].of \notin shared \cup {None} => there = visit[v].of
    BY <2>2, <2>4, <2>5
  <2>7. CASE visit'[v] = Away BY <1>7, <2>7
  <2>8. CASE visit'[v] # Away
    <3> HIDE DEF there
    <3>1. visit'[v] = [visit[v] EXCEPT !.pc = "drives", !.gw = there] BY <2>5, <2>8
    <3>2. visit'[v].pc = "drives" /\ visit'[v].gw = there /\ visit'[v].of = visit[v].of
      BY <1>4, <3>1 DEF VisitStates
    <3>3. QED BY <1>1, <2>6, <2>8, <3>2 DEF HandTrue
  <2>9. QED BY <2>7, <2>8
<1>17. HandTrue(v)' BY <1>8, <1>9, <1>10, <1>11, <1>13, <1>14, <1>15, <1>16
<1>18. QED BY <1>2, <1>6, <1>17 DEF CodesInv, HandsTrue

LEMMA NextCodes == PairingTypeOK /\ CodesInv /\ [Next]_vars => CodesInv'
<1> SUFFICES ASSUME PairingTypeOK, CodesInv, [Next]_vars PROVE CodesInv' OBVIOUS
<1> USE DEF CodesInv, ScreensApart, ScreensTrue, EntriesTrue, HandsTrue, HandTrue
<1>1. ASSUME NEW c \in Codes, Expires(c) PROVE CodesInv' BY <1>1 DEF Expires, PairingTypeOK
<1>2. CASE WindowEnds BY <1>2 DEF WindowEnds
<1>3. CASE UNCHANGED vars BY <1>3 DEF vars
<1>4. QED BY <1>1, <1>2, <1>3, GatewaysKeep, VisitorsKeep DEF Next

\* Who types the code of a screen drives the gateway of this screen, whatever
\* expires, restarts or is forgotten meanwhile and whatever codes are drawn,
\* unless this gateway had a code in common with another (proxy.py:
\* registerGateway, pairingResolve, interact).
THEOREM CodesLeadHome == Spec => []DrivesWhatItRead
<1>1. CodesInv => DrivesWhatItRead BY DEF CodesInv, HandsTrue, HandTrue, DrivesWhatItRead
<1>2. QED BY <1>1, InitTyped, NextTyped, InitCodes, NextCodes, PTL DEF Spec

-----------------------------------------------------------------------------
(* How often an address can miss. *)

LEMMA AskingFinite == IsFiniteSet(Asking) /\ Cardinality(Asking) \in Nat /\ Cardinality(Visitors) \in Nat
  BY PairingAssumption, FS_Subset, FS_CardinalityType DEF Asking, PairingAssumption

\* Who asks makes one more, who is answered one less.
LEMMA AskingMoves ==
  ASSUME NEW v \in Visitors, NEW asks \in BOOLEAN,
         \A w \in Visitors : w # v => (visit'[w].pc = "asks" <=> visit[w].pc = "asks"),
         visit'[v].pc = "asks" <=> asks
  PROVE  /\ v \notin Asking => Cardinality(Asking') = Cardinality(Asking) + (IF asks THEN 1 ELSE 0)
         /\ v \in Asking => Cardinality(Asking') = Cardinality(Asking) - (IF asks THEN 0 ELSE 1)
<1>1. Asking' = IF asks THEN Asking \cup {v} ELSE Asking \ {v} BY DEF Asking
<1>2. CASE asks
  <2>1. v \in Asking => Asking' = Asking BY <1>1, <1>2
  <2>2. v \notin Asking => Cardinality(Asking') = Cardinality(Asking) + 1
    BY <1>1, <1>2, AskingFinite, FS_AddElement
  <2>3. QED BY <1>2, <2>1, <2>2, AskingFinite
<1>3. CASE ~asks
  <2>1. v \notin Asking => Asking' = Asking BY <1>1, <1>3
  <2>2. v \in Asking => Cardinality(Asking') = Cardinality(Asking) - 1
    BY <1>1, <1>3, AskingFinite, FS_RemoveElement
  <2>3. QED BY <1>3, <2>1, <2>2, AskingFinite
<1>4. QED BY <1>2, <1>3

\* One who does not ask leaves a place.
LEMMA AskingRoom ==
  ASSUME NEW v \in Visitors, v \notin Asking
  PROVE  Cardinality(Asking) <= Cardinality(Visitors) - 1
<1>1. Asking \cup {v} \subseteq Visitors BY DEF Asking
<1>2. Cardinality(Asking \cup {v}) = Cardinality(Asking) + 1 BY AskingFinite, FS_AddElement
<1>3. Cardinality(Asking \cup {v}) <= Cardinality(Visitors)
  BY <1>1, PairingAssumption, FS_Subset DEF PairingAssumption
<1>4. QED BY <1>2, <1>3, AskingFinite

LEMMA InitMisses == Init => MissesInv
<1> SUFFICES ASSUME Init PROVE MissesInv OBVIOUS
<1>1. Asking = {} BY DEF Init, Asking, Away
<1>2. QED BY <1>1, FS_EmptySet, AskingFinite, PairingAssumption DEF Init, MissesInv, PairingAssumption

LEMMA NextMisses == PairingTypeOK /\ MissesInv /\ [Next]_vars => MissesInv'
<1> SUFFICES ASSUME PairingTypeOK, MissesInv, [Next]_vars PROVE MissesInv' OBVIOUS
<1>1. tries \in Nat /\ Limit \in Nat \ {0} /\ Cardinality(Visitors) \in Nat /\ Cardinality(Asking) \in Nat
  BY AskingFinite, PairingAssumption DEF PairingTypeOK, PairingAssumption
<1>2. ASSUME UNCHANGED <<visit, tries>> PROVE MissesInv' BY <1>2 DEF MissesInv, Asking
<1>3. ASSUME NEW v \in Visitors, v \notin Asking, visit'[v].pc # "asks", tries' = tries,
             \A w \in Visitors : w # v => visit'[w] = visit[w]
      PROVE  MissesInv'
  <2>1. Asking' = Asking BY <1>3 DEF Asking
  <2>2. QED BY <1>3, <2>1 DEF MissesInv
<1>4. ASSUME NEW v \in Visitors, AsksResolve(v) PROVE MissesInv'
  <2>1. visit[v].pc = "holds" /\ tries' = tries /\ v \notin Asking BY <1>4 DEF AsksResolve, Asking
  <2>2. \A w \in Visitors : w # v => visit'[w] = visit[w] BY <1>4 DEF AsksResolve, PairingTypeOK
  <2>3. CASE LockedOut
    <3>1. visit'[v] = Away BY <1>4, <2>3 DEF AsksResolve, PairingTypeOK
    <3>2. QED BY <1>3, <2>1, <2>2, <3>1 DEF Away
  <2>4. CASE ~LockedOut
    <3>1. visit'[v] = [visit[v] EXCEPT !.pc = "asks"] BY <1>4, <2>4 DEF AsksResolve, PairingTypeOK
    <3>2. visit[v] \in VisitStates BY DEF PairingTypeOK
    <3>3. visit'[v].pc = "asks" BY <3>1, <3>2 DEF VisitStates
    <3>4. Cardinality(Asking') = Cardinality(Asking) + 1 BY <2>1, <2>2, <3>3, AskingMoves
    <3>5. QED BY <1>1, <2>1, <2>4, <3>4, AskingRoom DEF LockedOut, MissesInv
  <2>5. QED BY <2>3, <2>4
<1>5. ASSUME NEW v \in Visitors, Looks(v), v \in Asking \/ ~LockedOut PROVE MissesInv'
  <2>1. visit'[v].pc # "asks" BY <1>5 DEF Looks, PairingTypeOK, Away
  <2>2. \A w \in Visitors : w # v => visit'[w] = visit[w] BY <1>5 DEF Looks, PairingTypeOK
  <2>3. tries' \in {tries, tries + 1} BY <1>5 DEF Looks, Counted
  <2>4. CASE v \in Asking
    <3>1. Cardinality(Asking') = Cardinality(Asking) - 1 BY <2>1, <2>2, <2>4, AskingMoves
    <3>2. QED BY <1>1, <2>3, <3>1 DEF MissesInv
  <2>5. CASE v \notin Asking
    <3>1. Asking' = Asking BY <2>1, <2>2, <2>5 DEF Asking
    <3>2. tries < Limit BY <1>1, <1>5, <2>5 DEF LockedOut
    <3>3. QED BY <1>1, <2>3, <2>5, <3>1, <3>2, AskingRoom DEF MissesInv
  <2>6. QED BY <2>4, <2>5
<1>6. ASSUME NEW v \in Visitors, DiesCounting(v) PROVE MissesInv'
  <2>1. Asking' = {} BY <1>6 DEF DiesCounting, Asking, Away
  <2>2. v \in Asking BY <1>6 DEF DiesCounting, Asking
  <2>3. Cardinality(Asking) # 0 BY <2>2, AskingFinite, FS_EmptySet
  <2>4. Cardinality(Asking') = 0 BY <2>1, FS_EmptySet
  <2>5. tries' = tries + 1 BY <1>6 DEF DiesCounting
  <2>6. QED BY <1>1, <2>3, <2>4, <2>5 DEF MissesInv
<1>7. ASSUME WindowEnds PROVE MissesInv'
  <2>1. Asking' = Asking /\ tries' = 0 BY <1>7 DEF WindowEnds, Asking
  <2>2. Cardinality(Asking) <= Cardinality(Visitors)
    BY PairingAssumption, FS_Subset DEF PairingAssumption, Asking
  <2>3. QED BY <1>1, <2>1, <2>2 DEF MissesInv
<1>8. ASSUME NEW v \in Visitors, NEW g \in Gateways, ReadsScreen(v, g) PROVE MissesInv'
  BY <1>3, <1>8 DEF ReadsScreen, PairingTypeOK, Asking, Away
<1>9. ASSUME NEW v \in Visitors, Mistypes(v) PROVE MissesInv'
  BY <1>3, <1>9 DEF Mistypes, PairingTypeOK, Asking, Away
<1>10. ASSUME NEW v \in Visitors, Leaves(v) PROVE MissesInv'
  BY <1>3, <1>10 DEF Leaves, PairingTypeOK, Asking, Away
<1>11. ASSUME NEW v \in Visitors, Resolves(v) PROVE MissesInv'
  BY <1>5, <1>11 DEF Resolves, Asking
<1>12. ASSUME NEW v \in Visitors, Interacts(v) PROVE MissesInv'
  <2>1. CASE LockedOut BY <1>3, <1>12, <2>1 DEF Interacts, PairingTypeOK, Asking, Away
  <2>2. CASE ~LockedOut BY <1>5, <1>12, <2>2 DEF Interacts
  <2>3. QED BY <2>1, <2>2
<1>13. ASSUME NEW v \in Visitors, Drives(v) PROVE MissesInv'
  <2>1. visit[v] \in VisitStates BY DEF PairingTypeOK
  <2>2. visit'[v] = Away \/ visit'[v] = [visit[v] EXCEPT !.pc = "drives", !.gw = entry[visit[v].gw]]
    BY <1>13 DEF Drives, PairingTypeOK
  <2> DEFINE there == entry[visit[v].gw]
             drives == [visit[v] EXCEPT !.pc = "drives", !.gw = there]
  <2>3. drives.pc = "drives"
    <3> HIDE DEF there
    <3>1. QED BY <2>1 DEF VisitStates
  <2>4. visit'[v] = Away \/ visit'[v] = drives BY <2>2
  <2>5. visit'[v].pc # "asks"
    <3> HIDE DEF drives
    <3>1. QED BY <2>3, <2>4 DEF Away
  <2>6. QED BY <1>3, <1>13, <2>5 DEF Drives, PairingTypeOK, Asking
<1>14. CASE UNCHANGED vars BY <1>2, <1>14 DEF vars
<1>15. ASSUME NEW g \in Gateways,
              \/ Restarts(g) \/ Forgotten(g) \/ Renews(g) \/ Misses(g)
              \/ \E heard \in BOOLEAN : Enrols(g, heard)
       PROVE  MissesInv'
  BY <1>2, <1>15 DEF Restarts, Forgotten, Renews, Misses, Enrols
<1>16. ASSUME NEW c \in Codes, Expires(c) PROVE MissesInv' BY <1>2, <1>16 DEF Expires
<1>17. QED
  BY <1>4, <1>6, <1>7, <1>8, <1>9, <1>10, <1>11, <1>12, <1>13, <1>14, <1>15, <1>16 DEF Next

\* An address misses no more than the limit in a window but for those who passed
\* the throttle together, however many visitors it has and whenever the proxy
\* dies (proxy.py: tooManyCodeTries, noteFailedCodeTry).
THEOREM MissesAreBounded == Spec => []MissesBounded
<1>1. PairingTypeOK /\ MissesInv => MissesBounded
  BY AskingFinite, PairingAssumption DEF PairingTypeOK, MissesInv, MissesBounded, PairingAssumption
<1>2. QED BY <1>1, InitTyped, NextTyped, InitMisses, NextMisses, PTL DEF Spec

=============================================================================
