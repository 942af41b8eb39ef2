------------------------------- MODULE Pairing -------------------------------
(***************************************************************************)
(* The pairing codes: a gateway registers with the proxy every so often,   *)
(* is given a code that lives in Redis for a time, and shows it on its     *)
(* screen; a visitor types what the screen shows and is sent to the        *)
(* gateway (deploy/proxyAPI/proxy.py, entrypoint.sh, src/ivr.py).  Misses  *)
(* are counted, for a time, by the address of the visitors.                *)
(***************************************************************************)
EXTENDS Naturals, FiniteSets

CONSTANTS
    Gateways,
    Visitors,   \* visitors of one address
    Readers,    \* bound: those who may read a screen, the others mistype
    Codes,
    None,
    Limit,      \* PROXY_CODE_TRY_LIMIT
    MaxDeaths   \* bound: deaths of the proxy in the middle of a count

ASSUME PairingAssumption ==
    /\ None \notin Gateways \cup Codes
    /\ Limit \in Nat \ {0} /\ MaxDeaths \in Nat
    /\ IsFiniteSet(Visitors) /\ Readers \subseteq Visitors

VARIABLES
    screen,   \* the code each gateway has in /etc/environment and shows
    owner,    \* pairing:<code>
    entry,    \* gateway:<gw_id>, as far as its address: the gateway it leads to
    visit,    \* what each visitor does
    tries,    \* codetries:<address>
    armed,    \* it has a lifetime
    deaths,
    shared    \* observer: the gateways that ever had a code in common with another

vars == <<screen, owner, entry, visit, tries, armed, deaths, shared>>

\* A visitor is away, holds a code (`of`: read on this screen, or a guess),
\* has passed the throttle, knows a gateway's name, drives what answers there.
Away == [pc |-> "away", code |-> None, of |-> None, gw |-> None]
VisitStates == [pc : {"away", "holds", "asks", "knows", "drives"},
                code : Codes \cup {None}, of : Gateways \cup {None}, gw : Gateways \cup {None}]

Mapped == {c \in Codes : owner[c] # None}

\* Whom a code stands for: where it leads, who shows it, where a hand read it.
Users(c) == ({owner[c]} \cup {g \in Gateways : screen[g] = c}
             \cup {visit[v].of : v \in {w \in Visitors : visit[w].code = c}}) \ {None}

\* generatePairingCode may draw any code, setex takes it from whom it led to:
\* g then has the code in common with those who used it.
Draws(g, c) ==
    /\ owner' = [owner EXCEPT ![c] = g]
    /\ shared' = shared \cup (IF Users(c) \subseteq {g} THEN {} ELSE Users(c) \cup {g})

Init ==
    /\ screen = [g \in Gateways |-> None]
    /\ owner = [c \in Codes |-> None] /\ entry = [g \in Gateways |-> None]
    /\ visit = [v \in Visitors |-> Away]
    /\ tries = 0 /\ armed = FALSE /\ deaths = 0 /\ shared = {}

-----------------------------------------------------------------------------
(* The gateways. *)

\* The container runs again, without a code, whatever the proxy remembers of it.
Restarts(g) ==
    /\ screen[g] # None /\ screen' = [screen EXCEPT ![g] = None]
    /\ UNCHANGED <<owner, entry, visit, tries, armed, deaths, shared>>

\* /unregister, or the monitor: the entry goes, its code stays.
Forgotten(g) ==
    /\ entry[g] # None /\ entry' = [entry EXCEPT ![g] = None]
    /\ UNCHANGED <<screen, owner, visit, tries, armed, deaths, shared>>

\* registerGateway and proxyRegister with a code that is mapped: the mapping is
\* kept, and it says whose entry is given this gateway's address.
Renews(g) ==
    /\ screen[g] \in Mapped
    /\ entry' = [entry EXCEPT ![owner[screen[g]]] = g]
    /\ UNCHANGED <<screen, owner, visit, tries, armed, deaths, shared>>

\* A bug: a code that has expired is answered back without being mapped again.
EnrolsBack(g, heard) ==
    /\ screen[g] \notin Mapped
    /\ IF screen[g] # None THEN UNCHANGED <<owner, screen, shared>>
       ELSE \E c \in Codes :
              /\ Draws(g, c)
              /\ screen' = IF heard THEN [screen EXCEPT ![g] = c] ELSE screen
    /\ entry' = [entry EXCEPT ![g] = g]
    /\ UNCHANGED <<visit, tries, armed, deaths>>

\* A bug: the code that is answered is drawn again, after that which is mapped.
EnrolsTwice(g, heard) ==
    /\ screen[g] \notin Mapped
    /\ \E c, d \in Codes :
          /\ Draws(g, c)
          /\ screen' = IF heard THEN [screen EXCEPT ![g] = d] ELSE screen
    /\ entry' = [entry EXCEPT ![g] = g]
    /\ UNCHANGED <<visit, tries, armed, deaths>>

\* ... with a code that is not, or none: a new one is drawn and answered, and
\* `heard` says whether the answer reaches the gateway.
Enrols(g, heard) ==
    /\ screen[g] \notin Mapped
    /\ \E c \in Codes :
          /\ Draws(g, c)
          /\ screen' = IF heard THEN [screen EXCEPT ![g] = c] ELSE screen
    /\ entry' = [entry EXCEPT ![g] = g]
    /\ UNCHANGED <<visit, tries, armed, deaths>>

\* ... with a code that expires after it was found mapped and before it is read:
\* there is no name to register, the request is refused.
Misses(g) ==
    /\ screen[g] \in Mapped
    /\ owner' = [owner EXCEPT ![screen[g]] = None]
    /\ UNCHANGED <<screen, entry, visit, tries, armed, deaths, shared>>

Expires(c) ==
    /\ c \in Mapped /\ owner' = [owner EXCEPT ![c] = None]
    /\ UNCHANGED <<screen, entry, visit, tries, armed, deaths, shared>>

-----------------------------------------------------------------------------
(* The visitors. *)

\* readPairingCode puts the code on the screen, where it is read...
ReadsScreen(v, g) ==
    /\ v \in Readers /\ visit[v] = Away /\ screen[g] # None
    /\ visit' = [visit EXCEPT ![v] = [pc |-> "holds", code |-> screen[g], of |-> g, gw |-> None]]
    /\ UNCHANGED <<screen, owner, entry, tries, armed, deaths, shared>>

\* ... or mistyped: None stands for the codes that nobody was given.
Mistypes(v) ==
    /\ visit[v] = Away
    /\ visit' = [visit EXCEPT ![v] = [pc |-> "holds", code |-> None, of |-> None, gw |-> None]]
    /\ UNCHANGED <<screen, owner, entry, tries, armed, deaths, shared>>

Leaves(v) ==
    /\ visit[v].pc \in {"holds", "knows", "drives"} /\ visit' = [visit EXCEPT ![v] = Away]
    /\ UNCHANGED <<screen, owner, entry, tries, armed, deaths, shared>>

\* A bug: one miss more.
LockedOutLate == tries > Limit

\* tooManyCodeTries
LockedOut == tries >= Limit

\* A bug: the lifetime is given to a count that has reached the limit, once.
CountedLate ==
    /\ tries' = tries + 1
    /\ armed' = (armed \/ tries = Limit)
    /\ UNCHANGED deaths

\* noteFailedCodeTry: counted, and given a lifetime by the first.
Counted ==
    /\ tries' = tries + 1
    /\ armed' = (armed \/ tries = 0)
    /\ UNCHANGED deaths

\* The code leads to a gateway or the miss is counted.
Looks(v) ==
    IF visit[v].code \in Mapped
    THEN /\ visit' = [visit EXCEPT ![v] = [pc |-> "knows", code |-> None, of |-> visit[v].of,
                                          gw |-> owner[visit[v].code]]]
         /\ UNCHANGED <<tries, armed, deaths>>
    ELSE visit' = [visit EXCEPT ![v] = Away] /\ Counted

\* /pairing/resolve, up to the body of the request, and from there.
AsksResolve(v) ==
    /\ visit[v].pc = "holds"
    /\ visit' = [visit EXCEPT ![v] = IF LockedOut THEN Away ELSE [visit[v] EXCEPT !.pc = "asks"]]
    /\ UNCHANGED <<screen, owner, entry, tries, armed, deaths, shared>>

Resolves(v) ==
    /\ visit[v].pc = "asks" /\ Looks(v)
    /\ UNCHANGED <<screen, owner, entry, shared>>

\* /interact?pairingCode=: in one go.
Interacts(v) ==
    /\ visit[v].pc = "holds"
    /\ IF LockedOut THEN visit' = [visit EXCEPT ![v] = Away] /\ UNCHANGED <<tries, armed, deaths>>
       ELSE Looks(v)
    /\ UNCHANGED <<screen, owner, entry, shared>>

\* The proxy dies after INCR and before EXPIRE.
DiesCounting(v) ==
    /\ visit[v].pc = "asks" /\ visit[v].code \notin Mapped /\ deaths < MaxDeaths
    /\ tries' = tries + 1 /\ deaths' = deaths + 1
    /\ visit' = [w \in Visitors |-> IF visit[w].pc = "asks" THEN Away ELSE visit[w]]
    /\ UNCHANGED <<screen, owner, entry, armed, shared>>

\* /interact?gwId=: back to the pairing page unless the gateway has an entry;
\* what is commanded is relayed to its address.
Drives(v) ==
    /\ visit[v].pc = "knows"
    /\ visit' = [visit EXCEPT ![v] =
                    IF entry[visit[v].gw] = None THEN Away
                    ELSE [visit[v] EXCEPT !.pc = "drives", !.gw = entry[visit[v].gw]]]
    /\ UNCHANGED <<screen, owner, entry, tries, armed, deaths, shared>>

WindowEnds ==
    /\ armed /\ armed' = FALSE /\ tries' = 0
    /\ UNCHANGED <<screen, owner, entry, visit, deaths, shared>>

-----------------------------------------------------------------------------

Next ==
    \/ \E g \in Gateways : \/ Restarts(g) \/ Forgotten(g) \/ Renews(g) \/ Misses(g)
                           \/ \E heard \in BOOLEAN : Enrols(g, heard)
    \/ \E c \in Codes : Expires(c)
    \/ \E v \in Visitors : \/ \E g \in Gateways : ReadsScreen(v, g)
                           \/ Mistypes(v) \/ Leaves(v) \/ AsksResolve(v) \/ Resolves(v) \/ Interacts(v)
                           \/ DiesCounting(v) \/ Drives(v)
    \/ WindowEnds

\* Lifetimes end and requests are answered.  A gateway goes on registering, and
\* its answers are not all lost.
Fairness ==
    /\ WF_vars(WindowEnds)
    /\ \A c \in Codes : WF_vars(Expires(c))
    /\ \A v \in Visitors : WF_vars(Resolves(v))
    /\ \A g \in Gateways : SF_vars(Enrols(g, TRUE))

Spec == Init /\ [][Next]_vars /\ Fairness

-----------------------------------------------------------------------------
(* Properties. *)

\* The keys of the proxy are those of gateways and codes.
PairingTypeOK ==
    /\ screen \in [Gateways -> Codes \cup {None}]
    /\ owner \in [Codes -> Gateways \cup {None}]
    /\ entry \in [Gateways -> Gateways \cup {None}]
    /\ visit \in [Visitors -> VisitStates]
    /\ \A v \in Visitors : visit[v].pc \in {"knows", "drives"} => visit[v].gw \in Gateways
    /\ tries \in Nat /\ armed \in BOOLEAN /\ deaths \in 0..MaxDeaths
    /\ shared \subseteq Gateways

\* Who types the code of a screen drives the gateway of this screen, however
\* the code has expired and the gateway registered, restarted or been forgotten
\* meanwhile.  A code drawn while another uses it leads astray, but never from a
\* gateway that had no code in common with another (proxy.py: registerGateway,
\* pairingResolve, interact).
DrivesWhatItRead ==
    \A v \in Visitors :
        visit[v].pc = "drives" /\ visit[v].of \notin shared \cup {None} => visit[v].gw = visit[v].of

\* The visitors of an address miss no more than the limit in a window, but for
\* those who passed the throttle together (proxy.py: tooManyCodeTries before
\* the await, noteFailedCodeTry after it).
MissesBounded == tries <= Limit + Cardinality(Visitors) - 1

\* An address that is locked out is let in again, unless the proxy died between
\* the two commands of a count (proxy.py: noteFailedCodeTry).
LockoutEnds == (LockedOut /\ deaths = 0) ~> (~LockedOut \/ deaths > 0)

\* A gateway shows again and again a code that leads to it, though
\* answers are lost and codes expire while they are used (proxy.py:
\* registerGateway; entrypoint.sh: proxyRegister).
ShowsLiveCode ==
    \A g \in Gateways : []<>(\E c \in Mapped : screen[g] = c /\ owner[c] = g)

=============================================================================
