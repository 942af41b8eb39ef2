--------------------------- MODULE CallReport_proofs ---------------------------
(***************************************************************************)
(* The reports of a gateway implement the ledger of its calls; the history *)
(* of a call is not given up before it is counted; a call is counted once, *)
(* as it was, and with its own streams; and no gateway stays in a          *)
(* conference without its call: for any number of containers and readings. *)
(***************************************************************************)
EXTENDS CallReport, SequenceTheorems, FiniteSetTheorems, WellFoundedInduction, TLAPS

Calls == 1..MaxContainers

-----------------------------------------------------------------------------
(* The inductive invariant. *)

\* The call of the container is over.
Over == sip \in {"closed", "quit"} /\ container \in carried

\* What may be told at this moment: nothing of other containers, and no end of a
\* call that is not over.
Events == {"CALL_INCOMING", "CALL_ESTABLISHED", "CALL_CLOSED", "FOREIGN_INCOMING", "FOREIGN_CLOSED"}
TrueEvents == {e \in Events : e = "CALL_CLOSED" => Over}
TrueLines == {l \in Lines : l.call = container /\ (l.kind = "closed" => Over)}

ContainerInv ==
    /\ container \in Nat /\ alive \in BOOLEAN /\ sip \in SipStates /\ reading \in 0..MaxReadings
    /\ alive => container \in Calls
    /\ carried \subseteq 1..container
    /\ alive /\ sip \in {"ringing", "up"} => container \in carried
    /\ ~alive => sip = "quit"
    /\ container \in carried => sip \in {"ringing", "up", "closed", "quit"}

ToldInv ==
    /\ sock \in Seq(TrueEvents)
    /\ pipe \in [Parsers -> Seq(TrueLines)]
    /\ file \in Seq(TrueLines)
    /\ ~alive => sock = <<>> /\ \A p \in Parsers : pipe[p] = <<>>

\* A push of a call comes from its container, after its end.
RequestInv(r) ==
    r.payload.id # NoCall =>
        /\ r.payload.id = r.container /\ r.payload.id \in carried
        /\ r.payload.id = container => Over

PushInv ==
    /\ push \in [Parsers -> PushStates]
    /\ \A p \in Parsers : push[p] = "accepted" => Counted(container)
    /\ ~alive => \A p \in Parsers : push[p] = "no"

ReportInv ==
    /\ ContainerInv /\ ToldInv /\ PushInv
    /\ \A r \in requests : RequestInv(r)
    /\ \A r \in calls : r.id \in carried

-----------------------------------------------------------------------------
(* What is told. *)

LEMMA SequencesGrow ==
  ASSUME NEW S, NEW T, S \subseteq T
  PROVE  Seq(S) \subseteq Seq(T)
  BY SeqMonotonic

\* What was true of the call stays true while its container goes on.
LEMMA TruthLasts ==
  ASSUME container' = container, Over => Over'
  PROVE  Seq(TrueEvents) \subseteq Seq(TrueEvents') /\ Seq(TrueLines) \subseteq Seq(TrueLines')
<1>1. TrueEvents \subseteq TrueEvents' BY DEF TrueEvents
<1>2. TrueLines \subseteq TrueLines' BY DEF TrueLines
<1>3. QED BY <1>1, <1>2, SequencesGrow

LEMMA LineIsTrue ==
  ASSUME ContainerInv, alive, NEW kind \in Kinds, NEW at \in 0..MaxReadings + 1, kind = "closed" => Over
  PROVE  Line(kind, at) \in TrueLines
  BY DEF ContainerInv, Line, Lines, TrueLines, Calls

\* What is printed is added to the lines that wait for the parser.
LEMMA PrintsTrue ==
  ASSUME pipe \in [Parsers -> Seq(TrueLines)], NEW p \in Parsers, NEW lines \in Seq(TrueLines),
         Prints(p, lines)
  PROVE  pipe' \in [Parsers -> Seq(TrueLines)]
<1>1. pipe[p] \o lines \in Seq(TrueLines) BY ConcatProperties
<1>2. QED BY <1>1 DEF Prints

LEMMA TablesTrue ==
  ASSUME ContainerInv, alive, NEW at \in 0..MaxReadings + 1
  PROVE  Tables(at) \in Seq(TrueLines)
<1> DEFINE a == Line("main", at)
           b == Line("slides", at)
<1>1. a \in TrueLines /\ b \in TrueLines BY LineIsTrue DEF Kinds
<1>2. Tables(at) = <<a, b>> \/ Tables(at) = <<a>> BY DEF Tables
<1> HIDE DEF a, b
<1>3. <<a, b>> \in Seq(TrueLines) /\ <<a>> \in Seq(TrueLines) BY <1>1
<1>4. QED BY <1>2, <1>3, Zenon

\* The end of a call and its tables
LEMMA ClosingTrue ==
  ASSUME ContainerInv, ToldInv, alive, Closing, container' = container, Over', sip \in {"ringing", "up"}
  PROVE  sock' \in Seq(TrueEvents') /\ pipe' \in [Parsers -> Seq(TrueLines)]
<1>1. sock \in Seq(TrueEvents') BY TruthLasts DEF ToldInv
<1>2. "CALL_CLOSED" \in TrueEvents' BY DEF TrueEvents, Events
<1>3. sock' \in Seq(TrueEvents') BY <1>1, <1>2, AppendProperties DEF Closing
<1>4. MaxReadings + 1 \in 0..MaxReadings + 1 BY CallAssumption DEF CallAssumption
<1>5. Tables(MaxReadings + 1) \in Seq(TrueLines) BY <1>4, TablesTrue
<1>6. "Baresip" \in Parsers BY DEF Parsers
<1>7. pipe' \in [Parsers -> Seq(TrueLines)] BY <1>5, <1>6, PrintsTrue DEF Closing, ToldInv
<1>8. QED BY <1>3, <1>7

\* What the steps of the gateway keep.
Kept ==
    /\ ContainerInv' /\ container' = container /\ alive' = alive /\ alive
    /\ Over => Over'
    /\ carried \subseteq carried' /\ carried' \subseteq carried \cup {container}
    /\ sock' \in Seq(TrueEvents') /\ pipe' \in [Parsers -> Seq(TrueLines')]

LEMMA KeptBy ==
  ASSUME ContainerInv, ToldInv, alive, container' = container, alive' = alive, carried' = carried,
         reading' \in 0..MaxReadings, sip' \in SipStates,
         sip' \in {"ringing", "up"} => sip \in {"ringing", "up"},
         sip' = sip \/ sip' \in {"up", "closed", "quit"},
         sip \in {"closed", "quit"} => sip' \in {"closed", "quit"},
         sock' \in Seq(TrueEvents) \/ sock' \in Seq(TrueEvents'),
         pipe' \in [Parsers -> Seq(TrueLines)] \/ pipe' \in [Parsers -> Seq(TrueLines')]
  PROVE  Kept
<1>1. Over => Over' BY DEF Over
<1>2. ContainerInv' BY DEF ContainerInv
<1>3. sock' \in Seq(TrueEvents') /\ pipe' \in [Parsers -> Seq(TrueLines')] BY <1>1, TruthLasts
<1>4. QED BY <1>1, <1>2, <1>3 DEF Kept

LEMMA SocketTail ==
  ASSUME ToldInv, sock # <<>>
  PROVE  Tail(sock) \in Seq(TrueEvents) /\ Head(sock) \in TrueEvents
  BY HeadTailProperties DEF ToldInv

LEMMA CallStepsKeep ==
  ASSUME ContainerInv, ToldInv, CallSteps
  PROVE  Kept
<1>0. /\ container \in Nat /\ alive \in BOOLEAN /\ sip \in SipStates /\ reading \in 0..MaxReadings
      /\ sock \in Seq(TrueEvents) /\ pipe \in [Parsers -> Seq(TrueLines)]
      /\ "Event" \in Parsers /\ "Baresip" \in Parsers /\ MaxReadings \in Nat
  BY CallAssumption DEF ContainerInv, ToldInv, Parsers, CallAssumption
<1>1. CASE CallComes(FALSE)
  <2>1. /\ alive /\ container' = container /\ alive' = alive /\ sip = "idle" /\ sip' = "ringing"
        /\ carried' = carried \cup {container} /\ reading' = reading /\ pipe' = pipe
        /\ sock' = Append(sock, "CALL_INCOMING")
    BY <1>1 DEF CallComes
  <2>2. ~Over /\ "CALL_INCOMING" \in TrueEvents BY <2>1 DEF Over, TrueEvents, Events
  <2>3. sock' \in Seq(TrueEvents) BY <1>0, <2>1, <2>2, AppendProperties
  <2>4. sock' \in Seq(TrueEvents') /\ pipe' \in [Parsers -> Seq(TrueLines')]
    BY <1>0, <2>1, <2>2, <2>3, TruthLasts
  <2>5. ContainerInv' BY <2>1 DEF ContainerInv, SipStates, Calls
  <2>6. QED BY <2>1, <2>2, <2>4, <2>5 DEF Kept
<1>2. CASE PeerHangsUp \/ (HangsUp /\ sip \in {"ringing", "up"})
  <2>1. /\ alive /\ container' = container /\ alive' = alive /\ sip \in {"ringing", "up"} /\ sip' = "closed"
        /\ carried' = carried /\ reading' = reading /\ Closing
    BY <1>2 DEF PeerHangsUp, HangsUp
  <2>2. Over' BY <2>1 DEF Over, ContainerInv
  <2>3. sock' \in Seq(TrueEvents') /\ pipe' \in [Parsers -> Seq(TrueLines)] BY <2>1, <2>2, ClosingTrue
  <2>4. QED BY <1>0, <2>1, <2>3, KeptBy DEF SipStates
<1>3. CASE HangsUp /\ sip \notin {"ringing", "up"}
  BY <1>0, <1>3, KeptBy DEF HangsUp
<1>4. CASE Quits
  <2>1. /\ alive /\ container' = container /\ alive' = alive /\ sip # "quit" /\ sip' = "quit"
        /\ carried' = carried /\ reading' = reading
    BY <1>4 DEF Quits
  <2>2. sock' \in Seq(TrueEvents')
    <3>1. sip \in {"ringing", "up"} => Over' BY <2>1 DEF Over, ContainerInv
    <3>2. sip \in {"ringing", "up"} => "CALL_CLOSED" \in TrueEvents' BY <3>1 DEF TrueEvents, Events
    <3>3. sock \in Seq(TrueEvents') BY <1>0, <2>1, TruthLasts DEF Over
    <3>4. sip \in {"ringing", "up"} => Append(sock, "CALL_CLOSED") \in Seq(TrueEvents')
      BY <3>2, <3>3, AppendProperties
    <3>5. QED BY <1>4, <3>3, <3>4 DEF Quits
  <2>3. pipe' \in [Parsers -> Seq(TrueLines)]
    <3>1. <<Line("stop", 0)>> \in Seq(TrueLines)
      <4>1. Line("stop", 0) \in TrueLines BY <1>0, <2>1, LineIsTrue DEF Kinds
      <4>2. QED BY <4>1
    <3>2. Tables(MaxReadings + 1) \in Seq(TrueLines) BY <1>0, <2>1, TablesTrue
    <3> DEFINE lines == (IF sip = "up" THEN Tables(MaxReadings + 1) ELSE <<>>) \o <<Line("stop", 0)>>
    <3>3. lines \in Seq(TrueLines) BY <3>1, <3>2, ConcatProperties, EmptySeq
    <3>4. pipe' = pipe \/ Prints("Baresip", lines) BY <1>4 DEF Quits
    <3> HIDE DEF lines
    <3>5. QED BY <1>0, <3>3, <3>4, PrintsTrue
  <2>4. QED BY <1>0, <2>1, <2>2, <2>3, KeptBy DEF SipStates
<1>5. CASE Presents \/ RecordingEnds \/ LoopEnds \/ EndsBrowse \/ Exits
  BY <1>0, <1>5, KeptBy DEF Presents, RecordingEnds, LoopEnds, EndsBrowse, Exits
<1>6. CASE Stopped BY <1>0, <1>6, KeptBy, EmptySeq DEF Stopped
<1>7. CASE Accepts
  <2>1. "CALL_ESTABLISHED" \in TrueEvents BY DEF TrueEvents, Events
  <2>2. sock # <<>> /\ Tail(sock) \in Seq(TrueEvents) BY <1>7, SocketTail DEF Accepts
  <2>3. Append(Tail(sock), "CALL_ESTABLISHED") \in Seq(TrueEvents) BY <2>1, <2>2, AppendProperties
  <2>4. QED BY <1>0, <1>7, <2>2, <2>3, KeptBy DEF Accepts, SipStates
<1>8. CASE Establishes
  <2>1. Tail(sock) \in Seq(TrueEvents) BY <1>8, SocketTail DEF Establishes, Reads
  <2>2. Line("start", 0) \in TrueLines BY <1>0, <1>8, LineIsTrue DEF Kinds, Establishes, Reads
  <2>3. <<Line("start", 0)>> \in Seq(TrueLines) BY <2>2
  <2>4. pipe' \in [Parsers -> Seq(TrueLines)] BY <1>0, <1>8, <2>3, PrintsTrue DEF Establishes
  <2>5. QED BY <1>0, <1>8, <2>1, <2>4, KeptBy DEF Establishes, Reads
<1>9. CASE Closes
  <2>1. Tail(sock) \in Seq(TrueEvents) /\ Over
    BY <1>9, SocketTail DEF Closes, Reads, TrueEvents
  <2>2. Line("closed", 0) \in TrueLines BY <1>0, <1>9, <2>1, LineIsTrue DEF Kinds, Closes, Reads
  <2>3. <<Line("closed", 0)>> \in Seq(TrueLines) BY <2>2
  <2>4. pipe' \in [Parsers -> Seq(TrueLines)] BY <1>0, <1>9, <2>3, PrintsTrue DEF Closes
  <2>5. QED BY <1>0, <1>9, <2>1, <2>4, KeptBy DEF Closes, Reads
<1>10. CASE Asks
  <2>1. reading + 1 \in 0..MaxReadings /\ reading + 1 \in 0..MaxReadings + 1 BY <1>0, <1>10 DEF Asks
  <2>2. Tables(reading + 1) \in Seq(TrueLines) BY <1>10, <2>1, TablesTrue DEF Asks
  <2>3. pipe' \in [Parsers -> Seq(TrueLines)] BY <1>0, <1>10, <2>2, PrintsTrue DEF Asks
  <2>4. QED BY <1>0, <1>10, <2>1, <2>3, KeptBy DEF Asks
<1>11. ASSUME NEW b \in BOOLEAN, Answered(b) PROVE Kept
  <2>1. reading \in 0..MaxReadings + 1 BY <1>0
  <2>2. Line("sample", reading) \in TrueLines BY <1>11, <2>1, LineIsTrue DEF Kinds, Answered
  <2>3. <<Line("sample", reading)>> \in Seq(TrueLines) BY <2>2
  <2>4. pipe' \in [Parsers -> Seq(TrueLines)] BY <1>0, <1>11, <2>3, PrintsTrue DEF Answered
  <2>5. QED BY <1>0, <1>11, <2>4, KeptBy DEF Answered
<1>12. QED
  BY <1>1, <1>2, <1>3, <1>4, <1>5, <1>6, <1>7, <1>8, <1>9, <1>10, <1>11 DEF CallSteps

-----------------------------------------------------------------------------
(* The parsers and the manager. *)

LEMMA MaxIsThere ==
  ASSUME NEW n \in Nat, NEW S \in SUBSET (1..n), S # {}
  PROVE  Max(S) \in S
<1> DEFINE R == OpToRel(<, Nat)
           T == {n - i : i \in S}
<1>1. R = {ss \in Nat \X Nat : ss[1] < ss[2]} BY DEF OpToRel
<1>2. T \subseteq Nat /\ T # {}
  <2>1. \A i \in S : i \in Int /\ i <= n OBVIOUS
  <2>2. \A i \in S : n - i \in Nat BY <2>1
  <2>3. PICK i \in S : TRUE OBVIOUS
  <2>4. n - i \in T OBVIOUS
  <2>5. QED BY <2>2, <2>4
<1>3. IsWellFoundedOn(R, Nat) BY NatLessThanWellFounded
<1> HIDE DEF R
<1>4. PICK t \in T : \A u \in T : ~(<<u, t>> \in R) BY <1>2, <1>3, WFMin
<1>5. PICK i \in S : t = n - i OBVIOUS
<1>6. \A j \in S : n - j \in T /\ n - j \in Nat /\ t \in Nat OBVIOUS
<1>7. \A j \in S : n - j < t => <<n - j, t>> \in {ss \in Nat \X Nat : ss[1] < ss[2]} BY <1>6
<1>8. \A j \in S : ~(n - j < t) BY <1>1, <1>4, <1>6, <1>7, Zenon
<1>9. \A j \in S : i >= j BY <1>5, <1>8
<1>10. QED BY <1>9 DEF Max

\* The Call-ID of a history is that of the container, whose call is over.
LEMMA PayloadIsTrue ==
  ASSUME ToldInv, Payload(file).id # NoCall
  PROVE  Payload(file).id = container /\ Over
<1> DEFINE ends == Positions(file, "closed")
<1>1. Len(file) \in Nat /\ file \in [1..Len(file) -> TrueLines] BY DEF ToldInv
<1>2. ends \in SUBSET (1..Len(file)) /\ ends # {}
  /\ Payload(file).id = file[Max(ends)].call
  BY <1>1 DEF Payload, Positions
<1>3. Max(ends) \in ends BY <1>1, <1>2, MaxIsThere
<1>4. file[Max(ends)] \in TrueLines /\ file[Max(ends)].kind = "closed" BY <1>1, <1>3 DEF Positions
<1>5. QED BY <1>2, <1>4 DEF TrueLines

\* What holds of the requests and the rows, when the call of the container only
\* goes on and nothing is posted or stored
LEMMA RequestsLeft ==
  ASSUME ReportInv, container' = container, Over => Over', carried \subseteq carried',
         requests' \subseteq requests, calls' = calls
  PROVE  /\ \A r \in requests' : RequestInv(r)'
         /\ \A r \in calls' : r.id \in carried'
  BY DEF ReportInv, RequestInv

\* A row is stored, and none is ever removed.
LEMMA StoresCounted ==
  ASSUME NEW payload, Stores(payload)
  PROVE  /\ calls \subseteq calls'
         /\ \E r \in calls' : r.id = payload.id
         /\ \A r \in calls' : r \in calls \/ r.id = payload.id
<1>1. RowFor(payload).id = payload.id BY DEF RowFor
<1>2. CASE Conflicts(RowFor(payload)) BY <1>1, <1>2 DEF Stores, Conflicts
<1>3. CASE ~Conflicts(RowFor(payload)) BY <1>1, <1>3 DEF Stores
<1>4. QED BY <1>2, <1>3

LEMMA ParserSteps ==
  ASSUME ReportInv, NEW p \in Parsers,
         Parses(p) \/ ParsesEnd(p) \/ DatesEnd(p) \/ Pushes(p) \/ PushTimesOut(p) \/ PushEnds(p)
  PROVE  ReportInv'
<1>0. /\ pipe \in [Parsers -> Seq(TrueLines)] /\ file \in Seq(TrueLines)
      /\ push \in [Parsers -> PushStates]
  BY DEF ReportInv, ToldInv, PushInv
<1>1. /\ container' = container /\ alive' = alive /\ alive /\ sip' = sip /\ carried' = carried
      /\ sock' = sock /\ reading' = reading /\ calls' = calls
  BY DEF Parses, ParsesEnd, DatesEnd, Pushes, PushTimesOut, PushEnds, gatewayVars
<1>2. ContainerInv' BY <1>1 DEF ReportInv, ContainerInv
<1>3. /\ (Over <=> Over') /\ TrueLines' = TrueLines /\ TrueEvents' = TrueEvents
  BY <1>1 DEF Over, TrueLines, TrueEvents
<1>4. pipe' \in [Parsers -> Seq(TrueLines)]
  <2>1. pipe[p] # <<>> => Tail(pipe[p]) \in Seq(TrueLines) BY <1>0, HeadTailProperties
  <2>2. pipe' = pipe \/ (pipe[p] # <<>> /\ pipe' = [pipe EXCEPT ![p] = Tail(pipe[p])])
    BY DEF Parses, ParsesEnd, DatesEnd, Pushes, PushTimesOut, PushEnds, gatewayVars
  <2>3. QED BY <1>0, <2>1, <2>2
<1>5. file' \in Seq(TrueLines)
  <2>1. CASE Parses(p) \/ ParsesEnd(p)
    <3>1. pipe[p] # <<>> => Head(pipe[p]) \in TrueLines BY <1>0, HeadTailProperties
    <3>2. file' = file \/ (pipe[p] # <<>> /\ file' = Append(file, Head(pipe[p])))
      BY <2>1 DEF Parses, ParsesEnd
    <3>3. ASSUME NEW l \in TrueLines PROVE Append(file, l) \in Seq(TrueLines)
      BY <1>0, AppendProperties
    <3>4. QED BY <1>0, <3>1, <3>2, <3>3, Zenon
  <2>2. CASE DatesEnd(p)
    <3>1. Line("end", 0) \in TrueLines
      BY <1>1, LineIsTrue, CallAssumption DEF Kinds, ReportInv, CallAssumption
    <3>2. QED BY <1>0, <2>2, <3>1, AppendProperties DEF DatesEnd
  <2>3. CASE Pushes(p) \/ PushTimesOut(p) \/ PushEnds(p)
    BY <1>0, <2>3, EmptySeq DEF Pushes, PushTimesOut, PushEnds
  <2>4. QED BY <2>1, <2>2, <2>3
<1>6. ToldInv' BY <1>1, <1>3, <1>4, <1>5 DEF ReportInv, ToldInv
<1>7. PushInv'
  BY <1>0, <1>1 DEF Parses, ParsesEnd, DatesEnd, Pushes, PushTimesOut, PushEnds, ReportInv, PushInv,
     PushStates, Counted
<1>8. \A r \in requests' : RequestInv(r)'
  <2>1. CASE requests' = requests BY <1>1, <1>3, <2>1, RequestsLeft
  <2>2. CASE Pushes(p) /\ requests' # requests
    <3> DEFINE new == [from |-> p, container |-> container, payload |-> Payload(file)]
    <3>1. requests' = requests \cup {new} BY <2>2 DEF Pushes
    <3>2. ASSUME NEW r, r = new PROVE RequestInv(r)'
      <4>1. r.payload.id = Payload(file).id /\ r.container = container BY <3>2
      <4>2. r.payload.id # NoCall => r.payload.id = container /\ Over
        BY <4>1, PayloadIsTrue DEF ReportInv
      <4>3. r.payload.id # NoCall => Over' /\ container \in carried'
        BY <1>1, <1>3, <4>2 DEF Over
      <4>4. QED BY <1>1, <4>1, <4>2, <4>3 DEF RequestInv
    <3>3. \A r \in requests : RequestInv(r)' BY <1>1, <1>3 DEF RequestInv, ReportInv
    <3>4. \A r \in requests' : r = new \/ r \in requests BY <3>1
    <3> HIDE DEF new
    <3>5. QED BY <3>2, <3>3, <3>4
  <2>3. QED BY <2>1, <2>2 DEF Parses, ParsesEnd, DatesEnd, Pushes, PushTimesOut, PushEnds
<1>9. \A r \in calls' : r.id \in carried' BY <1>1 DEF ReportInv
<1>10. QED BY <1>2, <1>6, <1>7, <1>8, <1>9 DEF ReportInv

LEMMA ManagerSteps ==
  ASSUME ReportInv, NEW r \in requests, Refused(r) \/ Ingests(r) \/ RequestLost(r)
  PROVE  ReportInv'
<1>1. /\ UNCHANGED gatewayVars /\ file' = file /\ requests' = requests \ {r}
      /\ calls \subseteq calls'
  BY StoresCounted DEF Refused, Ingests, RequestLost
<1>2. ContainerInv' BY <1>1 DEF ReportInv, ContainerInv, gatewayVars
<1>3. /\ (Over <=> Over') /\ TrueLines' = TrueLines /\ TrueEvents' = TrueEvents
  BY <1>1 DEF Over, TrueLines, TrueEvents, gatewayVars
<1>4. ToldInv' BY <1>1, <1>3 DEF ReportInv, ToldInv, gatewayVars
<1>5. PushInv'
  <2>1. push \in [Parsers -> PushStates] BY DEF ReportInv, PushInv
  <2>2. Counted(container) => Counted(container)' BY <1>1 DEF Counted, gatewayVars
  <2>3. CASE push' = push BY <1>1, <2>2, <2>3 DEF ReportInv, PushInv, gatewayVars
  <2>4. CASE push' # push
    <3>1. PICK answer \in {"accepted", "refused"} :
            /\ push' = [push EXCEPT ![r.from] = answer] /\ Awaits(r.from, r)
            /\ answer = "accepted" => Ingests(r)
      BY <2>4 DEF Refused, Ingests, RequestLost, Answers
    <3>2. answer = "accepted" => Counted(container)'
      <4>1. answer = "accepted" => r.payload.id = r.container /\ r.container = container
        BY <3>1 DEF Ingests, Awaits, ReportInv, RequestInv
      <4>2. answer = "accepted" => \E s \in calls' : s.id = r.payload.id
        BY <3>1, StoresCounted DEF Ingests
      <4>3. QED BY <1>1, <4>1, <4>2 DEF Counted, gatewayVars
    <3>3. alive BY <3>1 DEF Awaits
    <3>4. QED BY <1>1, <2>1, <2>2, <3>1, <3>2, <3>3 DEF ReportInv, PushInv, PushStates, gatewayVars
  <2>5. QED BY <2>3, <2>4
<1>6. \A s \in requests' : RequestInv(s)' BY <1>1, <1>3 DEF ReportInv, RequestInv, gatewayVars
<1>7. \A s \in calls' : s.id \in carried'
  <2>1. \A s \in calls' : s \in calls \/ (Ingests(r) /\ s.id = r.payload.id)
    BY StoresCounted DEF Refused, Ingests, RequestLost
  <2>2. QED BY <1>1, <2>1 DEF ReportInv, RequestInv, Ingests, gatewayVars
<1>8. QED BY <1>2, <1>4, <1>5, <1>6, <1>7 DEF ReportInv

-----------------------------------------------------------------------------
(* The containers. *)

LEMMA StartKeeps ==
  ASSUME ReportInv, ReportStarts
  PROVE  ReportInv'
<1>1. /\ ~alive /\ alive' = TRUE /\ container' = container + 1 /\ sip' = "idle"
      /\ container \in Nat /\ container < MaxContainers /\ MaxContainers \in Nat
      /\ sock' = sock /\ pipe' = pipe /\ carried' = carried /\ reading' = reading
      /\ file' = <<>> /\ push' = [p \in Parsers |-> "no"] /\ requests = {} /\ requests' = {} /\ calls' = calls
  BY CallAssumption DEF ReportStarts, ContainerStarts, ReportInv, ContainerInv, CallAssumption
<1>2. container' \in Calls BY <1>1 DEF Calls
<1>3. carried' \subseteq 1..container' BY <1>1 DEF ReportInv, ContainerInv
<1>4. ContainerInv' BY <1>1, <1>2, <1>3 DEF ReportInv, ContainerInv, SipStates, Calls
<1>5. ToldInv'
  <2>1. sock' = <<>> /\ \A p \in Parsers : pipe'[p] = <<>> BY <1>1 DEF ReportInv, ToldInv
  <2>2. pipe' \in [Parsers -> Seq(TrueLines')]
    <3>1. pipe' = [p \in Parsers |-> pipe'[p]] BY <1>1 DEF ReportInv, ToldInv
    <3>2. \A p \in Parsers : pipe'[p] \in Seq(TrueLines') BY <2>1, EmptySeq
    <3>3. QED BY <3>1, <3>2
  <2>3. QED BY <1>1, <2>1, <2>2, EmptySeq DEF ToldInv
<1>6. PushInv' BY <1>1 DEF PushInv, PushStates
<1>7. QED BY <1>1, <1>4, <1>5, <1>6 DEF ReportInv

LEMMA DeathKeeps ==
  ASSUME ReportInv, ParsersDie
  PROVE  ReportInv'
<1>1. /\ alive' = FALSE /\ container' = container /\ sip' = "quit" /\ sock' = <<>>
      /\ pipe' = [p \in Parsers |-> <<>>] /\ carried' = carried /\ reading' = reading
      /\ file' = file /\ push' = [p \in Parsers |-> "no"] /\ requests' = requests /\ calls' = calls
  BY DEF ParsersDie, ContainerEnds, Killed, Dies
<1>2. Over => Over' BY <1>1 DEF Over
<1>3. ContainerInv' BY <1>1 DEF ReportInv, ContainerInv, SipStates
<1>4. ToldInv'
  <2>1. file' \in Seq(TrueLines') BY <1>1, <1>2, TruthLasts DEF ReportInv, ToldInv
  <2>2. QED BY <1>1, <2>1, EmptySeq DEF ToldInv
<1>5. PushInv' BY <1>1 DEF PushInv, PushStates
<1>6. (\A r \in requests' : RequestInv(r)') /\ \A r \in calls' : r.id \in carried'
  BY <1>1, <1>2, RequestsLeft
<1>7. QED BY <1>3, <1>4, <1>5, <1>6 DEF ReportInv

LEMMA GatewayKeeps ==
  ASSUME ReportInv, GatewaySteps
  PROVE  ReportInv' /\ Kept
<1>1. file' = file /\ push' = push /\ requests' = requests /\ calls' = calls
  BY DEF GatewaySteps, reportVars
<1>2. Kept BY CallStepsKeep DEF ReportInv, GatewaySteps
<1>3. container' = container /\ alive' /\ (Over => Over') /\ carried \subseteq carried'
  BY <1>2 DEF Kept
<1>4. ToldInv'
  <2>1. file' \in Seq(TrueLines') BY <1>1, <1>3, TruthLasts DEF ReportInv, ToldInv
  <2>2. QED BY <1>2, <1>3, <2>1 DEF ToldInv, Kept
<1>5. PushInv' BY <1>1, <1>3 DEF ReportInv, PushInv, Counted
<1>6. (\A r \in requests' : RequestInv(r)') /\ \A r \in calls' : r.id \in carried'
  BY <1>1, <1>3, RequestsLeft
<1>7. QED BY <1>2, <1>4, <1>5, <1>6 DEF ReportInv, Kept

LEMMA StepKeeps ==
  ASSUME ReportInv, [Next]_vars
  PROVE  ReportInv'
<1>1. CASE ReportStarts BY <1>1, StartKeeps
<1>2. CASE GatewaySteps BY <1>2, GatewayKeeps
<1>3. CASE ParsersDie BY <1>3, DeathKeeps
<1>4. ASSUME NEW p \in Parsers,
             Parses(p) \/ ParsesEnd(p) \/ DatesEnd(p) \/ Pushes(p) \/ PushTimesOut(p) \/ PushEnds(p)
      PROVE  ReportInv'
  BY <1>4, ParserSteps
<1>5. ASSUME NEW r \in requests, Refused(r) \/ Ingests(r) \/ RequestLost(r)
      PROVE  ReportInv'
  BY <1>5, ManagerSteps
<1>6. CASE UNCHANGED vars
  <2>1. UNCHANGED gatewayVars /\ UNCHANGED reportVars BY <1>6 DEF vars
  <2>2. /\ (Over <=> Over') /\ TrueLines' = TrueLines /\ TrueEvents' = TrueEvents
    BY <2>1 DEF Over, TrueLines, TrueEvents, gatewayVars
  <2>3. ContainerInv' BY <2>1 DEF ReportInv, ContainerInv, gatewayVars
  <2>4. ToldInv' BY <2>1, <2>2 DEF ReportInv, ToldInv, gatewayVars, reportVars
  <2>5. PushInv' BY <2>1 DEF ReportInv, PushInv, Counted, gatewayVars, reportVars
  <2>6. (\A r \in requests' : RequestInv(r)') /\ \A r \in calls' : r.id \in carried'
    BY <2>1, <2>2, RequestsLeft DEF gatewayVars, reportVars
  <2>7. QED BY <2>3, <2>4, <2>5, <2>6 DEF ReportInv
<1>7. QED BY <1>1, <1>2, <1>3, <1>4, <1>5, <1>6 DEF Next

LEMMA StartHolds ==
  ASSUME GatewayInit, ReportInit
  PROVE  ReportInv
<1>1. ContainerInv
  <2>1. 0 \in Nat /\ 0 \in 0..MaxReadings /\ {} \subseteq 1..0 BY CallAssumption DEF CallAssumption
  <2>2. container = 0 /\ alive = FALSE /\ sip = "quit" /\ reading = 0 /\ carried = {} BY DEF GatewayInit
  <2>3. QED BY <2>1, <2>2 DEF ContainerInv, SipStates
<1>2. ToldInv BY EmptySeq DEF GatewayInit, ReportInit, ToldInv
<1>3. PushInv BY DEF ReportInit, PushInv, PushStates, GatewayInit
<1>4. QED BY <1>1, <1>2, <1>3 DEF ReportInv, ReportInit

\* The invariant the two theorems rest on: what is told and pushed is of the
\* container's own call, and an end is told of a call that is over only.
THEOREM ToldAsItWas == Spec => []ReportInv
<1>1. GatewayInit /\ ReportInit => ReportInv BY StartHolds
<1>2. ReportInv /\ [Next]_vars => ReportInv' BY StepKeeps
<1>3. QED BY <1>1, <1>2, PTL DEF Spec

-----------------------------------------------------------------------------
(* A history that tells the end of a call is not given up before the call is *)
(* counted.                                                                   *)

LEMMA TellsMore ==
  ASSUME NEW l \in TrueLines, file \in Seq(TrueLines), NEW c, Tells(file, c), file' = Append(file, l)
  PROVE  Tells(file', c)
<1>1. PICK i \in 1..Len(file) : file[i].kind = "closed" /\ file[i].call = c BY DEF Tells
<1>2. Len(file') = Len(file) + 1 /\ Len(file) \in Nat /\ file'[i] = file[i] /\ file' \in Seq(TrueLines)
  BY AppendProperties
<1>3. i \in DOMAIN file' BY <1>2
<1>4. QED BY <1>1, <1>2, <1>3 DEF Tells

LEMMA HistoryKept ==
  ASSUME ReportInv, Next, NEW c \in Calls, Tells(file, c), ~Tells(file', c)
  PROVE  Counted(c)' \/ container' # container
<1>1. CASE ReportStarts
  BY <1>1 DEF ReportStarts, ContainerStarts, ReportInv, ContainerInv
<1>2. CASE GatewaySteps \/ ParsersDie BY <1>2 DEF GatewaySteps, ParsersDie, reportVars
<1>3. ASSUME NEW p \in Parsers, Parses(p) \/ ParsesEnd(p) \/ DatesEnd(p) PROVE FALSE
  <2>1. file' # file OBVIOUS
  <2>2. PICK l \in TrueLines : file' = Append(file, l)
    <3>1. CASE DatesEnd(p)
      BY <3>1, LineIsTrue, CallAssumption DEF Kinds, ReportInv, CallAssumption, DatesEnd
    <3>2. CASE Parses(p) \/ ParsesEnd(p)
      <4>1. pipe[p] # <<>> /\ file' = Append(file, Head(pipe[p])) BY <2>1, <3>2 DEF Parses, ParsesEnd
      <4>2. Head(pipe[p]) \in TrueLines BY <4>1, HeadTailProperties DEF ReportInv, ToldInv
      <4>3. QED BY <4>1, <4>2
    <3>3. QED BY <1>3, <3>1, <3>2
  <2>3. QED BY <2>2, TellsMore DEF ReportInv, ToldInv
<1>4. ASSUME NEW p \in Parsers, Pushes(p) \/ PushTimesOut(p) PROVE FALSE
  BY <1>4 DEF Pushes, PushTimesOut
<1>5. ASSUME NEW p \in Parsers, PushEnds(p) PROVE Counted(c)'
  <2>1. push[p] = "accepted" /\ calls' = calls BY <1>5 DEF PushEnds
  <2>2. Counted(container) BY <2>1 DEF ReportInv, PushInv
  <2>3. c = container
    <3>1. PICK i \in DOMAIN file : file[i].call = c BY DEF Tells
    <3>2. file[i] \in TrueLines BY <3>1 DEF ReportInv, ToldInv
    <3>3. QED BY <3>1, <3>2 DEF TrueLines
  <2>4. QED BY <2>1, <2>2, <2>3 DEF Counted
<1>6. ASSUME NEW r \in requests, Refused(r) \/ Ingests(r) \/ RequestLost(r) PROVE FALSE
  BY <1>6 DEF Refused, Ingests, RequestLost
<1>7. QED BY <1>1, <1>2, <1>3, <1>4, <1>5, <1>6 DEF Next

\* A call whose end is in the history leaves it only for the manager's table,
\* or with its container (logParse.py: pushHistory).
THEOREM HistoryIsKept == Spec => KeptUntilCounted
<1>1. ReportInv /\ [Next]_vars =>
        [\A c \in Calls : Tells(file, c) /\ ~Tells(file', c) => Counted(c)' \/ container' # container]_file
  <2>1. SUFFICES ASSUME ReportInv, [Next]_vars, file' # file,
                        NEW c \in Calls, Tells(file, c), ~Tells(file', c)
                 PROVE  Counted(c)' \/ container' # container
    OBVIOUS
  <2>2. Next BY <2>1 DEF vars, reportVars
  <2>3. QED BY <2>1, <2>2, HistoryKept
<1>2. QED BY <1>1, ToldAsItWas, PTL DEF Spec, KeptUntilCounted, Calls

-----------------------------------------------------------------------------
(* The reports implement the ledger. *)

Statuses == [c \in Calls |-> StatusOf(c)]
Same(c) == StatusOf(c)' = StatusOf(c)

LEMMA NoneAdvances ==
  ASSUME \A c \in Calls : Same(c)
  PROVE  Statuses' = Statuses
  BY DEF Statuses, Same, Calls

LEMMA OneAdvances ==
  ASSUME NEW d \in Calls, \A c \in Calls : c # d => Same(c),
         Same(d) \/ <<StatusOf(d), StatusOf(d)'>> \in Ledger!Advances
  PROVE  Ledger!LedgerNext \/ Statuses' = Statuses
<1>1. CASE Same(d) BY <1>1, NoneAdvances
<1>2. CASE <<StatusOf(d), StatusOf(d)'>> \in Ledger!Advances
  <2>1. Statuses[d] = StatusOf(d) /\ Statuses'[d] = StatusOf(d)' BY DEF Statuses, Calls
  <2>2. Statuses' = [Statuses EXCEPT ![d] = Statuses'[d]] BY <2>1 DEF Statuses, Same, Calls
  <2>3. QED BY <1>2, <2>1, <2>2 DEF Ledger!LedgerNext, Statuses, Calls
<1>3. QED BY <1>1, <1>2

\* What a call becomes depends on its container, its pushes and its row.
LEMMA StatusKept ==
  ASSUME NEW c, Counted(c) <=> Counted(c)',
         (\E r \in requests : r.payload.id = c) <=> (\E r \in requests' : r.payload.id = c),
         c \in carried <=> c \in carried',
         \/ container' = container /\ alive' = alive /\ sip' = sip
         \/ c # container /\ c # container'
  PROVE  Same(c)
  BY DEF Same, StatusOf

LEMMA ComesRinging ==
  ASSUME CallSteps, carried' # carried
  PROVE  sip' = "ringing"
<1>1. CASE CallComes(FALSE) BY <1>1 DEF CallComes
<1>2. CASE Presents \/ PeerHangsUp \/ HangsUp \/ Quits \/ RecordingEnds
  BY <1>2 DEF Presents, PeerHangsUp, HangsUp, Quits, RecordingEnds
<1>3. CASE Accepts \/ Establishes \/ Closes \/ Asks BY <1>3 DEF Accepts, Establishes, Closes, Asks
<1>4. CASE LoopEnds \/ Stopped \/ EndsBrowse \/ Exits
  BY <1>4 DEF LoopEnds, Stopped, EndsBrowse, Exits
<1>5. ASSUME NEW b \in BOOLEAN, Answered(b) PROVE FALSE BY <1>5 DEF Answered
<1>6. QED BY <1>1, <1>2, <1>3, <1>4, <1>5 DEF CallSteps

LEMMA GatewayAdvances ==
  ASSUME ReportInv, GatewaySteps
  PROVE  Ledger!LedgerNext \/ Statuses' = Statuses
<1>1. /\ requests' = requests /\ calls' = calls /\ alive /\ alive' /\ container' = container
      /\ container \in Calls /\ carried \subseteq carried' /\ carried' \subseteq carried \cup {container}
      /\ Over => Over'
  BY GatewayKeeps DEF GatewaySteps, reportVars, Kept, ReportInv, ContainerInv
<1>2. \A c \in Calls : c # container => Same(c) BY <1>1, StatusKept DEF Counted
<1>3. Same(container) \/ <<StatusOf(container), StatusOf(container)'>> \in Ledger!Advances
  <2>1. CASE container \notin carried
    <3>1. ~Counted(container)' /\ ~\E r \in requests' : r.payload.id = container
      BY <1>1, <2>1 DEF ReportInv, RequestInv, Counted, NoCall, Calls
    <3>2. container \in carried' => sip' = "ringing"
      BY <2>1, ComesRinging DEF GatewaySteps
    <3>3. StatusOf(container) = "none" BY <2>1 DEF StatusOf
    <3>4. StatusOf(container)' = IF container \in carried' THEN "open" ELSE "none"
      BY <1>1, <3>1, <3>2 DEF StatusOf
    <3>5. QED BY <3>3, <3>4 DEF Same, Ledger!Advances
  <2>2. CASE container \in carried /\ (Counted(container) \/ \E r \in requests : r.payload.id = container)
    <3>1. container \in carried' /\ (Counted(container) <=> Counted(container)')
      BY <1>1, <2>2 DEF Counted
    <3>2. QED BY <1>1, <2>2, <3>1 DEF Same, StatusOf
  <2>3. CASE /\ container \in carried /\ ~Counted(container)
             /\ ~\E r \in requests : r.payload.id = container
    <3>1. container \in carried' /\ ~Counted(container)' BY <1>1, <2>3 DEF Counted
    <3>2. StatusOf(container) = IF sip \in {"ringing", "up"} THEN "open" ELSE "ended"
      BY <1>1, <2>3 DEF StatusOf
    <3>3. StatusOf(container)' = IF sip' \in {"ringing", "up"} THEN "open" ELSE "ended"
      BY <1>1, <2>3, <3>1 DEF StatusOf
    <3>4. sip \notin {"ringing", "up"} => sip' \notin {"ringing", "up"}
      BY <1>1, <2>3 DEF Over, ReportInv, ContainerInv
    <3>5. QED BY <3>2, <3>3, <3>4 DEF Same, Ledger!Advances
  <2>4. QED BY <2>1, <2>2, <2>3
<1>4. QED BY <1>1, <1>2, <1>3, OneAdvances

LEMMA DeathAdvances ==
  ASSUME ReportInv, ParsersDie
  PROVE  Ledger!LedgerNext \/ Statuses' = Statuses
<1>1. /\ requests' = requests /\ calls' = calls /\ alive /\ ~alive' /\ container' = container
      /\ container \in Calls /\ carried' = carried
  BY DEF ParsersDie, ContainerEnds, Killed, Dies, ReportInv, ContainerInv
<1>2. \A c \in Calls : c # container => Same(c) BY <1>1, StatusKept DEF Counted
<1>3. Counted(container) <=> Counted(container)' BY <1>1 DEF Counted
<1>4. Same(container) \/ <<StatusOf(container), StatusOf(container)'>> \in Ledger!Advances
  BY <1>1, <1>3 DEF Same, StatusOf, Ledger!Advances
<1>5. QED BY <1>1, <1>2, <1>4, OneAdvances

LEMMA StartAdvances ==
  ASSUME ReportInv, ReportStarts
  PROVE  Statuses' = Statuses
<1>1. /\ ~alive /\ container' = container + 1 /\ container \in Nat /\ carried' = carried
      /\ carried \subseteq 1..container /\ requests = {} /\ requests' = {} /\ calls' = calls
  BY DEF ReportStarts, ContainerStarts, ReportInv, ContainerInv
<1>2. container' \notin carried BY <1>1
<1>3. \A c : Counted(c) <=> Counted(c)' BY <1>1 DEF Counted
<1>4. \A c \in Calls : Same(c) BY <1>1, <1>2, <1>3 DEF Same, StatusOf
<1>5. QED BY <1>4, NoneAdvances

LEMMA ParserAdvances ==
  ASSUME ReportInv, NEW p \in Parsers,
         Parses(p) \/ ParsesEnd(p) \/ DatesEnd(p) \/ Pushes(p) \/ PushTimesOut(p) \/ PushEnds(p)
  PROVE  Statuses' = Statuses
<1>1. /\ container' = container /\ alive' = alive /\ alive /\ sip' = sip /\ carried' = carried /\ calls' = calls
  BY DEF Parses, ParsesEnd, DatesEnd, Pushes, PushTimesOut, PushEnds, gatewayVars
<1>2. CASE requests' = requests BY <1>1, <1>2, StatusKept, NoneAdvances DEF Counted
<1>3. CASE requests' # requests
  <2> DEFINE new == [from |-> p, container |-> container, payload |-> Payload(file)]
  <2>1. requests' = requests \cup {new} BY <1>3 DEF Parses, ParsesEnd, DatesEnd, Pushes, PushTimesOut, PushEnds
  <2>2. \A c : (\E r \in requests' : r.payload.id = c)
                <=> (c = Payload(file).id \/ \E r \in requests : r.payload.id = c)
    <3>1. \A r : r = new => r.payload.id = Payload(file).id OBVIOUS
    <3>2. new \in requests' BY <2>1
    <3> HIDE DEF new
    <3>3. QED BY <2>1, <3>1, <3>2
  <2>3. \A c \in Calls : c # Payload(file).id => Same(c) BY <1>1, <2>2, StatusKept DEF Counted
  <2>4. \A c \in Calls : c = Payload(file).id => Same(c)
    <3>1. SUFFICES ASSUME NEW c \in Calls, c = Payload(file).id PROVE Same(c) OBVIOUS
    <3>2. c = container /\ Over BY <3>1, PayloadIsTrue DEF NoCall, Calls, ReportInv
    <3>3. Counted(c) <=> Counted(c)' BY <1>1 DEF Counted
    <3>4. \E r \in requests' : r.payload.id = c BY <2>2, <3>1
    <3>5. StatusOf(c)' = IF Counted(c) THEN "counted" ELSE "ended"
      BY <1>1, <3>2, <3>3, <3>4 DEF StatusOf, Over
    <3>6. StatusOf(c) = IF Counted(c) THEN "counted" ELSE "ended"
      BY <1>1, <3>2 DEF StatusOf, Over
    <3>7. QED BY <3>5, <3>6 DEF Same
  <2>5. QED BY <2>3, <2>4, NoneAdvances
<1>4. QED BY <1>2, <1>3

LEMMA ManagerAdvances ==
  ASSUME ReportInv, NEW r \in requests, Refused(r) \/ Ingests(r) \/ RequestLost(r)
  PROVE  Ledger!LedgerNext \/ Statuses' = Statuses
<1>1. /\ container' = container /\ alive' = alive /\ sip' = sip /\ carried' = carried
      /\ requests' = requests \ {r}
  BY DEF Refused, Ingests, RequestLost, gatewayVars
<1> DEFINE d == r.payload.id
<1>2. /\ \A c : c # d => (Counted(c) <=> Counted(c)')
      /\ Counted(d) => Counted(d)'
      /\ Counted(d)' => Counted(d) \/ Ingests(r)
      /\ Ingests(r) => Counted(d)'
  <2>1. CASE calls' = calls /\ ~Ingests(r) BY <2>1 DEF Counted
  <2>2. CASE Ingests(r) BY <2>2, StoresCounted DEF Counted, Ingests
  <2>3. QED BY <2>1, <2>2 DEF Refused, RequestLost
<1>3. \A c : c # d => ((\E s \in requests : s.payload.id = c) <=> (\E s \in requests' : s.payload.id = c))
  BY <1>1
<1> HIDE DEF d
<1>4. \A c \in Calls : c # d => Same(c) BY <1>1, <1>2, <1>3, StatusKept
<1>5. CASE d \notin Calls BY <1>4, <1>5, NoneAdvances
<1>6. CASE d \in Calls
  <2>1. d # NoCall BY <1>6 DEF Calls, NoCall
  <2>2. ~Refused(r) BY <2>1 DEF d, Refused
  <2>3. d \in carried /\ (d = container => Over) BY <2>1 DEF d, ReportInv, RequestInv
  <2>4. \E s \in requests : s.payload.id = d BY DEF d
  <2>5. StatusOf(d) = IF Counted(d) THEN "counted" ELSE "ended" BY <2>3, <2>4 DEF StatusOf
  <2>6. StatusOf(d)' \in IF Counted(d)' THEN {"counted"} ELSE {"ended", "lost"}
    BY <1>1, <2>3 DEF StatusOf, Over
  <2>7. Same(d) \/ <<StatusOf(d), StatusOf(d)'>> \in Ledger!Advances
    BY <1>2, <2>5, <2>6 DEF Same, Ledger!Advances
  <2>8. QED BY <1>4, <1>6, <2>7, OneAdvances
<1>7. QED BY <1>5, <1>6

LEMMA StepAdvances ==
  ASSUME ReportInv, [Next]_vars
  PROVE  Ledger!LedgerNext \/ Statuses' = Statuses
<1>1. CASE UNCHANGED vars
  <2>1. \A c \in Calls : Same(c) BY <1>1, StatusKept DEF vars, gatewayVars, reportVars, Counted
  <2>2. QED BY <2>1, NoneAdvances
<1>2. CASE Next
  BY <1>2, GatewayAdvances, DeathAdvances, StartAdvances, ParserAdvances, ManagerAdvances DEF Next
<1>3. QED BY <1>1, <1>2

LEMMA LedgerStarts ==
  ASSUME GatewayInit
  PROVE  Ledger!LedgerInit
<1>1. \A c \in Calls : StatusOf(c) = "none" BY DEF GatewayInit, StatusOf
<1>2. QED BY <1>1 DEF Ledger!LedgerInit, Calls

\* The reports keep the ledger: a call is counted at most once, after its end,
\* and one that was given up is not counted later (logParse.py: pushHistory;
\* router.py: ingestCall).
THEOREM ReportsKeepLedger == Spec => KeepsLedger
<1>1. ReportInv /\ [Next]_vars => [Ledger!LedgerNext]_Statuses BY StepAdvances
<1>2. GatewayInit => Ledger!LedgerInit BY LedgerStarts
<1>3. QED BY <1>1, <1>2, ToldAsItWas, PTL DEF Spec, KeepsLedger, Ledger!LedgerSpec, Statuses, Calls

-----------------------------------------------------------------------------
(* What comes before what in a sequence. *)

\* No element of B after one of A, and none at all
Before(s, A, B) == \A i, j \in DOMAIN s : i < j /\ s[i] \in A => s[j] \notin B
Free(s, B) == \A i \in DOMAIN s : s[i] \notin B

LEMMA EmptyOrder == \A A, B : Before(<<>>, A, B) /\ Free(<<>>, B)
  BY DEF Before, Free

LEMMA AppendOrder ==
  ASSUME NEW S, NEW s \in Seq(S), NEW e \in S, NEW A, NEW B
  PROVE  /\ Append(s, e) \in Seq(S)
         /\ Free(Append(s, e), B) <=> Free(s, B) /\ e \notin B
         /\ Before(s, A, B) /\ (e \in B => Free(s, A)) => Before(Append(s, e), A, B)
<1>1. Append(s, e) \in Seq(S) /\ Len(Append(s, e)) = Len(s) + 1 /\ Len(s) \in Nat OBVIOUS
<1>2. \A i \in 1..Len(s) : Append(s, e)[i] = s[i] OBVIOUS
<1>3. Append(s, e)[Len(s) + 1] = e OBVIOUS
<1>4. DOMAIN s = 1..Len(s) /\ DOMAIN Append(s, e) = 1..Len(s) + 1 BY <1>1
<1>5. Free(Append(s, e), B) <=> Free(s, B) /\ e \notin B BY <1>1, <1>2, <1>3, <1>4 DEF Free
<1>6. ASSUME Before(s, A, B), e \in B => Free(s, A), NEW i \in 1..Len(s) + 1, NEW j \in 1..Len(s) + 1,
             i < j, Append(s, e)[i] \in A
      PROVE  Append(s, e)[j] \notin B
  <2>1. i \in 1..Len(s) /\ s[i] \in A BY <1>1, <1>2, <1>6
  <2>2. CASE j \in 1..Len(s) BY <1>2, <1>4, <1>6, <2>1, <2>2 DEF Before
  <2>3. CASE j = Len(s) + 1 BY <1>3, <1>4, <1>6, <2>1, <2>3 DEF Free
  <2>4. QED BY <1>1, <2>2, <2>3
<1>7. QED BY <1>1, <1>4, <1>5, <1>6 DEF Before

LEMMA AppendFree ==
  ASSUME NEW S, NEW s \in Seq(S), NEW e \in S, NEW B
  PROVE  Free(Append(s, e), B) <=> Free(s, B) /\ e \notin B
  BY AppendOrder

LEMMA TailOrder ==
  ASSUME NEW S, NEW s \in Seq(S), s # <<>>, NEW A, NEW B
  PROVE  /\ Tail(s) \in Seq(S) /\ Head(s) \in S
         /\ Free(s, B) <=> Free(Tail(s), B) /\ Head(s) \notin B
         /\ Before(s, A, B) => Before(Tail(s), A, B) /\ (Head(s) \in A => Free(Tail(s), B))
<1>1. Tail(s) \in Seq(S) /\ Len(Tail(s)) = Len(s) - 1 /\ Len(s) \in Nat \ {0} /\ Head(s) = s[1] /\ Head(s) \in S
  OBVIOUS
<1>2. \A i \in 1..Len(s) - 1 : Tail(s)[i] = s[i + 1] OBVIOUS
<1>3. DOMAIN s = 1..Len(s) /\ DOMAIN Tail(s) = 1..Len(s) - 1 BY <1>1
<1>4. Free(s, B) <=> Free(Tail(s), B) /\ Head(s) \notin B
  <2>1. Free(s, B) => Free(Tail(s), B) /\ Head(s) \notin B BY <1>1, <1>2, <1>3 DEF Free
  <2>2. ASSUME Free(Tail(s), B), Head(s) \notin B, NEW i \in 1..Len(s) PROVE s[i] \notin B
    <3>1. CASE i = 1 BY <1>1, <2>2, <3>1
    <3>2. CASE i # 1
      <4>1. i - 1 \in 1..Len(s) - 1 /\ Tail(s)[i - 1] = s[i] BY <1>1, <1>2, <3>2
      <4>2. QED BY <1>3, <2>2, <4>1 DEF Free
    <3>3. QED BY <3>1, <3>2
  <2>3. QED BY <1>3, <2>1, <2>2 DEF Free
<1>5. ASSUME Before(s, A, B) PROVE Before(Tail(s), A, B) /\ (Head(s) \in A => Free(Tail(s), B))
  <2>1. \A i \in 1..Len(s) - 1 : i + 1 \in DOMAIN s /\ Tail(s)[i] = s[i + 1] /\ 1 < i + 1
    BY <1>1, <1>2, <1>3
  <2>2. 1 \in DOMAIN s BY <1>1, <1>3
  <2>3. Head(s) \in A => Free(Tail(s), B) BY <1>1, <1>3, <1>5, <2>1, <2>2 DEF Free, Before
  <2>4. Before(Tail(s), A, B) BY <1>1, <1>3, <1>5, <2>1 DEF Before
  <2>5. QED BY <2>3, <2>4
<1>6. QED BY <1>1, <1>4, <1>5

LEMMA TailFree ==
  ASSUME NEW S, NEW s \in Seq(S), s # <<>>, NEW B
  PROVE  Free(s, B) <=> Free(Tail(s), B) /\ Head(s) \notin B
  BY TailOrder

-----------------------------------------------------------------------------
(* The tables of a sequence of lines. *)

TablesIn(s) == {i \in DOMAIN s : IsTable(s[i])}
TableCount(s) == Cardinality(TablesIn(s))

LEMMA NoTables == TableCount(<<>>) = 0
  BY FS_EmptySet DEF TableCount, TablesIn

LEMMA CountType ==
  ASSUME NEW S, NEW s \in Seq(S)
  PROVE  IsFiniteSet(TablesIn(s)) /\ TableCount(s) \in Nat
<1>1. IsFiniteSet(1..Len(s)) BY FS_Interval
<1>2. TablesIn(s) \subseteq 1..Len(s) BY DEF TablesIn
<1>3. QED BY <1>1, <1>2, FS_Subset, FS_CardinalityType DEF TableCount

LEMMA CountAppend ==
  ASSUME NEW S, NEW s \in Seq(S), NEW e \in S
  PROVE  TableCount(Append(s, e)) = TableCount(s) + IF IsTable(e) THEN 1 ELSE 0
<1>1. Append(s, e) \in Seq(S) /\ Len(Append(s, e)) = Len(s) + 1 /\ Len(s) \in Nat OBVIOUS
<1>2. \A i \in 1..Len(s) : Append(s, e)[i] = s[i] OBVIOUS
<1>3. Append(s, e)[Len(s) + 1] = e OBVIOUS
<1>4. DOMAIN s = 1..Len(s) /\ DOMAIN Append(s, e) = 1..Len(s) + 1 BY <1>1
<1>5. Len(s) + 1 \notin TablesIn(s) BY <1>1, <1>4 DEF TablesIn
<1>6. TablesIn(Append(s, e)) = TablesIn(s) \cup (IF IsTable(e) THEN {Len(s) + 1} ELSE {})
  BY <1>1, <1>2, <1>3, <1>4 DEF TablesIn
<1>7. IsFiniteSet(TablesIn(s)) /\ TableCount(s) \in Nat BY CountType
<1>8. CASE IsTable(e)
  <2>1. TablesIn(Append(s, e)) = TablesIn(s) \cup {Len(s) + 1} BY <1>6, <1>8
  <2>2. QED BY <1>5, <1>7, <1>8, <2>1, FS_AddElement DEF TableCount
<1>9. CASE ~IsTable(e)
  <2>1. TablesIn(Append(s, e)) = TablesIn(s) BY <1>6, <1>9
  <2>2. QED BY <1>7, <1>9, <2>1 DEF TableCount
<1>10. QED BY <1>8, <1>9

LEMMA CountTail ==
  ASSUME NEW S, NEW s \in Seq(S), s # <<>>
  PROVE  TableCount(s) = TableCount(Tail(s)) + IF IsTable(Head(s)) THEN 1 ELSE 0
<1>1. Tail(s) \in Seq(S) /\ Len(Tail(s)) = Len(s) - 1 /\ Len(s) \in Nat \ {0} /\ Head(s) = s[1]
  OBVIOUS
<1>2. \A i \in 1..Len(s) - 1 : Tail(s)[i] = s[i + 1] OBVIOUS
<1>3. DOMAIN s = 1..Len(s) /\ DOMAIN Tail(s) = 1..Len(s) - 1 BY <1>1
<1> DEFINE rest == TablesIn(s) \ {1}
           shift == [i \in TablesIn(Tail(s)) |-> i + 1]
<1>4. IsFiniteSet(TablesIn(s)) /\ IsFiniteSet(TablesIn(Tail(s)))
      /\ TableCount(s) \in Nat /\ TableCount(Tail(s)) \in Nat
  BY <1>1, CountType
<1>5. shift \in Bijection(TablesIn(Tail(s)), rest)
  <2>1. \A i \in TablesIn(Tail(s)) : i \in 1..Len(s) - 1 /\ i + 1 \in rest
    BY <1>1, <1>2, <1>3 DEF TablesIn
  <2>2. \A j \in rest : j \in 2..Len(s) /\ j - 1 \in TablesIn(Tail(s)) /\ shift[j - 1] = j
    <3>1. ASSUME NEW j \in rest PROVE j \in 2..Len(s) /\ j - 1 \in TablesIn(Tail(s))
      <4>1. j \in 2..Len(s) /\ IsTable(s[j]) BY <1>1, <1>3 DEF TablesIn
      <4>2. j - 1 \in 1..Len(s) - 1 /\ Tail(s)[j - 1] = s[j] BY <1>1, <1>2, <4>1
      <4>3. QED BY <1>3, <4>1, <4>2 DEF TablesIn
    <3>2. QED BY <3>1
  <2>3. shift \in [TablesIn(Tail(s)) -> rest] BY <2>1
  <2>4. shift \in Injection(TablesIn(Tail(s)), rest) BY <2>1, <2>3 DEF Injection, IsInjective
  <2>5. shift \in Surjection(TablesIn(Tail(s)), rest) BY <2>2, <2>3 DEF Surjection
  <2>6. QED BY <2>4, <2>5 DEF Bijection
<1>6. IsFiniteSet(rest) BY <1>4, FS_Subset
<1>7. Cardinality(rest) = TableCount(Tail(s))
  BY <1>4, <1>5, FS_Bijection DEF TableCount, ExistsBijection
<1>8. 1 \in TablesIn(s) <=> IsTable(Head(s)) BY <1>1, <1>3 DEF TablesIn
<1>9. CASE IsTable(Head(s))
  <2>1. Cardinality(rest) = TableCount(s) - 1 BY <1>4, <1>8, <1>9, FS_RemoveElement DEF TableCount
  <2>2. QED BY <1>4, <1>7, <1>9, <2>1
<1>10. CASE ~IsTable(Head(s))
  <2>1. rest = TablesIn(s) BY <1>8, <1>10
  <2>2. Cardinality(rest) = TableCount(s) BY <2>1 DEF TableCount
  <2> HIDE DEF rest
  <2>3. QED BY <1>4, <1>7, <1>10, <2>2
<1>11. QED BY <1>9, <1>10

-----------------------------------------------------------------------------
(* The records at some positions. *)

LEMMA FirstIsThere ==
  ASSUME NEW S, S \subseteq Nat, S # {}
  PROVE  \E n \in S : \A m \in S : n <= m
<1> DEFINE R == OpToRel(<, Nat)
<1>1. R = {ss \in Nat \X Nat : ss[1] < ss[2]} BY DEF OpToRel
<1>2. IsWellFoundedOn(R, Nat) BY NatLessThanWellFounded
<1> HIDE DEF R
<1>3. PICK n \in S : \A m \in S : ~(<<m, n>> \in R) BY <1>2, WFMin
<1>4. \A m \in S : m < n => <<m, n>> \in {ss \in Nat \X Nat : ss[1] < ss[2]} OBVIOUS
<1>5. \A m \in S : ~(m < n) BY <1>1, <1>3, <1>4, Zenon
<1>6. QED BY <1>5

\* Going up from 0, the count of the positions passes k at a position of P.
LEMMA NthIsThere ==
  ASSUME NEW n \in Nat, NEW P \in SUBSET (1..n), NEW k \in 1..Cardinality(P)
  PROVE  Nth(P, k) \in P /\ Cardinality({j \in P : j <= Nth(P, k)}) = k
<1> DEFINE upTo(i) == {j \in P : j <= i}
           reached == {i \in 0..n : Cardinality(upTo(i)) >= k}
<1>1. IsFiniteSet(P) /\ Cardinality(P) \in Nat
  <2>1. IsFiniteSet(1..n) BY FS_Interval
  <2>2. IsFiniteSet(P) BY <2>1, FS_Subset
  <2>3. QED BY <2>2, FS_CardinalityType
<1>2. \A i \in 0..n : IsFiniteSet(upTo(i)) /\ Cardinality(upTo(i)) \in Nat
  <2>1. SUFFICES ASSUME NEW i \in 0..n PROVE IsFiniteSet(upTo(i)) /\ Cardinality(upTo(i)) \in Nat OBVIOUS
  <2>2. upTo(i) \subseteq P OBVIOUS
  <2> HIDE DEF upTo
  <2>3. IsFiniteSet(upTo(i)) BY <1>1, <2>2, FS_Subset
  <2>4. QED BY <2>3, FS_CardinalityType
<1>3. upTo(n) = P
  <2>1. \A j \in P : j <= n OBVIOUS
  <2>2. QED BY <2>1
<1>4. upTo(0) = {}
  <2>1. \A j \in P : ~(j <= 0) OBVIOUS
  <2>2. QED BY <2>1
<1>5. Cardinality(upTo(0)) = 0 BY <1>4, FS_EmptySet
<1>6. Cardinality(upTo(n)) = Cardinality(P) BY <1>3
<1>7. ASSUME NEW i \in 1..n
      PROVE  /\ i \in P => upTo(i) = upTo(i - 1) \cup {i} /\ i \notin upTo(i - 1)
             /\ i \notin P => upTo(i) = upTo(i - 1)
  <2>1. \A j \in P : j <= i <=> (j <= i - 1 \/ j = i) BY <1>7
  <2>2. ~(i <= i - 1) BY <1>7
  <2>3. QED BY <2>1, <2>2
<1> HIDE DEF upTo
<1>8. reached \subseteq Nat /\ reached # {} BY <1>1, <1>6
<1>9. PICK i \in reached : \A m \in reached : i <= m BY <1>8, FirstIsThere
<1>10. i \in 0..n /\ Cardinality(upTo(i)) >= k BY <1>9
<1>11. i # 0 BY <1>5, <1>10
<1>12. i \in 1..n /\ i - 1 \in 0..n /\ i - 1 \notin reached BY <1>9, <1>10, <1>11
<1>13. ~(Cardinality(upTo(i - 1)) >= k) BY <1>12
<1>14. Cardinality(upTo(i)) # Cardinality(upTo(i - 1)) BY <1>10, <1>13
<1>15. i \in P BY <1>7, <1>12, <1>14
<1>16. upTo(i) = upTo(i - 1) \cup {i} /\ i \notin upTo(i - 1) BY <1>7, <1>12, <1>15
<1>17. Cardinality(upTo(i)) = Cardinality(upTo(i - 1)) + 1
  BY <1>2, <1>12, <1>16, FS_AddElement
<1>18. Cardinality(upTo(i)) = k BY <1>2, <1>10, <1>12, <1>13, <1>17
<1>19. \E x \in P : Cardinality({j \in P : j <= x}) = k BY <1>15, <1>18 DEF upTo
<1>20. QED BY <1>19 DEF Nth

LEMMA RecordsAreThere ==
  ASSUME NEW S, NEW s \in Seq(S), NEW P \in SUBSET (1..Len(s))
  PROVE  /\ RecordsAt(s, P) \in Seq(S) /\ Len(RecordsAt(s, P)) = Cardinality(P)
         /\ \A k \in 1..Cardinality(P) : RecordsAt(s, P)[k] \in {s[i] : i \in P}
<1>1. Len(s) \in Nat /\ s \in [1..Len(s) -> S] OBVIOUS
<1>2. Cardinality(P) \in Nat
  <2>1. IsFiniteSet(1..Len(s)) BY FS_Interval
  <2>2. QED BY <2>1, FS_Subset, FS_CardinalityType
<1>3. \A k \in 1..Cardinality(P) : Nth(P, k) \in P BY <1>1, NthIsThere
<1>4. RecordsAt(s, P) \in [1..Cardinality(P) -> S] BY <1>1, <1>3 DEF RecordsAt
<1>5. RecordsAt(s, P) \in Seq(S) /\ Len(RecordsAt(s, P)) = Cardinality(P) BY <1>2, <1>4
<1>6. \A k \in 1..Cardinality(P) : RecordsAt(s, P)[k] = s[Nth(P, k)] BY DEF RecordsAt
<1>7. QED BY <1>3, <1>5, <1>6

-----------------------------------------------------------------------------
(* The story of a call: its start comes before its end, its end comes once,  *)
(* and nothing comes after it.                                                *)

EventLines == {l \in Lines : l.kind \in {"start", "sample", "closed"}}
MediaLines == {l \in Lines : l.kind \in {"main", "slides", "stop"}}
Ends == {l \in Lines : l.kind = "closed"}
Marks == {l \in Lines : l.kind \in {"start", "closed"}}
Late == {"CALL_ESTABLISHED", "CALL_CLOSED"}

\* The end of the call of the container has reached the history.
Recorded ==
    \/ Tells(file, container) \/ Counted(container)
    \/ \E r \in requests : r.payload.id # NoCall /\ r.payload.id = container

StoryInv ==
    /\ pipe["Event"] \in Seq(EventLines) /\ pipe["Baresip"] \in Seq(MediaLines)
    /\ Before(sock, {"CALL_CLOSED"}, Late) /\ Before(pipe["Event"], Ends, Marks)
    /\ Free(pipe["Event"], Ends) \/ Free(sock, Late)
    /\ Recorded => Free(sock, Late) /\ Free(pipe["Event"], Marks)
    /\ \A r \in calls : r.id = container => Over

\* Before the end of the call nothing tells of it.
LEMMA OpenIsUntold ==
  ASSUME ReportInv, StoryInv, ~Over
  PROVE  ~Recorded /\ Free(sock, {"CALL_CLOSED"}) /\ Free(pipe["Event"], Ends)
<1>1. /\ sock \in Seq(TrueEvents) /\ pipe["Event"] \in Seq(TrueLines) /\ file \in Seq(TrueLines)
  BY DEF ReportInv, ToldInv, Parsers
<1>2. \A e \in TrueEvents : e # "CALL_CLOSED" BY DEF TrueEvents
<1>3. \A l \in TrueLines : l.kind # "closed" BY DEF TrueLines
<1>4. Free(sock, {"CALL_CLOSED"}) BY <1>1, <1>2 DEF Free
<1>5. Free(pipe["Event"], Ends) BY <1>1, <1>3 DEF Free, Ends
<1>6. ~Tells(file, container) BY <1>1, <1>3 DEF Tells
<1>7. \A r \in requests : r.payload.id # NoCall => r.payload.id # container
  BY DEF ReportInv, RequestInv
<1>8. QED BY <1>4, <1>5, <1>6, <1>7 DEF Recorded, Counted, StoryInv

\* What the steps of the gateway leave of the story.
Story ==
    /\ pipe["Event"] \in Seq(EventLines) /\ pipe["Baresip"] \in Seq(MediaLines)
    /\ Before(sock, {"CALL_CLOSED"}, Late) /\ Before(pipe["Event"], Ends, Marks)
    /\ Free(pipe["Event"], Ends) \/ Free(sock, Late)
    /\ Recorded => Free(sock, Late) /\ Free(pipe["Event"], Marks)

LEMMA LineTyped ==
  ASSUME ContainerInv, alive, NEW kind \in Kinds, NEW at \in 0..MaxReadings + 1
  PROVE  Line(kind, at) \in Lines /\ Line(kind, at).kind = kind
  BY DEF ContainerInv, Line, Lines, Calls

LEMMA PrintsOne ==
  ASSUME pipe \in [Parsers -> Seq(TrueLines)], NEW p \in Parsers, NEW l, Prints(p, <<l>>)
  PROVE  /\ pipe'[p] = Append(pipe[p], l)
         /\ \A q \in Parsers : q # p => pipe'[q] = pipe[q]
  BY AppendIsConcat DEF Prints

LEMMA MediaPrinted ==
  ASSUME ContainerInv, alive, NEW at \in 0..MaxReadings + 1
  PROVE  Tables(at) \in Seq(MediaLines) /\ Line("stop", 0) \in MediaLines
<1> DEFINE a == Line("main", at)
           b == Line("slides", at)
<1>1. a \in MediaLines /\ b \in MediaLines BY LineTyped DEF Kinds, MediaLines
<1>2. 0 \in 0..MaxReadings + 1 BY CallAssumption DEF CallAssumption
<1>3. Line("stop", 0) \in MediaLines BY <1>2, LineTyped DEF Kinds, MediaLines
<1>4. Tables(at) = <<a, b>> \/ Tables(at) = <<a>> BY DEF Tables
<1> HIDE DEF a, b
<1>5. <<a, b>> \in Seq(MediaLines) /\ <<a>> \in Seq(MediaLines) BY <1>1
<1>6. QED BY <1>3, <1>4, <1>5, Zenon

\* What the SIP client prints is no line of the event handler.
LEMMA MediaGrows ==
  ASSUME pipe \in [Parsers -> Seq(TrueLines)], pipe["Baresip"] \in Seq(MediaLines),
         NEW lines \in Seq(MediaLines), Prints("Baresip", lines)
  PROVE  pipe'["Baresip"] \in Seq(MediaLines) /\ pipe'["Event"] = pipe["Event"]
<1>1. pipe["Baresip"] \o lines \in Seq(MediaLines) BY ConcatProperties
<1>2. QED BY <1>1 DEF Prints, Parsers

LEMMA StoryGoesOn ==
  ASSUME ReportInv, StoryInv, GatewaySteps
  PROVE  Story'
<1>0. /\ ContainerInv /\ pipe \in [Parsers -> Seq(TrueLines)] /\ sock \in Seq(TrueEvents)
      /\ "Event" \in Parsers /\ "Baresip" \in Parsers /\ CallSteps /\ ToldInv
      /\ pipe["Event"] \in Seq(EventLines) /\ pipe["Baresip"] \in Seq(MediaLines)
      /\ 0 \in 0..MaxReadings + 1 /\ MaxReadings + 1 \in 0..MaxReadings + 1
  BY CallAssumption DEF ReportInv, ToldInv, Parsers, GatewaySteps, StoryInv, CallAssumption
<1>1. Kept /\ sock' \in Seq(TrueEvents') BY <1>0, CallStepsKeep DEF Kept
<1>2. Recorded' <=> Recorded
  BY <1>1 DEF Kept, GatewaySteps, reportVars, Recorded, Counted, Tells
<1> USE DEF Story
\* An event is sent.
<1>3. ASSUME NEW e \in TrueEvents', sock' = Append(sock, e), pipe'["Event"] = pipe["Event"],
             pipe'["Baresip"] \in Seq(MediaLines), e \in Late => ~Over
      PROVE  Story'
  <2>1. sock \in Seq(TrueEvents') BY <1>0, <1>1, TruthLasts DEF Kept
  <2>2. /\ Free(sock', Late) <=> Free(sock, Late) /\ e \notin Late
        /\ Before(sock, {"CALL_CLOSED"}, Late) /\ (e \in Late => Free(sock, {"CALL_CLOSED"}))
             => Before(sock', {"CALL_CLOSED"}, Late)
    BY <1>3, <2>1, AppendOrder
  <2>3. QED BY <1>2, <1>3, <2>2, OpenIsUntold DEF StoryInv
\* The first event is read, and nothing printed.
<1>4. ASSUME sock # <<>>, sock' = Tail(sock), pipe' = pipe
      PROVE  Story'
  <2>1. /\ Free(sock, Late) => Free(sock', Late)
        /\ Before(sock, {"CALL_CLOSED"}, Late) => Before(sock', {"CALL_CLOSED"}, Late)
    BY <1>0, <1>4, TailOrder
  <2>2. QED BY <1>2, <1>4, <2>1 DEF StoryInv
\* It is an event of the call, and is printed.
<1>5. ASSUME sock # <<>>, Head(sock) \in Late, sock' = Tail(sock), NEW l \in EventLines,
             Prints("Event", <<l>>), l \in Ends => Head(sock) = "CALL_CLOSED"
      PROVE  Story'
  <2>1. /\ ~Free(sock, Late)
        /\ Before(sock', {"CALL_CLOSED"}, Late)
        /\ Head(sock) = "CALL_CLOSED" => Free(sock', Late)
    BY <1>0, <1>5, TailOrder DEF StoryInv
  <2>2. ~Recorded /\ Free(pipe["Event"], Ends) BY <2>1 DEF StoryInv
  <2>3. pipe'["Event"] = Append(pipe["Event"], l) /\ pipe'["Baresip"] = pipe["Baresip"]
    BY <1>0, <1>5, PrintsOne DEF Parsers
  <2>4. /\ pipe'["Event"] \in Seq(EventLines)
        /\ Free(pipe'["Event"], Ends) <=> Free(pipe["Event"], Ends) /\ l \notin Ends
        /\ Before(pipe'["Event"], Ends, Marks)
    BY <1>0, <2>2, <2>3, AppendOrder, AppendFree DEF StoryInv
  <2>5. QED BY <1>0, <1>2, <1>5, <2>1, <2>2, <2>3, <2>4
\* No event is sent or read.
<1>6. ASSUME sock' = sock \/ sock' = <<>>, pipe'["Event"] = pipe["Event"],
             pipe'["Baresip"] \in Seq(MediaLines)
      PROVE  Story'
  BY <1>2, <1>6, EmptyOrder DEF StoryInv
<1>7. pipe' = pipe => pipe'["Event"] = pipe["Event"] /\ pipe'["Baresip"] \in Seq(MediaLines)
  BY <1>0
<1>8. CASE CallComes(FALSE)
  <2>1. sock' = Append(sock, "CALL_INCOMING") /\ pipe' = pipe BY <1>8 DEF CallComes
  <2>2. QED BY <1>3, <1>7, <2>1 DEF TrueEvents, Events, Late
\* The end of the call
<1>9. ASSUME alive, sip \in {"ringing", "up"}, Closing, Over'
      PROVE  Story'
  <2>1. "CALL_CLOSED" \in TrueEvents' BY <1>9 DEF TrueEvents, Events
  <2>2. Tables(MaxReadings + 1) \in Seq(MediaLines) BY <1>0, <1>9, MediaPrinted
  <2>3. pipe'["Event"] = pipe["Event"] /\ pipe'["Baresip"] \in Seq(MediaLines)
    BY <1>0, <1>7, <1>9, <2>2, MediaGrows DEF Closing
  <2>4. QED BY <1>3, <1>9, <2>1, <2>3 DEF Closing, Over
<1>10. CASE PeerHangsUp \/ HangsUp
  <2>1. CASE sip \in {"ringing", "up"}
    <3>1. alive /\ Closing /\ sip' = "closed" /\ container' = container /\ carried' = carried
      BY <1>10, <2>1 DEF PeerHangsUp, HangsUp
    <3>2. Over' BY <1>0, <2>1, <3>1 DEF Over, ContainerInv
    <3>3. QED BY <1>9, <2>1, <3>1, <3>2
  <2>2. CASE sip \notin {"ringing", "up"} BY <1>6, <1>7, <1>10, <2>2 DEF PeerHangsUp, HangsUp
  <2>3. QED BY <2>1, <2>2
<1>11. CASE Quits
  <2>1. alive /\ sip' = "quit" /\ container' = container /\ carried' = carried BY <1>11 DEF Quits
  <2>2. pipe'["Event"] = pipe["Event"] /\ pipe'["Baresip"] \in Seq(MediaLines)
    <3> DEFINE lines == (IF sip = "up" THEN Tables(MaxReadings + 1) ELSE <<>>) \o <<Line("stop", 0)>>
    <3>1. Tables(MaxReadings + 1) \in Seq(MediaLines) /\ <<Line("stop", 0)>> \in Seq(MediaLines)
      BY <1>0, <2>1, MediaPrinted
    <3>2. lines \in Seq(MediaLines) BY <3>1, ConcatProperties, EmptySeq
    <3>3. pipe' = pipe \/ Prints("Baresip", lines) BY <1>11 DEF Quits
    <3> HIDE DEF lines
    <3>4. QED BY <1>0, <1>7, <3>2, <3>3, MediaGrows
  <2>3. CASE sock' = Append(sock, "CALL_CLOSED") /\ sip \in {"ringing", "up"}
    <3>1. Over' BY <1>0, <2>1, <2>3 DEF Over, ContainerInv
    <3>2. "CALL_CLOSED" \in TrueEvents' BY <3>1 DEF TrueEvents, Events
    <3>3. QED BY <1>3, <2>2, <2>3, <3>2 DEF Over
  <2>4. CASE sock' = sock BY <1>6, <2>2, <2>4
  <2>5. QED BY <1>11, <2>3, <2>4 DEF Quits
<1>12. CASE Presents \/ RecordingEnds \/ LoopEnds \/ EndsBrowse \/ Exits \/ Stopped
  BY <1>6, <1>7, <1>12 DEF Presents, RecordingEnds, LoopEnds, EndsBrowse, Exits, Stopped
<1>13. CASE Accepts
  <2>1. CASE sip = "ringing"
    <3>1. sock # <<>> /\ sock' = Append(Tail(sock), "CALL_ESTABLISHED") /\ pipe' = pipe
      BY <1>13, <2>1 DEF Accepts
    <3>2. Tail(sock) \in Seq(TrueEvents) /\ "CALL_ESTABLISHED" \in TrueEvents
      BY <1>0, <3>1, TailOrder DEF TrueEvents, Events
    <3>3. ~Recorded /\ Free(sock, {"CALL_CLOSED"}) /\ Free(pipe["Event"], Ends)
      BY <2>1, OpenIsUntold DEF Over
    <3>4. Free(Tail(sock), {"CALL_CLOSED"}) /\ Before(Tail(sock), {"CALL_CLOSED"}, Late)
      BY <1>0, <3>1, <3>3, TailOrder DEF StoryInv
    <3>5. Before(sock', {"CALL_CLOSED"}, Late) BY <3>1, <3>2, <3>4, AppendOrder
    <3>6. QED BY <1>0, <1>2, <3>1, <3>3, <3>5 DEF StoryInv
  <2>2. CASE sip # "ringing" BY <1>4, <1>13, <2>2 DEF Accepts
  <2>3. QED BY <2>1, <2>2
<1>14. CASE Establishes
  <2>1. Line("start", 0) \in EventLines /\ Line("start", 0) \notin Ends
    BY <1>0, <1>14, LineTyped DEF Kinds, EventLines, Ends, Establishes, Reads
  <2>2. QED BY <1>5, <1>14, <2>1 DEF Establishes, Reads, Late
<1>15. CASE Closes
  <2>1. Line("closed", 0) \in EventLines
    BY <1>0, <1>15, LineTyped DEF Kinds, EventLines, Closes, Reads
  <2>2. QED BY <1>5, <1>15, <2>1 DEF Closes, Reads, Late
<1>16. CASE Asks
  <2>1. alive /\ reading + 1 \in 0..MaxReadings + 1 /\ sock' = sock
    BY <1>0, CallAssumption, <1>16 DEF Asks, ContainerInv, CallAssumption
  <2>2. Tables(reading + 1) \in Seq(MediaLines) BY <1>0, <2>1, MediaPrinted
  <2>3. QED BY <1>0, <1>6, <1>16, <2>1, <2>2, MediaGrows DEF Asks
<1>17. ASSUME NEW b \in BOOLEAN, Answered(b) PROVE Story'
  <2>1. CASE pipe' = pipe BY <1>6, <1>7, <1>17, <2>1 DEF Answered
  <2>2. CASE Prints("Event", <<Line("sample", reading)>>)
    <3>1. reading \in 0..MaxReadings + 1 /\ alive /\ sock' = sock
      BY <1>0, <1>17, CallAssumption DEF Answered, ContainerInv, CallAssumption
    <3>2. /\ Line("sample", reading) \in EventLines /\ Line("sample", reading) \notin Ends
          /\ Line("sample", reading) \notin Marks
      BY <1>0, <3>1, LineTyped DEF Kinds, EventLines, Ends, Marks
    <3>3. pipe'["Event"] = Append(pipe["Event"], Line("sample", reading))
          /\ pipe'["Baresip"] = pipe["Baresip"]
      BY <1>0, <2>2, PrintsOne DEF Parsers
    <3>4. /\ pipe'["Event"] \in Seq(EventLines)
          /\ Free(pipe'["Event"], Ends) <=> Free(pipe["Event"], Ends)
          /\ Free(pipe'["Event"], Marks) <=> Free(pipe["Event"], Marks)
          /\ Before(pipe'["Event"], Ends, Marks)
      BY <1>0, <3>2, <3>3, AppendOrder, AppendFree DEF StoryInv
    <3>5. QED BY <1>0, <1>2, <3>1, <3>3, <3>4 DEF StoryInv
  <2>3. QED BY <1>17, <2>1, <2>2 DEF Answered
<1>18. QED
  BY <1>0, <1>8, <1>10, <1>11, <1>12, <1>13, <1>14, <1>15, <1>16, <1>17 DEF CallSteps

-----------------------------------------------------------------------------
(* What the requests, the rows and the history say of a call agrees. *)

StartOf(row) == IF row.established THEN row.start ELSE NoCall

\* v is told for the start of call c.
SaysStart(c, v) ==
    \/ \E r \in requests : r.payload.id = c /\ r.payload.start = v
    \/ \E r \in calls : r.id = c /\ StartOf(r) = v
    \/ Tells(file, c) /\ Payload(file).start = v

OwnPayload(payload) ==
    /\ payload.start \in {NoCall, payload.id}
    /\ payload.video \in Seq(Lines)
    /\ \A i \in DOMAIN payload.video : payload.video[i].call = payload.id

OwnRow(row) ==
    /\ row.established \in BOOLEAN
    /\ row.established => row.start = row.id
    /\ \A i \in DOMAIN row.video : row.video[i].call = row.id

BooksInv ==
    /\ StoryInv
    /\ \A c, u, v : c # NoCall /\ SaysStart(c, u) /\ SaysStart(c, v) => u = v
    /\ \A r \in requests : r.payload.id # NoCall => OwnPayload(r.payload)
    /\ \A r \in calls : OwnRow(r)
    /\ \A r, s \in calls : r.id = s.id => r = s

LEMMA PositionsThere ==
  ASSUME NEW S, NEW s \in Seq(S), NEW kind
  PROVE  Positions(s, kind) \in SUBSET (1..Len(s)) /\ \A i \in Positions(s, kind) : s[i].kind = kind
  BY DEF Positions

LEMMA MinIsThere ==
  ASSUME NEW S, S \subseteq Nat, S # {}
  PROVE  Min(S) \in S
<1>1. \E n \in S : \A m \in S : n <= m BY FirstIsThere
<1>2. QED BY <1>1 DEF Min

\* The history of a container makes a payload of its own.
LEMMA PayloadIsOwn ==
  ASSUME ToldInv, Payload(file).id # NoCall
  PROVE  OwnPayload(Payload(file)) /\ Tells(file, Payload(file).id)
<1>1. file \in Seq(TrueLines) /\ Len(file) \in Nat /\ file \in [1..Len(file) -> TrueLines] BY DEF ToldInv
<1>2. Payload(file).id = container BY PayloadIsTrue
<1> DEFINE starts == Positions(file, "start")
           ends == Positions(file, "closed")
<1>3. /\ Payload(file).id = IF ends = {} THEN NoCall ELSE file[Max(ends)].call
      /\ Payload(file).start = IF starts = {} THEN NoCall ELSE file[Min(starts)].call
      /\ Payload(file).video = VideoStreams(file)
  BY DEF Payload
<1>4. /\ starts \in SUBSET (1..Len(file)) /\ ends \in SUBSET (1..Len(file))
      /\ \A i \in ends : file[i].kind = "closed"
  BY <1>1, PositionsThere
<1> HIDE DEF starts, ends
<1>5. Tells(file, container)
  <2>1. ends # {} BY <1>2, <1>3
  <2>2. Max(ends) \in ends BY <1>1, <1>4, <2>1, MaxIsThere
  <2>3. file[Max(ends)].kind = "closed" /\ file[Max(ends)].call = container BY <1>2, <1>3, <1>4, <2>1, <2>2
  <2>4. QED BY <1>1, <1>4, <2>2, <2>3 DEF Tells
<1>6. Payload(file).start \in {NoCall, container}
  <2>1. ASSUME starts # {} PROVE file[Min(starts)].call = container
    <3>1. starts \subseteq Nat BY <1>4
    <3>2. Min(starts) \in 1..Len(file) BY <1>4, <2>1, <3>1, MinIsThere
    <3>3. file[Min(starts)] \in TrueLines BY <1>1, <3>2
    <3>4. QED BY <3>3 DEF TrueLines
  <2>2. QED BY <1>3, <2>1
<1>7. /\ VideoStreams(file) \in Seq(TrueLines)
  <2> DEFINE P == {i \in DOMAIN file : IsTable(file[i]) /\ \A j \in Forgetting(file) : i > j}
  <2>1. P \in SUBSET (1..Len(file)) BY <1>1
  <2>2. VideoStreams(file) = RecordsAt(file, P) BY DEF VideoStreams
  <2> HIDE DEF P
  <2>3. QED BY <1>1, <2>1, <2>2, RecordsAreThere
<1>8. \A i \in DOMAIN VideoStreams(file) : VideoStreams(file)[i].call = container
  BY <1>7 DEF TrueLines
<1>9. VideoStreams(file) \in Seq(Lines)
  <2>1. TrueLines \subseteq Lines BY DEF TrueLines
  <2>2. QED BY <1>7, <2>1, SequencesGrow
<1>10. QED BY <1>2, <1>3, <1>5, <1>6, <1>8, <1>9 DEF OwnPayload

\* A line that is no start does not change the start.
LEMMA StartStays ==
  ASSUME file \in Seq(TrueLines), NEW l \in TrueLines, l.kind # "start"
  PROVE  Payload(Append(file, l)).start = Payload(file).start
<1>1. Len(file) \in Nat /\ Append(file, l) \in Seq(TrueLines) /\ Len(Append(file, l)) = Len(file) + 1
      /\ DOMAIN file = 1..Len(file) /\ DOMAIN Append(file, l) = 1..Len(file) + 1
  OBVIOUS
<1>2. (\A i \in 1..Len(file) : Append(file, l)[i] = file[i]) /\ Append(file, l)[Len(file) + 1] = l OBVIOUS
<1> DEFINE starts == Positions(file, "start")
<1>3. Positions(Append(file, l), "start") = starts BY <1>1, <1>2 DEF Positions
<1>4. starts \subseteq 1..Len(file) BY <1>1 DEF Positions
<1> HIDE DEF starts
<1>5. starts # {} => Append(file, l)[Min(starts)] = file[Min(starts)]
  <2>1. starts \subseteq Nat BY <1>1, <1>4
  <2>2. starts # {} => Min(starts) \in 1..Len(file) BY <1>4, <2>1, MinIsThere
  <2>3. QED BY <1>2, <2>2
<1>6. Payload(file).start = IF starts = {} THEN NoCall ELSE file[Min(starts)].call
  BY DEF Payload, starts
<1>7. Payload(Append(file, l)).start = IF starts = {} THEN NoCall ELSE Append(file, l)[Min(starts)].call
  BY <1>3 DEF Payload
<1>8. QED BY <1>5, <1>6, <1>7

LEMMA TellsAppend ==
  ASSUME file \in Seq(TrueLines), NEW l \in TrueLines, NEW c
  PROVE  Tells(Append(file, l), c) <=> Tells(file, c) \/ (l.kind = "closed" /\ l.call = c)
<1>1. Len(file) \in Nat /\ Append(file, l) \in Seq(TrueLines) /\ Len(Append(file, l)) = Len(file) + 1
      /\ DOMAIN file = 1..Len(file) /\ DOMAIN Append(file, l) = 1..Len(file) + 1
  OBVIOUS
<1>2. (\A i \in 1..Len(file) : Append(file, l)[i] = file[i]) /\ Append(file, l)[Len(file) + 1] = l OBVIOUS
<1>3. \A i \in 1..Len(file) + 1 : i \in 1..Len(file) \/ i = Len(file) + 1 BY <1>1
<1>4. 1..Len(file) \subseteq 1..Len(file) + 1 /\ Len(file) + 1 \in 1..Len(file) + 1 BY <1>1
<1>5. QED BY <1>1, <1>2, <1>3, <1>4 DEF Tells

\* A row of one's own
LEMMA RowIsOwn ==
  ASSUME NEW payload, OwnPayload(payload), payload.id # NoCall
  PROVE  /\ OwnRow(RowFor(payload)) /\ RowFor(payload).id = payload.id
         /\ StartOf(RowFor(payload)) = payload.start
         /\ RowFor(payload).established <=> payload.start # NoCall
<1>1. /\ RowFor(payload).id = payload.id
      /\ RowFor(payload).established = (payload.start # NoCall)
      /\ payload.start # NoCall => RowFor(payload).start = payload.start
      /\ RowFor(payload).video = VideoEntries(payload.video, payload.samples)
  BY DEF RowFor
<1> DEFINE video == payload.video
           kept == VideoEntries(payload.video, payload.samples)
<1>2. \A i \in DOMAIN kept : kept[i].call = payload.id
  <2>1. CASE ~IsRepeated(video, payload.samples) BY <2>1 DEF VideoEntries, OwnPayload
  <2>2. CASE IsRepeated(video, payload.samples)
    <3>1. video \in Seq(Lines) /\ Len(video) \in Nat /\ Len(video) >= 4
          /\ kept = SubSeq(video, Len(video) - 1, Len(video))
      BY <2>2 DEF IsRepeated, OwnPayload, VideoEntries
    <3>2. DOMAIN kept = 1..2 /\ kept[1] = video[Len(video) - 1] /\ kept[2] = video[Len(video)]
      BY <3>1
    <3>3. Len(video) - 1 \in DOMAIN video /\ Len(video) \in DOMAIN video BY <3>1
    <3>4. QED BY <3>2, <3>3 DEF OwnPayload
  <2>3. QED BY <2>1, <2>2
<1>3. QED BY <1>1, <1>2 DEF OwnRow, OwnPayload, StartOf

-----------------------------------------------------------------------------
(* Every step keeps the books. *)

\* When nothing is told but what was told before.
LEMMA BooksStay ==
  ASSUME BooksInv, StoryInv', requests' \subseteq requests, calls' = calls,
         file' = file \/ file' = <<>>
  PROVE  BooksInv'
<1>1. ~Tells(<<>>, NoCall) /\ \A c : ~Tells(<<>>, c) BY DEF Tells
<1>2. \A c, v : SaysStart(c, v)' => SaysStart(c, v) BY <1>1 DEF SaysStart
<1>3. QED BY <1>2 DEF BooksInv

LEMMA StartKeepsBooks ==
  ASSUME ReportInv, BooksInv, ReportStarts
  PROVE  BooksInv'
<1>1. /\ ~alive /\ container' = container + 1 /\ container \in Nat /\ carried \subseteq 1..container
      /\ sock' = sock /\ pipe' = pipe /\ file' = <<>> /\ requests = {} /\ requests' = {} /\ calls' = calls
  BY DEF ReportStarts, ContainerStarts, ReportInv, ContainerInv
<1>2. sock = <<>> /\ pipe["Event"] = <<>> /\ pipe["Baresip"] = <<>>
  BY <1>1 DEF ReportInv, ToldInv, Parsers
<1>3. \A r \in calls : r.id # container' BY <1>1 DEF ReportInv
<1>4. StoryInv'
  BY <1>1, <1>2, <1>3, EmptyOrder, EmptySeq DEF StoryInv
<1>5. QED BY <1>1, <1>4, BooksStay

LEMMA DeathKeepsBooks ==
  ASSUME ReportInv, BooksInv, ParsersDie
  PROVE  BooksInv'
<1>1. /\ container' = container /\ sip' = "quit" /\ sock' = <<>> /\ carried' = carried
      /\ pipe' = [p \in Parsers |-> <<>>] /\ file' = file /\ requests' = requests /\ calls' = calls
  BY DEF ParsersDie, ContainerEnds, Killed, Dies
<1>2. pipe'["Event"] = <<>> /\ pipe'["Baresip"] = <<>> BY <1>1 DEF Parsers
<1>3. Over => Over' BY <1>1 DEF Over
<1>4. StoryInv'
  BY <1>1, <1>2, <1>3, EmptyOrder, EmptySeq DEF BooksInv, StoryInv
<1>5. QED BY <1>1, <1>4, BooksStay

LEMMA GatewayKeepsBooks ==
  ASSUME ReportInv, BooksInv, GatewaySteps
  PROVE  BooksInv'
<1>1. Story' BY StoryGoesOn DEF BooksInv
<1>2. container' = container /\ (Over => Over') BY CallStepsKeep DEF Kept, GatewaySteps, ReportInv
<1>3. UNCHANGED reportVars BY DEF GatewaySteps
<1>4. StoryInv' BY <1>1, <1>2, <1>3 DEF Story, StoryInv, BooksInv, reportVars
<1>5. QED BY <1>3, <1>4, BooksStay DEF reportVars

\* The story is the same when the gateway does nothing and nothing is recorded.
LEMMA StoryStays ==
  ASSUME StoryInv, UNCHANGED <<container, sip, carried, sock, pipe>>, Recorded' => Recorded,
         \A r \in calls' : r.id = container => Over
  PROVE  StoryInv'
  BY DEF StoryInv, Over

\* A line that is not the end of the call
LEMMA AppendKeepsBooks ==
  ASSUME BooksInv, StoryInv', file \in Seq(TrueLines), NEW l \in TrueLines, file' = Append(file, l),
         l.kind # "closed", l.kind = "start" => ~Recorded, requests' = requests, calls' = calls
  PROVE  BooksInv'
<1>1. \A c : Tells(file', c) <=> Tells(file, c) BY TellsAppend
<1>2. \A c : Tells(file, c) => c = container /\ Recorded
  <2>1. SUFFICES ASSUME NEW c, Tells(file, c) PROVE c = container /\ Recorded OBVIOUS
  <2>2. PICK i \in DOMAIN file : file[i].call = c BY <2>1 DEF Tells
  <2>3. file[i] \in TrueLines BY <2>2
  <2>4. QED BY <2>1, <2>2, <2>3 DEF TrueLines, Recorded
<1>3. \A c : Tells(file, c) => Payload(file').start = Payload(file).start BY <1>2, StartStays
<1>4. \A c, v : SaysStart(c, v)' => SaysStart(c, v) BY <1>1, <1>3 DEF SaysStart
<1>5. QED BY <1>4 DEF BooksInv

\* The end of the call is the first thing told of it.
LEMMA EndKeepsBooks ==
  ASSUME BooksInv, StoryInv', file \in Seq(TrueLines), NEW l \in TrueLines, file' = Append(file, l),
         ~Recorded, requests' = requests, calls' = calls, container # NoCall
  PROVE  BooksInv'
<1>1. \A c : Tells(file', c) => Tells(file, c) \/ c = container BY TellsAppend DEF TrueLines
<1>2. \A c : ~Tells(file, c)
  <2>1. SUFFICES ASSUME NEW c, Tells(file, c) PROVE FALSE OBVIOUS
  <2>2. PICK i \in DOMAIN file : file[i].call = c BY <2>1 DEF Tells
  <2>3. file[i] \in TrueLines BY <2>2
  <2>4. QED BY <2>1, <2>2, <2>3 DEF TrueLines, Recorded
<1>3. \A v : ~SaysStart(container, v) BY <1>2 DEF SaysStart, Recorded, Counted
<1>4. \A c, v : SaysStart(c, v)' => \/ SaysStart(c, v)
                                    \/ c = container /\ v = Payload(file').start
  BY <1>1, <1>2 DEF SaysStart
<1>5. ASSUME NEW c, c # NoCall, NEW u, NEW v, SaysStart(c, u)', SaysStart(c, v)' PROVE u = v
  <2>1. CASE c = container BY <1>3, <1>4, <1>5, <2>1
  <2>2. CASE c # container BY <1>4, <1>5, <2>2 DEF BooksInv
  <2>3. QED BY <2>1, <2>2
<1>6. QED BY <1>5 DEF BooksInv

LEMMA ParserKeepsBooks ==
  ASSUME ReportInv, BooksInv, NEW p \in Parsers,
         Parses(p) \/ ParsesEnd(p) \/ DatesEnd(p) \/ Pushes(p) \/ PushTimesOut(p) \/ PushEnds(p)
  PROVE  BooksInv'
<1>0. /\ pipe \in [Parsers -> Seq(TrueLines)] /\ file \in Seq(TrueLines) /\ StoryInv /\ ToldInv
      /\ push \in [Parsers -> PushStates] /\ container \in Nat
  BY DEF ReportInv, ToldInv, PushInv, BooksInv, ContainerInv
<1>1. /\ container' = container /\ alive' = alive /\ alive /\ sip' = sip /\ carried' = carried
      /\ sock' = sock /\ calls' = calls
  BY DEF Parses, ParsesEnd, DatesEnd, Pushes, PushTimesOut, PushEnds, gatewayVars
<1>2. container # NoCall /\ (Over <=> Over') BY <1>1 DEF ReportInv, ContainerInv, Calls, NoCall, Over
<1>3. \A r \in calls' : r.id = container => Over BY <1>1 DEF BooksInv, StoryInv
<1>4. CASE Parses(p) \/ ParsesEnd(p)
  <2>1. /\ pipe[p] # <<>> /\ pipe' = [pipe EXCEPT ![p] = Tail(pipe[p])] /\ requests' = requests
        /\ file' = file \/ file' = Append(file, Head(pipe[p]))
    BY <1>4 DEF Parses, ParsesEnd
  <2> DEFINE l == Head(pipe[p])
  <2>2. l \in TrueLines BY <1>0, <2>1, HeadTailProperties
  <2>3. /\ pipe'["Event"] \in Seq(EventLines) /\ pipe'["Baresip"] \in Seq(MediaLines)
        /\ p = "Event" => pipe'["Event"] = Tail(pipe["Event"])
        /\ p = "Baresip" => pipe'["Event"] = pipe["Event"] /\ l \in MediaLines
    <3>1. p = "Event" => Tail(pipe["Event"]) \in Seq(EventLines)
      BY <1>0, <2>1, HeadTailProperties DEF StoryInv
    <3>2. p = "Baresip" => Tail(pipe["Baresip"]) \in Seq(MediaLines) /\ l \in MediaLines
      BY <1>0, <2>1, HeadTailProperties DEF StoryInv
    <3>3. QED BY <1>0, <2>1, <3>1, <3>2 DEF StoryInv, Parsers
  <2>4. /\ Free(pipe["Event"], Ends) => Free(pipe'["Event"], Ends)
        /\ Free(pipe["Event"], Marks) => Free(pipe'["Event"], Marks)
        /\ Before(pipe'["Event"], Ends, Marks)
        /\ p = "Event" /\ l \in Ends => Free(pipe'["Event"], Marks) /\ ~Free(pipe["Event"], Ends)
        /\ p = "Event" /\ l \in Marks => ~Free(pipe["Event"], Marks)
    <3>1. CASE p = "Event"
      <4> DEFINE s == pipe["Event"]
      <4>1. s \in Seq(EventLines) /\ s # <<>> /\ pipe'["Event"] = Tail(s) /\ l = Head(s)
            /\ Before(s, Ends, Marks)
        BY <1>0, <2>1, <2>3, <3>1 DEF StoryInv
      <4> HIDE DEF s, l
      <4>2. /\ Free(s, Ends) <=> Free(Tail(s), Ends) /\ Head(s) \notin Ends
            /\ Before(Tail(s), Ends, Marks) /\ (Head(s) \in Ends => Free(Tail(s), Marks))
        BY <4>1, TailOrder, TailFree
      <4>3. Free(s, Marks) <=> Free(Tail(s), Marks) /\ Head(s) \notin Marks BY <4>1, TailFree
      <4>4. QED BY <4>1, <4>2, <4>3 DEF s
    <3>2. CASE p = "Baresip" BY <1>0, <2>3, <3>2 DEF StoryInv
    <3>3. QED BY <3>1, <3>2 DEF Parsers
  <2>5. l.kind = "closed" => p = "Event" /\ l \in Ends /\ l \in Marks
    BY <2>2, <2>3 DEF MediaLines, Ends, Marks, TrueLines, Parsers
  <2>6. l.kind = "start" => p = "Event" /\ l \in Marks
    BY <2>2, <2>3 DEF MediaLines, Marks, TrueLines, Parsers
  <2>7. l.kind \in {"start", "closed"} => ~Recorded BY <1>0, <2>4, <2>5, <2>6 DEF StoryInv
  <2> HIDE DEF l
  <2>8. CASE file' = Append(file, l) /\ l.kind = "closed"
    <3>1. Free(sock, Late) /\ Free(pipe'["Event"], Marks) BY <1>0, <2>4, <2>5, <2>8 DEF StoryInv
    <3>2. StoryInv' BY <1>0, <1>1, <1>2, <1>3, <2>3, <2>4, <3>1 DEF StoryInv
    <3>3. QED BY <1>0, <1>1, <1>2, <2>1, <2>2, <2>7, <2>8, <3>2, EndKeepsBooks
  <2>9. CASE file' = file \/ (file' = Append(file, l) /\ l.kind # "closed")
    <3>1. Recorded' => Recorded
      BY <1>0, <1>1, <2>1, <2>2, <2>9, TellsAppend DEF Recorded, Counted
    <3>2. StoryInv' BY <1>0, <1>1, <1>2, <1>3, <2>3, <2>4, <3>1 DEF StoryInv
    <3>3. CASE file' = file BY <1>1, <2>1, <3>2, <3>3, BooksStay
    <3>4. CASE file' = Append(file, l) /\ l.kind # "closed"
      BY <1>0, <1>1, <2>1, <2>2, <2>7, <3>2, <3>4, AppendKeepsBooks
    <3>5. QED BY <2>9, <3>3, <3>4
  <2>10. QED BY <2>1, <2>8, <2>9 DEF l
<1>5. CASE DatesEnd(p)
  <2>1. file' = Append(file, Line("end", 0)) /\ requests' = requests /\ pipe' = pipe
    BY <1>5 DEF DatesEnd, gatewayVars
  <2>2. Line("end", 0) \in TrueLines /\ Line("end", 0).kind = "end"
    BY <1>1, LineIsTrue, CallAssumption DEF Kinds, ReportInv, CallAssumption, Line
  <2>3. Recorded' => Recorded BY <1>0, <1>1, <2>1, <2>2, TellsAppend DEF Recorded, Counted
  <2>4. StoryInv' BY <1>0, <1>1, <1>3, <2>1, <2>3, StoryStays
  <2>5. QED BY <1>0, <1>1, <2>1, <2>2, <2>4, AppendKeepsBooks
<1>6. CASE Pushes(p)
  <2>1. file' = file /\ pipe' = pipe BY <1>6 DEF Pushes, gatewayVars
  <2>2. CASE requests' = requests
    <3>1. Recorded' => Recorded BY <1>1, <2>1, <2>2 DEF Recorded, Counted
    <3>2. QED BY <1>0, <1>1, <1>3, <2>1, <2>2, <3>1, StoryStays, BooksStay
  <2>3. CASE requests' # requests
    <3> DEFINE new == [from |-> p, container |-> container, payload |-> Payload(file)]
    <3>1. requests' = requests \cup {new} BY <1>6, <2>3 DEF Pushes
    <3>2. new.payload = Payload(file) OBVIOUS
    <3> HIDE DEF new
    <3>3. Payload(file).id # NoCall => OwnPayload(Payload(file)) /\ Tells(file, Payload(file).id)
      BY <1>0, PayloadIsOwn
    <3>4. Recorded' => Recorded BY <1>1, <2>1, <3>1, <3>2, <3>3 DEF Recorded, Counted
    <3>5. StoryInv' BY <1>0, <1>1, <1>3, <2>1, <3>4, StoryStays
    <3>6. \A c, v : c # NoCall /\ SaysStart(c, v)' => SaysStart(c, v)
      BY <1>1, <2>1, <3>1, <3>2, <3>3 DEF SaysStart
    <3>7. \A r \in requests' : r.payload.id # NoCall => OwnPayload(r.payload)
      BY <3>1, <3>2, <3>3 DEF BooksInv
    <3>8. QED BY <1>1, <3>5, <3>6, <3>7 DEF BooksInv
  <2>4. QED BY <2>2, <2>3
<1>7. CASE PushTimesOut(p) \/ PushEnds(p)
  <2>1. (file' = file \/ file' = <<>>) /\ requests' = requests /\ pipe' = pipe
    BY <1>7 DEF PushTimesOut, PushEnds, gatewayVars
  <2>2. Recorded' => Recorded BY <1>1, <2>1 DEF Recorded, Counted, Tells
  <2>3. StoryInv' BY <1>0, <1>1, <1>3, <2>1, <2>2, StoryStays
  <2>4. QED BY <1>1, <2>1, <2>3, BooksStay
<1>8. QED BY <1>4, <1>5, <1>6, <1>7

\* A push whose call is counted already tells the same start, and is one conflict
\* or the other.
LEMMA CountedConflicts ==
  ASSUME ReportInv, BooksInv, NEW r \in requests, r.payload.id # NoCall,
         NEW s \in calls, s.id = r.payload.id
  PROVE  Conflicts(RowFor(r.payload))
<1> DEFINE row == RowFor(r.payload)
<1>1. /\ OwnRow(row) /\ row.id = r.payload.id /\ StartOf(row) = r.payload.start
      /\ row.established <=> r.payload.start # NoCall
  BY RowIsOwn DEF BooksInv
<1>2. s.id # NoCall OBVIOUS
<1>3. SaysStart(s.id, r.payload.start) /\ SaysStart(s.id, StartOf(s)) BY DEF SaysStart
<1>4. StartOf(s) = StartOf(row) BY <1>1, <1>2, <1>3 DEF BooksInv
<1>5. OwnRow(s) BY DEF BooksInv
<1>6. s.start = row.start \/ (~s.established /\ ~row.established)
  BY <1>1, <1>2, <1>4, <1>5 DEF OwnRow, StartOf
<1> HIDE DEF row
<1>7. QED BY <1>1, <1>6 DEF Conflicts, row

LEMMA ManagerKeepsBooks ==
  ASSUME ReportInv, BooksInv, NEW r \in requests, Refused(r) \/ Ingests(r) \/ RequestLost(r)
  PROVE  BooksInv'
<1>1. /\ UNCHANGED gatewayVars /\ file' = file /\ requests' = requests \ {r}
  BY DEF Refused, Ingests, RequestLost
<1>2. UNCHANGED <<container, sip, carried, sock, pipe>> BY <1>1 DEF gatewayVars
<1>3. StoryInv BY DEF BooksInv
<1>4. CASE calls' = calls
  <2>1. Recorded' => Recorded BY <1>1, <1>2, <1>4 DEF Recorded, Counted
  <2>2. StoryInv' BY <1>2, <1>3, <1>4, <2>1, StoryStays DEF StoryInv
  <2>3. QED BY <1>1, <1>4, <2>2, BooksStay
<1>5. CASE calls' # calls
  <2> DEFINE row == RowFor(r.payload)
  <2>1. r.payload.id # NoCall /\ ~Conflicts(row) /\ calls' = calls \cup {row}
    BY <1>5 DEF Refused, Ingests, RequestLost, Stores
  <2>2. /\ OwnRow(row) /\ row.id = r.payload.id /\ StartOf(row) = r.payload.start
    BY <2>1, RowIsOwn DEF BooksInv
  <2>3. \A s \in calls : s.id # row.id BY <2>1, <2>2, CountedConflicts
  <2> HIDE DEF row
  <2>4. Recorded' => Recorded
    BY <1>1, <1>2, <2>1, <2>2 DEF Recorded, Counted
  <2>5. \A s \in calls' : s.id = container => Over
    BY <1>3, <2>1, <2>2 DEF StoryInv, ReportInv, RequestInv
  <2>6. StoryInv' BY <1>2, <1>3, <2>4, <2>5, StoryStays
  <2>7. \A c, v : SaysStart(c, v)' => SaysStart(c, v)
    BY <1>1, <2>1, <2>2 DEF SaysStart
  <2>8. QED BY <1>1, <2>1, <2>2, <2>3, <2>6, <2>7 DEF BooksInv
<1>6. QED BY <1>4, <1>5

LEMMA StepKeepsBooks ==
  ASSUME ReportInv, BooksInv, [Next]_vars
  PROVE  BooksInv'
<1>1. CASE UNCHANGED vars
  <2>1. UNCHANGED gatewayVars /\ UNCHANGED reportVars BY <1>1 DEF vars
  <2>2. UNCHANGED <<container, sip, carried, sock, pipe, file, requests, calls>>
    BY <2>1 DEF gatewayVars, reportVars
  <2>3. (Recorded' => Recorded) /\ \A r \in calls' : r.id = container => Over
    BY <2>2 DEF Recorded, Counted, BooksInv, StoryInv
  <2>4. StoryInv' BY <2>2, <2>3, StoryStays DEF BooksInv
  <2>5. QED BY <2>2, <2>4, BooksStay
<1>2. CASE Next
  BY <1>2, StartKeepsBooks, GatewayKeepsBooks, DeathKeepsBooks, ParserKeepsBooks, ManagerKeepsBooks DEF Next
<1>3. QED BY <1>1, <1>2

LEMMA BooksStart ==
  ASSUME GatewayInit, ReportInit
  PROVE  BooksInv
<1>1. /\ sock = <<>> /\ pipe["Event"] = <<>> /\ pipe["Baresip"] = <<>>
      /\ file = <<>> /\ requests = {} /\ calls = {}
  BY DEF GatewayInit, ReportInit, Parsers
<1>2. ~Recorded /\ \A c, v : ~SaysStart(c, v) BY <1>1 DEF Recorded, Counted, Tells, SaysStart
<1>3. StoryInv BY <1>1, <1>2, EmptyOrder, EmptySeq DEF StoryInv
<1>4. QED BY <1>1, <1>2, <1>3 DEF BooksInv

\* A call is counted once, as it was (router.py: replay guard; logParse.py:
\* buildPayloadFromLines), however the pushes of the two parsers cross.
THEOREM CallsAreCountedOnce == Spec => []CountedOnceAsItWas
<1>1. GatewayInit /\ ReportInit => BooksInv BY BooksStart
<1>2. ReportInv /\ BooksInv /\ [Next]_vars => BooksInv' BY StepKeepsBooks
<1>3. BooksInv => CountedOnceAsItWas BY DEF BooksInv, OwnRow, CountedOnceAsItWas
<1>4. QED BY <1>1, <1>2, <1>3, ToldAsItWas, PTL DEF Spec

-----------------------------------------------------------------------------
(* The values of the variables, and how many tables a call can have: those of *)
(* its readings and the two that are printed as it ends.                      *)

TablesAllowed == 2 * reading + IF sip \in {"closed", "quit"} THEN 2 ELSE 0
Fits(video) == Len(video) <= 2 * MaxReadings + 2

ProcessesOK ==
    /\ app \in Apps /\ container \in 0..MaxContainers
    /\ handler \in HandlerStates /\ browse \in BrowseStates
    /\ orders \subseteq {"/hangup", "/quit"}
    /\ stopped \in BOOLEAN /\ room \in BOOLEAN /\ asked \in BOOLEAN /\ slides \in BOOLEAN

TablesOK == TableCount(file) + TableCount(pipe["Baresip"]) <= TablesAllowed

SizesInv ==
    /\ ProcessesOK /\ TablesOK
    /\ \A r \in requests : r.from \in Parsers /\ r.container \in 1..container /\ Fits(r.payload.video)
    /\ \A r \in calls : Fits(r.video)

LEMMA TablesCounted ==
  ASSUME ContainerInv, alive, NEW s \in Seq(MediaLines), NEW at \in 0..MaxReadings + 1
  PROVE  /\ TableCount(s \o Tables(at)) = TableCount(s) + IF slides THEN 2 ELSE 1
         /\ TableCount(s \o <<Line("stop", 0)>>) = TableCount(s)
         /\ TableCount(s \o (Tables(at) \o <<Line("stop", 0)>>))
              = TableCount(s) + IF slides THEN 2 ELSE 1
         /\ TableCount(s) \in Nat
<1>1. 0 \in 0..MaxReadings + 1 BY CallAssumption DEF CallAssumption
<1> DEFINE m == Line("main", at)
           c == Line("slides", at)
           e == Line("stop", 0)
<1>2. /\ m \in Lines /\ m.kind = "main" /\ c \in Lines /\ c.kind = "slides" /\ e \in Lines /\ e.kind = "stop"
  BY <1>1, LineTyped DEF Kinds
<1>3. m \in MediaLines /\ c \in MediaLines /\ e \in MediaLines BY <1>2 DEF MediaLines
<1>4. IsTable(m) /\ IsTable(c) /\ ~IsTable(e) BY <1>2 DEF IsTable
<1>5. Tables(at) = IF slides THEN <<m, c>> ELSE <<m>> BY DEF Tables
<1> HIDE DEF m, c, e
<1>6. ASSUME NEW l \in MediaLines, NEW t \in Seq(MediaLines)
      PROVE  /\ t \o <<l>> = Append(t, l) /\ Append(t, l) \in Seq(MediaLines) /\ TableCount(t) \in Nat
             /\ TableCount(Append(t, l)) = TableCount(t) + IF IsTable(l) THEN 1 ELSE 0
  BY AppendIsConcat, AppendProperties, CountType, CountAppend
<1> DEFINE s1 == Append(s, m)
           s2 == Append(s1, c)
<1>7. s1 \in Seq(MediaLines) /\ TableCount(s1) = TableCount(s) + 1 /\ s1 = s \o <<m>>
  BY <1>3, <1>4, <1>6
<1>8. s2 = s \o <<m, c>> BY <1>3
<1> HIDE DEF s1
<1>9. s2 \in Seq(MediaLines) /\ TableCount(s2) = TableCount(s1) + 1 BY <1>3, <1>4, <1>6, <1>7
<1> HIDE DEF s2
\* The end of the SIP client is no table.
<1>10. ASSUME NEW t \in Seq(MediaLines) PROVE TableCount(t \o <<e>>) = TableCount(t)
  <2>1. t \o <<e>> = Append(t, e) BY <1>3, <1>6
  <2>2. TableCount(Append(t, e)) = TableCount(t) + 0 /\ TableCount(t) \in Nat BY <1>3, <1>4, <1>6
  <2>3. TableCount(t) + 0 = TableCount(t) BY <2>2
  <2>4. QED BY <2>1, <2>2, <2>3, Zenon
<1>11. <<m, c>> \in Seq(MediaLines) /\ <<m>> \in Seq(MediaLines) /\ <<e>> \in Seq(MediaLines) BY <1>3
<1>12. /\ s2 \o <<e>> = s \o (<<m, c>> \o <<e>>)
       /\ s1 \o <<e>> = s \o (<<m>> \o <<e>>)
  BY <1>7, <1>8, <1>11, ConcatAssociative
<1>13. TableCount(s) \in Nat BY CountType
<1>14. CASE slides
  <2>1. TableCount(s2) = TableCount(s) + 2 BY <1>7, <1>9, <1>13
  <2>2. TableCount(s2 \o <<e>>) = TableCount(s2) BY <1>9, <1>10
  <2>3. Tables(at) = <<m, c>> BY <1>5, <1>14
  <2>4. QED BY <1>8, <1>10, <1>12, <1>13, <1>14, <2>1, <2>2, <2>3 DEF e
<1>15. CASE ~slides
  <2>1. TableCount(s1 \o <<e>>) = TableCount(s1) BY <1>7, <1>10
  <2>2. Tables(at) = <<m>> BY <1>5, <1>15
  <2>3. QED BY <1>7, <1>10, <1>12, <1>13, <1>15, <2>1, <2>2 DEF e
<1>16. QED BY <1>14, <1>15

LEMMA GatewayKeepsProcesses ==
  ASSUME ProcessesOK, CallSteps
  PROVE  ProcessesOK'
<1> USE DEF ProcessesOK, HandlerStates, BrowseStates
<1>1. CASE CallComes(FALSE) \/ Presents \/ PeerHangsUp \/ RecordingEnds
  BY <1>1 DEF CallComes, Presents, PeerHangsUp, RecordingEnds
<1>2. CASE Accepts \/ Establishes \/ Closes \/ Asks BY <1>2 DEF Accepts, Establishes, Closes, Asks
<1>3. CASE LoopEnds \/ Stopped \/ EndsBrowse \/ Exits BY <1>3 DEF LoopEnds, Stopped, EndsBrowse, Exits
<1>4. ASSUME NEW b \in BOOLEAN, Answered(b) PROVE ProcessesOK' BY <1>4 DEF Answered
<1>5. CASE HangsUp \/ Quits BY <1>5 DEF HangsUp, Quits
<1>6. QED BY <1>1, <1>2, <1>3, <1>4, <1>5 DEF CallSteps

LEMMA GatewayKeepsTables ==
  ASSUME ReportInv, BooksInv, TablesOK, CallSteps, file' = file
  PROVE  TablesOK'
<1> DEFINE media == pipe["Baresip"]
           was == TableCount(media)
<1>1. /\ ContainerInv /\ "Baresip" \in Parsers /\ "Event" \in Parsers
      /\ pipe \in [Parsers -> Seq(TrueLines)] /\ media \in Seq(MediaLines)
      /\ file \in Seq(TrueLines) /\ reading \in 0..MaxReadings /\ MaxReadings \in Nat
  BY CallAssumption DEF ReportInv, ContainerInv, ToldInv, Parsers, BooksInv, StoryInv, CallAssumption
<1>2. TableCount(file) \in Nat /\ was \in Nat BY <1>1, CountType
<1>3. TableCount(file') = TableCount(file) OBVIOUS
<1>4. ASSUME NEW n \in 0..2, TableCount(pipe'["Baresip"]) = was + n, TablesAllowed' >= TablesAllowed + n
      PROVE  TablesOK'
  <2>1. TablesAllowed \in Int /\ TablesAllowed' \in Int
    <3>1. reading' \in Nat BY <1>1, CallStepsKeep DEF Kept, ContainerInv, ReportInv
    <3>2. QED BY <1>1, <3>1 DEF TablesAllowed
  <2> HIDE DEF was
  <2>2. TableCount(file) + was <= TablesAllowed BY DEF TablesOK, was
  <2>3. TableCount(file) + (was + n) <= TablesAllowed' BY <1>2, <1>4, <2>1, <2>2
  <2>4. QED BY <1>3, <1>4, <2>3 DEF TablesOK
<1>5. ASSUME pipe'["Baresip"] = media, reading' = reading,
             sip \in {"closed", "quit"} => sip' \in {"closed", "quit"}
      PROVE  TablesOK'
  BY <1>1, <1>2, <1>4, <1>5 DEF TablesAllowed
<1>6. ASSUME alive, NEW at \in 0..MaxReadings + 1, NEW n \in {0, 2}, NEW lines,
             Prints("Baresip", lines),
             TablesAllowed' >= TablesAllowed + n,
             \/ n = 2 /\ lines \in {Tables(at), Tables(at) \o <<Line("stop", 0)>>}
             \/ n = 0 /\ lines = <<Line("stop", 0)>>
      PROVE  TablesOK'
  <2>1. pipe'["Baresip"] = media \o lines BY <1>1, <1>6 DEF Prints
  <2>2. PICK k \in 0..n : TableCount(media \o lines) = was + k
    <3>1. CASE n = 2
      <4> DEFINE k == IF slides THEN 2 ELSE 1
      <4>1. k \in 0..n BY <3>1
      <4>2. CASE lines = Tables(at) BY <1>1, <1>6, <4>1, <4>2, TablesCounted
      <4>3. CASE lines = Tables(at) \o <<Line("stop", 0)>> BY <1>1, <1>6, <4>1, <4>3, TablesCounted
      <4>4. QED BY <1>6, <3>1, <4>2, <4>3
    <3>2. CASE n = 0
      <4>1. TableCount(media \o <<Line("stop", 0)>>) = was BY <1>1, <1>6, TablesCounted
      <4>2. was + 0 = was BY <1>2
      <4>3. lines = <<Line("stop", 0)>> /\ 0 \in 0..n BY <1>6, <3>2
      <4> HIDE DEF was
      <4>4. QED BY <4>1, <4>2, <4>3
    <3>3. QED BY <1>6, <3>1, <3>2
  <2>3. TablesAllowed \in Int /\ TablesAllowed' \in Int
    <3>1. reading' \in Nat BY <1>1, CallStepsKeep DEF Kept, ContainerInv, ReportInv
    <3>2. QED BY <1>1, <3>1 DEF TablesAllowed
  <2>4. k \in 0..2 /\ TablesAllowed' >= TablesAllowed + k BY <1>6, <2>2, <2>3
  <2> HIDE DEF was
  <2>5. QED BY <1>4, <2>1, <2>2, <2>4
<1> HIDE DEF was
<1>7. MaxReadings + 1 \in 0..MaxReadings + 1 BY <1>1
<1>8. CASE CallComes(FALSE) \/ Presents \/ RecordingEnds \/ Accepts \/ LoopEnds \/ Stopped \/ EndsBrowse
             \/ Exits
  BY <1>5, <1>8 DEF CallComes, Presents, RecordingEnds, Accepts, LoopEnds, Stopped, EndsBrowse, Exits
<1>9. ASSUME alive, sip \in {"ringing", "up"}, sip' = "closed", Closing, reading' = reading
      PROVE  TablesOK'
  <2>1. CASE sip = "up"
    <3>1. TablesAllowed' >= TablesAllowed + 2 BY <1>1, <1>9, <2>1 DEF TablesAllowed
    <3>2. QED BY <1>6, <1>7, <1>9, <2>1, <3>1 DEF Closing
  <2>2. CASE sip # "up" BY <1>5, <1>9, <2>2 DEF Closing
  <2>3. QED BY <2>1, <2>2
<1>10. CASE PeerHangsUp \/ HangsUp
  <2>1. CASE sip \in {"ringing", "up"} BY <1>9, <1>10, <2>1 DEF PeerHangsUp, HangsUp
  <2>2. CASE sip \notin {"ringing", "up"} BY <1>5, <1>10, <2>2 DEF PeerHangsUp, HangsUp
  <2>3. QED BY <2>1, <2>2
<1>11. CASE Quits
  <2>1. alive /\ sip # "quit" /\ sip' = "quit" /\ reading' = reading BY <1>11 DEF Quits
  <2>2. CASE pipe' = pipe BY <1>5, <2>1, <2>2
  <2>3. CASE pipe' # pipe /\ sip = "up"
    <3>1. Prints("Baresip", Tables(MaxReadings + 1) \o <<Line("stop", 0)>>) BY <1>11, <2>3 DEF Quits
    <3>2. TablesAllowed' >= TablesAllowed + 2 BY <1>1, <2>1, <2>3 DEF TablesAllowed
    <3>3. QED BY <1>6, <1>7, <2>1, <3>1, <3>2
  <2>4. CASE pipe' # pipe /\ sip # "up"
    <3>1. Prints("Baresip", <<>> \o <<Line("stop", 0)>>) BY <1>11, <2>4 DEF Quits
    <3>2. <<>> \o <<Line("stop", 0)>> = <<Line("stop", 0)>> OBVIOUS
    <3>3. TablesAllowed' >= TablesAllowed + 0 BY <1>1, <2>1, <2>4 DEF TablesAllowed
    <3> DEFINE stop == <<Line("stop", 0)>>
    <3>4. Prints("Baresip", stop) BY <3>1, <3>2
    <3>5. QED BY <1>6, <1>7, <2>1, <3>3, <3>4
  <2>5. QED BY <2>2, <2>3, <2>4
<1>12. CASE Establishes \/ Closes \/ \E b \in BOOLEAN : Answered(b)
  <2>1. sip' = sip /\ reading' = reading BY <1>12 DEF Establishes, Closes, Answered
  <2>2. pipe' = pipe \/ \E l : Prints("Event", <<l>>) BY <1>12 DEF Establishes, Closes, Answered
  <2>3. pipe'["Baresip"] = media BY <1>1, <2>2 DEF Prints, Parsers
  <2>4. QED BY <1>5, <2>1, <2>3
<1>13. CASE Asks
  <2>1. alive /\ sip' = sip /\ reading' = reading + 1 /\ Prints("Baresip", Tables(reading + 1)) BY <1>13 DEF Asks
  <2>2. reading + 1 \in 0..MaxReadings + 1 BY <1>1
  <2>3. TablesAllowed' >= TablesAllowed + 2 BY <1>1, <2>1 DEF TablesAllowed
  <2>4. QED BY <1>6, <2>1, <2>2, <2>3
<1>14. QED BY <1>8, <1>10, <1>11, <1>12, <1>13 DEF CallSteps

\* The streams of a history are among its tables.
LEMMA VideoFits ==
  ASSUME ReportInv, BooksInv, TablesOK
  PROVE  Fits(Payload(file).video)
<1> DEFINE P == {i \in DOMAIN file : IsTable(file[i]) /\ \A j \in Forgetting(file) : i > j}
<1>1. /\ file \in Seq(TrueLines) /\ pipe["Baresip"] \in Seq(MediaLines)
      /\ reading \in 0..MaxReadings /\ MaxReadings \in Nat
  BY CallAssumption DEF ReportInv, ToldInv, ContainerInv, BooksInv, StoryInv, CallAssumption
<1>2. /\ IsFiniteSet(TablesIn(file)) /\ TableCount(file) \in Nat /\ TableCount(pipe["Baresip"]) \in Nat
  BY <1>1, CountType
<1>3. P \subseteq TablesIn(file) BY DEF TablesIn
<1>4. P \in SUBSET (1..Len(file)) BY <1>1
<1>5. Payload(file).video = RecordsAt(file, P) BY DEF Payload, VideoStreams
<1> HIDE DEF P
<1>6. Cardinality(P) \in Nat /\ Cardinality(P) <= TableCount(file)
  BY <1>2, <1>3, FS_Subset, FS_CardinalityType DEF TableCount
<1>7. Len(Payload(file).video) = Cardinality(P) BY <1>1, <1>4, <1>5, RecordsAreThere
<1>8. TablesAllowed \in Int /\ TablesAllowed <= 2 * MaxReadings + 2 BY <1>1 DEF TablesAllowed
<1>9. TableCount(file) <= TablesAllowed
  <2>1. TableCount(file) + TableCount(pipe["Baresip"]) <= TablesAllowed BY DEF TablesOK
  <2>2. QED BY <1>2, <1>8, <2>1
<1>10. QED BY <1>1, <1>2, <1>6, <1>7, <1>8, <1>9 DEF Fits

LEMMA EntriesFit ==
  ASSUME NEW payload, payload.video \in Seq(Lines), Fits(payload.video)
  PROVE  Fits(VideoEntries(payload.video, payload.samples))
<1> DEFINE video == payload.video
<1>1. MaxReadings \in Nat BY CallAssumption DEF CallAssumption
<1>2. CASE ~IsRepeated(video, payload.samples) BY <1>2 DEF VideoEntries
<1>3. CASE IsRepeated(video, payload.samples)
  <2>1. Len(video) \in Nat /\ Len(video) >= 4 BY <1>3 DEF IsRepeated
  <2>2. Len(SubSeq(video, Len(video) - 1, Len(video))) = 2 BY <2>1
  <2>3. QED BY <1>1, <1>3, <2>2 DEF VideoEntries, Fits
<1>4. QED BY <1>2, <1>3

LEMMA GatewayKeepsSizes ==
  ASSUME ReportInv, BooksInv, SizesInv, GatewaySteps
  PROVE  SizesInv'
<1>1. CallSteps /\ UNCHANGED reportVars BY DEF GatewaySteps
<1>2. container' = container BY <1>1, CallStepsKeep DEF ReportInv, Kept
<1>3. ProcessesOK' BY <1>1, GatewayKeepsProcesses DEF SizesInv
<1>4. TablesOK' BY <1>1, GatewayKeepsTables DEF SizesInv, reportVars
<1>5. QED BY <1>1, <1>2, <1>3, <1>4 DEF SizesInv, reportVars, Fits

LEMMA ContainersKeepSizes ==
  ASSUME ReportInv, BooksInv, SizesInv, ReportStarts \/ ParsersDie
  PROVE  SizesInv'
<1>0. /\ reading \in Nat /\ container \in Nat /\ MaxContainers \in Nat
      /\ TableCount(file) \in Nat /\ TableCount(pipe["Baresip"]) \in Nat
  <2>1. file \in Seq(TrueLines) /\ pipe["Baresip"] \in Seq(MediaLines)
    BY DEF ReportInv, ToldInv, BooksInv, StoryInv
  <2>2. QED BY <2>1, CountType, CallAssumption DEF ReportInv, ContainerInv, CallAssumption
<1>1. CASE ReportStarts
  <2>1. /\ ~alive /\ container < MaxContainers /\ container' = container + 1 /\ reading' = reading
        /\ pipe' = pipe /\ file' = <<>> /\ requests = {} /\ requests' = {} /\ calls' = calls
    BY <1>1 DEF ReportStarts, ContainerStarts
  <2>2. pipe'["Baresip"] = <<>> BY <2>1 DEF ReportInv, ToldInv, Parsers
  <2>3. TablesAllowed' \in Nat BY <1>0, <2>1 DEF TablesAllowed
  <2>4. TablesOK' BY <2>1, <2>2, <2>3, NoTables DEF TablesOK
  <2>5. ProcessesOK'
    <3>1. container' \in 0..MaxContainers BY <1>0, <2>1
    <3>2. QED
      BY <1>1, <3>1 DEF ReportStarts, ContainerStarts, SizesInv, ProcessesOK, HandlerStates, BrowseStates
  <2>6. QED BY <2>1, <2>4, <2>5 DEF SizesInv, Fits
<1>2. CASE ParsersDie
  <2>1. /\ container' = container /\ reading' = reading /\ sip' = "quit"
        /\ pipe' = [p \in Parsers |-> <<>>] /\ file' = file /\ requests' = requests /\ calls' = calls
    BY <1>2 DEF ParsersDie, ContainerEnds, Killed, Dies
  <2>2. pipe'["Baresip"] = <<>> BY <2>1 DEF Parsers
  <2>3. TablesAllowed \in Int /\ TablesAllowed' \in Int /\ TablesAllowed <= TablesAllowed'
    BY <1>0, <2>1 DEF TablesAllowed
  <2>4. TableCount(file) + TableCount(pipe["Baresip"]) <= TablesAllowed BY DEF SizesInv, TablesOK
  <2>5. TableCount(file) + 0 <= TablesAllowed' BY <1>0, <2>3, <2>4
  <2>6. TablesOK' BY <2>1, <2>2, <2>5, NoTables DEF TablesOK
  <2>7. ProcessesOK'
    BY <1>2 DEF ParsersDie, ContainerEnds, Killed, Dies, SizesInv, ProcessesOK, HandlerStates, BrowseStates
  <2>8. QED BY <2>1, <2>6, <2>7 DEF SizesInv, Fits
<1>3. QED BY <1>1, <1>2

LEMMA ParserKeepsSizes ==
  ASSUME ReportInv, BooksInv, SizesInv, NEW p \in Parsers,
         Parses(p) \/ ParsesEnd(p) \/ DatesEnd(p) \/ Pushes(p) \/ PushTimesOut(p) \/ PushEnds(p)
  PROVE  SizesInv'
<1> DEFINE media == pipe["Baresip"]
<1>0. /\ file \in Seq(TrueLines) /\ pipe \in [Parsers -> Seq(TrueLines)]
      /\ pipe["Event"] \in Seq(EventLines) /\ media \in Seq(MediaLines)
      /\ reading \in 0..MaxReadings /\ MaxReadings \in Nat /\ container \in Nat
      /\ TableCount(file) + TableCount(media) <= TablesAllowed /\ TablesOK /\ ProcessesOK
  BY CallAssumption
  DEF ReportInv, ToldInv, ContainerInv, BooksInv, StoryInv, SizesInv, TablesOK, CallAssumption
<1>1. TableCount(file) \in Nat /\ TableCount(media) \in Nat BY <1>0, CountType
<1>2. TablesAllowed \in Int BY <1>0 DEF TablesAllowed
<1>3. /\ UNCHANGED <<app, slides, container, alive, sip, orders, handler, stopped, browse, room,
                   reading, asked>>
      /\ alive /\ calls' = calls
  BY DEF Parses, ParsesEnd, DatesEnd, Pushes, PushTimesOut, PushEnds, gatewayVars
<1>4. ProcessesOK' /\ TablesAllowed' = TablesAllowed BY <1>0, <1>3 DEF ProcessesOK, TablesAllowed
<1>5. ASSUME TableCount(file') + TableCount(pipe'["Baresip"]) <= TableCount(file) + TableCount(media)
             \/ (file' = file /\ pipe' = pipe),
             TableCount(file') \in Nat, TableCount(pipe'["Baresip"]) \in Nat
      PROVE  TablesOK'
  BY <1>0, <1>1, <1>2, <1>4, <1>5 DEF TablesOK
<1>6. TablesOK'
  <2>1. CASE Parses(p) \/ ParsesEnd(p)
    <3> DEFINE l == Head(pipe[p])
               one == IF IsTable(l) THEN 1 ELSE 0
    <3>0. one \in {0, 1} /\ (~IsTable(l) => one = 0) OBVIOUS
    <3>1. /\ pipe[p] # <<>> /\ pipe' = [pipe EXCEPT ![p] = Tail(pipe[p])]
          /\ file' = file \/ file' = Append(file, l)
      BY <2>1 DEF Parses, ParsesEnd
    <3>2. l \in TrueLines BY <1>0, <3>1, HeadTailProperties
    <3>3. p = "Event" => ~IsTable(l)
      <4>1. p = "Event" => l \in EventLines BY <1>0, <3>1, HeadTailProperties
      <4>2. QED BY <4>1 DEF EventLines, IsTable
    <3>4. p = "Baresip" => /\ media # <<>> /\ l = Head(media) /\ pipe'["Baresip"] = Tail(media)
                           /\ Tail(media) \in Seq(MediaLines)
      BY <1>0, <3>1, HeadTailProperties
    <3>5. p # "Baresip" => pipe'["Baresip"] = media BY <1>0, <3>1
    <3> HIDE DEF l, media
    <3>6. Append(file, l) \in Seq(TrueLines)
          /\ TableCount(Append(file, l)) = TableCount(file) + one
      BY <1>0, <3>2, CountAppend, AppendProperties
    <3> HIDE DEF one
    <3>7. TableCount(file') \in Nat /\ TableCount(file') <= TableCount(file) + one
      <4>1. TableCount(file') = TableCount(file) \/ TableCount(file') = TableCount(Append(file, l))
        BY <3>1
      <4>2. QED BY <1>1, <3>0, <3>6, <4>1
    <3>8. CASE p = "Baresip"
      <4>1. TableCount(media) = TableCount(Tail(media)) + one /\ TableCount(Tail(media)) \in Nat
        BY <1>0, <3>4, <3>8, CountTail, CountType DEF one
      <4>2. TableCount(file') + TableCount(Tail(media)) <= TableCount(file) + TableCount(media)
        BY <1>1, <3>0, <3>7, <4>1
      <4>3. QED BY <1>5, <3>4, <3>7, <3>8, <4>1, <4>2
    <3>9. CASE p = "Event"
      <4>1. TableCount(file') <= TableCount(file) BY <1>1, <3>0, <3>3, <3>7, <3>9
      <4>2. TableCount(file') + TableCount(media) <= TableCount(file) + TableCount(media)
        BY <1>1, <3>7, <4>1
      <4>3. QED BY <1>1, <1>5, <3>5, <3>7, <3>9, <4>2
    <3>10. QED BY <3>8, <3>9 DEF Parsers
  <2>2. CASE DatesEnd(p)
    <3>1. file' = Append(file, Line("end", 0)) /\ pipe' = pipe BY <2>2 DEF DatesEnd, gatewayVars
    <3>2. Line("end", 0) \in TrueLines /\ ~IsTable(Line("end", 0))
      BY <1>3, LineIsTrue, CallAssumption DEF Kinds, ReportInv, CallAssumption, Line, IsTable
    <3>3. TableCount(file') = TableCount(file) + 0 BY <1>0, <3>1, <3>2, CountAppend
    <3>4. QED BY <1>1, <1>5, <3>1, <3>3
  <2>3. CASE Pushes(p) \/ PushTimesOut(p) BY <1>1, <1>5, <2>3 DEF Pushes, PushTimesOut, gatewayVars
  <2>4. CASE PushEnds(p)
    <3>1. pipe' = pipe /\ (file' = file \/ file' = <<>>) BY <2>4 DEF PushEnds, gatewayVars
    <3>2. TableCount(file') \in {TableCount(file), 0} BY <3>1, NoTables
    <3>3. QED BY <1>1, <1>5, <3>1, <3>2
  <2>5. QED BY <2>1, <2>2, <2>3, <2>4
<1>7. \A r \in requests' : r.from \in Parsers /\ r.container \in 1..container /\ Fits(r.payload.video)
  <2>1. CASE requests' = requests BY <2>1 DEF SizesInv
  <2>2. CASE requests' # requests
    <3> DEFINE new == [from |-> p, container |-> container, payload |-> Payload(file)]
    <3>1. requests' = requests \cup {new}
      BY <2>2 DEF Parses, ParsesEnd, DatesEnd, Pushes, PushTimesOut, PushEnds
    <3>2. new.from \in Parsers /\ new.container = container /\ Fits(new.payload.video)
      BY <1>0, VideoFits
    <3>3. container \in 1..container BY <1>3 DEF ReportInv, ContainerInv, Calls
    <3> HIDE DEF new
    <3>4. QED BY <3>1, <3>2, <3>3 DEF SizesInv
  <2>3. QED BY <2>1, <2>2
<1>8. QED BY <1>3, <1>4, <1>6, <1>7 DEF SizesInv, Fits

LEMMA ManagerKeepsSizes ==
  ASSUME ReportInv, BooksInv, SizesInv, NEW r \in requests, Refused(r) \/ Ingests(r) \/ RequestLost(r)
  PROVE  SizesInv'
<1>1. /\ UNCHANGED gatewayVars /\ file' = file /\ requests' = requests \ {r}
      /\ calls' = calls \/ (r.payload.id # NoCall /\ calls' = calls \cup {RowFor(r.payload)})
  BY DEF Refused, Ingests, RequestLost, Stores
<1>2. ProcessesOK' /\ TablesOK'
  BY <1>1 DEF SizesInv, ProcessesOK, TablesOK, TablesAllowed, gatewayVars
<1>3. r.payload.id # NoCall => Fits(RowFor(r.payload).video)
  <2>1. r.payload.id # NoCall => r.payload.video \in Seq(Lines) BY DEF BooksInv, OwnPayload
  <2>2. RowFor(r.payload).video = VideoEntries(r.payload.video, r.payload.samples) BY DEF RowFor
  <2>3. QED BY <2>1, <2>2, EntriesFit DEF SizesInv
<1>4. \A s \in calls' : Fits(s.video) BY <1>1, <1>3 DEF SizesInv
<1>5. QED BY <1>1, <1>2, <1>4 DEF SizesInv, Fits, gatewayVars

LEMMA StepKeepsSizes ==
  ASSUME ReportInv, BooksInv, SizesInv, [Next]_vars
  PROVE  SizesInv'
<1>1. CASE UNCHANGED vars
  BY <1>1 DEF vars, gatewayVars, reportVars, SizesInv, ProcessesOK, TablesOK, TablesAllowed, Fits
<1>2. CASE Next
  BY <1>2, GatewayKeepsSizes, ContainersKeepSizes, ParserKeepsSizes, ManagerKeepsSizes DEF Next
<1>3. QED BY <1>1, <1>2

LEMMA SizesStart ==
  ASSUME GatewayInit, ReportInit
  PROVE  SizesInv
<1>1. /\ pipe["Baresip"] = <<>> /\ file = <<>> /\ requests = {} /\ calls = {} /\ reading = 0 /\ sip = "quit"
  BY DEF GatewayInit, ReportInit, Parsers
<1>2. TablesOK BY <1>1, NoTables DEF TablesOK, TablesAllowed
<1>3. ProcessesOK
  <2>1. 0 \in 0..MaxContainers BY CallAssumption DEF CallAssumption
  <2>2. QED BY <2>1 DEF GatewayInit, ProcessesOK, HandlerStates, BrowseStates
<1>4. QED BY <1>1, <1>2, <1>3 DEF SizesInv

LEMMA SizesGiveTypes ==
  ASSUME ReportInv, BooksInv, SizesInv
  PROVE  ReportTypeOK
<1>1. /\ sock \in Seq(TrueEvents) /\ pipe \in [Parsers -> Seq(TrueLines)] /\ file \in Seq(TrueLines)
  BY DEF ReportInv, ToldInv
<1>2. TrueLines \subseteq Lines /\ TrueEvents \subseteq Events BY DEF TrueLines, TrueEvents
<1>3. sock \in Seq(Events) /\ file \in Seq(Lines) BY <1>1, <1>2, SequencesGrow
<1>4. pipe \in [Parsers -> Seq(Lines)]
  <2>1. Seq(TrueLines) \subseteq Seq(Lines) BY <1>2, SequencesGrow
  <2>2. QED BY <1>1, <2>1
<1>5. GatewayTypeOK
  BY <1>3, <1>4 DEF GatewayTypeOK, SizesInv, ProcessesOK, ReportInv, ContainerInv, Events
<1>6. push \in [Parsers -> PushStates] BY DEF ReportInv, PushInv
<1>7. \A r \in calls : r.id \in carried /\ r.established \in BOOLEAN /\ Len(r.video) <= 2 * MaxReadings + 2
  BY DEF ReportInv, BooksInv, OwnRow, SizesInv, Fits
<1>8. QED BY <1>3, <1>5, <1>6, <1>7 DEF ReportTypeOK, SizesInv

\* The file, the pushes and the rows are what the parsers and the manager make;
\* a call has at most the tables of its readings and of its end.
THEOREM ReportTypeCorrect == Spec => []ReportTypeOK
<1>1. GatewayInit /\ ReportInit => BooksInv /\ SizesInv BY BooksStart, SizesStart
<1>2. ReportInv /\ BooksInv /\ SizesInv /\ [Next]_vars => BooksInv' /\ SizesInv'
  BY StepKeepsBooks, StepKeepsSizes
<1>3. ReportInv /\ BooksInv /\ SizesInv => ReportTypeOK BY SizesGiveTypes
<1>4. QED BY <1>1, <1>2, <1>3, ToldAsItWas, PTL DEF Spec

-----------------------------------------------------------------------------
(* The tables of the end of a call are printed once, after the others, and   *)
(* the readings are printed in their turn.                                    *)

Tabled == {l \in Lines : IsTable(l)}
FirstClosing == {l \in Lines : l.kind = "main" /\ l.at = MaxReadings + 1}
LastClosing == {l \in Lines : l.kind = "slides" /\ l.at = MaxReadings + 1}
Upto(n) == {l \in Tabled : l.at <= n}
Beyond(n) == {l \in Tabled : l.at > n}
Samples == {l \in Lines : l.kind = "sample"}

\* No line of B after one of A in what is parsed, f, and printed after it, m.
NoneAfter(f, m, A, B) ==
    /\ Before(f, A, B) /\ Before(m, A, B)
    /\ Free(f, A) \/ Free(m, B)

\* The two tables of the end come once, no table after the last of them, and
\* none of a reading after one of a later reading or of the end.
Orderly(f, m) ==
    /\ NoneAfter(f, m, FirstClosing, FirstClosing)
    /\ NoneAfter(f, m, LastClosing, Tabled)
    /\ \A n \in 0..MaxReadings : NoneAfter(f, m, Beyond(n), Upto(n))

\* No table of a later reading than the n-th, or of the end
Within(f, m, n) == Free(f, Beyond(n)) /\ Free(m, Beyond(n))

LEMMA SmallerIsFree ==
  ASSUME NEW s, NEW A, NEW B, A \subseteq B, Free(s, B)
  PROVE  Free(s, A)
  BY DEF Free

\* A line is printed.
LEMMA PrintedAfter ==
  ASSUME NEW f, NEW m \in Seq(Lines), NEW l \in Lines, NEW A, NEW B, NoneAfter(f, m, A, B),
         l \in B => Free(f, A) /\ Free(m, A)
  PROVE  NoneAfter(f, Append(m, l), A, B)
<1>1. Before(Append(m, l), A, B) BY AppendOrder DEF NoneAfter
<1>2. Free(Append(m, l), B) <=> Free(m, B) /\ l \notin B BY AppendFree
<1>3. QED BY <1>1, <1>2 DEF NoneAfter

\* A line is parsed, and becomes a record.
LEMMA ParsedAfter ==
  ASSUME NEW f \in Seq(Lines), NEW m \in Seq(Lines), m # <<>>, NEW A, NEW B, NoneAfter(f, m, A, B)
  PROVE  NoneAfter(Append(f, Head(m)), Tail(m), A, B)
<1> DEFINE l == Head(m)
<1>1. /\ l \in Lines
      /\ Free(m, B) <=> Free(Tail(m), B) /\ l \notin B
      /\ Before(Tail(m), A, B) /\ (l \in A => Free(Tail(m), B))
  BY TailOrder DEF NoneAfter
<1> HIDE DEF l
<1>2. Free(Append(f, l), A) <=> Free(f, A) /\ l \notin A BY <1>1, AppendFree
<1>3. Before(Append(f, l), A, B)
  <2>1. l \in B => Free(f, A) BY <1>1 DEF NoneAfter
  <2>2. QED BY <1>1, <2>1, AppendOrder DEF NoneAfter
<1>4. NoneAfter(Append(f, l), Tail(m), A, B) BY <1>1, <1>2, <1>3 DEF NoneAfter
<1>5. QED BY <1>4 DEF l

\* A line that is dropped, or a record of another kind, makes no difference.
LEMMA DroppedAfter ==
  ASSUME NEW f, NEW m \in Seq(Lines), m # <<>>, NEW A, NEW B, NoneAfter(f, m, A, B)
  PROVE  NoneAfter(f, Tail(m), A, B)
  BY TailOrder DEF NoneAfter

LEMMA OthersAfter ==
  ASSUME NEW f \in Seq(Lines), NEW m, NEW l \in Lines, NEW A, NEW B, l \notin A, l \notin B,
         NoneAfter(f, m, A, B)
  PROVE  NoneAfter(Append(f, l), m, A, B)
<1>1. Before(Append(f, l), A, B) BY AppendOrder DEF NoneAfter
<1>2. Free(Append(f, l), A) <=> Free(f, A) BY AppendFree
<1>3. QED BY <1>1, <1>2 DEF NoneAfter

LEMMA EmptyAfter ==
  ASSUME NEW f, NEW m, NEW A, NEW B, NoneAfter(f, m, A, B)
  PROVE  NoneAfter(<<>>, m, A, B) /\ NoneAfter(f, <<>>, A, B)
  BY EmptyOrder DEF NoneAfter

LEMMA NothingPrinted == Orderly(<<>>, <<>>) /\ \A n : Within(<<>>, <<>>, n)
  BY EmptyOrder DEF Orderly, NoneAfter, Within

LEMMA ParsedOrderly ==
  ASSUME NEW f \in Seq(Lines), NEW m \in Seq(Lines), m # <<>>, Orderly(f, m), NEW n
  PROVE  /\ Orderly(Append(f, Head(m)), Tail(m)) /\ Orderly(f, Tail(m))
         /\ Within(f, m, n) => Within(Append(f, Head(m)), Tail(m), n) /\ Within(f, Tail(m), n)
<1>1. Orderly(Append(f, Head(m)), Tail(m)) BY ParsedAfter DEF Orderly
<1>2. Orderly(f, Tail(m)) BY DroppedAfter DEF Orderly
<1>3. Head(m) \in Lines /\ (Free(m, Beyond(n)) <=> Free(Tail(m), Beyond(n)) /\ Head(m) \notin Beyond(n))
  BY TailOrder
<1>4. Free(Append(f, Head(m)), Beyond(n)) <=> Free(f, Beyond(n)) /\ Head(m) \notin Beyond(n)
  BY <1>3, AppendFree
<1>5. QED BY <1>1, <1>2, <1>3, <1>4 DEF Within

LEMMA OthersOrderly ==
  ASSUME NEW f \in Seq(Lines), NEW m, NEW l \in Lines, ~IsTable(l), Orderly(f, m), NEW n
  PROVE  Orderly(Append(f, l), m) /\ (Within(f, m, n) => Within(Append(f, l), m, n))
<1>1. /\ l \notin Tabled /\ l \notin FirstClosing /\ l \notin LastClosing
      /\ \A k : l \notin Beyond(k) /\ l \notin Upto(k)
  BY DEF Tabled, FirstClosing, LastClosing, IsTable, Beyond, Upto
<1>2. Orderly(Append(f, l), m) BY <1>1, OthersAfter DEF Orderly
<1>3. Free(Append(f, l), Beyond(n)) <=> Free(f, Beyond(n)) BY <1>1, AppendFree
<1>4. QED BY <1>2, <1>3 DEF Within

\* A line that is no table is printed.
LEMMA StopOrderly ==
  ASSUME NEW f, NEW m \in Seq(Lines), NEW l \in Lines, ~IsTable(l), Orderly(f, m), NEW n
  PROVE  Orderly(f, Append(m, l)) /\ (Within(f, m, n) => Within(f, Append(m, l), n))
<1>1. /\ l \notin Tabled /\ l \notin FirstClosing /\ l \notin LastClosing
      /\ \A k : l \notin Beyond(k) /\ l \notin Upto(k)
  BY DEF Tabled, FirstClosing, LastClosing, IsTable, Beyond, Upto
<1>2. Orderly(f, Append(m, l)) BY <1>1, PrintedAfter DEF Orderly
<1>3. Free(Append(m, l), Beyond(n)) <=> Free(m, Beyond(n)) BY <1>1, AppendFree
<1>4. QED BY <1>2, <1>3 DEF Within

\* A table is printed after those of the readings before its own.
LEMMA TableOrderly ==
  ASSUME NEW f, NEW m \in Seq(Lines), NEW l \in Tabled, Orderly(f, m),
         Free(f, LastClosing), Free(m, LastClosing),
         l \in FirstClosing => Free(f, FirstClosing) /\ Free(m, FirstClosing),
         Within(f, m, l.at)
  PROVE  Orderly(f, Append(m, l)) /\ Within(f, Append(m, l), l.at)
<1>1. l \in Lines /\ l.at \in 0..MaxReadings + 1 /\ MaxReadings \in Nat
  BY CallAssumption DEF Tabled, Lines, CallAssumption
<1>2. ASSUME NEW n \in 0..MaxReadings, l \in Upto(n) PROVE Free(f, Beyond(n)) /\ Free(m, Beyond(n))
  <2>1. l.at <= n BY <1>2 DEF Upto
  <2>2. Beyond(n) \subseteq Beyond(l.at)
    <3>1. \A x \in Tabled : x.at \in 0..MaxReadings + 1 BY DEF Tabled, Lines
    <3>2. QED BY <1>1, <2>1, <3>1 DEF Beyond
  <2>3. QED BY <2>2, SmallerIsFree DEF Within
<1>3. \A n \in 0..MaxReadings : NoneAfter(f, Append(m, l), Beyond(n), Upto(n))
  BY <1>1, <1>2, PrintedAfter DEF Orderly
<1>4. NoneAfter(f, Append(m, l), FirstClosing, FirstClosing)
      /\ NoneAfter(f, Append(m, l), LastClosing, Tabled)
  BY <1>1, PrintedAfter DEF Orderly
<1>5. l \notin Beyond(l.at) BY <1>1 DEF Beyond
<1>6. Free(Append(m, l), Beyond(l.at)) BY <1>1, <1>5, AppendFree DEF Within
<1>7. QED BY <1>3, <1>4, <1>6 DEF Orderly, Within

\* The tables of a reading, or of the end, after those of earlier readings
LEMMA TablesOrderly ==
  ASSUME ContainerInv, alive, NEW f, NEW m \in Seq(MediaLines), NEW n \in 0..MaxReadings,
         Orderly(f, m), Within(f, m, n)
  PROVE  /\ Orderly(f, m \o Tables(n + 1)) /\ Within(f, m \o Tables(n + 1), n + 1)
         /\ Orderly(f, m \o (Tables(n + 1) \o <<Line("stop", 0)>>))
<1> DEFINE a == Line("main", n + 1)
           b == Line("slides", n + 1)
           e == Line("stop", 0)
           m1 == Append(m, a)
           m2 == Append(m1, b)
<1>1. MaxReadings \in Nat /\ 0 \in 0..MaxReadings + 1 /\ n + 1 \in 0..MaxReadings + 1 /\ n \in Nat
  BY CallAssumption DEF CallAssumption
<1>2. /\ a \in MediaLines /\ a \in Tabled /\ a.kind = "main" /\ a.at = n + 1
      /\ b \in MediaLines /\ b \in Tabled /\ b.kind = "slides" /\ b.at = n + 1
      /\ e \in MediaLines /\ e \in Lines /\ ~IsTable(e)
  BY <1>1, LineTyped DEF Kinds, MediaLines, Tabled, IsTable, Line
<1>3. Tables(n + 1) = <<a, b>> \/ Tables(n + 1) = <<a>> BY DEF Tables
<1> HIDE DEF a, b, e
<1>4. m \in Seq(Lines) /\ a \in Lines /\ b \in Lines BY <1>2, SequencesGrow DEF MediaLines
<1>5. \A x \in Tabled : x.at \in 0..MaxReadings + 1 BY DEF Tabled, Lines
<1>6. LastClosing \subseteq Beyond(n) /\ Beyond(n + 1) \subseteq Beyond(n)
      /\ (a \in FirstClosing => FirstClosing \subseteq Beyond(n))
  BY <1>1, <1>5 DEF LastClosing, FirstClosing, Beyond, Tabled, IsTable
<1>7. /\ Free(f, LastClosing) /\ Free(m, LastClosing) /\ Within(f, m, n + 1)
      /\ a \in FirstClosing => Free(f, FirstClosing) /\ Free(m, FirstClosing)
  BY <1>6, SmallerIsFree DEF Within
<1>8. Orderly(f, m1) /\ Within(f, m1, n + 1) BY <1>2, <1>4, <1>7, TableOrderly
<1>9. a \notin LastClosing /\ b \notin FirstClosing BY <1>2 DEF LastClosing, FirstClosing
<1>10. Free(m1, LastClosing) BY <1>4, <1>7, <1>9, AppendFree
<1>11. m1 \in Seq(MediaLines) /\ m1 \in Seq(Lines) /\ m1 = m \o <<a>>
  BY <1>2, <1>4, AppendProperties, AppendIsConcat
<1>12. m2 = m \o <<a, b>> BY <1>2
<1> HIDE DEF m1
<1>13. Orderly(f, m2) /\ Within(f, m2, n + 1) BY <1>2, <1>7, <1>8, <1>9, <1>10, <1>11, TableOrderly
<1>14. m2 \in Seq(MediaLines) /\ m2 \in Seq(Lines) BY <1>2, <1>4, <1>11, AppendProperties
<1> HIDE DEF m2
<1>15. \A s \in Seq(MediaLines) : s \o <<e>> = Append(s, e) BY <1>2, AppendIsConcat
<1>16. Orderly(f, m1 \o <<e>>) /\ Orderly(f, m2 \o <<e>>)
  BY <1>2, <1>8, <1>11, <1>13, <1>14, <1>15, StopOrderly
<1>17. <<a, b>> \in Seq(MediaLines) /\ <<a>> \in Seq(MediaLines) /\ <<e>> \in Seq(MediaLines) BY <1>2
<1>18. m1 \o <<e>> = m \o (<<a>> \o <<e>>) /\ m2 \o <<e>> = m \o (<<a, b>> \o <<e>>)
  BY <1>11, <1>12, <1>17, ConcatAssociative
<1>19. CASE Tables(n + 1) = <<a>> BY <1>8, <1>11, <1>16, <1>18, <1>19, Zenon DEF e
<1>20. CASE Tables(n + 1) = <<a, b>> BY <1>12, <1>13, <1>16, <1>18, <1>20, Zenon DEF e
<1>21. QED BY <1>3, <1>19, <1>20

-----------------------------------------------------------------------------
(* The last of the records at some positions. *)

LEMMA DisjointCount ==
  ASSUME NEW S, IsFiniteSet(S), NEW T, IsFiniteSet(T), S \cap T = {}
  PROVE  Cardinality(S \cup T) = Cardinality(S) + Cardinality(T)
<1>1. Cardinality(S) \in Nat /\ Cardinality(T) \in Nat BY FS_CardinalityType
<1>2. Cardinality(S \cap T) = 0 BY FS_EmptySet
<1>3. Cardinality(S \cup T) = Cardinality(S) + Cardinality(T) - Cardinality(S \cap T) BY FS_Union
<1>4. QED BY <1>1, <1>2, <1>3

\* The only position that has k positions up to itself is the k-th.
LEMMA NthIs ==
  ASSUME NEW n \in Nat, NEW P \in SUBSET (1..n), NEW i \in P
  PROVE  Nth(P, Cardinality({j \in P : j <= i})) = i
<1> DEFINE upTo(x) == {j \in P : j <= x}
<1>1. IsFiniteSet(P)
  <2>1. IsFiniteSet(1..n) BY FS_Interval
  <2>2. QED BY <2>1, FS_Subset
<1>2. \A x, y \in P : x < y => upTo(x) \subseteq upTo(y) /\ y \in upTo(y) /\ y \notin upTo(x)
  <2>1. SUFFICES ASSUME NEW x \in P, NEW y \in P, x < y
                 PROVE  upTo(x) \subseteq upTo(y) /\ y \in upTo(y) /\ y \notin upTo(x)
    OBVIOUS
  <2>2. \A j \in P : j \in Nat OBVIOUS
  <2>3. y <= y /\ ~(y <= x) /\ \A j \in P : j <= x => j <= y BY <2>1, <2>2
  <2>4. QED BY <2>3
<1>3. \A x : upTo(x) \subseteq P OBVIOUS
<1> HIDE DEF upTo
<1>4. \A x : IsFiniteSet(upTo(x)) BY <1>1, <1>3, FS_Subset
<1>5. ASSUME NEW x \in P, NEW y \in P, Cardinality(upTo(x)) = Cardinality(upTo(y)), x < y PROVE FALSE
  <2>1. upTo(x) = upTo(y) BY <1>2, <1>4, <1>5, FS_Subset
  <2>2. QED BY <1>2, <1>5, <2>1
<1>6. \A x \in P : Cardinality(upTo(x)) = Cardinality(upTo(i)) => x = i
  <2>1. SUFFICES ASSUME NEW x \in P, Cardinality(upTo(x)) = Cardinality(upTo(i)) PROVE x = i OBVIOUS
  <2>2. x < i \/ i < x \/ x = i BY <2>1
  <2>3. QED BY <1>5, <2>1, <2>2
<1>7. Nth(P, Cardinality(upTo(i))) = CHOOSE x \in P : Cardinality(upTo(x)) = Cardinality(upTo(i))
  BY DEF Nth, upTo
<1>8. Nth(P, Cardinality(upTo(i))) = i BY <1>6, <1>7
<1>9. QED BY <1>8 DEF upTo

\* The last positions of P are those of C, when all the others come before.
LEMMA LastPositions ==
  ASSUME NEW n \in Nat, NEW P \in SUBSET (1..n), NEW C \in SUBSET P,
         \A i \in P \ C, j \in C : i < j,
         NEW k \in 1..Cardinality(C)
  PROVE  Nth(P, Cardinality(P \ C) + k) = Nth(C, k)
<1> DEFINE i == Nth(C, k)
           first == P \ C
           upTo(S) == {j \in S : j <= i}
<1>1. IsFiniteSet(P) /\ IsFiniteSet(C) /\ IsFiniteSet(first)
  <2>1. IsFiniteSet(1..n) BY FS_Interval
  <2>2. IsFiniteSet(P) BY <2>1, FS_Subset
  <2>3. C \subseteq P /\ first \subseteq P OBVIOUS
  <2> HIDE DEF first
  <2>4. QED BY <2>2, <2>3, FS_Subset
<1>2. C \in SUBSET (1..n) OBVIOUS
<1>3. i \in C /\ Cardinality(upTo(C)) = k BY <1>2, NthIsThere
<1>4. P = first \cup C /\ first \cap C = {} /\ P \subseteq Nat /\ C \subseteq P
  <2>1. C \subseteq P /\ P \subseteq Nat OBVIOUS
  <2>2. P = first \cup C /\ first \cap C = {} BY <2>1
  <2>3. QED BY <2>1, <2>2
<1>5. \A x \in first, y \in C : x < y OBVIOUS
<1> HIDE DEF first, i
<1>6. first \cap upTo(C) = {} /\ upTo(C) \subseteq C BY <1>4
<1>7. i \in P /\ upTo(P) = first \cup upTo(C)
  <2>1. i \in P /\ i \in Nat BY <1>3, <1>4
  <2>2. \A j \in first : j \in Nat /\ j < i /\ j \in P BY <1>3, <1>4, <1>5
  <2>3. \A j \in first : j <= i BY <2>1, <2>2
  <2>4. \A j : j \in P /\ j <= i <=> j \in first \/ (j \in C /\ j <= i) BY <1>4, <2>3, Zenon
  <2>5. QED BY <2>1, <2>4
<1>8. Nth(P, Cardinality(upTo(P))) = i BY <1>7, NthIs
<1> HIDE DEF upTo
<1>9. IsFiniteSet(upTo(C)) BY <1>1, <1>6, FS_Subset
<1>10. Cardinality(upTo(P)) = Cardinality(first) + k
  <2>1. Cardinality(first) + Cardinality(upTo(C)) = Cardinality(first) + k BY <1>3, Zenon
  <2>2. Cardinality(upTo(P)) = Cardinality(first) + Cardinality(upTo(C))
    <3>1. Cardinality(first \cup upTo(C)) = Cardinality(first) + Cardinality(upTo(C))
      BY <1>1, <1>6, <1>9, DisjointCount
    <3>2. QED BY <1>7, <3>1, Zenon
  <2>3. QED BY <2>1, <2>2, Zenon
<1>11. Nth(P, Cardinality(first) + k) = i BY <1>8, <1>10, Zenon
<1>12. QED BY <1>11 DEF first, i

-----------------------------------------------------------------------------
(* The streams that are kept of a history that is in order. *)

\* The tables of the end
ClosingIn(s) == {i \in DOMAIN s : IsTable(s[i]) /\ s[i].at = MaxReadings + 1}
KeptIn(s) == {i \in DOMAIN s : IsTable(s[i]) /\ \A j \in Forgetting(s) : i > j}

\* After samples, those are the tables that are not forgotten.
LEMMA SampledVideo ==
  ASSUME NEW s \in Seq(Lines), InOrder(s), NEW c \in Positions(s, "closed"), ~Free(s, Samples)
  PROVE  KeptIn(s) = ClosingIn(s)
<1>1. DOMAIN s \subseteq Nat /\ \A i \in DOMAIN s : s[i] \in Lines OBVIOUS
<1>2. PICK x \in DOMAIN s : s[x].kind = "sample" BY DEF Free, Samples
<1>3. c \in DOMAIN s /\ s[c].kind = "closed" BY DEF Positions
<1>4. x < c BY <1>2 DEF InOrder
<1>5. c \in Forgetting(s)
  <2>1. x \in 1..(c - 1) BY <1>1, <1>2, <1>3, <1>4
  <2>2. QED BY <1>2, <1>3, <2>1 DEF Forgetting
<1>6. ASSUME NEW i \in KeptIn(s) PROVE i \in ClosingIn(s)
  <2>1. i \in DOMAIN s /\ IsTable(s[i]) /\ i > c BY <1>5, <1>6 DEF KeptIn
  <2>2. QED BY <2>1 DEF InOrder, ClosingIn
<1>7. ASSUME NEW i \in ClosingIn(s), NEW j \in Forgetting(s) PROVE i > j
  <2>1. i \in DOMAIN s /\ IsTable(s[i]) /\ s[i].at = MaxReadings + 1 BY <1>7 DEF ClosingIn
  <2>2. j \in DOMAIN s /\ s[j].kind \in {"sample", "closed"} BY <1>7 DEF Forgetting
  <2>3. CASE s[j].kind = "closed"
    <3>1. j \in Positions(s, "closed") BY <2>2, <2>3 DEF Positions
    <3>2. QED BY <2>1, <3>1 DEF InOrder
  <2>4. CASE s[j].kind = "sample"
    <3>1. j < c /\ i > c BY <2>1, <2>2, <2>4 DEF InOrder
    <3>2. QED BY <1>1, <1>3, <2>1, <2>2, <3>1
  <2>5. QED BY <2>2, <2>3, <2>4
<1>8. ClosingIn(s) \subseteq KeptIn(s) BY <1>7 DEF ClosingIn, KeptIn
<1>9. QED BY <1>6, <1>8

\* Without, nothing is forgotten.
LEMMA UnsampledVideo ==
  ASSUME NEW s \in Seq(Lines), Free(s, Samples)
  PROVE  KeptIn(s) = TablesIn(s) /\ Cardinality(Positions(s, "sample")) = 0
<1>1. DOMAIN s = 1..Len(s) /\ Len(s) \in Nat /\ \A i \in DOMAIN s : s[i] \in Lines OBVIOUS
<1>2. \A i \in DOMAIN s : s[i].kind # "sample" BY <1>1 DEF Free, Samples
<1>3. \A i \in DOMAIN s : 1..(i - 1) \subseteq DOMAIN s BY <1>1
<1>4. Forgetting(s) = {} BY <1>2, <1>3 DEF Forgetting
<1>5. KeptIn(s) = TablesIn(s) BY <1>4 DEF KeptIn, TablesIn
<1>6. Positions(s, "sample") = {} BY <1>2 DEF Positions
<1>7. QED BY <1>5, <1>6, FS_EmptySet

\* The positions are in their order.
LEMMA NthGrows ==
  ASSUME NEW n \in Nat, NEW P \in SUBSET (1..n), NEW k \in 1..Cardinality(P), NEW l \in 1..Cardinality(P),
         k < l
  PROVE  Nth(P, k) < Nth(P, l)
<1> DEFINE upTo(x) == {j \in P : j <= x}
           i == Nth(P, k)
           h == Nth(P, l)
<1>1. IsFiniteSet(P)
  <2>1. IsFiniteSet(1..n) BY FS_Interval
  <2>2. QED BY <2>1, FS_Subset
<1>2. i \in P /\ h \in P /\ Cardinality(upTo(i)) = k /\ Cardinality(upTo(h)) = l BY NthIsThere
<1> HIDE DEF i, h
<1>0. \A j \in P : j \in Nat OBVIOUS
<1>3. i \in Nat /\ h \in Nat BY <1>0, <1>2
<1>4. ASSUME h <= i PROVE FALSE
  <2>1. \A j \in P : j <= h => j <= i BY <1>0, <1>3, <1>4
  <2>2. upTo(h) \subseteq upTo(i) /\ upTo(i) \subseteq P BY <2>1
  <2> HIDE DEF upTo
  <2>3. IsFiniteSet(upTo(i)) BY <1>1, <2>2, FS_Subset
  <2>4. Cardinality(upTo(h)) <= Cardinality(upTo(i)) BY <2>2, <2>3, FS_Subset
  <2>5. l <= k BY <1>2, <2>4
  <2>6. QED BY <2>5
<1>5. i < h BY <1>3, <1>4
<1>6. QED BY <1>5 DEF i, h

\* The tables of a history that is orderly go up.
LEMMA TablesGoUp ==
  ASSUME NEW s \in Seq(Lines), \A n \in 0..MaxReadings : Before(s, Beyond(n), Upto(n)),
         NEW i \in TablesIn(s), NEW j \in TablesIn(s), i < j
  PROVE  s[i].at <= s[j].at
<1>1. MaxReadings \in Nat BY CallAssumption DEF CallAssumption
<1>2. /\ i \in DOMAIN s /\ s[i] \in Tabled /\ s[i].at \in 0..MaxReadings + 1
      /\ j \in DOMAIN s /\ s[j] \in Tabled /\ s[j].at \in 0..MaxReadings + 1
  <2>1. \A k \in DOMAIN s : s[k] \in Lines OBVIOUS
  <2>2. \A k \in TablesIn(s) : k \in DOMAIN s /\ s[k] \in Tabled BY <2>1 DEF TablesIn, Tabled
  <2>3. \A l \in Tabled : l.at \in 0..MaxReadings + 1 BY DEF Tabled, Lines
  <2>4. QED BY <2>2, <2>3
<1> DEFINE n == s[j].at
<1>3. SUFFICES ASSUME s[i].at > n PROVE FALSE BY <1>1, <1>2
<1>4. n \in 0..MaxReadings BY <1>1, <1>2, <1>3
<1>5. s[i] \in Beyond(n) /\ s[j] \in Upto(n) BY <1>1, <1>2, <1>3 DEF Beyond, Upto
<1>6. QED BY <1>2, <1>4, <1>5 DEF Before

\* There are two tables of the end at most.
LEMMA OneAtMost ==
  ASSUME NEW P \in SUBSET Nat, \A i, j \in P : ~(i < j)
  PROVE  IsFiniteSet(P) /\ Cardinality(P) \in {0, 1}
<1>1. CASE P = {} BY <1>1, FS_EmptySet
<1>2. CASE P # {}
  <2>1. PICK a \in P : TRUE BY <1>2
  <2>2. \A i \in P : i = a
    <3>1. SUFFICES ASSUME NEW i \in P PROVE i = a OBVIOUS
    <3>2. i \in Nat /\ a \in Nat /\ ~(i < a) /\ ~(a < i) BY <2>1
    <3>3. QED BY <3>2
  <2>3. P = {a} BY <2>1, <2>2
  <2>4. QED BY <2>3, FS_Singleton
<1>3. QED BY <1>1, <1>2

LEMMA ClosingAreTwo ==
  ASSUME NEW s \in Seq(Lines), Before(s, FirstClosing, FirstClosing), Before(s, LastClosing, Tabled)
  PROVE  IsFiniteSet(ClosingIn(s)) /\ Cardinality(ClosingIn(s)) <= 2
<1> DEFINE F == {i \in DOMAIN s : s[i] \in FirstClosing}
           L == {i \in DOMAIN s : s[i] \in LastClosing}
<1>1. \A i \in DOMAIN s : i \in Nat /\ s[i] \in Lines OBVIOUS
<1>2. ClosingIn(s) = F \cup L BY <1>1 DEF ClosingIn, IsTable, FirstClosing, LastClosing
<1>3. F \in SUBSET Nat /\ \A i, j \in F : ~(i < j) BY <1>1 DEF Before
<1>4. L \in SUBSET Nat /\ \A i, j \in L : ~(i < j)
  <2>1. LastClosing \subseteq Tabled BY DEF LastClosing, Tabled, IsTable
  <2>2. QED BY <1>1, <2>1 DEF Before
<1> HIDE DEF F, L
<1>5. IsFiniteSet(F) /\ Cardinality(F) \in {0, 1} /\ IsFiniteSet(L) /\ Cardinality(L) \in {0, 1}
  BY <1>3, <1>4, OneAtMost
<1>6. IsFiniteSet(F \cup L) /\ Cardinality(F \cup L) = Cardinality(F) + Cardinality(L) - Cardinality(F \cap L)
  BY <1>5, FS_Union
<1>7. Cardinality(F \cap L) \in Nat
  <2>1. IsFiniteSet(F \cap L) BY <1>5, FS_Intersection
  <2>2. QED BY <2>1, FS_CardinalityType
<1>8. QED BY <1>2, <1>5, <1>6, <1>7

\* Readings by pairs before the two tables of the end: repeated readings, whose
\* last pair is stored.
LEMMA PairsAreRepeated ==
  ASSUME NEW s \in Seq(Lines), Cardinality(ClosingIn(s)) = 2, ByPairs(RecordsAt(s, TablesIn(s))),
         \A n \in 0..MaxReadings : Before(s, Beyond(n), Upto(n)),
         \A i \in TablesIn(s) \ ClosingIn(s), j \in ClosingIn(s) : i < j
  PROVE  VideoEntries(RecordsAt(s, TablesIn(s)), 0) = RecordsAt(s, ClosingIn(s))
<1> DEFINE T == TablesIn(s)
           C == ClosingIn(s)
           video == RecordsAt(s, T)
           closing == RecordsAt(s, C)
           others == Cardinality(T \ C)
<1>1. /\ Len(s) \in Nat /\ T \in SUBSET (1..Len(s)) /\ C \in SUBSET (1..Len(s)) /\ C \in SUBSET T
  BY DEF TablesIn, ClosingIn
<1>2. others \in Nat /\ Cardinality(T) = others + 2
  <2>1. IsFiniteSet(T) /\ C \subseteq T /\ T \ C \subseteq T BY <1>1, CountType
  <2>2. Cardinality(C) = 2 OBVIOUS
  <2> HIDE DEF T, C
  <2>3. IsFiniteSet(C) /\ IsFiniteSet(T \ C) BY <2>1, FS_Subset
  <2>4. (T \ C) \cap C = {} /\ (T \ C) \cup C = T BY <2>1
  <2>5. Cardinality(T) = Cardinality(T \ C) + Cardinality(C) BY <2>3, <2>4, DisjointCount
  <2>6. Cardinality(T \ C) \in Nat BY <2>3, FS_CardinalityType
  <2>7. QED BY <2>2, <2>5, <2>6 DEF others
<1>3. video \in Seq(Lines) /\ Len(video) = others + 2 BY <1>1, <1>2, RecordsAreThere
<1>4. closing \in Seq(Lines) /\ Len(closing) = 2 BY <1>1, RecordsAreThere
<1>5. \A k \in 1..2 : video[others + k] = closing[k]
  <2>1. SUFFICES ASSUME NEW k \in 1..2 PROVE video[others + k] = closing[k] OBVIOUS
  <2>2. Nth(T, others + k) = Nth(C, k)
    <3>1. \A i \in T \ C, j \in C : i < j OBVIOUS
    <3>2. k \in 1..Cardinality(C) BY <2>1
    <3> HIDE DEF T, C
    <3>3. QED BY <1>1, <3>1, <3>2, LastPositions
  <2>3. video[others + k] = s[Nth(T, others + k)]
    <3>1. others + k \in 1..Cardinality(T) BY <1>2
    <3> HIDE DEF T, others
    <3>2. QED BY <3>1 DEF RecordsAt
  <2>4. closing[k] = s[Nth(C, k)]
    <3>1. k \in 1..Cardinality(C) OBVIOUS
    <3> HIDE DEF C
    <3>2. QED BY <3>1 DEF RecordsAt
  <2>5. QED BY <2>2, <2>3, <2>4
\* Pair after pair the readings go up.
<1>6. \A i \in 1..others : video[i].at <= video[i + 2].at
  <2>1. SUFFICES ASSUME NEW i \in 1..others PROVE video[i].at <= video[i + 2].at OBVIOUS
  <2>2. i \in 1..Cardinality(T) /\ i + 2 \in 1..Cardinality(T) /\ i < i + 2 BY <1>2
  <2>3. video[i] = s[Nth(T, i)] /\ video[i + 2] = s[Nth(T, i + 2)]
    <3> HIDE DEF T
    <3>1. QED BY <2>2 DEF RecordsAt
  <2>4. Nth(T, i) \in T /\ Nth(T, i + 2) \in T /\ Nth(T, i) < Nth(T, i + 2)
    <3> HIDE DEF T
    <3>1. QED BY <1>1, <2>2, NthIsThere, NthGrows
  <2>5. s[Nth(T, i)].at <= s[Nth(T, i + 2)].at BY <2>4, TablesGoUp
  <2>6. QED BY <2>3, <2>5
<1>7. ByPairs(video) OBVIOUS
<1>8. CASE T = C
  <2>1. video = closing BY <1>8
  <2>2. Len(video) = 2 BY <1>4, <2>1
  <2> HIDE DEF T, C, video, closing, others
  <2>3. ~(Len(video) >= 4) BY <2>2
  <2>4. ~IsRepeated(video, 0) BY <2>3, Zenon DEF IsRepeated
  <2>5. VideoEntries(video, 0) = closing BY <2>1, <2>4, Zenon DEF VideoEntries
  <2>6. QED BY <2>5 DEF video, closing, T, C
<1>9. others = 0 => T = C
  <2>1. IsFiniteSet(T) /\ T \ C \subseteq T BY <1>1, CountType
  <2> HIDE DEF T, C
  <2>2. IsFiniteSet(T \ C) BY <2>1, FS_Subset
  <2>3. others = 0 => T \ C = {} BY <2>2, FS_EmptySet DEF others
  <2>4. C \subseteq T BY <1>1
  <2>5. QED BY <2>3, <2>4
<1> HIDE DEF T, C, video, closing, others
<1>10. CASE others # 0
  <2>1. Len(video) % 2 = 0 /\ Len(video) >= 4
    <3>1. Len(video) % 2 = 0 BY <1>7 DEF ByPairs
    <3>2. others # 1
      <4>1. 3 % 2 = 1 OBVIOUS
      <4>2. QED BY <1>2, <1>3, <3>1, <4>1
    <3>3. QED BY <1>2, <1>3, <1>10, <3>1, <3>2
  <2>2. DOMAIN video = 1..others + 2 BY <1>3
  <2>3. \A i \in 1..others : video[i].kind = video[i + 2].kind
    <3>1. SUFFICES ASSUME NEW i \in 1..others PROVE video[i].kind = video[i + 2].kind OBVIOUS
    <3>2. i \in DOMAIN video /\ i + 2 \in DOMAIN video /\ (i + 2) % 2 = i % 2 BY <1>2, <2>2
    <3>3. QED BY <1>7, <3>2 DEF ByPairs
  <2>4. 1..(Len(video) - 2) = 1..others BY <1>2, <1>3
  <2>5. LooksCumulative(video) BY <1>6, <2>1, <2>3, <2>4 DEF LooksCumulative
  <2>6. IsRepeated(video, 0) BY <2>1, <2>5 DEF IsRepeated
  <2>7. SubSeq(video, others + 1, others + 2) = closing
    <3>1. /\ SubSeq(video, others + 1, others + 2) \in Seq(Lines)
          /\ Len(SubSeq(video, others + 1, others + 2)) = 2
          /\ \A k \in 1..2 : SubSeq(video, others + 1, others + 2)[k] = video[others + k]
      BY <1>2, <1>3
    <3>2. \A k \in 1..2 : SubSeq(video, others + 1, others + 2)[k] = closing[k] BY <1>5, <3>1
    <3>3. QED BY <1>4, <3>1, <3>2, SeqEqual
  <2>8. Len(video) - 1 = others + 1 /\ Len(video) = others + 2 BY <1>2, <1>3
  <2>9. VideoEntries(video, 0) = closing BY <2>6, <2>7, <2>8 DEF VideoEntries
  <2>10. QED BY <2>9 DEF video, closing, T, C
<1>11. QED BY <1>8, <1>9, <1>10 DEF T, C

-----------------------------------------------------------------------------
(* What the manager stores of the streams.                                   *)

\* A call that goes on has no table beyond those of its last reading.
VideoInv ==
    /\ Orderly(file, pipe["Baresip"])
    /\ sip \notin {"closed", "quit"} => Within(file, pipe["Baresip"], reading)

LEMMA VideoIsOwn ==
  ASSUME ReportInv, VideoInv
  PROVE  OwnVideo
<1> DEFINE p == Payload(file)
           C == ClosingIn(file)
           T == TablesIn(file)
<1> SUFFICES ASSUME InOrder(file), p.id # NoCall,
                    \/ p.samples > 0 \/ Leftovers(file) = {}
                    \/ Len(ClosingTables(file)) = 2 /\ ByPairs(p.video)
             PROVE  VideoEntries(p.video, p.samples) = ClosingTables(file)
  BY DEF OwnVideo
<1>1. file \in Seq(Lines)
  <2>1. file \in Seq(TrueLines) BY DEF ReportInv, ToldInv
  <2>2. TrueLines \subseteq Lines BY DEF TrueLines
  <2>3. QED BY <2>1, <2>2, SequencesGrow
<1>2. ClosingTables(file) = RecordsAt(file, C) BY DEF ClosingTables, ClosingIn
<1>3. p.video = RecordsAt(file, KeptIn(file)) /\ p.samples = Cardinality(Positions(file, "sample"))
  BY DEF Payload, VideoStreams, KeptIn
<1>4. PICK c \in Positions(file, "closed") : TRUE BY DEF Payload
<1>5. C \in SUBSET (1..Len(file)) /\ C \subseteq T BY <1>1 DEF ClosingIn, TablesIn
<1>6. /\ Before(file, FirstClosing, FirstClosing) /\ Before(file, LastClosing, Tabled)
      /\ \A n \in 0..MaxReadings : Before(file, Beyond(n), Upto(n))
  BY DEF VideoInv, Orderly, NoneAfter
<1>7. Cardinality(C) \in Nat /\ Cardinality(C) <= 2
  <2>1. IsFiniteSet(C) /\ Cardinality(C) <= 2 BY <1>1, <1>6, ClosingAreTwo
  <2>2. QED BY <2>1, FS_CardinalityType
<1> HIDE DEF p, C, T
<1>8. CASE KeptIn(file) = C
  <2>1. p.video = ClosingTables(file) BY <1>2, <1>3, <1>8
  <2>2. Len(p.video) = Cardinality(C) BY <1>1, <1>2, <1>5, <2>1, RecordsAreThere
  <2>3. ~(Len(p.video) >= 4) BY <1>7, <2>2
  <2>4. ~IsRepeated(p.video, p.samples) BY <2>3 DEF IsRepeated
  <2>5. QED BY <2>1, <2>4 DEF VideoEntries
<1>9. CASE ~Free(file, Samples)
  BY <1>1, <1>4, <1>8, <1>9, SampledVideo DEF C, p
<1>10. CASE Free(file, Samples)
  <2>1. KeptIn(file) = T /\ p.samples = 0 BY <1>1, <1>3, <1>10, UnsampledVideo DEF T
  <2>2. CASE Leftovers(file) = {}
    <3>1. T = C BY <2>2 DEF T, C, TablesIn, ClosingIn, Leftovers
    <3>2. QED BY <1>8, <2>1, <3>1
  <2>3. CASE Len(ClosingTables(file)) = 2 /\ ByPairs(p.video)
    <3>1. \A i \in T \ C, j \in C : i < j
      <4>1. SUFFICES ASSUME NEW i \in T \ C, NEW j \in C PROVE i < j OBVIOUS
      <4>2. /\ i \in DOMAIN file /\ IsTable(file[i]) /\ file[i].at # MaxReadings + 1
            /\ j \in DOMAIN file /\ IsTable(file[j]) /\ file[j].at = MaxReadings + 1
        BY DEF T, TablesIn, C, ClosingIn
      <4>3. ~(i > c) /\ j > c BY <1>4, <4>2 DEF InOrder
      <4>4. i \in Nat /\ j \in Nat /\ c \in Nat BY <1>1, <1>4, <4>2 DEF Positions
      <4>5. i # c BY <1>4, <4>2 DEF Positions, IsTable
      <4>6. QED BY <4>3, <4>4, <4>5
    <3>2. Cardinality(C) = 2 BY <1>1, <1>2, <1>5, <2>3, RecordsAreThere
    <3>3. p.video = RecordsAt(file, T) BY <1>3, <2>1
    <3>4. VideoEntries(RecordsAt(file, T), 0) = RecordsAt(file, C)
      BY <1>1, <1>6, <2>3, <3>1, <3>2, <3>3, PairsAreRepeated DEF T, C
    <3>5. QED BY <1>2, <2>1, <3>3, <3>4 DEF p
  <2>4. ~(p.samples > 0) BY <2>1
  <2>5. QED BY <2>2, <2>3, <2>4 DEF p
<1>11. QED BY <1>9, <1>10

LEMMA GatewayKeepsVideo ==
  ASSUME ReportInv, BooksInv, VideoInv, GatewaySteps
  PROVE  VideoInv'
<1> DEFINE media == pipe["Baresip"]
           stop == <<Line("stop", 0)>>
<1>1. /\ CallSteps /\ ContainerInv /\ "Baresip" \in Parsers /\ "Event" \in Parsers
      /\ pipe \in [Parsers -> Seq(TrueLines)] /\ media \in Seq(MediaLines)
      /\ reading \in 0..MaxReadings /\ MaxReadings \in Nat
  BY CallAssumption
  DEF GatewaySteps, ReportInv, ContainerInv, ToldInv, Parsers, BooksInv, StoryInv, CallAssumption
<1>2. file' = file /\ alive
  BY <1>1, CallStepsKeep DEF GatewaySteps, Kept, ReportInv, reportVars
<1>3. Orderly(file, media) /\ (sip \notin {"closed", "quit"} => Within(file, media, reading))
  BY DEF VideoInv
<1>4. media \in Seq(Lines) BY <1>1, SequencesGrow DEF MediaLines
<1>5. Line("stop", 0) \in Lines /\ ~IsTable(Line("stop", 0))
  <2>1. 0 \in 0..MaxReadings + 1 BY <1>1
  <2>2. QED BY <1>1, <1>2, <2>1, LineTyped DEF Kinds, IsTable
<1>6. Orderly(file, media \o stop)
  <2>1. media \o stop = Append(media, Line("stop", 0)) BY <1>4, <1>5, AppendIsConcat
  <2>2. QED BY <1>3, <1>4, <1>5, <2>1, StopOrderly
<1> HIDE DEF media, stop
\* No table is printed.
<1>7. ASSUME pipe'["Baresip"] = media, reading' = reading,
             sip \in {"closed", "quit"} => sip' \in {"closed", "quit"}
      PROVE  VideoInv'
  BY <1>2, <1>3, <1>7 DEF VideoInv
<1>8. pipe' = pipe => pipe'["Baresip"] = media BY DEF media
<1>9. ASSUME NEW lines, Prints("Baresip", lines) PROVE pipe'["Baresip"] = media \o lines
  BY <1>1, <1>9 DEF Prints, media
<1>10. ASSUME NEW lines, Prints("Event", lines) PROVE pipe'["Baresip"] = media
  BY <1>1, <1>10 DEF Prints, media, Parsers
\* The tables of the end are.
<1>11. ASSUME sip = "up"
       PROVE  Orderly(file, media \o Tables(MaxReadings + 1))
              /\ Orderly(file, media \o (Tables(MaxReadings + 1) \o stop))
  <2>1. Within(file, media, MaxReadings)
    <3>1. \A x \in Tabled : x.at \in 0..MaxReadings + 1 BY DEF Tabled, Lines
    <3>2. Beyond(MaxReadings) \subseteq Beyond(reading) BY <1>1, <3>1 DEF Beyond
    <3>3. Within(file, media, reading) BY <1>3, <1>11
    <3>4. QED BY <3>2, <3>3, SmallerIsFree DEF Within
  <2>2. MaxReadings \in 0..MaxReadings /\ media \in Seq(MediaLines) BY <1>1 DEF media
  <2>3. QED BY <1>1, <1>2, <1>3, <2>1, <2>2, TablesOrderly DEF stop
<1>12. CASE CallComes(FALSE) \/ Presents \/ RecordingEnds \/ Accepts \/ LoopEnds \/ Stopped \/ EndsBrowse
              \/ Exits
  BY <1>7, <1>8, <1>12 DEF CallComes, Presents, RecordingEnds, Accepts, LoopEnds, Stopped, EndsBrowse, Exits
<1>13. CASE Establishes \/ Closes \/ \E b \in BOOLEAN : Answered(b)
  <2>1. sip' = sip /\ reading' = reading BY <1>13 DEF Establishes, Closes, Answered
  <2>2. pipe' = pipe \/ \E l : Prints("Event", <<l>>) BY <1>13 DEF Establishes, Closes, Answered
  <2>3. QED BY <1>7, <1>8, <1>10, <2>1, <2>2
<1>14. CASE Asks
  <2>1. sip = "up" /\ reading' = reading + 1 /\ Prints("Baresip", Tables(reading + 1)) BY <1>14 DEF Asks
  <2>2. pipe'["Baresip"] = media \o Tables(reading + 1) BY <1>9, <2>1
  <2>3. Within(file, media, reading) /\ media \in Seq(MediaLines) BY <1>1, <1>3, <2>1 DEF media
  <2>4. QED BY <1>1, <1>2, <1>3, <2>1, <2>2, <2>3, TablesOrderly DEF VideoInv
<1>15. CASE PeerHangsUp \/ HangsUp
  <2>1. CASE sip = "up"
    <3>1. sip' = "closed" /\ Prints("Baresip", Tables(MaxReadings + 1))
      BY <1>15, <2>1 DEF PeerHangsUp, HangsUp, Closing
    <3>2. pipe'["Baresip"] = media \o Tables(MaxReadings + 1) BY <1>9, <3>1
    <3>3. QED BY <1>2, <1>11, <2>1, <3>1, <3>2 DEF VideoInv
  <2>2. CASE sip # "up"
    <3>1. pipe' = pipe /\ reading' = reading /\ (sip' = sip \/ sip' = "closed")
      BY <1>15, <2>2 DEF PeerHangsUp, HangsUp, Closing
    <3>2. QED BY <1>7, <1>8, <3>1
  <2>3. QED BY <2>1, <2>2
<1>16. CASE Quits
  <2>1. sip' = "quit" /\ reading' = reading BY <1>16 DEF Quits
  <2>2. CASE pipe' = pipe BY <1>7, <1>8, <2>1, <2>2
  <2>3. CASE pipe' # pipe /\ sip = "up"
    <3>1. Prints("Baresip", Tables(MaxReadings + 1) \o stop) BY <1>16, <2>3 DEF Quits, stop
    <3>2. pipe'["Baresip"] = media \o (Tables(MaxReadings + 1) \o stop) BY <1>9, <3>1
    <3>3. QED BY <1>2, <1>11, <2>1, <2>3, <3>2 DEF VideoInv
  <2>4. CASE pipe' # pipe /\ sip # "up"
    <3>1. Prints("Baresip", <<>> \o stop) BY <1>16, <2>4 DEF Quits, stop
    <3>2. <<>> \o stop = stop BY DEF stop
    <3>3. pipe'["Baresip"] = media \o stop BY <1>9, <3>1, <3>2
    <3>4. QED BY <1>2, <1>6, <2>1, <3>3 DEF VideoInv
  <2>5. QED BY <2>2, <2>3, <2>4
<1>17. QED BY <1>1, <1>12, <1>13, <1>14, <1>15, <1>16 DEF CallSteps

LEMMA ParserKeepsVideo ==
  ASSUME ReportInv, BooksInv, VideoInv, NEW p \in Parsers,
         Parses(p) \/ ParsesEnd(p) \/ DatesEnd(p) \/ Pushes(p) \/ PushTimesOut(p) \/ PushEnds(p)
  PROVE  VideoInv'
<1> DEFINE media == pipe["Baresip"]
           event == pipe["Event"]
<1>1. /\ file \in Seq(TrueLines) /\ pipe \in [Parsers -> Seq(TrueLines)]
      /\ event \in Seq(EventLines) /\ media \in Seq(MediaLines)
      /\ ContainerInv /\ MaxReadings \in Nat /\ "Baresip" \in Parsers /\ "Event" \in Parsers
  BY CallAssumption DEF ReportInv, ToldInv, BooksInv, StoryInv, CallAssumption, Parsers
<1>2. file \in Seq(Lines) /\ media \in Seq(Lines) BY <1>1, SequencesGrow DEF TrueLines, MediaLines
<1>3. UNCHANGED <<sip, reading>> /\ alive
  BY DEF Parses, ParsesEnd, DatesEnd, Pushes, PushTimesOut, PushEnds, gatewayVars
<1>4. Orderly(file, media) /\ (sip \notin {"closed", "quit"} => Within(file, media, reading))
  BY DEF VideoInv
<1>5. ASSUME Orderly(file', pipe'["Baresip"]),
             Within(file, media, reading) => Within(file', pipe'["Baresip"], reading)
      PROVE  VideoInv'
  BY <1>3, <1>4, <1>5 DEF VideoInv
\* A record that is no table
<1>6. ASSUME NEW l \in Lines, file' = Append(file, l), ~IsTable(l), pipe'["Baresip"] = media
      PROVE  VideoInv'
  BY <1>2, <1>4, <1>5, <1>6, OthersOrderly
<1>7. ASSUME file' = file, pipe'["Baresip"] = media PROVE VideoInv' BY <1>4, <1>5, <1>7
<1> HIDE DEF media, event
<1>8. CASE (Parses(p) \/ ParsesEnd(p)) /\ p = "Event"
  <2> DEFINE l == Head(event)
  <2>1. /\ event # <<>> /\ pipe' = [pipe EXCEPT !["Event"] = Tail(event)]
        /\ file' = Append(file, l) \/ file' = file
    BY <1>8 DEF Parses, ParsesEnd, event
  <2>2. l \in EventLines BY <1>1, <2>1, HeadTailProperties
  <2>3. l \in Lines /\ ~IsTable(l) BY <2>2 DEF EventLines, IsTable
  <2>4. pipe'["Baresip"] = media BY <1>1, <2>1 DEF media
  <2>5. QED BY <1>6, <1>7, <2>1, <2>3, <2>4
<1>9. CASE (Parses(p) \/ ParsesEnd(p)) /\ p = "Baresip"
  <2>1. /\ media # <<>> /\ pipe' = [pipe EXCEPT !["Baresip"] = Tail(media)]
        /\ file' = Append(file, Head(media)) \/ file' = file
    BY <1>9 DEF Parses, ParsesEnd, media
  <2>2. pipe'["Baresip"] = Tail(media) BY <1>1, <2>1
  <2>3. /\ Orderly(Append(file, Head(media)), Tail(media)) /\ Orderly(file, Tail(media))
        /\ Within(file, media, reading) =>
              Within(Append(file, Head(media)), Tail(media), reading) /\ Within(file, Tail(media), reading)
    BY <1>2, <1>4, <2>1, ParsedOrderly
  <2>4. QED BY <1>5, <2>1, <2>2, <2>3
<1>10. CASE DatesEnd(p)
  <2>1. file' = Append(file, Line("end", 0)) /\ pipe' = pipe BY <1>10 DEF DatesEnd, gatewayVars
  <2>2. Line("end", 0) \in Lines /\ ~IsTable(Line("end", 0))
    <3>1. 0 \in 0..MaxReadings + 1 BY <1>1
    <3>2. QED BY <1>1, <1>3, <3>1, LineTyped DEF Kinds, IsTable
  <2>3. QED BY <1>6, <2>1, <2>2 DEF media
<1>11. CASE Pushes(p) \/ PushTimesOut(p)
  BY <1>7, <1>11 DEF Pushes, PushTimesOut, gatewayVars, media
<1>12. CASE PushEnds(p)
  <2>1. pipe' = pipe /\ (file' = file \/ file' = <<>>) BY <1>12 DEF PushEnds, gatewayVars
  <2>2. Orderly(<<>>, media) BY <1>4, EmptyAfter DEF Orderly
  <2>3. Within(file, media, reading) => Within(<<>>, media, reading) BY EmptyOrder DEF Within
  <2>4. QED BY <1>5, <1>7, <2>1, <2>2, <2>3 DEF media
<1>13. QED BY <1>8, <1>9, <1>10, <1>11, <1>12 DEF Parsers

LEMMA ContainersKeepVideo ==
  ASSUME ReportInv, VideoInv, ReportStarts \/ ParsersDie
  PROVE  VideoInv'
<1>1. CASE ReportStarts
  <2>1. ~alive /\ file' = <<>> /\ pipe' = pipe BY <1>1 DEF ReportStarts, ContainerStarts
  <2>2. pipe'["Baresip"] = <<>> BY <2>1 DEF ReportInv, ToldInv, Parsers
  <2>3. QED BY <2>1, <2>2, NothingPrinted DEF VideoInv
<1>2. CASE ParsersDie
  <2>1. sip' = "quit" /\ file' = file /\ pipe' = [p \in Parsers |-> <<>>]
    BY <1>2 DEF ParsersDie, ContainerEnds, Killed, Dies
  <2>2. pipe'["Baresip"] = <<>> BY <2>1 DEF Parsers
  <2>3. Orderly(file, <<>>) BY EmptyAfter DEF VideoInv, Orderly
  <2>4. QED BY <2>1, <2>2, <2>3 DEF VideoInv
<1>3. QED BY <1>1, <1>2

LEMMA StepKeepsVideo ==
  ASSUME ReportInv, BooksInv, VideoInv, [Next]_vars
  PROVE  VideoInv'
<1>1. ASSUME UNCHANGED gatewayVars, file' = file PROVE VideoInv'
  BY <1>1 DEF VideoInv, gatewayVars
<1>2. CASE UNCHANGED vars BY <1>1, <1>2 DEF vars, reportVars
<1>3. CASE ReportStarts \/ ParsersDie BY <1>3, ContainersKeepVideo
<1>4. CASE GatewaySteps BY <1>4, GatewayKeepsVideo
<1>5. ASSUME NEW p \in Parsers,
             Parses(p) \/ ParsesEnd(p) \/ DatesEnd(p) \/ Pushes(p) \/ PushTimesOut(p) \/ PushEnds(p)
      PROVE  VideoInv'
  BY <1>5, ParserKeepsVideo
<1>6. ASSUME NEW r \in requests, Refused(r) \/ Ingests(r) \/ RequestLost(r) PROVE VideoInv'
  BY <1>1, <1>6 DEF Refused, Ingests, RequestLost
<1>7. QED BY <1>2, <1>3, <1>4, <1>5, <1>6 DEF Next

LEMMA VideoStart ==
  ASSUME GatewayInit, ReportInit
  PROVE  VideoInv
<1>1. file = <<>> /\ pipe["Baresip"] = <<>> BY DEF GatewayInit, ReportInit, Parsers
<1>2. QED BY <1>1, NothingPrinted DEF VideoInv

\* The manager stores the streams of the call and none of a reading, of a
\* history that is in order, has a sample or no reading's table left, or else
\* has all its tables by pairs (logParse.py: buildPayloadFromLines; mapping.py:
\* _videoEntries), for any number of readings and whatever answers are lost.
THEOREM OwnVideoIsStored == Spec => []OwnVideo
<1>1. GatewayInit /\ ReportInit => BooksInv /\ VideoInv BY BooksStart, VideoStart
<1>2. ReportInv /\ BooksInv /\ VideoInv /\ ReportInv' /\ [Next]_vars => BooksInv' /\ VideoInv'
  BY StepKeepsBooks, StepKeepsVideo
<1>3. ReportInv /\ BooksInv /\ VideoInv => OwnVideo BY VideoIsOwn
<1>4. QED BY <1>1, <1>2, <1>3, ToldAsItWas, PTL DEF Spec

-----------------------------------------------------------------------------
(* No gateway stays in a conference without its call: what the proof needs of *)
(* the gateway alone, whose steps the reports follow.                         *)

Has(s, e) == \E i \in DOMAIN s : s[i] = e

\* The part of the types that the argument needs.
SocketTypeOK == sock \in Seq(Events) /\ sip \in SipStates /\ alive \in BOOLEAN

-----------------------------------------------------------------------------
(* What the events on their way say of the call.                             *)

\* Before it is accepted nobody browses, and nobody will.
NotYetBrowsing ==
    sip \in {"idle", "ringing", "foreign"} => browse = "none" /\ ~Has(sock, "CALL_ESTABLISHED")

\* A call that is over has been told of.
ClosedIsTold == sip = "closed" => Ending

\* A thread that is over has hung up.
DoneHangsUp == browse = "done" => Ending \/ "/hangup" \in orders

GuestInv ==
    /\ ~alive => sock = <<>>
    /\ alive /\ app = "baresip" => NotYetBrowsing /\ ClosedIsTold /\ DoneHangsUp

-----------------------------------------------------------------------------
(* Sequences of events. *)

LEMMA AppendHas ==
  ASSUME NEW s \in Seq(Events), NEW e \in Events, NEW x
  PROVE  Append(s, e) \in Seq(Events) /\ (Has(Append(s, e), x) <=> (Has(s, x) \/ x = e))
<1>1. Append(s, e) \in Seq(Events) /\ Len(Append(s, e)) = Len(s) + 1 OBVIOUS
<1>2. \A i \in 1..Len(s) : Append(s, e)[i] = s[i] OBVIOUS
<1>3. Append(s, e)[Len(s) + 1] = e OBVIOUS
<1>4. DOMAIN s = 1..Len(s) /\ DOMAIN Append(s, e) = 1..Len(s) + 1 /\ Len(s) \in Nat BY <1>1
<1>5. QED BY <1>1, <1>2, <1>3, <1>4 DEF Has

LEMMA TailHas ==
  ASSUME NEW s \in Seq(Events), s # <<>>, NEW x
  PROVE  Tail(s) \in Seq(Events) /\ (Has(s, x) <=> (Head(s) = x \/ Has(Tail(s), x)))
<1>1. Tail(s) \in Seq(Events) /\ Len(Tail(s)) = Len(s) - 1 /\ Len(s) \in Nat \ {0} /\ Head(s) = s[1]
  OBVIOUS
<1>2. \A i \in 1..Len(s) - 1 : Tail(s)[i] = s[i + 1] OBVIOUS
<1>3. DOMAIN s = 1..Len(s) /\ DOMAIN Tail(s) = 1..Len(s) - 1 BY <1>1
<1>4. ASSUME Has(s, x) PROVE Head(s) = x \/ Has(Tail(s), x)
  <2>1. PICK i \in 1..Len(s) : s[i] = x BY <1>3, <1>4 DEF Has
  <2>2. CASE i = 1 BY <1>1, <2>1, <2>2
  <2>3. CASE i # 1
    <3>1. i - 1 \in 1..Len(s) - 1 /\ Tail(s)[i - 1] = x BY <1>1, <1>2, <2>1, <2>3
    <3>2. QED BY <1>3, <3>1 DEF Has
  <2>4. QED BY <2>2, <2>3
<1>5. ASSUME Head(s) = x \/ Has(Tail(s), x) PROVE Has(s, x)
  <2>1. CASE Head(s) = x BY <1>1, <1>3, <2>1 DEF Has
  <2>2. CASE Has(Tail(s), x)
    <3>1. PICK i \in 1..Len(s) - 1 : Tail(s)[i] = x BY <1>3, <2>2 DEF Has
    <3>2. i + 1 \in 1..Len(s) /\ s[i + 1] = x BY <1>1, <1>2, <3>1
    <3>3. QED BY <1>3, <3>2 DEF Has
  <2>3. QED BY <1>5, <2>1, <2>2
<1>6. QED BY <1>1, <1>4, <1>5

LEMMA EmptyHasNone == <<>> \in Seq(Events) /\ \A x : ~Has(<<>>, x)
  BY DEF Has

\* Before a step and after it.
LEMMA EndingHas ==
  /\ Ending <=> (handler # "loop" \/ sip = "quit" \/ "/quit" \in orders \/ Has(sock, "CALL_CLOSED"))
  /\ Ending' <=> (handler' # "loop" \/ sip' = "quit" \/ "/quit" \in orders' \/ Has(sock', "CALL_CLOSED"))
  BY DEF Ending, Has

-----------------------------------------------------------------------------
(* What every step does to the socket.                                       *)

LEMMA InitGuest == GatewayInit => SocketTypeOK /\ GuestInv
  BY EmptyHasNone DEF GatewayInit, SocketTypeOK, GuestInv, SipStates

\* An event is sent: Told(e) is what the socket then has.
Told(e) ==
    /\ sock' \in Seq(Events)
    /\ \A x : Has(sock', x) <=> (Has(sock, x) \/ x = e)

LEMMA Sends ==
  ASSUME SocketTypeOK, NEW e \in Events, sock' = Append(sock, e)
  PROVE  Told(e)
  BY AppendHas DEF SocketTypeOK, Told

\* The first event is read.
Heard(e) ==
    /\ sock' \in Seq(Events)
    /\ \A x : Has(sock', x) => Has(sock, x)
    /\ \A x : Has(sock, x) /\ x # e => Has(sock', x)
    /\ Has(sock, e)

LEMMA Receives ==
  ASSUME SocketTypeOK, sock # <<>>, sock' = Tail(sock)
  PROVE  Heard(Head(sock))
  BY TailHas DEF SocketTypeOK, Heard

-----------------------------------------------------------------------------
(* The steps of the SIP client and of the event handler.                     *)

Core == NotYetBrowsing /\ ClosedIsTold /\ DoneHangsUp

\* What the steps without an event leave as it is.
LEMMA SameSocket == ASSUME sock' = sock, NEW x PROVE Has(sock', x) <=> Has(sock, x)
  OBVIOUS

LEMMA ClientKeeps ==
  ASSUME SocketTypeOK, alive, app = "baresip", Core,
         \/ \E f \in BOOLEAN : CallComes(f)
         \/ Presents \/ PeerHangsUp \/ HangsUp \/ Quits \/ RecordingEnds
  PROVE  SocketTypeOK' /\ Core'
<1> USE EndingHas DEF Core, NotYetBrowsing, ClosedIsTold, DoneHangsUp
<1>1. ASSUME NEW f \in BOOLEAN, CallComes(f) PROVE SocketTypeOK' /\ Core'
  <2>1. Told(IF f THEN "FOREIGN_INCOMING" ELSE "CALL_INCOMING")
    BY <1>1, Sends DEF CallComes, Events
  <2>2. QED BY <1>1, <2>1 DEF CallComes, Told, SocketTypeOK, SipStates
<1>2. ASSUME sip \in {"ringing", "up"}, sip' = "closed", Closing, browse' = browse, handler' = handler,
             alive' = alive, orders \ {"/hangup"} \subseteq orders'
      PROVE  SocketTypeOK' /\ Core'
  <2>1. Told("CALL_CLOSED") BY <1>2, Sends DEF Closing, Events
  <2>2. QED BY <1>2, <2>1 DEF Told, SocketTypeOK, SipStates
<1>3. CASE PeerHangsUp BY <1>2, <1>3 DEF PeerHangsUp
<1>4. CASE HangsUp
  <2>1. CASE sip \in {"ringing", "up"} BY <1>2, <1>4, <2>1 DEF HangsUp
  <2>2. CASE sip \notin {"ringing", "up"}
    BY <1>4, <2>2, SameSocket DEF HangsUp, SocketTypeOK, SipStates
  <2>3. QED BY <2>1, <2>2
<1>5. CASE Quits
  <2>1. sip' = "quit" /\ alive' = alive BY <1>5 DEF Quits
  <2>2. sock' = sock \/ Told("CALL_CLOSED") BY <1>5, Sends DEF Quits, Events
  <2>3. QED BY <2>1, <2>2 DEF Told, SocketTypeOK, SipStates
<1>6. CASE Presents \/ RecordingEnds BY <1>6 DEF Presents, RecordingEnds, SocketTypeOK
<1>7. QED BY <1>1, <1>3, <1>4, <1>5, <1>6

LEMMA HandlerKeeps ==
  ASSUME SocketTypeOK, alive, app = "baresip", Core,
         \/ Accepts \/ Refuses \/ Establishes \/ Closes \/ Ignores
         \/ Asks \/ \E b \in BOOLEAN : Answered(b)
         \/ LoopEnds \/ Stopped \/ EndsBrowse \/ Exits
  PROVE  SocketTypeOK' /\ Core'
<1> USE EndingHas DEF Core, NotYetBrowsing, ClosedIsTold, DoneHangsUp
<1>1. ASSUME NEW e \in Events, NEW f \in Events, sock # <<>>, Head(sock) = e,
             sock' = Append(Tail(sock), f)
      PROVE  /\ sock' \in Seq(Events)
             /\ \A x : Has(sock', x) => Has(sock, x) \/ x = f
             /\ \A x : Has(sock, x) /\ x # e => Has(sock', x)
  BY <1>1, TailHas, AppendHas DEF SocketTypeOK
<1>2. CASE Accepts
  <2>1. CASE sip = "ringing"
    <3>1. sock' = Append(Tail(sock), "CALL_ESTABLISHED") /\ sip' = "up" BY <1>2, <2>1 DEF Accepts
    <3>2. QED BY <1>1, <1>2, <2>1, <3>1 DEF Accepts, Events, SocketTypeOK, SipStates
  <2>2. CASE sip # "ringing"
    <3>1. sip' = sip /\ Heard("CALL_INCOMING") BY <1>2, <2>2, Receives DEF Accepts
    <3>2. QED BY <1>2, <3>1 DEF Accepts, Heard, SocketTypeOK
  <2>3. QED BY <2>1, <2>2
<1>3. CASE Refuses
  <2>1. CASE sip = "foreign"
    <3>1. sock' = Append(Tail(sock), "FOREIGN_CLOSED") /\ sip' = "idle" BY <1>3, <2>1 DEF Refuses
    <3>2. QED BY <1>1, <1>3, <2>1, <3>1 DEF Refuses, Events, SocketTypeOK, SipStates
  <2>2. CASE sip # "foreign"
    <3>1. sip' = sip /\ Heard("FOREIGN_INCOMING") BY <1>3, <2>2, Receives DEF Refuses
    <3>2. QED BY <1>3, <3>1 DEF Refuses, Heard, SocketTypeOK
  <2>3. QED BY <2>1, <2>2
<1>4. CASE Establishes
  <2>1. Heard("CALL_ESTABLISHED") BY <1>4, Receives DEF Establishes, Reads
  <2>2. QED BY <1>4, <2>1 DEF Establishes, Reads, Heard, SocketTypeOK
<1>5. CASE Closes
  <2>1. Heard("CALL_CLOSED") BY <1>5, Receives DEF Closes, Reads
  <2>2. sip = "quit" \/ "/quit" \in orders' BY <1>5 DEF Closes
  <2>3. QED BY <1>5, <2>1, <2>2 DEF Closes, Reads, Heard, SocketTypeOK
<1>6. CASE Ignores
  <2>1. Heard("FOREIGN_CLOSED") BY <1>6, Receives DEF Ignores, Reads
  <2>2. QED BY <1>6, <2>1 DEF Ignores, Reads, Heard, SocketTypeOK
<1>7. CASE Asks BY <1>7 DEF Asks, SocketTypeOK
<1>8. ASSUME NEW b \in BOOLEAN, Answered(b) PROVE SocketTypeOK' /\ Core'
  BY <1>8 DEF Answered, SocketTypeOK
<1>9. CASE LoopEnds BY <1>9 DEF LoopEnds, SocketTypeOK
<1>10. CASE Stopped BY <1>10, EmptyHasNone DEF Stopped, SocketTypeOK
<1>11. CASE EndsBrowse BY <1>11 DEF EndsBrowse, SocketTypeOK
<1>12. CASE Exits BY <1>12 DEF Exits, SocketTypeOK
<1>13. QED
  BY <1>2, <1>3, <1>4, <1>5, <1>6, <1>7, <1>8, <1>9, <1>10, <1>11, <1>12

\* The browsing thread only runs once the call was accepted.
LEMMA BrowserKeeps ==
  ASSUME SocketTypeOK, alive, app = "baresip", Core, BrowserSteps
  PROVE  SocketTypeOK' /\ Core'
<1> USE EndingHas DEF Core, NotYetBrowsing, ClosedIsTold, DoneHangsUp, SocketTypeOK
<1>1. /\ UNCHANGED <<sock, sip, alive, handler>> /\ orders \subseteq orders' /\ browse # "none"
      /\ browse' = "done" => sip = "quit" \/ "/hangup" \in orders' \/ browse = "done"
  BY DEF BrowserSteps, MenuEnds, Opens, Attends, Joins, BrowsingFails, ConferenceEnds, Browses, ThreadEnds
<1>2. QED BY <1>1

-----------------------------------------------------------------------------

\* Nothing is on the socket of a container that does not run.
LEMMA ContainersKeep ==
  ASSUME SocketTypeOK, GuestInv, ContainerStarts \/ ContainerEnds \/ Killed
  PROVE  SocketTypeOK' /\ GuestInv'
<1> USE EmptyHasNone, EndingHas
    DEF GuestInv, NotYetBrowsing, ClosedIsTold, DoneHangsUp, SocketTypeOK, SipStates
<1>1. CASE ContainerStarts BY <1>1 DEF ContainerStarts
<1>2. CASE Dies BY <1>2 DEF Dies
<1>3. QED BY <1>1, <1>2 DEF ContainerEnds, Killed

\* In a recording there is nothing to show but the types.
LEMMA OthersTyped ==
  ASSUME SocketTypeOK, alive, CallSteps \/ ForeignSteps \/ BrowserSteps
  PROVE  SocketTypeOK' /\ alive' = alive /\ app' = app
<1> USE DEF SocketTypeOK, SipStates, Events
<1>1. sock \in Seq(Events) /\ (sock # <<>> => Tail(sock) \in Seq(Events)) BY DEF SocketTypeOK
<1>2. ASSUME NEW s \in Seq(Events), NEW e \in Events PROVE Append(s, e) \in Seq(Events) BY <1>2
<1>3. sock' \in Seq(Events)
  <2>1. \/ sock' = sock \/ sock' = <<>>
        \/ \E e \in Events : sock' = Append(sock, e)
        \/ sock # <<>> /\ (sock' = Tail(sock) \/ \E e \in Events : sock' = Append(Tail(sock), e))
    <3>1. CASE CallSteps
      BY <3>1
      DEF CallSteps, CallComes, Presents, PeerHangsUp, HangsUp, Quits, RecordingEnds, Closing, Accepts, Establishes,
          Closes, Reads, Asks, Answered, LoopEnds, Stopped, EndsBrowse, Exits
    <3>2. CASE ForeignSteps BY <3>2 DEF ForeignSteps, CallComes, Refuses, Ignores, Reads
    <3>3. CASE BrowserSteps
      BY <3>3 DEF BrowserSteps, MenuEnds, Opens, Attends, Joins, BrowsingFails, ConferenceEnds
    <3>4. QED BY <3>1, <3>2, <3>3
  <2>2. QED BY <1>1, <1>2, <2>1, EmptyHasNone
<1>4. sip' \in SipStates /\ alive' = alive /\ app' = app
  BY DEF CallSteps, ForeignSteps, BrowserSteps, CallComes, Presents, PeerHangsUp, HangsUp, Quits, RecordingEnds,
      Closing, Accepts, Refuses, Establishes, Closes, Ignores, Reads, Asks, Answered, LoopEnds, Stopped,
      EndsBrowse, Exits, MenuEnds, Opens, Attends, Joins, BrowsingFails, ConferenceEnds
<1>5. QED BY <1>3, <1>4

LEMMA NextGuest == SocketTypeOK /\ GuestInv /\ [GatewayNext]_gatewayVars => SocketTypeOK' /\ GuestInv'
<1> SUFFICES ASSUME SocketTypeOK, GuestInv, [GatewayNext]_gatewayVars
             PROVE  SocketTypeOK' /\ GuestInv'
  OBVIOUS
<1>1. CASE UNCHANGED gatewayVars
  BY <1>1 DEF gatewayVars, SocketTypeOK, GuestInv, NotYetBrowsing, ClosedIsTold, DoneHangsUp, Ending
<1>2. CASE ContainerStarts \/ ContainerEnds \/ Killed BY <1>2, ContainersKeep
<1>3. CASE CallSteps \/ ForeignSteps \/ BrowserSteps
  <2>1. alive
    BY <1>3
    DEF CallSteps, ForeignSteps, BrowserSteps, CallComes, Presents, PeerHangsUp, HangsUp, Quits, RecordingEnds,
        Accepts, Refuses, Establishes, Closes, Ignores, Reads, Asks, Answered, LoopEnds, Stopped,
        EndsBrowse, Exits, MenuEnds, Opens, Attends, Joins, BrowsingFails, ConferenceEnds, Browses
  <2>2. SocketTypeOK' /\ alive' = alive /\ app' = app BY <1>3, <2>1, OthersTyped
  <2>3. CASE app = "baresip"
    <3>1. Core BY <2>1, <2>3 DEF GuestInv, Core
    <3>2. Core'
      BY <1>3, <2>1, <2>3, <3>1, ClientKeeps, HandlerKeeps, BrowserKeeps DEF CallSteps, ForeignSteps
    <3>3. QED BY <2>1, <2>2, <3>2 DEF GuestInv, Core
  <2>4. CASE app # "baresip" BY <2>1, <2>2, <2>4 DEF GuestInv
  <2>5. QED BY <2>3, <2>4
<1>4. QED BY <1>1, <1>2, <1>3 DEF GatewayNext

\* A gateway that browses serves a call that is up, or its end is under way
\* (event_handler.py: CALL_CLOSED, browse).
THEOREM NoGuestIsLeft == GatewaySpec => []NoGuestLeftBehind
<1>1. SocketTypeOK /\ GuestInv => NoGuestLeftBehind
  BY DEF SocketTypeOK, SipStates, GuestInv, NotYetBrowsing, ClosedIsTold, DoneHangsUp,
         NoGuestLeftBehind, Ending
<1>2. QED BY <1>1, InitGuest, NextGuest, PTL DEF GatewaySpec

==============================================================================
