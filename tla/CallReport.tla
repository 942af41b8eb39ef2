----------------------------- MODULE CallReport -----------------------------
(***************************************************************************)
(* The report of a call: two log parsers (src/logParse.py), one on what    *)
(* the event handler prints and one on what the SIP client prints, append  *)
(* records to the one history file of the container; each pushes it to the *)
(* manager when it sees the end of the call, and empties it when the       *)
(* manager has taken it.  The manager (ingest/router.py, mapping.py) keeps *)
(* a row for each call.                                                    *)
(***************************************************************************)
EXTENDS GatewayCall, FiniteSets, SequencesExt

CONSTANT
    Above    \* whether the counters of one stream happen to be above another's

ASSUME ReportAssumption == Above \in BOOLEAN

VARIABLES
    file,      \* the history file, a sequence of records
    push,      \* pushHistory, by parser
    requests,  \* pushes on their way to the manager
    calls      \* the table calls

reportVars == <<file, push, requests, calls>>
vars == <<gatewayVars, reportVars>>

PushStates == {"no", "closing", "reading", "waiting", "accepted", "refused"}

-----------------------------------------------------------------------------
(* buildPayloadFromLines: what the records make of the call. *)

IsTable(record) == record.kind \in {"main", "slides"}
Positions(lines, kind) == {i \in DOMAIN lines : lines[i].kind = kind}

\* The tables are forgotten at each sample, and at the end of the call when
\* there have been samples.
Forgetting(lines) ==
    {i \in DOMAIN lines :
        \/ lines[i].kind = "sample"
        \/ lines[i].kind = "closed" /\ \E j \in 1..(i - 1) : lines[j].kind = "sample"}

\* The k-th of the positions, and the records at them, in their order.
Nth(positions, k) == CHOOSE i \in positions : Cardinality({j \in positions : j <= i}) = k
RecordsAt(lines, positions) == [k \in 1..Cardinality(positions) |-> lines[Nth(positions, k)]]

VideoStreams(lines) ==
    RecordsAt(lines, {i \in DOMAIN lines :
                         IsTable(lines[i]) /\ \A j \in Forgetting(lines) : i > j})

NoCall == 0

\* The first start and the last end count; the Call-ID is that of the end.
Payload(lines) ==
    LET starts == Positions(lines, "start")
        ends == Positions(lines, "closed")
    IN [id |-> IF ends = {} THEN NoCall ELSE lines[Max(ends)].call,
        start |-> IF starts = {} THEN NoCall ELSE lines[Min(starts)].call,
        video |-> VideoStreams(lines),
        samples |-> Cardinality(Positions(lines, "sample"))]

-----------------------------------------------------------------------------
(* The manager. *)

\* looksCumulative: pair after pair, no counter ever decreases.  Those of one
\* stream never do; nothing is known of one stream's against another's.
LooksCumulative(video) ==
    /\ Len(video) >= 4 /\ Len(video) % 2 = 0
    /\ \A i \in 1..(Len(video) - 2) :
          IF video[i].kind = video[i + 2].kind THEN video[i].at <= video[i + 2].at ELSE Above

\* A bug: repeated readings are told by the number of the samples only.
IsRepeatedByCount(video, samples) ==
    Len(video) >= 4 /\ samples > 0 /\ Len(video) >= 2 * samples

\* isRepeated: readings of the same streams rather than streams.
IsRepeated(video, samples) ==
    /\ Len(video) >= 4
    /\ (samples > 0 /\ Len(video) >= 2 * samples) \/ LooksCumulative(video)

\* _videoEntries: of repeated readings, the last pair.
VideoEntries(video, samples) ==
    IF IsRepeated(video, samples) THEN SubSeq(video, Len(video) - 1, Len(video)) ELSE video

\* calls_set_outcome: a call without a start never came up, and is dated by
\* its reception (which no other call shares).
RowFor(payload) ==
    [id |-> payload.id,
     established |-> payload.start # NoCall,
     start |-> IF payload.start # NoCall THEN payload.start
               ELSE MaxContainers + 1 + Cardinality(calls),
     video |-> VideoEntries(payload.video, payload.samples)]

\* A bug: the table has no unique index for the calls that never came up.
ConflictsOnStart(row) == \E r \in calls : r.id = row.id /\ r.start = row.start

\* The unique indexes of the table calls.
Conflicts(row) ==
    \E r \in calls : /\ r.id = row.id
                     /\ r.start = row.start \/ (~r.established /\ ~row.established)

\* INSERT ... ON CONFLICT DO NOTHING
Stores(payload) ==
    calls' = IF Conflicts(RowFor(payload)) THEN calls ELSE calls \cup {RowFor(payload)}

-----------------------------------------------------------------------------

ReportInit == file = <<>> /\ push = [p \in Parsers |-> "no"] /\ requests = {} /\ calls = {}

\* A bug: the container goes on with the history of the one before.
ReportStartsOver ==
    /\ ContainerStarts /\ requests = {}
    /\ push' = [p \in Parsers |-> "no"]
    /\ UNCHANGED <<file, requests, calls>>

\* entrypoint.sh: the history starts again with the container.  (Bound: what
\* the one before posted has been handled.)
ReportStarts ==
    /\ ContainerStarts /\ requests = {}
    /\ file' = <<>> /\ push' = [p \in Parsers |-> "no"]
    /\ UNCHANGED <<requests, calls>>

\* The event handler and the SIP client go on, whatever the parsers do.  Of the
\* browsing thread the report sees but the end of the call, which the peer can
\* bring about as well, and of a call that is refused nothing: these steps are
\* left out.  (Bound: the media statistics are read in the first container only.)
GatewaySteps == CallSteps /\ (reading' # reading => container = 1) /\ UNCHANGED reportVars

\* The parsers end with the container; the file and what is posted remain.
ParsersDie ==
    /\ ContainerEnds \/ Killed
    /\ push' = [p \in Parsers |-> "no"]
    /\ UNCHANGED <<file, requests, calls>>

\* A line that ends nothing becomes a record.
Parses(p) ==
    /\ alive /\ push[p] = "no" /\ pipe[p] # <<>> /\ Head(pipe[p]).kind \notin {"closed", "stop"}
    /\ pipe' = [pipe EXCEPT ![p] = Tail(@)]
    /\ file' = Append(file, Head(pipe[p]))
    /\ UNCHANGED <<app, slides, container, alive, sip, sock, orders, handler, stopped, browse, room,
                   reading, asked, carried, push, requests, calls>>

\* CALL_CLOSED gives two records and the push, the end of the SIP client the
\* second record and the push.
ParsesEnd(p) ==
    /\ alive /\ push[p] = "no" /\ pipe[p] # <<>> /\ Head(pipe[p]).kind \in {"closed", "stop"}
    /\ pipe' = [pipe EXCEPT ![p] = Tail(@)]
    /\ push' = [push EXCEPT ![p] = "closing"]
    /\ file' = IF Head(pipe[p]).kind = "closed" THEN Append(file, Head(pipe[p])) ELSE file
    /\ UNCHANGED <<app, slides, container, alive, sip, sock, orders, handler, stopped, browse, room,
                   reading, asked, carried, requests, calls>>

DatesEnd(p) ==
    /\ alive /\ push[p] = "closing"
    /\ push' = [push EXCEPT ![p] = "reading"]
    /\ file' = Append(file, Line("end", 0))
    /\ UNCHANGED <<gatewayVars, requests, calls>>

\* The file is read (what is appended from now on is not in the payload) and
\* posted.
Pushes(p) ==
    /\ alive /\ push[p] = "reading"
    /\ IF file = <<>>
       THEN push' = [push EXCEPT ![p] = "no"] /\ UNCHANGED requests
       ELSE /\ push' = [push EXCEPT ![p] = "waiting"]
            /\ requests' = requests \cup {[from |-> p, container |-> container,
                                           payload |-> Payload(file)]}
    /\ UNCHANGED <<gatewayVars, file, calls>>

Awaits(p, r) == alive /\ push[p] = "waiting" /\ r.from = p /\ r.container = container

\* The answer finds the parser that waits for it, if it still does.
Answers(r, answer) ==
    push' = IF Awaits(r.from, r) THEN [push EXCEPT ![r.from] = answer] ELSE push

\* ingestCall: a push without Call-ID is refused, the others are stored.
Refused(r) ==
    /\ r \in requests /\ r.payload.id = NoCall
    /\ requests' = requests \ {r} /\ Answers(r, "refused")
    /\ UNCHANGED <<gatewayVars, file, calls>>

\* A bug: a push without Call-ID is stored like the others.
IngestsAll(r) ==
    /\ r \in requests
    /\ requests' = requests \ {r} /\ Answers(r, "accepted")
    /\ Stores(r.payload)
    /\ UNCHANGED <<gatewayVars, file>>

Ingests(r) ==
    /\ r \in requests /\ r.payload.id # NoCall
    /\ requests' = requests \ {r} /\ Answers(r, "accepted")
    /\ Stores(r.payload)
    /\ UNCHANGED <<gatewayVars, file>>

\* The manager is down, or dies before it has stored the call.
RequestLost(r) ==
    /\ r \in requests
    /\ requests' = requests \ {r} /\ Answers(r, "refused")
    /\ UNCHANGED <<gatewayVars, file, calls>>

\* The parser waits no longer; the request may still be stored.
PushTimesOut(p) ==
    /\ alive /\ push[p] = "waiting"
    /\ push' = [push EXCEPT ![p] = "refused"]
    /\ UNCHANGED <<gatewayVars, file, requests, calls>>

\* A bug: the file is emptied whatever the manager has answered.
PushEndsAnyhow(p) ==
    /\ alive /\ push[p] \in {"accepted", "refused"}
    /\ push' = [push EXCEPT ![p] = "no"]
    /\ file' = <<>>
    /\ UNCHANGED <<gatewayVars, requests, calls>>

\* The end of pushHistory: a file that was taken is emptied, as it is now.
PushEnds(p) ==
    /\ alive /\ push[p] \in {"accepted", "refused"}
    /\ push' = [push EXCEPT ![p] = "no"]
    /\ file' = IF push[p] = "accepted" THEN <<>> ELSE file
    /\ UNCHANGED <<gatewayVars, requests, calls>>

Next ==
    \/ ReportStarts \/ GatewaySteps \/ ParsersDie
    \/ \E p \in Parsers : \/ Parses(p) \/ ParsesEnd(p) \/ DatesEnd(p) \/ Pushes(p)
                          \/ PushTimesOut(p) \/ PushEnds(p)
    \/ \E r \in requests : Refused(r) \/ Ingests(r) \/ RequestLost(r)

Spec == GatewayInit /\ ReportInit /\ [][Next]_vars

-----------------------------------------------------------------------------
(* Properties. *)

\* The file, the pushes and the rows are what the parsers and the manager make.
ReportTypeOK ==
    /\ GatewayTypeOK
    /\ file \in Seq(Lines)
    /\ push \in [Parsers -> PushStates]
    /\ \A r \in requests : r.from \in Parsers /\ r.container \in 1..container
    /\ \A r \in calls : r.id \in carried /\ r.established \in BOOLEAN /\ Len(r.video) <= 2 * MaxReadings + 2

\* A call is counted once, whether it came up or not, though both parsers push
\* it, their pushes cross, and an answer may be lost (router.py: replay guard).
\* Nothing of a call is taken for another's: the row has its own start and its
\* own streams, though the containers of a gateway share a file, and a parser
\* empties it while the other appends to it.
CountedOnceAsItWas ==
    \A r \in calls :
        /\ \A s \in calls : r.id = s.id => r = s
        /\ r.established => r.start = r.id
        /\ \A i \in DOMAIN r.video : r.video[i].call = r.id

Tells(lines, c) == \E i \in DOMAIN lines : lines[i].kind = "closed" /\ lines[i].call = c
Counted(c) == \E r \in calls : r.id = c

\* A call whose end is in the history leaves it only for the manager's table,
\* or with its container: a push that is refused, lost or late empties nothing
\* (logParse.py: pushHistory).
KeptUntilCounted ==
    [][\A c \in 1..MaxContainers :
          Tells(file, c) /\ ~Tells(file', c) => Counted(c)' \/ container' # container]_file

\* The streams of the whole call, printed as it ends, and what is left of readings.
ClosingTables(lines) ==
    RecordsAt(lines, {i \in DOMAIN lines : IsTable(lines[i]) /\ lines[i].at = MaxReadings + 1})
Leftovers(lines) == {i \in DOMAIN lines : IsTable(lines[i]) /\ lines[i].at # MaxReadings + 1}

\* The order logParse.py counts on: the readings, then the end of the call, then
\* the tables of the call.
InOrder(lines) ==
    \A i \in Positions(lines, "closed"), j \in DOMAIN lines :
        /\ IsTable(lines[j]) => (j > i <=> lines[j].at = MaxReadings + 1)
        /\ lines[j].kind = "sample" => j < i

\* Every table of the picture is followed by one of the presentation.
ByPairs(video) ==
    /\ Len(video) % 2 = 0
    /\ \A i \in DOMAIN video : video[i].kind = IF i % 2 = 1 THEN "main" ELSE "slides"

\* Of a file in this order, the manager stores the streams of the call and none
\* of a reading: neither of one whose sample was parsed among its tables, nor of
\* those whose answers were lost or cut short by the end of the call, if a later
\* or an earlier one was told, or if all of them show a presentation, though the
\* parser forgets nothing in a call without samples (logParse.py:
\* buildPayloadFromLines; mapping.py: _videoEntries).  On a plain call without
\* a sample the code cannot tell them from streams.
OwnVideo ==
    LET p == Payload(file)
        closing == ClosingTables(file)
    IN  /\ InOrder(file) /\ p.id # NoCall
        /\ \/ p.samples > 0 \/ Leftovers(file) = {}
           \/ Len(closing) = 2 /\ ByPairs(p.video)
        => VideoEntries(p.video, p.samples) = closing

\* What has become of call c.
StatusOf(c) ==
    IF c \notin carried THEN "none"
    ELSE IF Counted(c) THEN "counted"
    ELSE IF \E r \in requests : r.payload.id = c THEN "ended"
    ELSE IF c = container /\ alive
         THEN IF sip \in {"ringing", "up"} THEN "open" ELSE "ended"
    ELSE "lost"

Ledger == INSTANCE CallLedger
              WITH Calls <- 1..MaxContainers, status <- [c \in 1..MaxContainers |-> StatusOf(c)]

\* The reports keep the ledger of the calls: counted at most once, after the
\* end, and never once given up.
KeepsLedger == Ledger!LedgerSpec

=============================================================================
