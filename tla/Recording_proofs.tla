---------------------------- MODULE Recording_proofs ----------------------------
(***************************************************************************)
(* What recipients can download is whole, a recording is lost only in the  *)
(* ways that are listed, and its transcript says things when they were     *)
(* said, for any number of starts, segments, chunks and faults.            *)
(***************************************************************************)
EXTENDS Recording, FiniteSetTheorems, WellFoundedInduction, TLAPS

-----------------------------------------------------------------------------
(* The inductive invariants. *)

\* The whole of the recording is at the server.
Whole ==
    /\ transfer.received["video"] = VideoChunks
    /\ transcript => transfer.received["subtitles"] = 1

\* The upload knows where the server is: chunks are sent in their order, the
\* subtitles after the video, the end after both.
UploadInv ==
    /\ doing = "sending" =>
         /\ transfer.state = "open"
         /\ transfer.received[upload.file] = upload.chunk
         /\ IF upload.file = "subtitles" THEN transfer.received["video"] = VideoChunks
            ELSE transfer.received["subtitles"] = 0
    /\ doing = "closing" => transfer.state = "open" /\ Whole
    /\ transfer.state = "complete" => Whole
    /\ doing = "removing" => transfer.state \in {"complete", "deleted"}

\* A segment waits for its tag only as long as segments are transcribed.
PendingInv == doing \notin {"idle", "transcribing"} => pending = 0

\* Nothing is recorded before the first start, and the watchers are those of the
\* starts.
BeginningInv ==
    /\ \A k \in 1..MaxStarts : k > start => watch[k] = "none"
    /\ start = 0 => ~Recorded /\ mode = "exited"

\* The watcher of a recording waits as long as it goes on.  Who has been told of
\* it meanwhile and yet takes it for over has been misled by the transcription
\* service: the entry, the answer on its way, a caller.
WatcherInv ==
    start > 0 /\ watch[start] = "waiting" =>
        /\ mode # "exited"
        /\ mode = "recording" /\ ~transcript =>
             /\ told => entry \notin {"created", "stopped"}
             /\ poll.fresh => poll.answer # "stopped"
             /\ \A c \in Callers : starting[c].pc = "picked" => ~starting[c].told

\* Segments are transcribed, merged and removed as long as there are any; what
\* records has merged none.
SegmentsInv ==
    /\ doing \in {"transcribing", "merging", "clearing"} => segments # <<>>
    /\ mode = "recording" => merged = 0

\* An entry that is not there tells nothing.
ForgottenInv == entry = "absent" => ~told

LossInv == ForgottenInv /\ BeginningInv /\ WatcherInv /\ SegmentsInv

RecordingInv == RecordingTypeOK /\ UploadInv /\ PendingInv /\ LossInv

-----------------------------------------------------------------------------
(* What the proxy and its callers do among themselves: nothing but their own  *)
(* variables changes, and the count of what failed.                           *)

ProxySteps ==
    \/ \E c \in Callers : Picks(c) \/ Marks(c) \/ Fails(c)
    \/ Polls \/ Stores \/ PollFails \/ Registers

LEMMA ProxyOnly ==
  ProxySteps => /\ UNCHANGED <<transcript, audioOnly, service, start, mode, watch, disk, work, outcome>>
                /\ faults' = faults \/ (faults < MaxFaults /\ faults' = faults + 1)
  BY DEF ProxySteps, Picks, Marks, Fails, Polls, Stores, PollFails, Registers

-----------------------------------------------------------------------------
(* Types. *)

\* The oldest segment is one of those that are not processed.
LEMMA OldestIsThere ==
  ASSUME RecordingTypeOK, Unprocessed # {}
  PROVE  Oldest \in 1..Len(segments) /\ Oldest \in 1..MaxSegments
<1>1. Unprocessed \subseteq 1..Len(segments) BY DEF Unprocessed, RecordingTypeOK
<1>2. Len(segments) \in Nat BY DEF RecordingTypeOK
<1>3. PICK i \in Unprocessed : \A j \in Unprocessed : ~(<<j, i>> \in OpToRel(<, Nat))
  <2>1. Unprocessed \subseteq Nat BY <1>1, <1>2
  <2>2. QED BY ONLY <2>1, NatLessThanWellFounded, WFMin, Unprocessed # {}, Zenon
<1>4. \A j \in Unprocessed : i <= j
  <2>1. OpToRel(<, Nat) = {ss \in Nat \X Nat : ss[1] < ss[2]} BY DEF OpToRel
  <2>2. \A j \in Unprocessed : j < i => <<j, i>> \in {ss \in Nat \X Nat : ss[1] < ss[2]}
    BY <1>1, <1>2
  <2>3. \A j \in Unprocessed : ~(j < i) BY <1>3, <2>1, <2>2, Zenon
  <2>4. QED BY <1>1, <1>2, <2>3
<1>5. Oldest \in Unprocessed BY <1>4 DEF Oldest
<1>6. QED BY <1>1, <1>2, <1>5, RecordingAssumption DEF RecordingAssumption, RecordingTypeOK

\* What is done to one segment leaves the sequence as long as it is.
LEMMA SegmentsKept ==
  ASSUME RecordingTypeOK, NEW i,
         \/ segments' = [segments EXCEPT ![i].text = TRUE]
         \/ segments' = [segments EXCEPT ![i].processed = TRUE]
  PROVE  segments' \in Seq(Segment) /\ Len(segments') = Len(segments)
<1>1. segments \in [1..Len(segments) -> Segment] /\ Len(segments) \in Nat BY DEF RecordingTypeOK
<1>2. segments' \in [1..Len(segments) -> Segment] BY <1>1 DEF Segment
<1>3. QED BY <1>1, <1>2

LEMMA OffsetsTyped ==
  ASSUME RecordingTypeOK
  PROVE  /\ Subtitles(Texts) \subseteq [segment : 1..MaxSegments, offset : Nat]
         /\ Texts \subseteq 1..MaxSegments
<1>1. Len(segments) \in Nat /\ DOMAIN segments = 1..Len(segments) BY DEF RecordingTypeOK
<1>2. Texts \subseteq 1..Len(segments) BY <1>1 DEF Texts
<1>3. ASSUME NEW i \in Texts PROVE OffsetOf(i) \in Nat
  <2>1. IsFiniteSet(1..Len(segments)) BY <1>1, FS_Interval
  <2>2. IsFiniteSet({j \in Texts : j < i}) BY <1>2, <2>1, FS_Subset
  <2>3. QED BY <2>2, FS_CardinalityType DEF OffsetOf
<1>4. 1..Len(segments) \subseteq 1..MaxSegments
  BY <1>1, RecordingAssumption DEF RecordingAssumption, RecordingTypeOK
<1>5. \A i \in Texts : [segment |-> i, offset |-> OffsetOf(i)] \in [segment : 1..MaxSegments, offset : Nat]
  BY ONLY <1>2, <1>3, <1>4
<1>6. QED BY ONLY <1>2, <1>4, <1>5 DEF Subtitles

LEMMA InitTyped == Init => RecordingTypeOK
<1> SUFFICES ASSUME Init PROVE RecordingTypeOK OBVIOUS
<1>1. NoTransfer \in Transfers /\ NoUpload \in [file : Files, chunk : Nat]
  BY DEF NoTransfer, NoUpload, Transfers, Files
<1>2. <<>> \in Seq(Segment) /\ Len(<<>>) = 0 OBVIOUS
<1>3. \A f \in Files : NoTransfer.received[f] <= Size(f)
  BY RecordingAssumption DEF NoTransfer, Size, RecordingAssumption
<1>4. watch \in [1..MaxStarts -> WatchStates] BY DEF Init, WatchStates
<1>5. /\ segments \in Seq(Segment) /\ Len(segments) = 0
      /\ upload \in [file : Files, chunk : Nat] /\ transfer \in Transfers
      /\ \A f \in Files : transfer.received[f] <= Size(f)
  BY <1>1, <1>2, <1>3 DEF Init
<1>6. /\ transcript \in BOOLEAN /\ audioOnly \in BOOLEAN /\ service \in BOOLEAN /\ halted \in BOOLEAN
      /\ told \in BOOLEAN
  BY DEF Init
<1>7. /\ poll \in [answer : {"started", "stopped"}, fresh : BOOLEAN] \cup {NoPoll}
      /\ starting \in [Callers -> [pc : {"idle", "picked", "launched"}, told : BOOLEAN]]
  BY DEF Init, NoPoll, Idle
<1>8. QED
  BY <1>4, <1>5, <1>6, <1>7, RecordingAssumption
  DEF Init, RecordingTypeOK, RecordingAssumption, Modes, Steps

LEMMA WatchesTyped == RecordingTypeOK => Noticed \in [1..MaxStarts -> WatchStates]
  BY DEF RecordingTypeOK, Noticed, WatchStates

\* An answer that is overtaken is still one.
LEMMA Overtaken ==
  ASSUME NEW p \in [answer : {"started", "stopped"}, fresh : BOOLEAN] \cup {NoPoll}
  PROVE  [answer |-> p.answer, fresh |-> FALSE] \in [answer : {"started", "stopped"}, fresh : BOOLEAN] \cup {NoPoll}
<1>1. CASE p \in [answer : {"started", "stopped"}, fresh : BOOLEAN] BY <1>1
<1>2. CASE p = NoPoll
  <2>1. [answer |-> NoPoll.answer, fresh |-> FALSE] = NoPoll BY DEF NoPoll
  <2>2. QED BY <1>2, <2>1
<1>3. QED BY <1>1, <1>2

LEMMA ProxyTyped ==
  ASSUME RecordingTypeOK, ProxySteps
  PROVE  /\ entry' \in {"absent", "created", "started", "stopped", "deleted"} /\ told' \in BOOLEAN
         /\ poll' \in [answer : {"started", "stopped"}, fresh : BOOLEAN] \cup {NoPoll}
         /\ starting' \in [Callers -> [pc : {"idle", "picked", "launched"}, told : BOOLEAN]]
<1> DEFINE Goal ==
      /\ entry' \in {"absent", "created", "started", "stopped", "deleted"} /\ told' \in BOOLEAN
      /\ poll' \in [answer : {"started", "stopped"}, fresh : BOOLEAN] \cup {NoPoll}
      /\ starting' \in [Callers -> [pc : {"idle", "picked", "launched"}, told : BOOLEAN]]
<1> USE DEF NoPoll, Idle
<1>0. /\ entry \in {"absent", "created", "started", "stopped", "deleted"} /\ told \in BOOLEAN
      /\ poll \in [answer : {"started", "stopped"}, fresh : BOOLEAN] \cup {NoPoll}
      /\ starting \in [Callers -> [pc : {"idle", "picked", "launched"}, told : BOOLEAN]]
  BY DEF RecordingTypeOK
<1>1. ASSUME NEW c \in Callers, Picks(c) PROVE Goal BY <1>0, <1>1 DEF Picks
<1>2. ASSUME NEW c \in Callers, Marks(c) PROVE Goal BY <1>0, <1>2 DEF Marks
<1>3. ASSUME NEW c \in Callers, Fails(c) PROVE Goal BY <1>0, <1>3 DEF Fails
<1>4. CASE Polls BY <1>0, <1>4 DEF Polls, Reported
<1>5. CASE Stores BY <1>0, <1>5 DEF Stores
<1>6. CASE PollFails BY <1>0, <1>6 DEF PollFails
<1>7. CASE Registers BY <1>0, <1>7 DEF Registers
<1>8. QED BY <1>1, <1>2, <1>3, <1>4, <1>5, <1>6, <1>7 DEF ProxySteps

\* The container's steps, and the watcher's.
LEMMA ContainerTyped ==
  ASSUME RecordingTypeOK,
         (\E c \in Callers : Launches(c)) \/ ProxySteps
           \/ Stops \/ RecordingEnds \/ ServiceDies \/ \E k \in 1..MaxStarts : Watches(k)
  PROVE  RecordingTypeOK'
<1> USE RecordingAssumption DEF RecordingTypeOK, RecordingAssumption, container, proxy, disk, work, outcome
<1>0. NoUpload \in [file : Files, chunk : Nat] /\ NoTransfer \in Transfers
      /\ \A f \in Files : NoTransfer.received[f] <= Size(f)
  BY DEF NoUpload, NoTransfer, Transfers, Files, Size
<1>1. ASSUME NEW c \in Callers, Launches(c) PROVE RecordingTypeOK'
  <2>1. watch' \in [1..MaxStarts -> WatchStates] BY <1>1, WatchesTyped DEF Launches, WatchStates
  <2>2. start' \in 0..MaxStarts BY <1>1 DEF Launches
  <2>3. segments' \in Seq(Segment) /\ Len(segments') = 0 BY <1>1 DEF Launches
  <2>4. /\ transcript' \in BOOLEAN /\ audioOnly' \in BOOLEAN /\ service' \in BOOLEAN
        /\ halted' \in BOOLEAN /\ told' \in BOOLEAN
    BY <1>1 DEF Launches
  <2>5. /\ poll' \in [answer : {"started", "stopped"}, fresh : BOOLEAN] \cup {NoPoll}
        /\ starting' \in [Callers -> [pc : {"idle", "picked", "launched"}, told : BOOLEAN]]
    <3>1. poll' = [answer |-> poll.answer, fresh |-> FALSE] BY ONLY <1>1, Zenon DEF Launches
    <3>2. poll \in [answer : {"started", "stopped"}, fresh : BOOLEAN] \cup {NoPoll} OBVIOUS
    <3>3. poll' \in [answer : {"started", "stopped"}, fresh : BOOLEAN] \cup {NoPoll}
      BY ONLY <3>1, <3>2, Overtaken
    <3>4. QED BY <1>1, <3>3 DEF Launches
  <2>6. QED BY <1>0, <1>1, <2>1, <2>2, <2>3, <2>4, <2>5 DEF Launches, Modes, Steps
<1>2. CASE ProxySteps
  <2>1. faults \in 0..MaxFaults /\ MaxFaults \in Nat OBVIOUS
  <2>2. faults' = faults \/ (faults < MaxFaults /\ faults' = faults + 1) BY ONLY <1>2, ProxyOnly
  <2>3. faults' \in 0..MaxFaults BY ONLY <2>1, <2>2
  <2>4. UNCHANGED <<transcript, audioOnly, service, start, mode, watch, disk, work, outcome>>
    BY ONLY <1>2, ProxyOnly
  <2>5. QED BY <1>2, <2>3, <2>4, ProxyTyped
<1>3. CASE Stops
  <2>1. watch' \in [1..MaxStarts -> WatchStates] BY <1>3, WatchesTyped DEF Stops, Exits
  <2>2. mode' \in Modes BY <1>3 DEF Stops, Exits, Modes
  <2>3. pending' \in 0..Len(segments') /\ upload' \in [file : Files, chunk : Nat]
    BY <1>0, <1>3 DEF Stops, Exits
  <2>4. doing' \in Steps /\ (doing' # "idle" => mode' = "processing")
    BY <1>3 DEF Stops, Exits, Steps
  <2>5. halted' \in BOOLEAN /\ entry' = "deleted" BY <1>3 DEF Stops
  <2>6. UNCHANGED <<transcript, audioOnly, service, start, told, poll, starting, disk, transfer, logs,
                    unanswered, faults>>
    BY <1>3 DEF Stops
  <2>7. QED BY <2>1, <2>2, <2>3, <2>4, <2>5, <2>6
<1>4. CASE RecordingEnds BY <1>0, <1>4, WatchesTyped DEF RecordingEnds, Exits, Modes, Steps
<1>5. CASE ServiceDies
  <2>1. service' = FALSE /\ faults < MaxFaults /\ faults' = faults + 1
    BY ONLY <1>5, Zenon DEF ServiceDies
  <2>2. faults \in 0..MaxFaults /\ MaxFaults \in Nat OBVIOUS
  <2>3. faults' \in 0..MaxFaults BY ONLY <2>1, <2>2
  <2>4. service' \in BOOLEAN BY ONLY <2>1
  <2>5. UNCHANGED <<transcript, audioOnly, start, mode, watch, proxy, disk, work, outcome>>
    BY <1>5 DEF ServiceDies
  <2>6. QED BY <2>3, <2>4, <2>5
<1>6. ASSUME NEW k \in 1..MaxStarts, Watches(k) PROVE RecordingTypeOK'
  <2>1. CASE Revives(k) BY <2>1 DEF Revives, WatchStates
  <2>2. CASE Restarts(k)
    <3>1. watch' \in [1..MaxStarts -> WatchStates] BY <2>2, WatchesTyped DEF Restarts, WatchStates
    <3>2. mode' \in Modes /\ doing' \in Steps /\ (doing' # "idle" => mode' = "processing")
      BY <2>2 DEF Restarts, Begins, Modes, Steps
    <3>3. subtitles' \in {subtitles, {}} BY <2>2 DEF Restarts, Begins
    <3>4. pending' = 0 /\ upload' = NoUpload
          /\ UNCHANGED <<transcript, audioOnly, service, start, proxy, segments, merged, unread, outcome, faults>>
      BY <2>2 DEF Restarts
    <3>5. QED BY <1>0, <3>1, <3>2, <3>3, <3>4
  <2>3. CASE StopsService(k) BY <2>3 DEF StopsService, WatchStates
  <2>4. QED BY <1>6, <2>1, <2>2, <2>3 DEF Watches
<1>7. QED BY <1>1, <1>2, <1>3, <1>4, <1>5, <1>6

\* Segments, transcription and what becomes of them.
LEMMA SegmentsTyped ==
  ASSUME RecordingTypeOK, PendingInv,
         \/ Segments \/ Writes \/ GivesUp \/ Tags \/ Assembles \/ Merges \/ Clears
         \/ Removes \/ Keeps \/ FindsNothing
  PROVE  RecordingTypeOK'
<1> USE RecordingAssumption DEF RecordingTypeOK, RecordingAssumption, container, proxy, disk, work, outcome
<1>0. /\ NoUpload \in [file : Files, chunk : Nat]
      /\ Len(segments) \in Nat /\ 1..Len(segments) \subseteq 1..MaxSegments
  BY DEF NoUpload, Files
<1>a. Transcribable => Oldest \in 1..Len(segments) /\ Oldest \in 1..MaxSegments
  <2>1. Transcribable => Unprocessed # {}
    <3>1. Cardinality({}) = 0 BY FS_EmptySet
    <3>2. SUFFICES ASSUME Transcribable, Unprocessed = {} PROVE FALSE OBVIOUS
    <3>3. Cardinality(Unprocessed) >= 2 BY ONLY <3>2, Zenon DEF Transcribable
    <3>4. QED BY ONLY <3>1, <3>2, <3>3
  <2>2. QED BY <2>1, OldestIsThere
<1>1. CASE Segments
  <2>1. [text |-> FALSE, processed |-> FALSE] \in Segment BY DEF Segment
  <2>2. segments' \in Seq(Segment) /\ Len(segments') = Len(segments) + 1 BY <1>1, <2>1 DEF Segments
  <2>3. Len(segments) + 1 <= MaxSegments BY <1>0, <1>1 DEF Segments
  <2>4. QED BY <1>0, <1>1, <2>2, <2>3 DEF Segments
<1>2. CASE Writes
  <2>1. segments' \in Seq(Segment) /\ Len(segments') = Len(segments) BY <1>2, SegmentsKept DEF Writes
  <2>2. pending' \in 0..Len(segments) /\ unanswered' \subseteq 1..MaxSegments BY <1>0, <1>a, <1>2 DEF Writes
  <2>3. QED BY <1>2, <2>1, <2>2 DEF Writes
<1>3. CASE GivesUp
  <2>1. Transcribable /\ pending' = Oldest /\ unanswered' = unanswered \cup {Oldest}
    BY ONLY <1>3, Zenon DEF GivesUp
  <2>2. unanswered \subseteq 1..MaxSegments OBVIOUS
  <2>3. pending' \in 0..Len(segments) BY ONLY <1>0, <1>a, <2>1
  <2>4. unanswered' \subseteq 1..MaxSegments BY ONLY <1>a, <2>1, <2>2
  <2>5. faults' \in 0..MaxFaults BY <1>3 DEF GivesUp
  <2>6. QED BY <1>3, <2>3, <2>4, <2>5 DEF GivesUp
<1>4. CASE Tags
  <2>1. segments' \in Seq(Segment) /\ Len(segments') = Len(segments) BY <1>4, SegmentsKept DEF Tags
  <2>2. QED BY <1>0, <1>4, <2>1 DEF Tags
<1>5. CASE Assembles
  <2>1. ASSUME NEW i \in Texts, BreaksOff(i)
        PROVE  /\ subtitles' \subseteq [segment : 1..MaxSegments, offset : Nat]
               /\ unread' \in 0..MaxSegments /\ faults' \in 0..MaxFaults
    BY <2>1, OffsetsTyped DEF BreaksOff, Subtitles
  <2>2. /\ subtitles' \subseteq [segment : 1..MaxSegments, offset : Nat]
        /\ unread' \in 0..MaxSegments /\ faults' \in 0..MaxFaults
    BY <1>5, <2>1, OffsetsTyped DEF Assembles
  <2>3. QED BY <1>5, <2>2 DEF Assembles, Steps
<1>6. CASE Merges BY <1>0, <1>6 DEF Merges, Steps
<1>7. CASE Clears
  <2>1. segments' \in Seq(Segment) /\ Len(segments') = 0 BY <1>7 DEF Clears
  <2>2. pending' = 0 BY <1>7 DEF Clears, PendingInv
  <2>3. QED BY <1>7, <2>1, <2>2 DEF Clears, Steps
<1>8. CASE Removes BY <1>0, <1>8, WatchesTyped DEF Removes, Exits, Modes, Steps
<1>9. CASE Keeps BY <1>0, <1>9, WatchesTyped DEF Keeps, Exits, Modes, Steps
<1>10. CASE FindsNothing BY <1>0, <1>10, WatchesTyped DEF FindsNothing, Exits, Modes, Steps
<1>11. QED BY <1>1, <1>2, <1>3, <1>4, <1>5, <1>6, <1>7, <1>8, <1>9, <1>10

\* A request changes the transfer as it is meant to, or not at all.
LEMMA AsksTyped ==
  ASSUME RecordingTypeOK, NEW effect \in Transfers, \A f \in Files : effect.received[f] <= Size(f),
         NEW next \in Steps, NEW otherwise \in Steps, mode = "processing",
         Asks(effect, next, otherwise), Unmoved, upload' \in [file : Files, chunk : Nat]
  PROVE  RecordingTypeOK'
<1>1. faults' \in 0..MaxFaults
  BY RecordingAssumption DEF Asks, Unmoved, RecordingTypeOK, RecordingAssumption
<1>2. transfer' \in {transfer, effect} /\ doing' \in Steps BY DEF Asks
<1>3. QED BY <1>1, <1>2 DEF Unmoved, RecordingTypeOK, container, proxy, disk

LEMMA UploadsTyped == RecordingTypeOK /\ Uploads => RecordingTypeOK'
<1> SUFFICES ASSUME RecordingTypeOK, Uploads PROVE RecordingTypeOK' OBVIOUS
<1>0. /\ upload \in [file : Files, chunk : Nat] /\ transfer \in Transfers
      /\ \A f \in Files : transfer.received[f] <= Size(f) /\ Size(f) \in Nat
      /\ doing # "idle" => mode = "processing"
  BY RecordingAssumption DEF RecordingTypeOK, RecordingAssumption, Size
<1>1. CASE Posts
  <2> DEFINE effect == [state |-> "open", received |-> [f \in Files |-> 0]]
  <2>1. effect \in Transfers /\ \A f \in Files : effect.received[f] <= Size(f) BY <1>0 DEF Transfers
  <2>2. NoUpload \in [file : Files, chunk : Nat] BY DEF NoUpload, Files
  <2>3. QED BY <1>0, <1>1, <2>1, <2>2, AsksTyped DEF Posts, Steps
<1>2. CASE SendsChunk
  <2> DEFINE effect == [transfer EXCEPT !.received[upload.file] = upload.chunk + 1]
  <2>1. effect \in Transfers /\ \A f \in Files : effect.received[f] <= Size(f)
    BY <1>0, <1>2 DEF Transfers, SendsChunk, HasMore
  <2>2. upload' \in [file : Files, chunk : Nat] BY <1>0, <1>2 DEF SendsChunk
  <2>3. QED BY <1>0, <1>2, <2>1, <2>2, AsksTyped DEF SendsChunk, Steps
<1>3. CASE CompletesFile
  <2>1. upload' \in [file : Files, chunk : Nat] BY <1>0, <1>3 DEF CompletesFile, Files
  <2>2. QED BY <1>0, <1>3, <2>1, AsksTyped DEF CompletesFile, Steps
<1>4. CASE CompletesTransfer
  <2> DEFINE effect == [transfer EXCEPT !.state = "complete"]
  <2>1. effect \in Transfers /\ effect.received = transfer.received BY <1>0 DEF Transfers
  <2>2. QED BY <1>0, <1>4, <2>1, AsksTyped DEF CompletesTransfer, Steps
<1>5. CASE DeletesTransfer
  <2> DEFINE effect == [transfer EXCEPT !.state = "deleted"]
  <2>1. effect \in Transfers /\ effect.received = transfer.received BY <1>0 DEF Transfers
  <2>2. QED BY <1>0, <1>5, <2>1, AsksTyped DEF DeletesTransfer, Steps
<1>6. QED BY <1>1, <1>2, <1>3, <1>4, <1>5 DEF Uploads

LEMMA StepTyped == RecordingTypeOK /\ PendingInv /\ [Next]_vars => RecordingTypeOK'
<1> SUFFICES ASSUME RecordingTypeOK, PendingInv, [Next]_vars PROVE RecordingTypeOK' OBVIOUS
<1>1. CASE UNCHANGED vars
  BY <1>1 DEF vars, container, proxy, disk, work, outcome, RecordingTypeOK
<1>2. CASE Next BY <1>2, ContainerTyped, SegmentsTyped, UploadsTyped DEF Next, Processes, ProxySteps
<1>3. QED BY <1>1, <1>2

-----------------------------------------------------------------------------
(* What is at the server. *)

\* Whatever leaves the server alone, and the step of the processing or takes it
\* to one before the upload, keeps what is known of it.
LEMMA UploadLeftAlone ==
  ASSUME UploadInv, transcript' = transcript, transfer' = transfer,
         \/ doing' = doing /\ upload' = upload
         \/ doing' \in {"idle", "transcribing", "merging", "clearing", "posting", "missing"}
  PROVE  UploadInv'
  BY DEF UploadInv, Whole

LEMMA UploadsKept ==
  ASSUME RecordingTypeOK, UploadInv, Uploads
  PROVE  UploadInv'
<1>0. /\ upload \in [file : Files, chunk : Nat] /\ transfer \in Transfers
      /\ transfer.received[upload.file] <= Size(upload.file)
      /\ VideoChunks \in Nat \ {0} /\ Size(upload.file) \in Nat
  BY RecordingAssumption DEF RecordingTypeOK, RecordingAssumption, Size, Files
<1>1. CASE Posts BY <1>1 DEF Posts, Asks, Unmoved, NoUpload, UploadInv, Whole, Files
<1>2. CASE SendsChunk
  <2> DEFINE effect == [transfer EXCEPT !.received[upload.file] = upload.chunk + 1]
  <2>1. /\ effect.state = "open" /\ effect.received[upload.file] = upload.chunk + 1
        /\ IF upload.file = "subtitles" THEN effect.received["video"] = VideoChunks
           ELSE effect.received["subtitles"] = 0
    BY <1>0, <1>2 DEF SendsChunk, UploadInv, Transfers, Files
  <2>2. upload'.file = upload.file /\ upload'.chunk = upload.chunk + 1 /\ transcript' = transcript
    BY <1>0, <1>2 DEF SendsChunk, Unmoved
  <2>3. \/ transfer' = effect /\ doing' = "sending"
        \/ transfer' \in {transfer, effect} /\ doing' = "cleaning"
    BY <1>2 DEF SendsChunk, Asks
  <2>4. transfer.state = "open" BY <1>2 DEF SendsChunk, UploadInv
  <2>5. QED BY <2>1, <2>2, <2>3, <2>4 DEF UploadInv
<1>3. CASE CompletesFile
  <2>1. transfer' = transfer /\ transcript' = transcript BY <1>3 DEF CompletesFile, Asks, Unmoved
  <2>2. transfer.received[upload.file] = Size(upload.file) /\ transfer.state = "open"
    <3>1. transfer.received[upload.file] = upload.chunk /\ transfer.state = "open" /\ ~HasMore
      BY <1>3 DEF CompletesFile, UploadInv
    <3>2. QED BY <1>0, <3>1 DEF HasMore
  <2>3. IF upload.file = "subtitles" THEN transfer.received["video"] = VideoChunks
        ELSE transfer.received["subtitles"] = 0
    BY <1>3 DEF CompletesFile, UploadInv
  <2>4. CASE upload.file = "subtitles" \/ ~transcript
    BY <1>0, <1>3, <2>1, <2>2, <2>3, <2>4 DEF CompletesFile, Asks, UploadInv, Whole, Size, Files
  <2>5. CASE ~(upload.file = "subtitles" \/ ~transcript)
    BY <1>0, <1>3, <2>1, <2>2, <2>3, <2>5 DEF CompletesFile, Asks, UploadInv, Whole, Size, Files
  <2>6. QED BY <2>4, <2>5
<1>4. CASE CompletesTransfer
  BY <1>0, <1>4 DEF CompletesTransfer, Asks, Unmoved, UploadInv, Whole, Transfers
<1>5. CASE DeletesTransfer
  BY <1>0, <1>5 DEF DeletesTransfer, Asks, Unmoved, UploadInv, Whole, Transfers
<1>6. QED BY <1>1, <1>2, <1>3, <1>4, <1>5 DEF Uploads

LEMMA ContainerUpload ==
  ASSUME UploadInv,
         (\E c \in Callers : Launches(c)) \/ ProxySteps
           \/ Stops \/ RecordingEnds \/ ServiceDies \/ \E k \in 1..MaxStarts : Watches(k)
  PROVE  UploadInv'
<1> USE DEF container, proxy, disk, work, outcome
<1>1. ASSUME NEW c \in Callers, Launches(c) PROVE UploadInv'
  BY <1>1 DEF Launches, NoTransfer, UploadInv, Whole
<1>2. CASE ProxySteps BY <1>2, ProxyOnly, UploadLeftAlone
<1>3. CASE Stops BY <1>3, UploadLeftAlone DEF Stops, Exits
<1>4. CASE RecordingEnds BY <1>4, UploadLeftAlone DEF RecordingEnds, Exits
<1>5. CASE ServiceDies BY <1>5, UploadLeftAlone DEF ServiceDies
<1>6. ASSUME NEW k \in 1..MaxStarts, Watches(k) PROVE UploadInv'
  <2>1. CASE Revives(k) BY <2>1, UploadLeftAlone DEF Revives
  <2>2. CASE Restarts(k) BY <2>2, UploadLeftAlone DEF Restarts, Begins
  <2>3. CASE StopsService(k) BY <2>3, UploadLeftAlone DEF StopsService
  <2>4. QED BY <1>6, <2>1, <2>2, <2>3 DEF Watches
<1>7. QED BY <1>1, <1>2, <1>3, <1>4, <1>5, <1>6

LEMMA SegmentsUpload ==
  ASSUME UploadInv,
         \/ Segments \/ Writes \/ GivesUp \/ Tags \/ Assembles \/ Merges \/ Clears
         \/ Removes \/ Keeps \/ FindsNothing
  PROVE  UploadInv'
<1> USE DEF container, proxy, disk, work, outcome
<1>1. CASE Segments BY <1>1, UploadLeftAlone DEF Segments
<1>2. CASE Writes BY <1>2, UploadLeftAlone DEF Writes
<1>3. CASE GivesUp BY <1>3, UploadLeftAlone DEF GivesUp
<1>4. CASE Tags BY <1>4, UploadLeftAlone DEF Tags
<1>5. CASE Assembles BY <1>5, UploadLeftAlone DEF Assembles
<1>6. CASE Merges BY <1>6, UploadLeftAlone DEF Merges
<1>7. CASE Clears BY <1>7, UploadLeftAlone DEF Clears
<1>8. CASE Removes BY <1>8, UploadLeftAlone DEF Removes, Exits
<1>9. CASE Keeps BY <1>9, UploadLeftAlone DEF Keeps, Exits
<1>10. CASE FindsNothing BY <1>10, UploadLeftAlone DEF FindsNothing, Exits
<1>11. QED BY <1>1, <1>2, <1>3, <1>4, <1>5, <1>6, <1>7, <1>8, <1>9, <1>10

LEMMA StepUpload == RecordingTypeOK /\ UploadInv /\ [Next]_vars => UploadInv'
<1> SUFFICES ASSUME RecordingTypeOK, UploadInv, [Next]_vars PROVE UploadInv' OBVIOUS
<1>1. CASE UNCHANGED vars
  BY <1>1, UploadLeftAlone DEF vars, container, proxy, disk, work, outcome
<1>2. CASE Next BY <1>2, ContainerUpload, SegmentsUpload, UploadsKept DEF Next, Processes, ProxySteps
<1>3. QED BY <1>1, <1>2

-----------------------------------------------------------------------------
(* What becomes of a recording. *)

LEMMA StepPending == RecordingTypeOK /\ PendingInv /\ [Next]_vars => PendingInv'
<1> SUFFICES ASSUME RecordingTypeOK, PendingInv, [Next]_vars PROVE PendingInv' OBVIOUS
<1>0. doing # "idle" => mode = "processing" BY DEF RecordingTypeOK
<1> USE DEF PendingInv, container, proxy, disk, work, outcome
<1>0a. ASSUME NEW c \in Callers, Launches(c) PROVE PendingInv' BY <1>0a DEF Launches
<1>0b. CASE ProxySteps BY <1>0b, ProxyOnly
<1>1. CASE Stops \/ RecordingEnds \/ Segments \/ ServiceDies
  BY <1>1 DEF Stops, Exits, RecordingEnds, Segments, ServiceDies
<1>2. ASSUME NEW k \in 1..MaxStarts, Watches(k) PROVE PendingInv'
  BY <1>2 DEF Watches, Revives, Restarts, StopsService
<1>3. CASE Writes \/ GivesUp \/ Tags
  BY <1>0, <1>3 DEF Writes, GivesUp, Tags, Transcribable
<1>4. CASE Assembles \/ Merges \/ Clears \/ FindsNothing \/ Removes \/ Keeps
  BY <1>4 DEF Assembles, Merges, Clears, FindsNothing, Removes, Keeps, Exits
<1>5. CASE Uploads
  BY <1>5 DEF Uploads, Posts, SendsChunk, CompletesFile, CompletesTransfer, DeletesTransfer, Asks, Unmoved
<1>6. CASE UNCHANGED vars BY <1>6 DEF vars
<1>7. QED BY <1>0a, <1>0b, <1>1, <1>2, <1>3, <1>4, <1>5, <1>6 DEF Next, Processes, ProxySteps

\* Whatever touches neither the container nor the disk
LEMMA LossLeftAlone ==
  ASSUME LossInv, UNCHANGED <<transcript, start, mode, watch, proxy, segments, merged>>,
         doing' \in {"transcribing", "merging", "clearing"} => doing' = doing
  PROVE  LossInv'
  BY DEF LossInv, ForgottenInv, BeginningInv, WatcherInv, SegmentsInv, Recorded, proxy

LEMMA StepLoss == RecordingTypeOK /\ LossInv /\ [Next]_vars => LossInv'
<1> SUFFICES ASSUME RecordingTypeOK, LossInv, [Next]_vars PROVE LossInv' OBVIOUS
<1>0. /\ start \in 0..MaxStarts /\ MaxStarts \in Nat /\ watch \in [1..MaxStarts -> WatchStates]
      /\ doing # "idle" => mode = "processing"
      /\ \A k \in 1..MaxStarts : Noticed[k] # "waiting" /\ (watch[k] = "none" => Noticed[k] = "none")
  BY RecordingAssumption DEF RecordingTypeOK, RecordingAssumption, Noticed
<1> USE DEF container, proxy, disk, work, outcome
<1>1. ASSUME NEW c \in Callers, Launches(c) PROVE LossInv'
  <2>1. BeginningInv' BY <1>0, <1>1 DEF Launches, LossInv, BeginningInv
  <2>2. told' = FALSE /\ poll'.fresh = FALSE /\ \A d \in Callers : starting'[d].told = FALSE
    BY <1>1 DEF Launches, RecordingTypeOK
  <2>3. mode' = "recording" /\ merged' = 0 /\ doing' = "idle" BY <1>1 DEF Launches
  <2>4. QED BY <2>1, <2>2, <2>3 DEF LossInv, ForgottenInv, WatcherInv, SegmentsInv
<1>2. CASE ProxySteps
  <2>1. UNCHANGED <<transcript, service, start, mode, watch, segments, merged, doing>>
    BY <1>2, ProxyOnly
  <2>2. BeginningInv' /\ SegmentsInv' BY <2>1 DEF LossInv, BeginningInv, SegmentsInv, Recorded
  <2>b. ForgottenInv'
    BY <1>2 DEF ProxySteps, Picks, Marks, Fails, Polls, Stores, PollFails, Registers,
       LossInv, ForgottenInv, RecordingTypeOK, NoPoll
  <2>3. SUFFICES ASSUME start > 0, watch[start] = "waiting", mode = "recording", ~transcript
                 PROVE  /\ told' => entry' \notin {"created", "stopped"}
                        /\ poll'.fresh => poll'.answer # "stopped"
                        /\ \A c \in Callers : starting'[c].pc = "picked" => ~starting'[c].told
    BY <2>1, <2>2, <2>b DEF LossInv, WatcherInv
  <2>4. /\ told => entry \notin {"created", "stopped"}
        /\ poll.fresh => poll.answer # "stopped"
        /\ \A c \in Callers : starting[c].pc = "picked" => ~starting[c].told
    BY <2>3 DEF LossInv, WatcherInv
  <2> DEFINE Goal == /\ told' => entry' \notin {"created", "stopped"}
                     /\ poll'.fresh => poll'.answer # "stopped"
                     /\ \A d \in Callers : starting'[d].pc = "picked" => ~starting'[d].told
  <2>a. starting \in [Callers -> [pc : {"idle", "picked", "launched"}, told : BOOLEAN]]
    BY DEF RecordingTypeOK
  <2>5. ASSUME NEW c \in Callers, Picks(c) PROVE Goal
    <3>1. starting' = [starting EXCEPT ![c] = [pc |-> "picked", told |-> told]] /\ ~told
      BY <2>4, <2>5 DEF Picks
    <3>2. UNCHANGED <<entry, told, poll>> BY <2>5 DEF Picks
    <3>3. QED BY <2>4, <2>a, <3>1, <3>2
  <2>6. ASSUME NEW c \in Callers, Marks(c) \/ Fails(c) PROVE Goal
    <3>1. starting' = [starting EXCEPT ![c] = Idle] /\ poll' = poll
          /\ (entry' = "started" \/ UNCHANGED <<entry, told>>)
      BY <2>6 DEF Marks, Fails
    <3>2. QED BY <2>4, <2>a, <3>1 DEF Idle
  <2>7. CASE Polls
    <3>1. Reported = "started" BY <2>3 DEF Reported, ProjectExited
    <3>2. QED BY <2>4, <2>7, <3>1 DEF Polls
  <2>8. CASE Stores BY <2>4, <2>8 DEF Stores, NoPoll, RecordingTypeOK
  <2>9. CASE PollFails \/ Registers
    <3>1. ~told' BY <2>9 DEF PollFails, Registers, LossInv, ForgottenInv
    <3>2. QED BY <2>4, <2>9, <3>1 DEF PollFails, Registers, NoPoll
  <2>10. QED BY <1>2, <2>5, <2>6, <2>7, <2>8, <2>9 DEF ProxySteps
<1>3. CASE Stops
  BY <1>0, <1>3 DEF Stops, Exits, LossInv, ForgottenInv, BeginningInv, WatcherInv, SegmentsInv, Recorded
<1>4. CASE RecordingEnds
  BY <1>0, <1>4 DEF RecordingEnds, Exits, LossInv, ForgottenInv, BeginningInv, WatcherInv, SegmentsInv, Recorded
<1>5. CASE ServiceDies \/ GivesUp \/ Uploads
  BY <1>5, LossLeftAlone DEF ServiceDies, GivesUp, Uploads, Posts, SendsChunk, CompletesFile,
     CompletesTransfer, DeletesTransfer, Asks, Unmoved
<1>6. ASSUME NEW k \in 1..MaxStarts, Watches(k) PROVE LossInv'
  <2>0. start > 0 /\ k <= start
    <3>1. watch[k] # "none" BY <1>6 DEF Watches, Revives, Restarts, StopsService
    <3>2. ~(k > start) BY <3>1 DEF LossInv, BeginningInv
    <3>3. QED BY <1>0, <3>2
  <2>1. CASE Revives(k)
    BY <1>0, <2>0, <2>1 DEF Revives, LossInv, ForgottenInv, BeginningInv, WatcherInv, SegmentsInv, Recorded
  <2>2. CASE Restarts(k)
    <3>1. /\ start' = start /\ transcript' = transcript
          /\ segments' = segments /\ merged' = merged
          /\ watch' = [(IF mode = "exited" THEN watch ELSE Noticed) EXCEPT ![k] = "waiting again"]
      BY <2>2 DEF Restarts
    <3>2. doing' \in {"transcribing", "merging", "clearing"} => segments # <<>>
      BY <2>2 DEF Restarts, Begins
    <3> DEFINE before == IF mode = "exited" THEN watch ELSE Noticed
    <3>3. watch' = [before EXCEPT ![k] = "waiting again"] BY <3>1
    <3>4. before \in [1..MaxStarts -> WatchStates] BY <1>0, WatchesTyped
    <3>5. \A j \in 1..MaxStarts : watch'[j] = IF j = k THEN "waiting again" ELSE before[j]
      BY ONLY <3>3, <3>4
    <3>6. before[start] # "waiting"
      <4>1. CASE mode = "exited" BY <2>0, <4>1 DEF LossInv, WatcherInv
      <4>2. CASE mode # "exited" BY <1>0, <2>0, <4>2
      <4>3. QED BY <4>1, <4>2
    <3>7. \A j \in 1..MaxStarts : j > start => before[j] = "none" BY <1>0 DEF LossInv, BeginningInv
    <3>8. watch'[start] # "waiting"
      <4>1. start \in 1..MaxStarts BY <1>0, <2>0
      <4>2. QED BY ONLY <3>5, <3>6, <4>1
    <3>9. \A j \in 1..MaxStarts : j > start => watch'[j] = "none"
      <4>1. k \in 1..MaxStarts /\ start \in Nat /\ MaxStarts \in Nat BY <1>0
      <4>2. SUFFICES ASSUME NEW j \in 1..MaxStarts, j > start PROVE watch'[j] = "none" OBVIOUS
      <4>3. j # k BY ONLY <2>0, <4>1, <4>2
      <4>4. QED BY ONLY <3>5, <3>7, <4>2, <4>3, Zenon
    <3> HIDE DEF before
    <3>10. BeginningInv'
      <4>1. start # 0 BY <1>0, <2>0
      <4>2. QED BY ONLY <3>1, <3>9, <4>1, Zenon DEF BeginningInv
    <3>a. mode' = "recording" => merged = 0
      <4>1. mode' = "recording" => ~Recorded BY <2>2 DEF Restarts, Begins
      <4>2. merged \in Nat BY RecordingAssumption DEF RecordingTypeOK, RecordingAssumption
      <4>3. QED BY <4>1, <4>2 DEF Recorded
    <3>11. WatcherInv' /\ SegmentsInv' BY <3>1, <3>2, <3>8, <3>a DEF WatcherInv, SegmentsInv
    <3>12. QED BY <3>1, <3>10, <3>11, <2>2 DEF Restarts, LossInv, ForgottenInv
  <2>3. CASE StopsService(k)
    BY <1>0, <2>0, <2>3 DEF StopsService, LossInv, ForgottenInv, BeginningInv, WatcherInv, SegmentsInv, Recorded
  <2>4. QED BY <1>6, <2>1, <2>2, <2>3 DEF Watches
<1>7. CASE Segments
  BY <1>0, <1>7 DEF Segments, LossInv, ForgottenInv, BeginningInv, WatcherInv, SegmentsInv, Recorded
<1>8. CASE Writes \/ Tags
  <2>1. segments' # <<>> \/ segments' = segments
    BY <1>8 DEF Writes, Tags
  <2>2. QED BY <1>0, <1>8, <2>1 DEF Writes, Tags, LossInv, ForgottenInv, BeginningInv, WatcherInv, SegmentsInv, Recorded
<1>9. CASE Assembles \/ Merges \/ Clears
  BY <1>0, <1>9 DEF Assembles, Merges, Clears, LossInv, ForgottenInv, BeginningInv, WatcherInv, SegmentsInv, Recorded
<1>10. CASE Removes \/ Keeps \/ FindsNothing
  BY <1>0, <1>10 DEF Removes, Keeps, FindsNothing, Exits, LossInv, ForgottenInv, BeginningInv, WatcherInv, SegmentsInv, Recorded
<1>11. CASE UNCHANGED vars BY <1>11, LossLeftAlone DEF vars
<1>12. QED BY <1>1, <1>2, <1>3, <1>4, <1>5, <1>6, <1>7, <1>8, <1>9, <1>10, <1>11 DEF Next, Processes, ProxySteps

-----------------------------------------------------------------------------
(* The theorems. *)

LEMMA InitInvariant == Init => RecordingInv
<1> SUFFICES ASSUME Init PROVE RecordingInv OBVIOUS
<1>1. start = 0 /\ \A k \in 1..MaxStarts : watch[k] = "none" BY DEF Init
<1>2. LossInv BY <1>1 DEF Init, LossInv, ForgottenInv, BeginningInv, WatcherInv, SegmentsInv, Recorded
<1>3. UploadInv /\ PendingInv BY DEF Init, NoTransfer, UploadInv, PendingInv
<1>4. QED BY <1>2, <1>3, InitTyped DEF RecordingInv

LEMMA StepInvariant == RecordingInv /\ [Next]_vars => RecordingInv'
  BY StepTyped, StepUpload, StepPending, StepLoss DEF RecordingInv

LEMMA InvariantHolds == Spec => []RecordingInv
  BY InitInvariant, StepInvariant, PTL DEF Spec

\* Every variable has its type (recording.sh, transcript.py, filesender.py).
THEOREM RecordingTyped == Spec => []RecordingTypeOK
<1>1. RecordingInv => RecordingTypeOK BY DEF RecordingInv
<1>2. QED BY <1>1, InvariantHolds, PTL

\* A transfer is never completed with a part of the recording, however many of
\* its requests fail, and however often the container is stopped, started again
\* and restarted between two of them (filesender.py).
THEOREM CompleteMeansWhole == Spec => []CompleteIsWhole
<1>1. RecordingInv => CompleteIsWhole BY DEF RecordingInv, UploadInv, Whole, CompleteIsWhole
<1>2. QED BY <1>1, InvariantHolds, PTL

\* A recording is gone from its container in the listed ways only (entrypoint.sh,
\* filesender.py, HTTPLauncher.py).
THEOREM LossesAreKnown == Spec => LossesKnown
<1> DEFINE Known ==
      \/ transfer.state = "complete" /\ doing = "removing"
      \/ start \in logs'
      \/ doing = "clearing" /\ merged < Len(segments)
      \/ doing = "removing" /\ transfer.state = "deleted"
      \/ \E c \in Callers : Destroys(c)
<1>1. ASSUME RecordingInv, [Next]_vars, Kept' < Kept PROVE Known
  <2>0. /\ merged \in Nat /\ Len(segments) \in Nat /\ segments \in Seq(Segment)
        /\ segments # <<>> => Len(segments) > 0
    BY <1>1, RecordingAssumption DEF RecordingInv, RecordingTypeOK, RecordingAssumption
  <2>a. ASSUME segments' = segments, merged' = merged PROVE FALSE BY <1>1, <2>0, <2>a DEF Kept
  <2> USE DEF container, proxy, disk, work, outcome
  <2>1. ASSUME NEW c \in Callers, Launches(c) PROVE Destroys(c)
    <3>1. starting[c].pc = "picked" /\ starting'[c].pc = "launched" /\ start' = start + 1
      BY <2>1 DEF Launches
    <3>2. start \in Nat /\ (start = 0 => mode = "exited")
      BY <1>1, RecordingAssumption
      DEF RecordingInv, RecordingTypeOK, LossInv, BeginningInv, RecordingAssumption
    <3>3. mode = "recording" /\ watch[start] = "waiting" /\ ~transcript => ~starting[c].told
      BY <1>1, <3>1, <3>2 DEF RecordingInv, LossInv, WatcherInv
    <3>4. QED BY <3>1, <3>3 DEF Destroys
  <2>2. CASE ProxySteps \/ Stops \/ RecordingEnds \/ ServiceDies \/ GivesUp \/ Assembles \/ FindsNothing
    BY <2>a, <2>2, ProxyOnly DEF Stops, RecordingEnds, ServiceDies, GivesUp, Assembles, FindsNothing
  <2>3. CASE Segments
    <3>1. Len(segments') = Len(segments) + 1 /\ segments' # <<>> /\ merged = 0
      BY <1>1, <2>0, <2>3 DEF Segments, RecordingInv, LossInv, SegmentsInv
    <3>2. QED BY <1>1, <2>0, <3>1 DEF Kept
  <2>4. CASE Writes \/ Tags
    <3>1. Len(segments') = Len(segments) /\ merged' = merged /\ (segments' = <<>> <=> segments = <<>>)
      BY <2>0, <2>4 DEF Writes, Tags
    <3>2. QED BY <1>1, <2>0, <3>1 DEF Kept
  <2>5. CASE Merges
    <3>1. segments # <<>> /\ segments' = segments
      BY <1>1, <2>5 DEF Merges, RecordingInv, LossInv, SegmentsInv
    <3>2. QED BY <1>1, <2>0, <3>1 DEF Kept
  <2>6. CASE Clears
    <3>1. segments # <<>> /\ segments' = <<>> /\ merged' = merged /\ doing = "clearing"
      BY <1>1, <2>6 DEF Clears, RecordingInv, LossInv, SegmentsInv
    <3>2. Kept = Len(segments) /\ Kept' = merged BY <3>1 DEF Kept
    <3>3. QED BY <1>1, <2>0, <3>1, <3>2
  <2>7. CASE Uploads
    BY <2>a, <2>7 DEF Uploads, Posts, SendsChunk, CompletesFile, CompletesTransfer, DeletesTransfer,
       Unmoved
  <2>8. CASE Removes BY <1>1, <2>8 DEF Removes, RecordingInv, UploadInv
  <2>9. CASE Keeps BY <2>9 DEF Keeps
  <2>10. ASSUME NEW k \in 1..MaxStarts, Watches(k) PROVE FALSE
    BY <2>a, <2>10 DEF Watches, Revives, Restarts, StopsService
  <2>11. CASE UNCHANGED vars BY <2>a, <2>11 DEF vars
  <2>12. QED
    BY <1>1, <2>1, <2>2, <2>3, <2>4, <2>5, <2>6, <2>7, <2>8, <2>9, <2>10, <2>11
    DEF Next, Processes, ProxySteps
<1>2. RecordingInv /\ [Next]_vars => [Kept' < Kept => Known]_vars BY <1>1
<1>3. QED BY <1>2, InvariantHolds, PTL DEF Spec, LossesKnown

-----------------------------------------------------------------------------
(* The transcript. *)

\* Whatever container wrote it and whatever container tagged it, a segment that
\* counts as processed has its text, or was given up.
TagsAnswered ==
    /\ \A i \in DOMAIN segments :
          segments[i].processed => segments[i].text \/ i \in unanswered
    /\ pending > 0 => segments[pending].text \/ pending \in unanswered

\* The texts before one that has all of them are as many as its number says.
LEMMA OffsetWithoutGap ==
  ASSUME NEW i \in Nat \ {0}, i \in DOMAIN segments, segments \in Seq(Segment),
         \A j \in 1..i : segments[j].text
  PROVE  i \in Texts /\ OffsetOf(i) = i - 1
<1>1. DOMAIN segments = 1..Len(segments) /\ Len(segments) \in Nat OBVIOUS
<1>2. i \in Texts /\ {j \in Texts : j < i} = 1..(i - 1) BY <1>1 DEF Texts
<1>3. Cardinality(1..(i - 1)) = i - 1 BY FS_Interval
<1>4. QED BY <1>2, <1>3 DEF OffsetOf

LEMMA AssemblesInTime ==
  ASSUME RecordingTypeOK, TagsAnswered, Assembles
  PROVE  SubtitlesInTime'
<1>1. /\ Unprocessed = {} /\ segments' = segments /\ unanswered' = unanswered
  BY DEF Assembles, outcome
<1>2. segments \in Seq(Segment) /\ DOMAIN segments = 1..Len(segments) /\ Len(segments) \in Nat
  BY DEF RecordingTypeOK
<1>3. SUFFICES ASSUME NEW i \in DOMAIN segments, \A j \in 1..i : j \notin unanswered,
                      unread' = 0 \/ i <= unread'
               PROVE  [segment |-> i, offset |-> i - 1] \in subtitles'
  BY <1>1 DEF SubtitlesInTime
<1>4. \A j \in 1..i : segments[j].text BY <1>1, <1>2, <1>3 DEF TagsAnswered, Unprocessed
<1>5. i \in Texts /\ OffsetOf(i) = i - 1 BY <1>2, <1>3, <1>4, OffsetWithoutGap
<1>6. CASE subtitles' = Subtitles(Texts) BY <1>5, <1>6 DEF Subtitles
<1>7. ASSUME NEW k \in Texts, BreaksOff(k) PROVE [segment |-> i, offset |-> i - 1] \in subtitles'
  <2>1. k \in 1..Len(segments) BY <1>2 DEF Texts
  <2>2. i <= k BY <1>2, <1>3, <1>7, <2>1 DEF BreaksOff
  <2>3. QED BY <1>5, <1>7, <2>2 DEF BreaksOff, Subtitles
<1>8. QED BY <1>6, <1>7 DEF Assembles

\* Whatever leaves the segments and those given up alone, and tags none
LEMMA TagsLeftAlone ==
  ASSUME TagsAnswered, segments' = segments, unanswered' = unanswered, pending' \in {0, pending}
  PROVE  TagsAnswered'
  BY DEF TagsAnswered

LEMMA StepTags == RecordingInv /\ TagsAnswered /\ [Next]_vars => TagsAnswered'
<1> SUFFICES ASSUME RecordingInv, TagsAnswered, [Next]_vars PROVE TagsAnswered' OBVIOUS
<1>0. /\ RecordingTypeOK
      /\ segments \in Seq(Segment) /\ segments \in [1..Len(segments) -> Segment]
      /\ Len(segments) \in Nat /\ pending \in 0..Len(segments)
  BY DEF RecordingInv, RecordingTypeOK
<1>a. Transcribable => Oldest \in 1..Len(segments)
  <2>1. Cardinality({}) = 0 BY FS_EmptySet
  <2>2. Transcribable => Unprocessed # {} BY <2>1 DEF Transcribable
  <2>3. QED BY <1>0, <2>2, OldestIsThere
<1> USE DEF container, proxy, disk, work, outcome
<1>1. ASSUME NEW c \in Callers, Launches(c) PROVE TagsAnswered' BY <1>1 DEF Launches, TagsAnswered
<1>2. CASE ProxySteps \/ Stops \/ RecordingEnds \/ ServiceDies
  BY <1>2, ProxyOnly, TagsLeftAlone DEF Stops, RecordingEnds, ServiceDies, Exits
<1>3. ASSUME NEW k \in 1..MaxStarts, Watches(k) PROVE TagsAnswered'
  BY <1>3, TagsLeftAlone DEF Watches, Revives, Restarts, StopsService
<1>4. CASE Segments
  <2>1. segments' = Append(segments, [text |-> FALSE, processed |-> FALSE])
        /\ UNCHANGED <<pending, unanswered>>
    BY <1>4 DEF Segments
  <2>2. DOMAIN segments' = 1..(Len(segments) + 1) BY <1>0, <2>1
  <2>3. \A i \in 1..Len(segments) : segments'[i] = segments[i] BY <1>0, <2>1
  <2>4. ~segments'[Len(segments) + 1].processed BY <1>0, <2>1
  <2>5. QED BY <1>0, <2>1, <2>2, <2>3, <2>4 DEF TagsAnswered
<1>5. CASE Writes
  <2>1. /\ Oldest \in 1..Len(segments) /\ pending' = Oldest
        /\ segments' = [segments EXCEPT ![Oldest].text = TRUE]
        /\ unanswered' = unanswered \ {Oldest}
    BY <1>a, <1>5 DEF Writes
  <2>2. DOMAIN segments' = 1..Len(segments) /\ segments'[Oldest].text
        /\ \A i \in 1..Len(segments) : i # Oldest => segments'[i] = segments[i]
    BY <1>0, <2>1 DEF Segment
  <2>3. QED BY <1>0, <2>1, <2>2 DEF TagsAnswered
<1>6. CASE GivesUp
  <2>1. /\ Oldest \in 1..Len(segments) /\ pending' = Oldest /\ segments' = segments
        /\ unanswered' = unanswered \cup {Oldest}
    BY <1>a, <1>6 DEF GivesUp
  <2>2. QED BY <2>1 DEF TagsAnswered
<1>7. CASE Tags
  <2>1. /\ pending \in 1..Len(segments) /\ pending' = 0 /\ unanswered' = unanswered
        /\ segments' = [segments EXCEPT ![pending].processed = TRUE]
    BY <1>0, <1>7 DEF Tags
  <2>2. DOMAIN segments' = 1..Len(segments) /\ segments'[pending].text = segments[pending].text
        /\ \A i \in 1..Len(segments) : i # pending => segments'[i] = segments[i]
    BY <1>0, <2>1 DEF Segment
  <2>3. QED BY <1>0, <2>1, <2>2 DEF TagsAnswered
<1>8. CASE Assembles \/ Merges
  BY <1>8, TagsLeftAlone DEF Assembles, Merges
<1>9. CASE Clears
  BY <1>9 DEF Clears, TagsAnswered, RecordingInv, PendingInv
<1>10. CASE Uploads
  BY <1>10, TagsLeftAlone DEF Uploads, Posts, SendsChunk, CompletesFile, CompletesTransfer,
     DeletesTransfer, Unmoved
<1>11. CASE Removes \/ Keeps \/ FindsNothing
  BY <1>11, TagsLeftAlone DEF Removes, Keeps, FindsNothing, Exits
<1>12. CASE UNCHANGED vars BY <1>12, TagsLeftAlone DEF vars
<1>13. QED
  BY <1>1, <1>2, <1>3, <1>4, <1>5, <1>6, <1>7, <1>8, <1>9, <1>10, <1>11, <1>12 DEF Next, Processes, ProxySteps

\* Once assembled, the transcript stays as it is until the segments are merged.
LEMMA StepSubtitles ==
  RecordingInv /\ TagsAnswered /\ SubtitlesInTime /\ [Next]_vars => SubtitlesInTime'
<1> SUFFICES ASSUME RecordingInv, TagsAnswered, SubtitlesInTime, [Next]_vars,
                    doing' = "merging", transcript'
             PROVE  SubtitlesInTime'
  BY DEF SubtitlesInTime
<1>0. RecordingTypeOK /\ PendingInv /\ (doing # "idle" => mode = "processing")
  BY DEF RecordingInv, RecordingTypeOK
<1> USE DEF container, proxy, disk, work, outcome
<1>1. CASE Assembles BY <1>0, <1>1, AssemblesInTime
<1>2. CASE ~Assembles
  <2>1. /\ UNCHANGED <<transcript, segments, subtitles, unread, unanswered>>
        /\ doing = "merging"
    <3>0. ASSUME NEW c \in Callers, Launches(c) PROVE FALSE BY <3>0 DEF Launches
    <3>1. CASE Stops \/ RecordingEnds \/ Merges \/ Clears \/ Removes \/ Keeps \/ FindsNothing
      BY <3>1 DEF Stops, RecordingEnds, Merges, Clears, Removes, Keeps, FindsNothing, Exits
    <3>2. CASE ProxySteps \/ ServiceDies
      BY <3>2, ProxyOnly DEF ServiceDies
    <3>3. ASSUME NEW k \in 1..MaxStarts, Watches(k)
          PROVE  UNCHANGED <<transcript, segments, subtitles, unread, unanswered>> /\ doing = "merging"
      BY <3>3 DEF Watches, Revives, Restarts, StopsService, Begins
    <3>4. CASE Segments BY <1>0, <3>4 DEF Segments
    <3>5. CASE Writes \/ GivesUp \/ Tags
      <4>1. doing' = doing /\ (Transcribable \/ pending > 0)
        BY <3>5 DEF Writes, GivesUp, Tags
      <4>2. mode = "processing" /\ pending = 0 /\ doing # "transcribing"
        BY <1>0, <4>1 DEF PendingInv
      <4>3. QED BY <4>1, <4>2 DEF Transcribable
    <3>6. CASE Uploads
      BY <3>6 DEF Uploads, Posts, SendsChunk, CompletesFile, CompletesTransfer, DeletesTransfer,
         Asks, Unmoved
    <3>7. CASE UNCHANGED vars BY <3>7 DEF vars
    <3>8. QED BY <1>2, <3>0, <3>1, <3>2, <3>3, <3>4, <3>5, <3>6, <3>7 DEF Next, Processes, ProxySteps
  <2>2. QED BY <2>1 DEF SubtitlesInTime
<1>3. QED BY <1>1, <1>2

\* Wherever the container stops between the text of a segment and its tag, and
\* whichever container goes on with it, the subtitles of what was answered for
\* are at the time of their segment (transcript.py).
THEOREM SubtitlesAreInTime == Spec => []SubtitlesInTime
<1>1. Init => TagsAnswered /\ SubtitlesInTime BY DEF Init, TagsAnswered, SubtitlesInTime
<1>2. QED BY <1>1, StepTags, StepSubtitles, InvariantHolds, PTL DEF Spec

=============================================================================
