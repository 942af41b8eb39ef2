------------------------------- MODULE Recording -------------------------------
(***************************************************************************)
(* A recording, from its first segment to its recipient: the container     *)
(* that records (recording/recording.sh) while its segments are            *)
(* transcribed (transcript/transcript.py), the watcher that restarts it    *)
(* once it has exited (SIPMediaGW.sh), what it then does of the segments   *)
(* (entrypoint.sh) and the upload (recording/filesender.py).  The proxy    *)
(* (proxyAPI/proxy.py) may start the gateway again at any time its entry   *)
(* says the container is over.  The segments are in the container: a       *)
(* restart keeps them, a recreation does not.                              *)
(***************************************************************************)
EXTENDS Integers, Sequences, FiniteSets

CONSTANTS
    MaxStarts,     \* bound: recordings started one after the other
    MaxSegments,   \* bound: segments of a recording
    VideoChunks,   \* chunks of the merged video; its subtitles are one chunk
    MaxFaults,     \* bound: requests, or commands, that fail
    Callers        \* those who ask the proxy for a gateway

ASSUME RecordingAssumption ==
    /\ MaxStarts \in Nat /\ MaxSegments \in Nat /\ MaxFaults \in Nat
    /\ VideoChunks \in Nat \ {0}

VARIABLES
    transcript,  \* WITH_TRANSCRIPT
    audioOnly,   \* AUDIO_ONLY of the last recording
    service,     \* the transcription container runs
    start,       \* the last recording started, 0 before the first
    mode,        \* what the container does: "exited", "recording", "processing"
    watch,       \* the watcher of each start
    entry,       \* gw_state in the proxy's entry
    told,        \* observer: the entry was written knowing of the last recording
    poll,        \* the launcher's answer on its way to the monitor
    starting,    \* the /start of each caller
    segments,    \* on the container's disk: a sequence of [text, processed]
    merged,      \* the segments in the merged video; 0: there is none
    subtitles,   \* of the final transcript: a set of [segment, offset]
    unread,      \* observer: the segment whose length ended the last assembly, or 0
    pending,     \* the segment that was transcribed and is not tagged yet, or 0
    doing,       \* the step of the processing
    upload,      \* where filesender is: [file, chunk]
    transfer,    \* the transfer at the server: [state, received]
    logs,        \* the starts whose recording was moved to the log directory
    unanswered,  \* the segments whose transcription was given up
    halted,      \* the processing was stopped from outside
    faults

proxy == <<entry, told, poll, starting>>
container == <<service, start, mode, watch, proxy>>
disk == <<segments, merged, subtitles, unread>>
work == <<pending, doing, upload>>
outcome == <<transfer, logs, unanswered, halted>>
vars == <<transcript, audioOnly, container, disk, work, outcome, faults>>

Modes == {"exited", "recording", "processing"}
WatchStates == {"none", "waiting", "reviving", "restarting", "waiting again", "stopping", "done"}
Steps == {"idle", "transcribing", "merging", "clearing", "posting", "sending", "closing",
          "cleaning", "removing", "keeping", "missing"}

Files == {"video", "subtitles"}
Size(file) == IF file = "video" THEN VideoChunks ELSE 1
NoUpload == [file |-> "video", chunk |-> 0]
NoPoll == [answer |-> "none", fresh |-> FALSE]
Idle == [pc |-> "idle", told |-> FALSE]
NoTransfer == [state |-> "none", received |-> [f \in Files |-> 0]]

\* ls /var/recording/*.mp4
Recorded == segments # <<>> \/ merged > 0

Init ==
    /\ transcript \in BOOLEAN /\ audioOnly = FALSE /\ service = FALSE
    /\ start = 0 /\ mode = "exited"
    /\ entry = "created" /\ told = FALSE /\ poll = NoPoll /\ starting = [c \in Callers |-> Idle]
    /\ watch = [k \in 1..MaxStarts |-> "none"]
    /\ segments = <<>> /\ merged = 0 /\ subtitles = {} /\ unread = 0
    /\ pending = 0 /\ doing = "idle" /\ upload = NoUpload
    /\ transfer = NoTransfer /\ logs = {} /\ unanswered = {} /\ halted = FALSE /\ faults = 0

-----------------------------------------------------------------------------
(* The container and those who start and stop it. *)

\* A bug: the watcher is done when the recording is.
NoticedOnce == [k \in 1..MaxStarts |->
    IF watch[k] \in {"waiting", "waiting again"} THEN "done" ELSE watch[k]]

\* docker wait returns when the container exits.
Noticed == [k \in 1..MaxStarts |->
    CASE watch[k] = "waiting" -> "reviving"
      [] watch[k] = "waiting again" -> "stopping"
      [] OTHER -> watch[k]]

\* Its processes are gone with it.
Exits ==
    /\ mode' = "exited" /\ watch' = Noticed
    /\ pending' = 0 /\ doing' = "idle" /\ upload' = NoUpload

\* /start: a gateway whose entry says that the container is over is picked...
Picks(c) ==
    /\ starting[c].pc = "idle" /\ entry \in {"created", "stopped"} /\ start < MaxStarts
    /\ starting' = [starting EXCEPT ![c] = [pc |-> "picked", told |-> told]]
    /\ UNCHANGED <<transcript, audioOnly, service, start, mode, watch, entry, told, poll, disk, work, outcome, faults>>

\* ... SIPMediaGW.sh recreates the container, whatever it does by now, with its
\* disk, and watches it...
Launches(c) ==
    /\ starting[c].pc = "picked" /\ start < MaxStarts
    /\ start' = start + 1 /\ mode' = "recording" /\ service' = transcript /\ audioOnly' \in BOOLEAN
    /\ watch' = [(IF mode = "exited" THEN watch ELSE Noticed) EXCEPT ![start + 1] = "waiting"]
    /\ segments' = <<>> /\ merged' = 0 /\ subtitles' = {} /\ unread' = 0
    /\ pending' = 0 /\ doing' = "idle" /\ upload' = NoUpload
    /\ transfer' = NoTransfer /\ unanswered' = {} /\ halted' = FALSE
    /\ told' = FALSE /\ poll' = [answer |-> poll.answer, fresh |-> FALSE]
    /\ starting' = [d \in Callers |->
          [pc |-> IF d = c THEN "launched" ELSE starting[d].pc, told |-> FALSE]]
    /\ UNCHANGED <<transcript, entry, logs, faults>>

\* ... and the entry is marked when the launcher's answer arrives.
Marks(c) ==
    /\ starting[c].pc = "launched"
    /\ entry' = "started" /\ told' = TRUE /\ starting' = [starting EXCEPT ![c] = Idle]
    /\ UNCHANGED <<transcript, audioOnly, service, start, mode, watch, poll, disk, work, outcome, faults>>

\* The request, or its answer, is lost.
Fails(c) ==
    /\ starting[c].pc # "idle" /\ faults < MaxFaults /\ faults' = faults + 1
    /\ starting' = [starting EXCEPT ![c] = Idle]
    /\ UNCHANGED <<transcript, audioOnly, service, start, mode, watch, entry, told, poll, disk, work, outcome>>

\* What docker compose says of the whole project names the states of all its
\* containers: that of the gateway and that of the transcription service.
ProjectExited == mode = "exited" \/ (transcript /\ ~service)

\* The launcher looks for "exited" in it, whichever container it is about.
Reported == IF ProjectExited THEN "stopped" ELSE "started"

\* monitorGateways: the launcher answers...
Polls ==
    /\ start > 0 /\ entry # "absent" /\ poll = NoPoll
    /\ poll' = [answer |-> Reported, fresh |-> TRUE]
    /\ UNCHANGED <<transcript, audioOnly, service, start, mode, watch, entry, told, starting, disk, work, outcome, faults>>

\* ... and the answer is stored, however old it is by now.
Stores ==
    /\ poll # NoPoll /\ entry' = poll.answer /\ told' = poll.fresh /\ poll' = NoPoll
    /\ UNCHANGED <<transcript, audioOnly, service, start, mode, watch, starting, disk, work, outcome, faults>>

\* A poll that fails removes the entry.
PollFails ==
    /\ start > 0 /\ entry # "absent" /\ faults < MaxFaults /\ faults' = faults + 1
    /\ entry' = "absent" /\ told' = FALSE /\ poll' = NoPoll
    /\ UNCHANGED <<transcript, audioOnly, service, start, mode, watch, starting, disk, work, outcome>>

\* proxyRegister: a container that runs is created again, as far as the proxy knows.
Registers ==
    /\ mode # "exited" /\ entry = "absent" /\ entry' = "created"
    /\ UNCHANGED <<transcript, audioOnly, service, start, mode, watch, told, poll, starting, disk, work, outcome, faults>>

\* /stop, while anything of the project runs and whatever the container does
Stops ==
    /\ mode # "exited" \/ service
    /\ IF mode # "exited" THEN Exits ELSE UNCHANGED <<mode, watch, work>>
    /\ entry' = "deleted" /\ halted' = (halted \/ mode = "processing")
    /\ UNCHANGED <<transcript, audioOnly, service, start, told, poll, starting, disk, transfer, logs, unanswered, faults>>

\* The conference is over, or RECORD_MAX_TIME is.
RecordingEnds ==
    /\ mode = "recording" /\ Exits
    /\ UNCHANGED <<transcript, audioOnly, service, start, proxy, disk, outcome, faults>>

\* entrypoint.sh: post-processing if there is something to process.  What was
\* merged before is found under its own minute, and else is not.
Begins ==
    IF ~Recorded
    THEN mode' = "recording" /\ doing' = "idle" /\ UNCHANGED subtitles
    ELSE /\ mode' = "processing"
         /\ IF segments # <<>>
            THEN doing' = (IF transcript THEN "transcribing" ELSE "merging") /\ UNCHANGED subtitles
            ELSE /\ doing' \in {"posting", "missing"}
                 /\ subtitles' = {}

\* The watcher brings the transcription service up again, if there is one; stops
\* it at the end.
Revives(k) ==
    /\ watch[k] = "reviving" /\ watch' = [watch EXCEPT ![k] = "restarting"]
    /\ service' = transcript
    /\ UNCHANGED <<transcript, audioOnly, start, mode, proxy, disk, work, outcome, faults>>

StopsService(k) ==
    /\ watch[k] = "stopping" /\ watch' = [watch EXCEPT ![k] = "done"]
    /\ service' = FALSE
    /\ UNCHANGED <<transcript, audioOnly, start, mode, proxy, disk, work, outcome, faults>>

\* docker restart gw$ID, of whichever container has that name by now
Restarts(k) ==
    /\ watch[k] = "restarting" /\ Begins
    /\ watch' = [(IF mode = "exited" THEN watch ELSE Noticed) EXCEPT ![k] = "waiting again"]
    /\ pending' = 0 /\ upload' = NoUpload
    /\ UNCHANGED <<transcript, audioOnly, service, start, proxy, segments, merged, unread, outcome, faults>>

-----------------------------------------------------------------------------
(* Segments and their transcription. *)

\* ffmpeg begins a segment: the last of the sequence is being written.
Segments ==
    /\ mode = "recording" /\ Len(segments) < MaxSegments
    /\ segments' = Append(segments, [text |-> FALSE, processed |-> FALSE])
    /\ UNCHANGED <<transcript, audioOnly, container, merged, subtitles, unread, work, outcome, faults>>

Unprocessed == {i \in DOMAIN segments : ~segments[i].processed}
Oldest == CHOOSE i \in Unprocessed : \A j \in Unprocessed : i <= j

\* findNextSegment leaves the segment that is being written; the loop after the
\* recording takes them all.
Transcribable ==
    \/ mode = "recording" /\ Cardinality(Unprocessed) >= 2
    \/ doing = "transcribing" /\ Unprocessed # {}

\* transcriptServer.py answers (code 200), or fails and is asked again.
Transcribes == transcript /\ service

\* The text is written.
Writes ==
    /\ Transcribes /\ pending = 0 /\ Transcribable
    /\ segments' = [segments EXCEPT ![Oldest].text = TRUE]
    /\ pending' = Oldest /\ unanswered' = unanswered \ {Oldest}
    /\ UNCHANGED <<transcript, audioOnly, container, merged, subtitles, unread, doing, upload, transfer, logs, halted, faults>>

\* No answer for the time it is given.  While recording the segment is taken
\* again; after, it counts as processed.
GivesUp ==
    /\ doing = "transcribing" /\ pending = 0 /\ Transcribable
    /\ IF Transcribes THEN faults < MaxFaults /\ faults' = faults + 1 ELSE UNCHANGED faults
    /\ pending' = Oldest /\ unanswered' = unanswered \cup {Oldest}
    /\ UNCHANGED <<transcript, audioOnly, container, disk, doing, upload, transfer, logs, halted>>

\* The file is renamed.
Tags ==
    /\ pending > 0
    /\ segments' = [segments EXCEPT ![pending].processed = TRUE] /\ pending' = 0
    /\ UNCHANGED <<transcript, audioOnly, container, merged, subtitles, unread, doing, upload, outcome, faults>>

Texts == {i \in DOMAIN segments : segments[i].text}

\* The texts in order, each shifted by the length of those before it.
OffsetOf(i) == Cardinality({j \in Texts : j < i})

\* The transcript of the segments of S
Subtitles(S) == {[segment |-> i, offset |-> OffsetOf(i)] : i \in S}

\* A bug: what was not transcribed while recording is not taken up after it.
AssemblesAtOnce ==
    /\ doing = "transcribing" /\ pending = 0
    /\ subtitles' = Subtitles(Texts) /\ unread' = 0
    /\ doing' = "merging"
    /\ UNCHANGED <<transcript, audioOnly, container, segments, merged, pending, upload, outcome, faults>>

\* The length of a segment is read once its text is there: that of its video
\* stream.  One that has none, or cannot be read, ends the script with what it
\* has written; what follows goes on.
BreaksOff(i) ==
    /\ subtitles' = Subtitles({j \in Texts : j <= i}) /\ unread' = i
    /\ IF audioOnly THEN OffsetOf(i) = 0 /\ UNCHANGED faults
       ELSE faults < MaxFaults /\ faults' = faults + 1

Assembles ==
    /\ doing = "transcribing" /\ pending = 0 /\ Unprocessed = {}
    /\ \/ /\ audioOnly => Texts = {}
          /\ subtitles' = Subtitles(Texts) /\ unread' = 0 /\ UNCHANGED faults
       \/ \E i \in Texts : BreaksOff(i)
    /\ doing' = "merging"
    /\ UNCHANGED <<transcript, audioOnly, container, segments, merged, pending, upload, outcome>>

\* ffmpeg -f concat, which may end at a segment that it cannot read, and rm
\* whatever it returned
Merges ==
    /\ doing = "merging"
    /\ \/ merged' = Len(segments) /\ UNCHANGED faults
       \/ faults < MaxFaults /\ faults' = faults + 1 /\ merged' \in 0..(Len(segments) - 1)
    /\ doing' = "clearing"
    /\ UNCHANGED <<transcript, audioOnly, container, segments, subtitles, unread, pending, upload, outcome>>

Clears ==
    /\ doing = "clearing"
    /\ segments' = <<>>
    /\ doing' = IF merged > 0 THEN "posting" ELSE "missing"
    /\ UNCHANGED <<transcript, audioOnly, container, merged, subtitles, unread, pending, upload, outcome, faults>>

-----------------------------------------------------------------------------
(* filesender.py *)

\* A request is answered; or it fails, done or not at the server.
Asks(effect, next, otherwise) ==
    \/ transfer' = effect /\ doing' = next /\ UNCHANGED faults
    \/ /\ faults < MaxFaults /\ faults' = faults + 1
       /\ transfer' \in {transfer, effect} /\ doing' = otherwise

Unmoved == UNCHANGED <<transcript, audioOnly, container, disk, pending, logs, unanswered, halted>>

\* Nothing is to be cleaned yet: the script fails.
Posts ==
    /\ doing = "posting"
    /\ Asks([state |-> "open", received |-> [f \in Files |-> 0]], "sending", "keeping")
    /\ upload' = NoUpload
    /\ Unmoved

\* A bug: one chunk too few
HasMoreButLast == upload.chunk < Size(upload.file) - 1

\* range(0, size, upload_chunk_size)
HasMore == upload.chunk < Size(upload.file)

SendsChunk ==
    /\ doing = "sending" /\ HasMore
    /\ Asks([transfer EXCEPT !.received[upload.file] = upload.chunk + 1], "sending", "cleaning")
    /\ upload' = [upload EXCEPT !.chunk = @ + 1]
    /\ Unmoved

\* fileComplete, then the next file
CompletesFile ==
    /\ doing = "sending" /\ ~HasMore
    /\ LET last == upload.file = "subtitles" \/ ~transcript
       IN /\ Asks(transfer, IF last THEN "closing" ELSE "sending", "cleaning")
          /\ upload' = IF last THEN upload ELSE [file |-> "subtitles", chunk |-> 0]
    /\ Unmoved

CompletesTransfer ==
    /\ doing = "closing"
    /\ Asks([transfer EXCEPT !.state = "complete"], "removing", "cleaning")
    /\ UNCHANGED upload /\ Unmoved

\* The handler of every error deletes the transfer, and the script succeeds.
DeletesTransfer ==
    /\ doing = "cleaning"
    /\ Asks([transfer EXCEPT !.state = "deleted"], "removing", "keeping")
    /\ UNCHANGED upload /\ Unmoved

-----------------------------------------------------------------------------

\* filesender.py succeeded: rm
Removes ==
    /\ doing = "removing"
    /\ merged' = 0 /\ subtitles' = {} /\ Exits
    /\ UNCHANGED <<transcript, audioOnly, service, start, proxy, segments, unread, outcome, faults>>

\* A bug: the shell's ; for its ||: the files are removed whatever happened.
KeepsNothing ==
    /\ doing = "keeping"
    /\ merged' = 0 /\ subtitles' = {} /\ Exits
    /\ UNCHANGED <<transcript, audioOnly, service, start, proxy, segments, unread, outcome, faults>>

\* It did not: mv to the log directory
Keeps ==
    /\ doing = "keeping"
    /\ merged' = 0 /\ subtitles' = {} /\ logs' = logs \cup {start} /\ Exits
    /\ UNCHANGED <<transcript, audioOnly, service, start, proxy, segments, unread, transfer, unanswered, halted, faults>>

\* Neither the upload nor the move finds the file.
FindsNothing ==
    /\ doing = "missing" /\ Exits
    /\ UNCHANGED <<transcript, audioOnly, service, start, proxy, disk, outcome, faults>>

\* The transcription container dies: nothing restarts it.
ServiceDies ==
    /\ service /\ faults < MaxFaults /\ faults' = faults + 1
    /\ service' = FALSE
    /\ UNCHANGED <<transcript, audioOnly, start, mode, watch, proxy, disk, work, outcome>>

Uploads == Posts \/ SendsChunk \/ CompletesFile \/ CompletesTransfer \/ DeletesTransfer
Watches(k) == Revives(k) \/ Restarts(k) \/ StopsService(k)
Processes ==
    \/ Assembles \/ Merges \/ Clears \/ Uploads \/ Removes \/ Keeps \/ FindsNothing
    \/ mode = "processing" /\ (Writes \/ GivesUp \/ Tags)

Next ==
    \/ \E c \in Callers : Picks(c) \/ Launches(c) \/ Marks(c) \/ Fails(c)
    \/ Polls \/ Stores \/ PollFails \/ Registers \/ Stops \/ RecordingEnds \/ Segments \/ ServiceDies
    \/ \E k \in 1..MaxStarts : Watches(k)
    \/ mode = "recording" /\ (Writes \/ Tags)
    \/ Processes

\* The watcher and the processing run on their own; a recording has a longest
\* time.
Spec ==
    /\ Init /\ [][Next]_vars
    /\ WF_vars(RecordingEnds) /\ WF_vars(Processes)
    /\ \A k \in 1..MaxStarts : WF_vars(Watches(k))

-----------------------------------------------------------------------------

Segment == [text : BOOLEAN, processed : BOOLEAN]
Transfers == [state : {"none", "open", "complete", "deleted"}, received : [Files -> Nat]]

\* Every variable has its type; only a container that processes is at a step, and
\* the segment to tag is one of those on the disk.
RecordingTypeOK ==
    /\ transcript \in BOOLEAN /\ audioOnly \in BOOLEAN /\ service \in BOOLEAN /\ halted \in BOOLEAN
    /\ start \in 0..MaxStarts /\ mode \in Modes /\ watch \in [1..MaxStarts -> WatchStates]
    /\ entry \in {"absent", "created", "started", "stopped", "deleted"} /\ told \in BOOLEAN
    /\ poll \in [answer : {"started", "stopped"}, fresh : BOOLEAN] \cup {NoPoll}
    /\ starting \in [Callers -> [pc : {"idle", "picked", "launched"}, told : BOOLEAN]]
    /\ segments \in Seq(Segment) /\ Len(segments) <= MaxSegments
    /\ merged \in 0..MaxSegments /\ pending \in 0..Len(segments)
    /\ subtitles \subseteq [segment : 1..MaxSegments, offset : Nat] /\ unread \in 0..MaxSegments
    /\ doing \in Steps /\ (doing # "idle" => mode = "processing")
    /\ upload \in [file : Files, chunk : Nat] /\ transfer \in Transfers
    /\ \A f \in Files : transfer.received[f] <= Size(f)
    /\ logs \subseteq 0..MaxStarts /\ unanswered \subseteq 1..MaxSegments /\ faults \in 0..MaxFaults

\* What recipients can download is the whole of the recording, whatever requests
\* failed or were cut before: chunks are put one after the other
\* (filesender.py), and the transfer is completed after the last of them.
CompleteIsWhole ==
    transfer.state = "complete" =>
        /\ transfer.received["video"] = VideoChunks
        /\ transcript => transfer.received["subtitles"] = 1

\* When the transcript is assembled, what was said in a segment is there and at
\* its time, as long as the service answered for it and for those before it: a
\* container that exited between the text of a segment and its tag
\* (transcript.py) leaves no gap.  (A segment given up does shift what follows,
\* and nothing follows one whose length could not be read: of a recording of
\* sound only, the first with a text.)
SubtitlesInTime ==
    doing = "merging" /\ transcript =>
        \A i \in DOMAIN segments :
            (\A j \in 1..i : j \notin unanswered) /\ (unread = 0 \/ i <= unread)
                => [segment |-> i, offset |-> i - 1] \in subtitles

\* What the container still has of the recording, in segments
Kept == IF segments # <<>> THEN Len(segments) ELSE merged

\* A /start of c recreates the container.  A recording that nothing has interrupted
\* is only lost so when it is transcribed, as a service that died makes the
\* launcher say "exited", or when the entry had not been told of it: two starts
\* crossed, an answer was lost or overtaken, or a failed poll had removed the
\* entry, which the container then registered as created.
Destroys(c) ==
    /\ starting[c].pc = "picked" /\ starting'[c].pc = "launched" /\ start' = start + 1
    /\ mode = "recording" /\ watch[start] = "waiting" => transcript \/ ~starting[c].told

\* A recording, or a part of it, leaves the disk of its container when it has been
\* sent or moved to the logs; else when ffmpeg failed to merge it, or all of it,
\* when its upload failed and could be deleted (the script then ends as if it had
\* sent it), or when the gateway was started again (proxy.py: startGateway,
\* _fetchAndStoreGatewayStatus; entrypoint.sh).
LossesKnown ==
    [][Kept' < Kept =>
         \/ transfer.state = "complete" /\ doing = "removing"
         \/ start \in logs'
         \/ doing = "clearing" /\ merged < Len(segments)
         \/ doing = "removing" /\ transfer.state = "deleted"
         \/ \E c \in Callers : Destroys(c)]_vars

\* What is recorded, with no watcher of an earlier recording left that would
\* restart the container, goes: to its recipients, to the logs, or lost as
\* above.  Unless the processing is stopped, which nothing resumes.
Finishes ==
    (/\ mode = "recording" /\ Recorded /\ start > 0 /\ watch[start] = "waiting"
     /\ \A k \in 1..(start - 1) : watch[k] \notin {"waiting", "reviving", "restarting"})
        ~> (~Recorded \/ halted)

===============================================================================
