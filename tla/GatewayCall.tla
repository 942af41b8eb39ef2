----------------------------- MODULE GatewayCall -----------------------------
(***************************************************************************)
(* One call in a gateway container: the SIP client (baresip) or, for a     *)
(* recording, the event server that stands in its place; the event handler *)
(* (src/event_handler.py, netstring.py) that reads its events; and the     *)
(* thread that browses the menu, then the conference (ivr.py, browsing.py).*)
(* They talk through the event socket, the control port and what they      *)
(* print, each print going down the pipe of a log parser.                  *)
(***************************************************************************)
EXTENDS Integers, Sequences

CONSTANTS
    Apps,            \* values of MAIN_APP among {"baresip", "recording"}
    MaxContainers,   \* bound: containers started one after the other
    MaxReadings      \* bound: readings of the media statistics, over all the calls

ASSUME CallAssumption ==
    /\ Apps \subseteq {"baresip", "recording"}
    /\ MaxContainers \in Nat /\ MaxReadings \in Nat

VARIABLES
    app,        \* MAIN_APP
    container,  \* the container, 0 before the first; its one call has its number
    alive,      \* it runs
    sip,        \* the SIP client (or the event server)
    slides,     \* a presentation has come into play in the call
    sock,       \* events sent on the event socket and not read yet
    orders,     \* commands sent to the control port and not obeyed yet
    handler,    \* the main thread of event_handler
    stopped,    \* docker has sent SIGTERM
    browse,     \* the browsing thread
    room,       \* browsing.room: not emptied by stop()
    reading,    \* readings asked so far; `asked`: one has not been printed yet
    asked,
    pipe,       \* lines printed and not parsed yet, by log parser
    carried     \* the containers that were offered a call

gatewayVars == <<app, slides, container, alive, sip, sock, orders, handler, stopped,
                 browse, room, reading, asked, pipe, carried>>

Parsers == {"Event", "Baresip"}

SipStates == {"idle", "ringing", "foreign", "up", "closed", "quit"}
HandlerStates == {"loop", "ending", "exiting", "gone"}
\* The thread shows the menu, has quit the menu's browser, has made the object
\* that browses, has a browser in front of the conference, is in it, is over.
BrowseStates == {"none", "prompt", "leaving", "opening", "joining", "meeting", "done"}

\* A printed line, or a record of the history: `at` is the reading it belongs
\* to, the one after the last being the end of the call.
Line(kind, at) == [kind |-> kind, call |-> container, at |-> at]
Kinds == {"start", "sample", "main", "slides", "closed", "stop", "end"}
Lines == [kind : Kinds, call : 1..MaxContainers, at : 0..MaxReadings + 1]

Prints(p, lines) == pipe' = [pipe EXCEPT ![p] = @ \o lines]

\* A stream that does not exist prints nothing: one table on a plain call, two
\* once a presentation is in play.
Tables(at) == IF slides THEN <<Line("main", at), Line("slides", at)>> ELSE <<Line("main", at)>>

GatewayInit ==
    /\ app \in Apps
    /\ container = 0 /\ alive = FALSE /\ sip = "quit" /\ handler = "gone" /\ browse = "none"
    /\ sock = <<>> /\ orders = {} /\ reading = 0
    /\ stopped = FALSE /\ room = FALSE /\ asked = FALSE /\ slides = FALSE
    /\ pipe = [p \in Parsers |-> <<>>] /\ carried = {}

\* entrypoint.sh up to the event handler: in a recording, which no call
\* starts, the browsing thread begins with it.
ContainerStarts ==
    /\ ~alive /\ container < MaxContainers
    /\ container' = container + 1 /\ alive' = TRUE
    /\ sip' = "idle" /\ handler' = "loop"
    /\ browse' = IF app = "baresip" THEN "none" ELSE "prompt"
    /\ UNCHANGED <<app, slides, sock, orders, stopped, room, reading, asked, pipe, carried>>

-----------------------------------------------------------------------------
(* The SIP client. *)

CallComes(foreign) ==
    /\ alive /\ app = "baresip" /\ sip = "idle"
    /\ sip' = IF foreign THEN "foreign" ELSE "ringing"
    /\ sock' = Append(sock, IF foreign THEN "FOREIGN_INCOMING" ELSE "CALL_INCOMING")
    /\ carried' = IF foreign THEN carried ELSE carried \cup {container}
    /\ UNCHANGED <<app, slides, container, alive, orders, handler, stopped, browse, room, reading, asked, pipe>>

\* Someone presents: the call has two video streams from now on.
Presents ==
    /\ alive /\ sip = "up" /\ ~slides
    /\ slides' = TRUE
    /\ UNCHANGED <<app, container, alive, sip, sock, orders, handler, stopped, browse, room,
                   reading, asked, pipe, carried>>

\* The call is over, the tables of its streams are printed.
Closing ==
    /\ sock' = Append(sock, "CALL_CLOSED")
    /\ IF sip = "up" THEN Prints("Baresip", Tables(MaxReadings + 1)) ELSE UNCHANGED pipe

PeerHangsUp ==
    /\ alive /\ sip \in {"ringing", "up"}
    /\ sip' = "closed" /\ Closing
    /\ UNCHANGED <<app, slides, container, alive, orders, handler, stopped, browse, room, reading, asked, carried>>

\* baresip and /hangup; the event server takes it for /quit.
HangsUp ==
    /\ alive /\ "/hangup" \in orders /\ app = "baresip" /\ sip # "quit"
    /\ orders' = orders \ {"/hangup"}
    /\ IF sip \in {"ringing", "up"} THEN sip' = "closed" /\ Closing ELSE UNCHANGED <<sip, sock, pipe>>
    /\ UNCHANGED <<app, slides, container, alive, handler, stopped, browse, room, reading, asked, carried>>

\* "ua: stop all": what is up is closed first, then the sockets are.
Quits ==
    /\ alive /\ sip # "quit"
    /\ "/quit" \in orders \/ (app = "recording" /\ orders # {})
    /\ sip' = "quit" /\ orders' = {}
    /\ IF app = "baresip"
       THEN /\ sock' = IF sip \in {"ringing", "up"} THEN Append(sock, "CALL_CLOSED") ELSE sock
            /\ Prints("Baresip", (IF sip = "up" THEN Tables(MaxReadings + 1) ELSE <<>>)
                                   \o <<Line("stop", 0)>>)
       ELSE UNCHANGED <<sock, pipe>>
    /\ UNCHANGED <<app, slides, container, alive, handler, stopped, browse, room, reading, asked, carried>>

\* recording.sh: the capture is over, or has reached its longest time.
RecordingEnds ==
    /\ alive /\ app = "recording" /\ sip # "quit" /\ "/quit" \notin orders
    /\ orders' = orders \cup {"/quit"}
    /\ UNCHANGED <<app, slides, container, alive, sip, sock, handler, stopped, browse, room, reading, asked, pipe, carried>>

-----------------------------------------------------------------------------
(* The event handler. *)

Reads(event) ==
    alive /\ handler = "loop" /\ sock # <<>> /\ Head(sock) = event /\ sock' = Tail(sock)

\* accept, when the call still rings
Accepts ==
    /\ alive /\ handler = "loop" /\ sock # <<>> /\ Head(sock) = "CALL_INCOMING"
    /\ IF sip = "ringing"
       THEN sip' = "up" /\ sock' = Append(Tail(sock), "CALL_ESTABLISHED")
       ELSE sock' = Tail(sock) /\ UNCHANGED sip
    /\ UNCHANGED <<app, slides, container, alive, orders, handler, stopped, browse, room, reading, asked, pipe, carried>>

\* A call that is not from the address the gateway was started for.
Refuses ==
    /\ alive /\ handler = "loop" /\ sock # <<>> /\ Head(sock) = "FOREIGN_INCOMING"
    /\ IF sip = "foreign"
       THEN sip' = "idle" /\ sock' = Append(Tail(sock), "FOREIGN_CLOSED")
       ELSE sock' = Tail(sock) /\ UNCHANGED sip
    /\ UNCHANGED <<app, slides, container, alive, orders, handler, stopped, browse, room, reading, asked, pipe, carried>>

\* Printed, and browsed in a thread of its own.
Establishes ==
    /\ Reads("CALL_ESTABLISHED")
    /\ Prints("Event", <<Line("start", 0)>>)
    /\ browse' = "prompt"
    /\ UNCHANGED <<app, slides, container, alive, sip, orders, handler, stopped, room, reading, asked, carried>>

\* A bug: the end of the call is printed but the SIP client is left running.
ClosesOnly ==
    /\ Reads("CALL_CLOSED")
    /\ Prints("Event", <<Line("closed", 0)>>)
    /\ UNCHANGED <<app, slides, container, alive, sip, orders, handler, stopped, browse, room, reading, asked, carried>>

\* Printed, and answered with the command that ends the SIP client.
Closes ==
    /\ Reads("CALL_CLOSED")
    /\ Prints("Event", <<Line("closed", 0)>>)
    /\ orders' = IF sip = "quit" THEN orders ELSE orders \cup {"/quit"}
    /\ UNCHANGED <<app, slides, container, alive, sip, handler, stopped, browse, room, reading, asked, carried>>

\* The end of another call than ours says nothing.
Ignores ==
    /\ Reads("FOREIGN_CLOSED")
    /\ UNCHANGED <<app, slides, container, alive, sip, orders, handler, stopped, browse, room, reading, asked, pipe, carried>>

\* mediaStatsLoop: what baresip answers it prints as well.
Asks ==
    /\ alive /\ sip = "up" /\ handler # "gone" /\ browse # "none" /\ ~asked /\ reading < MaxReadings
    /\ reading' = reading + 1 /\ asked' = TRUE
    /\ Prints("Baresip", Tables(reading + 1))
    /\ UNCHANGED <<app, slides, container, alive, sip, sock, orders, handler, stopped, browse, room, carried>>

\* The answer is printed in its turn, or was lost: the port was too slow, or the
\* call is over.
Answered(printed) ==
    /\ alive /\ handler # "gone" /\ asked
    /\ asked' = FALSE
    /\ IF printed THEN Prints("Event", <<Line("sample", reading)>>) ELSE UNCHANGED pipe
    /\ UNCHANGED <<app, slides, container, alive, sip, sock, orders, handler, stopped, browse, room, reading, carried>>

\* The loop of getEvents ends with its socket...
LoopEnds ==
    /\ alive /\ handler = "loop" /\ sip = "quit" /\ sock = <<>>
    /\ handler' = "ending"
    /\ UNCHANGED <<app, slides, container, alive, sip, sock, orders, stopped, browse, room, reading, asked, pipe, carried>>

\* ... or on SIGTERM: the handler that Netstring installed raises (it calls a
\* module it does not import) where the loop catches everything.  The events
\* that were not read are never read.
Stopped ==
    /\ alive /\ handler = "loop"
    /\ stopped' = TRUE /\ handler' = "ending" /\ sock' = <<>>
    /\ UNCHANGED <<app, slides, container, alive, sip, orders, browse, room, reading, asked, pipe, carried>>

\* endBrowse: stop() empties the room and closes the browser, when there is
\* one; before the object exists it is the menu's browser that is quit.
EndsBrowse ==
    /\ alive /\ handler = "ending"
    /\ handler' = "exiting"
    /\ room' = FALSE
    /\ browse' = IF browse \in {"prompt", "joining", "meeting"} THEN "done" ELSE browse
    /\ orders' = IF browse \in {"prompt", "joining", "meeting"} /\ sip # "quit"
                 THEN orders \cup {"/hangup"} ELSE orders
    /\ UNCHANGED <<app, slides, container, alive, sip, sock, stopped, reading, asked, pipe, carried>>

\* sys.exit: it waits for the browsing thread of a recording, then exit_handler.
Exits ==
    /\ alive /\ handler = "exiting" /\ (app = "baresip" \/ browse = "done")
    /\ handler' = "gone"
    /\ orders' = IF sip = "quit" THEN orders ELSE orders \cup {"/quit"}
    /\ UNCHANGED <<app, slides, container, alive, sip, sock, stopped, browse, room, reading, asked, pipe, carried>>

\* Every process of the container ends with its main process: the sockets, the
\* orders, the threads and what the parsers have not read go with them.
Dies ==
    /\ alive' = FALSE /\ handler' = "gone" /\ sip' = "quit" /\ browse' = "none"
    /\ sock' = <<>> /\ orders' = {} /\ room' = FALSE /\ asked' = FALSE
    /\ stopped' = FALSE /\ slides' = FALSE /\ pipe' = [p \in Parsers |-> <<>>]
    /\ UNCHANGED <<app, container, reading, carried>>

ContainerEnds == alive /\ handler = "gone" /\ Dies

\* Killed by docker after its grace period, with its host, or by a fault.
Killed == alive /\ handler # "gone" /\ Dies

-----------------------------------------------------------------------------
(* The browsing thread. *)

Browses(from) == alive /\ handler # "gone" /\ browse = from

\* A bug: the thread ends without hanging up.
ThreadEndsQuietly == browse' = "done" /\ UNCHANGED orders

\* The thread ends, for whatever reason, by hanging up.
ThreadEnds ==
    /\ browse' = "done"
    /\ orders' = IF sip = "quit" THEN orders ELSE orders \cup {"/hangup"}

\* prompt: a room is chosen and the menu's browser quit, or the time is over.
MenuEnds(chosen) ==
    /\ Browses("prompt")
    /\ IF chosen THEN browse' = "leaving" /\ UNCHANGED orders ELSE ThreadEnds
    /\ UNCHANGED <<app, slides, container, alive, sip, sock, handler, stopped, room, reading, asked, pipe, carried>>

\* attend: the object that browses is made, with its room.
Attends ==
    /\ Browses("leaving")
    /\ browse' = "opening" /\ room' = TRUE
    /\ UNCHANGED <<app, slides, container, alive, sip, sock, orders, handler, stopped, reading, asked, pipe, carried>>

\* run: the browser of the conference is opened, or not.
Opens(done) ==
    /\ Browses("opening")
    /\ IF done THEN browse' = "joining" /\ UNCHANGED orders ELSE ThreadEnds
    /\ UNCHANGED <<app, slides, container, alive, sip, sock, handler, stopped, room, reading, asked, pipe, carried>>

\* The conference lets the gateway in; a room that was emptied has no menu.
Joins ==
    /\ Browses("joining")
    /\ IF room THEN browse' = "meeting" /\ UNCHANGED orders ELSE ThreadEnds
    /\ UNCHANGED <<app, slides, container, alive, sip, sock, handler, stopped, room, reading, asked, pipe, carried>>

\* monitorLeftMeeting, monitorSingleParticipant
ConferenceEnds(order) ==
    /\ Browses("meeting") /\ order \notin orders /\ sip # "quit"
    /\ orders' = orders \cup {order}
    /\ UNCHANGED <<app, slides, container, alive, sip, sock, handler, stopped, browse, room, reading, asked, pipe, carried>>

\* The browser fails.
BrowsingFails ==
    /\ Browses("joining") \/ Browses("meeting")
    /\ ThreadEnds
    /\ UNCHANGED <<app, slides, container, alive, sip, sock, handler, stopped, room, reading, asked, pipe, carried>>

-----------------------------------------------------------------------------

ForeignSteps == CallComes(TRUE) \/ Refuses \/ Ignores

CallSteps ==
    \/ CallComes(FALSE) \/ Presents \/ PeerHangsUp \/ HangsUp \/ Quits \/ RecordingEnds
    \/ Accepts \/ Establishes \/ Closes
    \/ Asks \/ \E b \in BOOLEAN : Answered(b)
    \/ LoopEnds \/ Stopped \/ EndsBrowse \/ Exits

BrowserSteps ==
    \/ \E b \in BOOLEAN : MenuEnds(b) \/ Opens(b)
    \/ Attends \/ Joins \/ BrowsingFails
    \/ \E o \in {"/hangup", "/quit"} : ConferenceEnds(o)

GatewayNext == ContainerStarts \/ CallSteps \/ ForeignSteps \/ BrowserSteps \/ ContainerEnds \/ Killed

GatewaySpec == GatewayInit /\ [][GatewayNext]_gatewayVars

\* The processes run: what is sent is read, what is ordered is obeyed, a thread
\* goes on.  Callers, the conference and docker owe nothing.
GatewayFairness ==
    /\ WF_gatewayVars(HangsUp) /\ WF_gatewayVars(Quits)
    /\ WF_gatewayVars(Accepts) /\ WF_gatewayVars(Refuses) /\ WF_gatewayVars(Establishes)
    /\ WF_gatewayVars(Closes) /\ WF_gatewayVars(Ignores)
    /\ WF_gatewayVars(LoopEnds) /\ WF_gatewayVars(EndsBrowse) /\ WF_gatewayVars(Exits)
    /\ WF_gatewayVars(ContainerEnds)
    /\ WF_gatewayVars(Attends) /\ WF_gatewayVars(Opens(TRUE) \/ Opens(FALSE))

LiveGateway == GatewaySpec /\ GatewayFairness

-----------------------------------------------------------------------------
(* Properties. *)

\* The state of the container is made of the values its processes give it.
GatewayTypeOK ==
    /\ app \in Apps /\ container \in 0..MaxContainers /\ alive \in BOOLEAN
    /\ sip \in SipStates /\ handler \in HandlerStates /\ browse \in BrowseStates
    /\ sock \in Seq({"CALL_INCOMING", "CALL_ESTABLISHED", "CALL_CLOSED",
                     "FOREIGN_INCOMING", "FOREIGN_CLOSED"})
    /\ orders \subseteq {"/hangup", "/quit"}
    /\ {stopped, room, asked, slides} \subseteq BOOLEAN
    /\ reading \in 0..MaxReadings
    /\ pipe \in [Parsers -> Seq(Lines)]
    /\ carried \subseteq 1..container

\* What will end the container is on its way.
Ending ==
    \/ handler # "loop" \/ sip = "quit" \/ "/quit" \in orders
    \/ \E i \in DOMAIN sock : sock[i] = "CALL_CLOSED"

\* A gateway that stays in a conference serves a call: when the call is over,
\* or is about to be hung up, the end of the container is under way, however
\* the end of the call crosses the answer, the menu or the arrival of the
\* browser in the conference (event_handler: CALL_CLOSED, browse).
NoGuestLeftBehind ==
    alive /\ app = "baresip" /\ browse # "none" =>
        \/ Ending
        \/ sip = "up" /\ (browse = "done" => "/hangup" \in orders)

\* A container that has nothing to do any more ends by itself, which makes the
\* gateway free again: its call is over (event_handler: CALL_CLOSED), its
\* browsing is, by the menu's time limit, an error or the stop of a recording
\* (browse hangs up; the event server takes /hangup for /quit), or docker stops
\* it, wherever its browser is: the threads of a call are daemons.
ContainerFreed ==
    (alive /\ (sip = "closed" \/ browse = "done" \/ (stopped /\ app = "baresip"))) ~> ~alive

=============================================================================
