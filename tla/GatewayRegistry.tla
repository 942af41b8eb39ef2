--------------------------- MODULE GatewayRegistry ---------------------------
(***************************************************************************)
(* The proxy of deploy/proxyAPI/proxy.py, the Redis entries it keeps, and   *)
(* the launchers (HTTPLauncher.py) it drives.                               *)
(*                                                                          *)
(* The proxy is one asyncio thread with a synchronous Redis client, so the  *)
(* code between two awaits is atomic; every await is a request to a         *)
(* launcher.  A coroutine of the proxy is therefore a `task` in four        *)
(* steps: it picks a gateway and sends (ans = "none"), the launcher looks   *)
(* for its container (ans = "found"), acts and answers, the coroutine       *)
(* resumes and writes.  Everything else may happen between two of these.    *)
(*                                                                          *)
(* An entry is abstracted to its state and its room.  gw_ip and gw_type     *)
(* are functions of the gateway, peer_* and the progress fields follow room.*)
(***************************************************************************)
EXTENDS Naturals, FiniteSets

CONSTANTS
    Gateways,   \* gw_id of every gateway that may exist
    Firsts,     \* those launched as their machine boots; a loop takes the others
    Numbers,    \* container numbers: gw0, gw1, ... of every machine
    NumberOf,   \* the number a gateway's container has
    Hosts,      \* the virtual machines
    HostOf,     \* the machine a gateway's launcher runs on (gw_ip)
    OnDemand,   \* gateways of gw_type baresip or browser
    Rooms,      \* conference rooms
    NoRoom, NoFile, NoGateway,
    Requests,   \* coroutines that serve a client
    Monitor,    \* the coroutine of monitorGateways
    MaxFaults   \* bound on lost answers and on calls of /unregister

ASSUME RegistryAssumption ==
    /\ Firsts \subseteq Gateways
    /\ NumberOf \in [Gateways -> Numbers]
    /\ HostOf \in [Gateways -> Hosts]
    /\ \A f, g \in Gateways : NumberOf[f] = NumberOf[g] => HostOf[f] = HostOf[g]
    /\ OnDemand \subseteq Gateways
    /\ NoRoom \notin Rooms
    /\ NoFile \notin Rooms \union {NoRoom}
    /\ NoGateway \notin Gateways
    /\ Monitor \notin Requests
    /\ MaxFaults \in Nat

VARIABLES
    entry,      \* gateway:<id> in Redis
    host,       \* each machine: not booted yet, there, gone
    box,        \* the container of each gateway, as its launcher sees it
    hist,       \* the room in the history file of each number
    task,       \* what each coroutine is waiting for
    todo,       \* keys the monitor has yet to visit in this cycle
    faults,     \* how many faults happened
    served      \* observer: rooms the containers of a number were ever sent to

redisVars == <<entry>>
vmVars == <<host, box, hist, served>>
proxyVars == <<task, todo, faults>>
registryVars == <<entry, host, box, hist, task, todo, faults, served>>

-----------------------------------------------------------------------------
(* Entries, containers and coroutines.                                      *)

Tasks == Requests \union {Monitor}
MaybeRoom == Rooms \union {NoRoom}
States == {"created", "started", "stopped", "deleted", "stopping"}

Absent == [st |-> "absent", room |-> NoRoom]
Fresh == [st |-> "created", room |-> NoRoom]
Entries == [st : States \union {"absent"}, room : MaybeRoom]

\* A container registers ("launch"), runs its entrypoint ("boot") up to the line
\* that empties its history file, then its application ("up").  `goal` is the room
\* it was launched for, or the caller chose.  It may have exited ("down"), or be
\* removed for good ("gone").
NoBox == [run |-> "none", goal |-> NoRoom]
DownBox == [run |-> "down", goal |-> NoRoom]
GoneBox == [run |-> "gone", goal |-> NoRoom]
LaunchBox(r) == [run |-> "launch", goal |-> r]
Boxes == [run : {"none", "gone", "down", "launch", "boot", "up"}, goal : MaybeRoom]

Answers == {"none", "found", "ok", "up", "down", "error", "lost"}
Idle == [op |-> "idle", gw |-> NoGateway, room |-> NoRoom, ans |-> "none"]
StartTasks == [op : {"start"}, gw : Gateways, room : Rooms, ans : Answers]
AskTasks == [op : {"stop", "poll"}, gw : Gateways, room : MaybeRoom, ans : Answers]
TaskStates == {Idle} \union StartTasks \union AskTasks

\* findAvailableGateway and deriveState: the entries /start may pick.
Free(g) == entry[g].st \in {"created", "stopped"}
Present(g) == entry[g] # Absent
IsIdle(t) == task[t] = Idle
Asked(t) == ~IsIdle(t) /\ task[t].ans \in {"none", "found"}
Waits(t, op) == task[t].op = op /\ task[t].ans = "found"
Resumes(t, op) == task[t].op = op /\ task[t].ans \notin {"none", "found"}
Exists(g) == box[g].run \notin {"none", "gone"}
Running(g) == box[g].run \in {"launch", "boot", "up"}
InConference(g) == Running(g) /\ box[g].goal # NoRoom
OnAir(g, r) == box[g].run = "up" /\ box[g].goal = r /\ hist[NumberOf[g]] = r

\* A container that ends may post its history and empty it, or may not.  The file
\* is that of the number (gw<n>_history) and outlives the container.
Leaves(n) ==
    \E h \in {hist[n], IF hist[n] = NoFile THEN NoFile ELSE NoRoom} : hist' = [hist EXCEPT ![n] = h]

\* Exited containers, which `docker container prune' removes.
Exited(h) == {g \in Gateways : HostOf[g] = h /\ box[g].run = "down"}

\* The container of g is brought up in place of the one that has its number.
Launches(g, r, pruned) ==
    box' = [f \in Gateways |->
               IF f = g THEN LaunchBox(r)
               ELSE IF Exists(f) /\ (NumberOf[f] = NumberOf[g] \/ f \in pruned) THEN GoneBox
               ELSE box[f]]

\* The random name a loop takes is one that no container ever had.
Named(f, g) == NumberOf[f] = NumberOf[g] /\ f \notin Firsts /\ box[f].run = "none"

Send(t, op, g, r) ==
    task' = [task EXCEPT ![t] = [op |-> op, gw |-> g, room |-> r, ans |-> "none"]]
Answer(t, a, r) == task' = [task EXCEPT ![t].ans = a, ![t].room = r]
Finish(t) == task' = [task EXCEPT ![t] = Idle]

TypeOK ==
    /\ entry \in [Gateways -> Entries]
    /\ host \in [Hosts -> {"new", "on", "gone"}]
    /\ box \in [Gateways -> Boxes]
    /\ task \in [Tasks -> TaskStates]
    /\ todo \subseteq Gateways
    /\ faults \in 0..MaxFaults
    /\ hist \in [Numbers -> MaybeRoom \union {NoFile}]
    /\ served \in [Numbers -> SUBSET Rooms]

Init ==
    /\ entry = [g \in Gateways |-> Absent]
    /\ host = [h \in Hosts |-> "new"]
    /\ box = [g \in Gateways |-> NoBox]
    /\ task = [t \in Tasks |-> Idle]
    /\ todo = {}
    /\ faults = 0
    /\ hist = [n \in Numbers |-> NoFile]
    /\ served = [n \in Numbers |-> {}]

-----------------------------------------------------------------------------
(* Machines and containers.                                                 *)

\* start_all_gateways.bash starts every container once when its machine boots,
\* under new identifiers: a machine does not come back as the same one.
HostBoots(h) ==
    /\ host[h] = "new"
    /\ host' = [host EXCEPT ![h] = "on"]
    /\ box' = [g \in Gateways |-> IF HostOf[g] = h /\ g \in Firsts THEN LaunchBox(NoRoom) ELSE box[g]]
    /\ UNCHANGED <<redisVars, proxyVars, hist, served>>

\* The machine is terminated, or dies: its containers and its files go with it.
HostGoes(h) ==
    /\ host[h] = "on"
    /\ host' = [host EXCEPT ![h] = "gone"]
    /\ box' = [g \in Gateways |-> IF HostOf[g] = h THEN NoBox ELSE box[g]]
    /\ hist' = [n \in Numbers |-> IF \E g \in Gateways : NumberOf[g] = n /\ HostOf[g] = h
                                  THEN NoFile ELSE hist[n]]
    /\ UNCHANGED <<redisVars, proxyVars, served>>

\* The entrypoint empties the history and starts the application; a media
\* container without a room has stopped before.
BoxReady(g) ==
    /\ box[g].run = "boot"
    /\ g \in OnDemand \/ box[g].goal # NoRoom
    /\ box' = [box EXCEPT ![g].run = "up"]
    /\ hist' = [hist EXCEPT ![NumberOf[g]] = NoRoom]
    /\ UNCHANGED <<redisVars, proxyVars, host, served>>

\* The browser enters the room, and logParse.py notes it in the history.
BoxJoins(g) ==
    /\ box[g].run = "up"
    /\ hist[NumberOf[g]] # box[g].goal
    /\ hist' = [hist EXCEPT ![NumberOf[g]] = box[g].goal]
    /\ UNCHANGED <<redisVars, proxyVars, host, box, served>>

\* A SIP caller picks a room on the voice menu, without any /start.
CallerPicks(g, r) ==
    /\ g \in OnDemand
    /\ box[g].run = "up"
    /\ box[g].goal = NoRoom
    /\ box' = [box EXCEPT ![g].goal = r]
    /\ served' = [served EXCEPT ![NumberOf[g]] = @ \union {r}]
    /\ UNCHANGED <<redisVars, proxyVars, host, hist>>

\* End of the call, or of the initial run without a room: the container exits.
BoxExits(g) ==
    /\ box[g].run \in {"boot", "up"}
    /\ box' = [box EXCEPT ![g] = DownBox]
    /\ Leaves(NumberOf[g])
    /\ UNCHANGED <<redisVars, proxyVars, host, served>>

\* SIPMediaGW.sh -l: the loop sees that a container ended (or is being stopped),
\* prunes what has exited and brings the same number up under a new name.  The
\* new container finds the history of the one before.
Relaunches(g, f) ==
    /\ g \in OnDemand /\ box[g].run = "down"
    /\ Named(f, g)
    /\ Launches(f, NoRoom, Exited(HostOf[g]))
    /\ UNCHANGED <<redisVars, proxyVars, host, hist, served>>

-----------------------------------------------------------------------------
(* The launcher's answers (HTTPLauncher.py).  A machine that is gone does    *)
(* not answer: the proxy's HTTP client raises.                               *)

Reachable(t) == host[HostOf[task[t].gw]] = "on"

\* No launcher there, or an answer that never arrives: the status request
\* has a ten second timeout, the others break with their connection.
NoAnswer(t) ==
    /\ Asked(t)
    /\ ~Reachable(t)
    /\ Answer(t, "lost", task[t].room)
    /\ UNCHANGED <<redisVars, vmVars, todo, faults>>

AnswerLost(t) ==
    /\ ~IsIdle(t)
    /\ task[t].ans \notin {"none", "found", "lost"}
    /\ faults < MaxFaults
    /\ Answer(t, "lost", task[t].room)
    /\ faults' = faults + 1
    /\ UNCHANGED <<redisVars, vmVars, todo>>

\* First the launcher looks for the container among the compose projects: an error
\* ("Gateway not found") if there is none, and for /stop if it does not run.
LauncherLooks(t) ==
    LET g == task[t].gw
        seen == IF Running(g) \/ (Exists(g) /\ task[t].op = "start") THEN "found"
                ELSE IF Exists(g) /\ task[t].op = "poll" THEN "down"
                ELSE "error"
    IN  /\ Asked(t) /\ task[t].ans = "none"
        /\ Reachable(t)
        /\ Answer(t, seen, task[t].room)
        /\ UNCHANGED <<redisVars, vmVars, todo, faults>>

\* start_gateway runs SIPMediaGW.sh, which brings the container up with
\* --force-recreate, whatever it was doing, and for a SIP gateway removes the one
\* that has its number first.  One that does not get ready in time is an error, but
\* stays launched.  If the loop that sees the removed one die is faster, the number
\* runs under a new name, without the room; the script takes it for its own.  A
\* name that meets another container of its number is an error.
LauncherStarts(t) ==
    LET g == task[t].gw
        n == NumberOf[g]
        r == task[t].room
    IN  /\ Waits(t, "start")
        /\ Reachable(t)
        /\ \/ /\ \/ Launches(g, r, {}) /\ Answer(t, "ok", r)
                 \/ /\ g \in OnDemand
                    /\ \E a \in {"ok", "error"} : Answer(t, a, r)
                    /\ \/ \E pruned \in {{}, Exited(HostOf[g])} : Launches(g, r, pruned)
                       \/ /\ \E k \in Gateways : NumberOf[k] = n /\ Running(k)
                          /\ \E f \in Gateways : Named(f, g) /\ Launches(f, NoRoom, Exited(HostOf[g]))
              /\ Leaves(n)
              /\ served' = [served EXCEPT ![n] = @ \union {r}]
           \/ /\ g \in OnDemand /\ ~Exists(g)
              /\ Answer(t, "error", r)
              /\ UNCHANGED <<box, hist, served>>
        /\ UNCHANGED <<redisVars, host, todo, faults>>

\* stop_gateway does not look at what docker answers.
LauncherStops(t) ==
    LET g == task[t].gw IN
    /\ Waits(t, "stop")
    /\ Reachable(t)
    /\ Answer(t, "ok", NoRoom)
    /\ IF Running(g)
       THEN box' = [box EXCEPT ![g] = DownBox] /\ Leaves(NumberOf[g])
       ELSE UNCHANGED <<box, hist>>
    /\ UNCHANGED <<redisVars, host, served, todo, faults>>

\* get_status: the room in the history file of the number the container was found
\* under, whichever container writes there by now; the file must be there.
LauncherReports(t) ==
    LET g == task[t].gw
        h == hist[NumberOf[g]]
    IN  /\ Waits(t, "poll")
        /\ Reachable(t)
        /\ \/ ~Running(g) /\ Answer(t, "down", NoRoom)
           \/ h # NoFile /\ Answer(t, "up", h)
           \/ h = NoFile /\ Answer(t, "error", NoRoom)
        /\ UNCHANGED <<redisVars, vmVars, todo, faults>>

-----------------------------------------------------------------------------
(* Registration (/register, /unregister): no await after the body is read.   *)

\* A bug this code's comment warns of: starting again from a fresh entry.
RegisteredAfresh(e) == Fresh

\* Keep the entry and set its address and its type.
Registered(e) == IF e = Absent THEN Fresh ELSE e

\* entrypoint.sh registers before anything else, then again and again while the
\* container runs.
Launched(g) ==
    box' = IF box[g].run = "launch" THEN [box EXCEPT ![g].run = "boot"] ELSE box

Register(g) ==
    /\ Running(g)
    /\ entry' = [entry EXCEPT ![g] = Registered(@)]
    /\ Launched(g)
    /\ UNCHANGED <<proxyVars, host, hist, served>>

\* The first one does not get through; nobody looks.
RegisterLost(g) ==
    /\ box[g].run = "launch"
    /\ faults < MaxFaults
    /\ faults' = faults + 1
    /\ Launched(g)
    /\ UNCHANGED <<redisVars, host, hist, served, task, todo>>

Unregister(g) ==
    /\ Present(g)
    /\ faults < MaxFaults
    /\ faults' = faults + 1
    /\ entry' = [entry EXCEPT ![g] = Absent]
    /\ UNCHANGED <<vmVars, task, todo>>

-----------------------------------------------------------------------------
(* /start                                                                    *)

\* findAvailableGateway scans the keys in no particular order.  Nothing is
\* written before the launcher is asked.
StartBegins(t, g, r) ==
    /\ t \in Requests
    /\ IsIdle(t)
    /\ Free(g)
    /\ Send(t, "start", g, r)
    /\ UNCHANGED <<redisVars, vmVars, todo, faults>>

\* A bug: the launcher's status is not looked at.
StartEndsUnchecked(t) ==
    /\ Resumes(t, "start")
    /\ entry' = [entry EXCEPT ![task[t].gw] = [st |-> "started", room |-> task[t].room]]
    /\ Finish(t)
    /\ UNCHANGED <<vmVars, todo, faults>>

\* The entry is read again and marked started, with the request's room.
StartEnds(t) ==
    LET g == task[t].gw IN
    /\ Resumes(t, "start")
    /\ entry' = IF task[t].ans = "ok"
                THEN [entry EXCEPT ![g] = [st |-> "started", room |-> task[t].room]]
                ELSE entry
    /\ Finish(t)
    /\ UNCHANGED <<vmVars, todo, faults>>

-----------------------------------------------------------------------------
(* /stop                                                                     *)

StopBegins(t, g) ==
    /\ t \in Requests
    /\ IsIdle(t)
    /\ Present(g)
    /\ Send(t, "stop", g, NoRoom)
    /\ UNCHANGED <<redisVars, vmVars, todo, faults>>

\* A bug: the room is left in the entry.
StopEndsKeepingRoom(t) ==
    /\ Resumes(t, "stop")
    /\ entry' = IF task[t].ans = "ok"
                THEN [entry EXCEPT ![task[t].gw].st = "deleted"]
                ELSE entry
    /\ Finish(t)
    /\ UNCHANGED <<vmVars, todo, faults>>

\* Writes the entry it read before the await, its call fields emptied and its
\* state replaced: nothing that was written meanwhile survives.
StopEnds(t) ==
    LET g == task[t].gw IN
    /\ Resumes(t, "stop")
    /\ entry' = IF task[t].ans = "ok"
                THEN [entry EXCEPT ![g] = [st |-> "deleted", room |-> NoRoom]]
                ELSE entry
    /\ Finish(t)
    /\ UNCHANGED <<vmVars, todo, faults>>

-----------------------------------------------------------------------------
(* Polling a launcher: /status on demand, and the monitor.                   *)

StatusBegins(t, g) ==
    /\ t \in Requests
    /\ IsIdle(t)
    /\ g \in OnDemand
    /\ Present(g)
    /\ Send(t, "poll", g, NoRoom)
    /\ UNCHANGED <<redisVars, vmVars, todo, faults>>

\* A cycle scans the keys there are.
MonitorScans ==
    /\ IsIdle(Monitor)
    /\ todo = {}
    /\ todo' = {g \in Gateways : Present(g)}
    /\ UNCHANGED <<redisVars, vmVars, task, faults>>

\* A bug: only the gateways in use are polled.
MonitorVisitsStarted(g) ==
    /\ IsIdle(Monitor)
    /\ g \in todo
    /\ todo' = todo \ {g}
    /\ IF entry[g].st = "started" THEN Send(Monitor, "poll", g, NoRoom)
                                  ELSE UNCHANGED task
    /\ UNCHANGED <<redisVars, vmVars, faults>>

\* The next key: skipped if it went away, else its launcher is asked.
MonitorVisits(g) ==
    /\ IsIdle(Monitor)
    /\ g \in todo
    /\ todo' = todo \ {g}
    /\ IF Present(g) THEN Send(Monitor, "poll", g, NoRoom) ELSE UNCHANGED task
    /\ UNCHANGED <<redisVars, vmVars, faults>>

\* A bug: the launcher's own word is stored as the state.
ObservedRaw(a, r) == [st |-> a, room |-> r]

\* updateProgressInfo overwrites state and room with the answer; a state that
\* is neither "up" nor "down" would leave the one read before the await.
Observed(a, r) ==
    IF a = "up" THEN [st |-> "started", room |-> r]
                ELSE [st |-> "stopped", room |-> NoRoom]

\* A bug: a launcher that does not answer keeps its entry.
PollEndsKeeping(t) ==
    /\ Resumes(t, "poll")
    /\ entry' = IF task[t].ans \in {"up", "down"}
                THEN [entry EXCEPT ![task[t].gw] = Observed(task[t].ans, task[t].room)]
                ELSE entry
    /\ Finish(t)
    /\ UNCHANGED <<vmVars, todo, faults>>

\* _fetchAndStoreGatewayStatus: an error or a failure deletes the entry.
PollEnds(t) ==
    LET g == task[t].gw IN
    /\ Resumes(t, "poll")
    /\ entry' = [entry EXCEPT ![g] = IF task[t].ans \in {"up", "down"}
                                    THEN Observed(task[t].ans, task[t].room)
                                    ELSE Absent]
    /\ Finish(t)
    /\ UNCHANGED <<vmVars, todo, faults>>

-----------------------------------------------------------------------------
(* The specification.                                                        *)

Launcher(t) ==
    \/ NoAnswer(t) \/ LauncherLooks(t)
    \/ LauncherStarts(t) \/ LauncherStops(t) \/ LauncherReports(t)
Resume(t) == StartEnds(t) \/ StopEnds(t) \/ PollEnds(t)

MonitorStep == MonitorScans \/ \E g \in Gateways : MonitorVisits(g)

Client(t, g) ==
    \/ \E r \in Rooms : StartBegins(t, g, r)
    \/ StopBegins(t, g)
    \/ StatusBegins(t, g)

Container(g) ==
    \/ Register(g)
    \/ RegisterLost(g)
    \/ BoxReady(g)
    \/ BoxJoins(g)
    \/ BoxExits(g)
    \/ \E f \in Gateways : Relaunches(g, f)
    \/ \E r \in Rooms : CallerPicks(g, r)

\* Every step but those of the machines themselves.
RegistryNext ==
    \/ \E t \in Tasks : Launcher(t) \/ AnswerLost(t) \/ Resume(t)
    \/ \E t \in Requests, g \in Gateways : Client(t, g)
    \/ \E g \in Gateways : Container(g) \/ Unregister(g)
    \/ MonitorStep

LeavesBoot(g) == BoxReady(g) \/ (box[g].run = "boot" /\ BoxExits(g))

Next == RegistryNext \/ \E h \in Hosts : HostBoots(h) \/ HostGoes(h)

\* asyncio resumes a coroutine whose request ended; a launcher answers or its
\* connection breaks; monitorGateways loops for as long as the proxy is up;
\* a container repeats its registration, and its entrypoint, whose waits all
\* have a timeout, gets to the application or exits.  No client has to call,
\* no call has to end.
RegistryFairness ==
    /\ WF_registryVars(MonitorStep)
    /\ \A t \in Tasks : WF_registryVars(Launcher(t)) /\ WF_registryVars(Resume(t))
    /\ \A g \in Gateways : WF_registryVars(Register(g)) /\ WF_registryVars(LeavesBoot(g))

Spec == Init /\ [][Next]_registryVars /\ RegistryFairness

-----------------------------------------------------------------------------
(* Properties.                                                               *)

\* An entry that names a room is a started one: /status?room= and deriveState
\* never find a conference on a gateway that is free, gone or being destroyed,
\* whatever stale answer was written last.
RoomOnlyWhenStarted ==
    \A g \in Gateways : entry[g].room # NoRoom => entry[g].st = "started"

\* The room an entry names is one that a container of its own number was sent to:
\* a late write of /start or of a poll never shows a conference that did not take
\* place there.  (Of its own container only, it would not hold: the loop brings a
\* number up under a new name, which registers, and may be polled, before it has
\* emptied the history of the one before: entrypoint.sh.)
RoomTruthful ==
    \A g \in Gateways : entry[g].room # NoRoom => entry[g].room \in served[NumberOf[g]]

\* What makes it so: the containers of a number and its history only know rooms
\* that number was sent to, and so do the answers in flight; only a launch that
\* was answered "ok" is written with its room.
KnownRooms ==
    \A g \in Gateways : {box[g].goal, hist[NumberOf[g]]} \intersect Rooms \subseteq served[NumberOf[g]]

HonestAnswer(t) ==
    task[t].room \in Rooms /\ (task[t].op = "start" => task[t].ans = "ok")
        => task[t].room \in served[NumberOf[task[t].gw]]

RoomInv ==
    /\ TypeOK
    /\ RoomTruthful
    /\ KnownRooms
    /\ \A t \in Tasks : ~IsIdle(t) => HonestAnswer(t)

\* "created" is where an entry begins and nothing brings it back: neither the
\* repeated registrations nor a write that started before the call did.
CreatedOnlyFromNothing ==
    [][\A g \in Gateways :
          entry[g] # Absent /\ entry[g].st # "created" => entry'[g].st # "created"]_entry

\* /start picks a free gateway (deploy/proxyAPI/README.md): a container that is
\* already sent to one room is never taken for another.
NoPreemption ==
    [][\A g \in Gateways :
          InConference(g) /\ box'[g].goal # NoRoom => box'[g].goal = box[g].goal]_box

\* A conference under way is eventually what the entry says, however many stale
\* writes come first: the monitor reads it again unless the call ends before.
ConferenceShown ==
    \A g \in Gateways, r \in Rooms :
        OnAir(g, r) ~> (entry[g] = [st |-> "started", room |-> r] \/ ~OnAir(g, r))

\* A gateway marked deleted by /stop comes back to the pool (or leaves it): the
\* mark is only there until the next poll.
DeletedReturns ==
    \A g \in Gateways : (entry[g].st = "deleted") ~> (entry[g].st # "deleted")

\* The entries of a machine that is gone, and of a container the loop replaced,
\* end up gone for good: no request still in flight keeps bringing them back.
DeadForgotten ==
    \A g \in Gateways :
        <>[](host[HostOf[g]] = "gone" \/ box[g].run = "gone") => <>[](entry[g] = Absent)

=============================================================================
