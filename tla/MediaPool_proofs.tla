-------------------------- MODULE MediaPool_proofs --------------------------
(***************************************************************************)
(* What the registry guarantees for any number of gateways, machines, rooms, *)
(* clients and faults, by itself and when the scaler writes into it, and     *)
(* what the scaler itself never does, for any pool, slots and failures of    *)
(* the provider.  The scaler changes the registry in two ways only: a        *)
(* machine goes, as it may in the registry alone, or an entry is marked.     *)
(***************************************************************************)
EXTENDS MediaPool, ScalerPolicy_proofs, FiniteSetTheorems

-----------------------------------------------------------------------------
(* The registry by itself.                                                   *)

-----------------------------------------------------------------------------
(* Type correctness: first the coroutines, then one lemma per group of       *)
(* actions.                                                                  *)

LEMMA InitTypeOK == Init => TypeOK
  BY RegistryAssumption
  DEF Init, TypeOK, RegistryAssumption, Entries, Absent, MaybeRoom, Boxes, NoBox,
      Tasks, TaskStates, Idle

LEMMA BusyWhen ==
    ASSUME NEW t, NEW op \in {"start", "stop", "poll"}, Waits(t, op) \/ Resumes(t, op)
    PROVE  ~IsIdle(t) /\ task[t].op = op
  BY DEF Waits, Resumes, IsIdle, Idle

\* What a coroutine that waits or resumes is made of.
LEMMA BusyType ==
    ASSUME TypeOK, NEW t \in Tasks, ~IsIdle(t)
    PROVE  /\ task[t] \in StartTasks \union AskTasks
           /\ task[t].gw \in Gateways
           /\ task[t].room \in MaybeRoom
           /\ task[t].op = "start" => task[t].room \in Rooms
  BY DEF TypeOK, TaskStates, StartTasks, AskTasks, IsIdle, MaybeRoom

LEMMA SendStartType ==
    ASSUME TypeOK, NEW t \in Tasks, NEW g \in Gateways, NEW r \in Rooms,
           Send(t, "start", g, r)
    PROVE  task' \in [Tasks -> TaskStates]
  BY DEF TypeOK, Send, TaskStates, StartTasks, Answers

LEMMA SendAskType ==
    ASSUME TypeOK, NEW t \in Tasks, NEW op \in {"stop", "poll"}, NEW g \in Gateways,
           Send(t, op, g, NoRoom)
    PROVE  task' \in [Tasks -> TaskStates]
  BY DEF TypeOK, Send, TaskStates, AskTasks, Answers, MaybeRoom

LEMMA AnswerType ==
    ASSUME TypeOK, NEW t \in Tasks, ~IsIdle(t), NEW a \in Answers, NEW r \in MaybeRoom,
           task[t].op = "start" => r \in Rooms, Answer(t, a, r)
    PROVE  task' \in [Tasks -> TaskStates]
<1>1. [task[t] EXCEPT !.ans = a, !.room = r] \in TaskStates
  BY BusyType DEF TaskStates, StartTasks, AskTasks
<1> QED BY <1>1 DEF TypeOK, Answer

LEMMA FinishType ==
    ASSUME TypeOK, NEW t \in Tasks, Finish(t)
    PROVE  task' \in [Tasks -> TaskStates]
  BY DEF TypeOK, Finish, TaskStates

\* What a container leaves in its history has the type of a history.
LEMMA LeavesType ==
    ASSUME TypeOK, NEW n \in Numbers, Leaves(n)
    PROVE  hist' \in [Numbers -> MaybeRoom \union {NoFile}]
  BY DEF TypeOK, Leaves, MaybeRoom

\* Bringing a container up.
LEMMA LaunchesType ==
    ASSUME TypeOK, NEW g \in Gateways, NEW r \in MaybeRoom, NEW S, Launches(g, r, S)
    PROVE  box' \in [Gateways -> Boxes]
<1>1. LaunchBox(r) \in Boxes /\ GoneBox \in Boxes
  BY DEF LaunchBox, GoneBox, Boxes, MaybeRoom
<1>2. \A f \in Gateways : box[f] \in Boxes
  BY DEF TypeOK
<1> HIDE DEF Boxes
<1> QED BY <1>1, <1>2 DEF Launches

LEMMA StartsType ==
    ASSUME TypeOK, NEW t \in Tasks, LauncherStarts(t)
    PROVE  TypeOK'
<1> DEFINE g == task[t].gw
           n == NumberOf[g]
           r == task[t].room
<1>1. ~IsIdle(t) /\ task[t].op = "start" BY BusyWhen DEF LauncherStarts
<1>2. g \in Gateways /\ n \in Numbers /\ r \in Rooms /\ r \in MaybeRoom /\ NoRoom \in MaybeRoom
  BY <1>1, BusyType, RegistryAssumption DEF MaybeRoom, RegistryAssumption
<1>3. task' \in [Tasks -> TaskStates]
  <2>1. \E a \in Answers : Answer(t, a, r) BY DEF LauncherStarts, Answers
  <2> QED BY <1>1, <1>2, <2>1, AnswerType
<1>4. box' \in [Gateways -> Boxes]
  <2>1. \/ \E S : \E f \in Gateways, room \in MaybeRoom : Launches(f, room, S)
        \/ box' = box
    <3> HIDE DEF g, r
    <3>1. \/ Launches(g, r, {})
          \/ \E S \in {{}, Exited(HostOf[g])} : Launches(g, r, S)
          \/ \E f \in Gateways : Launches(f, NoRoom, Exited(HostOf[g]))
          \/ box' = box
      BY DEF LauncherStarts, g, r
    <3> QED BY <1>2, <3>1
  <2> QED BY <2>1, LaunchesType DEF TypeOK
<1>5. hist' \in [Numbers -> MaybeRoom \union {NoFile}]
  <2>1. Leaves(n) \/ hist' = hist BY DEF LauncherStarts
  <2> QED BY <1>2, <2>1, LeavesType DEF TypeOK
<1>6. served' \in [Numbers -> SUBSET Rooms]
  <2>1. served' = [served EXCEPT ![n] = @ \union {r}] \/ served' = served BY DEF LauncherStarts
  <2> QED BY <1>2, <2>1 DEF TypeOK
<1> QED BY <1>3, <1>4, <1>5, <1>6 DEF LauncherStarts, TypeOK, redisVars

LEMMA LauncherType ==
    ASSUME TypeOK, NEW t \in Tasks, Launcher(t)
    PROVE  TypeOK'
<1>1. CASE NoAnswer(t) \/ LauncherLooks(t)
  <2>1. \E a \in Answers : Answer(t, a, task[t].room)
    BY <1>1 DEF NoAnswer, LauncherLooks, Answers
  <2>2. ~IsIdle(t) BY <1>1 DEF NoAnswer, LauncherLooks, Asked
  <2>3. task' \in [Tasks -> TaskStates]
    BY <2>1, <2>2, AnswerType, BusyType
  <2> QED BY <1>1, <2>3 DEF NoAnswer, LauncherLooks, TypeOK, redisVars, vmVars
<1>2. CASE LauncherStarts(t) BY <1>2, StartsType
<1>3. CASE LauncherStops(t)
  <2>1. ~IsIdle(t) /\ task[t].op = "stop" BY <1>3, BusyWhen DEF LauncherStops
  <2>2. task[t].gw \in Gateways /\ NumberOf[task[t].gw] \in Numbers
    BY <2>1, BusyType, RegistryAssumption DEF RegistryAssumption
  <2>3. task' \in [Tasks -> TaskStates]
    BY <1>3, <2>1, AnswerType DEF LauncherStops, Answers, MaybeRoom
  <2>4. hist' \in [Numbers -> MaybeRoom \union {NoFile}]
    <3>1. Leaves(NumberOf[task[t].gw]) \/ hist' = hist BY <1>3 DEF LauncherStops
    <3> QED BY <2>2, <3>1, LeavesType DEF TypeOK
  <2>5. box' \in [Gateways -> Boxes]
    BY <1>3, <2>2 DEF LauncherStops, TypeOK, Boxes, DownBox, MaybeRoom
  <2> QED BY <1>3, <2>3, <2>4, <2>5 DEF LauncherStops, TypeOK, redisVars
<1>4. CASE LauncherReports(t)
  <2>1. ~IsIdle(t) /\ task[t].op = "poll" BY <1>4, BusyWhen DEF LauncherReports
  <2>2. hist[NumberOf[task[t].gw]] \in MaybeRoom \union {NoFile}
    BY <2>1, BusyType, RegistryAssumption DEF RegistryAssumption, TypeOK
  <2>3. \E a \in Answers, r \in MaybeRoom : Answer(t, a, r)
    BY <1>4, <2>2 DEF LauncherReports, Answers, MaybeRoom
  <2>4. task' \in [Tasks -> TaskStates]
    BY <2>1, <2>3, AnswerType
  <2> QED BY <1>4, <2>4 DEF LauncherReports, TypeOK, redisVars, vmVars
<1> QED BY <1>1, <1>2, <1>3, <1>4 DEF Launcher

LEMMA AnswerLostType ==
    ASSUME TypeOK, NEW t \in Tasks, AnswerLost(t)
    PROVE  TypeOK'
<1>1. task' \in [Tasks -> TaskStates]
  BY AnswerType, BusyType DEF AnswerLost, Answers
<1>2. faults' \in 0..MaxFaults
  BY RegistryAssumption DEF AnswerLost, TypeOK, RegistryAssumption
<1> QED BY <1>1, <1>2 DEF AnswerLost, TypeOK, redisVars, vmVars

LEMMA ResumeType ==
    ASSUME TypeOK, NEW t \in Tasks, Resume(t)
    PROVE  TypeOK'
<1>1. ~IsIdle(t)
  BY BusyWhen DEF Resume, StartEnds, StopEnds, PollEnds
<1>2. task[t].gw \in Gateways /\ task[t].room \in MaybeRoom
  BY <1>1, BusyType
<1>3. task' \in [Tasks -> TaskStates]
  BY FinishType DEF Resume, StartEnds, StopEnds, PollEnds
<1>4. entry' \in [Gateways -> Entries]
  <2>1. CASE StartEnds(t)
    BY <1>2, <2>1 DEF StartEnds, TypeOK, Entries, States
  <2>2. CASE StopEnds(t)
    BY <1>2, <2>2 DEF StopEnds, TypeOK, Entries, States, MaybeRoom
  <2>3. CASE PollEnds(t)
    BY <1>2, <2>3 DEF PollEnds, TypeOK, Entries, States, Observed, Absent, MaybeRoom
  <2> QED BY <2>1, <2>2, <2>3 DEF Resume
<1> QED BY <1>3, <1>4 DEF Resume, StartEnds, StopEnds, PollEnds, TypeOK, vmVars

LEMMA ClientType ==
    ASSUME TypeOK, NEW t \in Requests, NEW g \in Gateways, Client(t, g)
    PROVE  TypeOK'
<1>1. task' \in [Tasks -> TaskStates]
  BY SendStartType, SendAskType DEF Client, StartBegins, StopBegins, StatusBegins, Tasks
<1> QED
  BY <1>1 DEF Client, StartBegins, StopBegins, StatusBegins, TypeOK, redisVars, vmVars

LEMMA ContainerType ==
    ASSUME TypeOK, NEW g \in Gateways, Container(g) \/ Unregister(g)
    PROVE  TypeOK'
<1>0. NumberOf[g] \in Numbers BY RegistryAssumption DEF RegistryAssumption
<1>1. CASE Register(g)
  BY <1>1 DEF Register, Registered, Fresh, Absent, Launched, TypeOK, Entries, States,
              Boxes, MaybeRoom, proxyVars
<1>2. CASE RegisterLost(g)
  <2>1. faults' \in 0..MaxFaults
    BY <1>2, RegistryAssumption DEF RegisterLost, TypeOK, RegistryAssumption
  <2> QED BY <1>2, <2>1 DEF RegisterLost, Launched, TypeOK, Boxes, redisVars
<1>3. CASE BoxReady(g)
  BY <1>3, <1>0 DEF BoxReady, TypeOK, Boxes, MaybeRoom, redisVars, proxyVars
<1>4. CASE BoxJoins(g)
  BY <1>4, <1>0 DEF BoxJoins, TypeOK, Boxes, MaybeRoom, redisVars, proxyVars
<1>5. CASE BoxExits(g)
  <2>1. hist' \in [Numbers -> MaybeRoom \union {NoFile}]
    BY <1>0, <1>5, LeavesType DEF BoxExits
  <2>2. box' \in [Gateways -> Boxes]
    BY <1>5 DEF BoxExits, TypeOK, Boxes, DownBox, MaybeRoom
  <2> QED BY <1>5, <2>1, <2>2 DEF BoxExits, TypeOK, redisVars, proxyVars
<1>8. CASE \E f \in Gateways : Relaunches(g, f)
  <2>1. PICK f \in Gateways : Launches(f, NoRoom, Exited(HostOf[g]))
    BY <1>8 DEF Relaunches
  <2>2. box' \in [Gateways -> Boxes]
    BY <2>1, LaunchesType DEF MaybeRoom
  <2> QED BY <1>8, <2>2 DEF Relaunches, TypeOK, redisVars, proxyVars
<1>6. CASE \E r \in Rooms : CallerPicks(g, r)
  BY <1>6, <1>0 DEF CallerPicks, TypeOK, Boxes, MaybeRoom, redisVars, proxyVars
<1>7. CASE Unregister(g)
  <2>1. faults' \in 0..MaxFaults
    BY <1>7, RegistryAssumption DEF Unregister, TypeOK, RegistryAssumption
  <2> QED BY <1>7, <2>1 DEF Unregister, TypeOK, Entries, Absent, MaybeRoom, vmVars
<1> QED BY <1>1, <1>2, <1>3, <1>4, <1>5, <1>6, <1>7, <1>8 DEF Container

LEMMA MonitorType ==
    ASSUME TypeOK, MonitorStep
    PROVE  TypeOK'
<1>1. CASE MonitorScans
  BY <1>1 DEF MonitorScans, TypeOK, redisVars, vmVars
<1>2. ASSUME NEW g \in Gateways, MonitorVisits(g) PROVE TypeOK'
  <2>1. task' \in [Tasks -> TaskStates]
    BY <1>2, SendAskType DEF MonitorVisits, Tasks, TypeOK
  <2> QED BY <1>2, <2>1 DEF MonitorVisits, TypeOK, redisVars, vmVars
<1> QED BY <1>1, <1>2 DEF MonitorStep

LEMMA MachineType ==
    ASSUME TypeOK, NEW h \in Hosts, HostBoots(h) \/ HostGoes(h)
    PROVE  TypeOK'
<1>1. box' \in [Gateways -> Boxes]
  BY DEF HostBoots, HostGoes, TypeOK, Boxes, LaunchBox, NoBox, MaybeRoom
<1>2. hist' \in [Numbers -> MaybeRoom \union {NoFile}]
  BY DEF HostBoots, HostGoes, TypeOK
<1> QED BY <1>1, <1>2 DEF HostBoots, HostGoes, TypeOK, redisVars, proxyVars

LEMMA NextTypeOK == TypeOK /\ [Next]_registryVars => TypeOK'
<1> SUFFICES ASSUME TypeOK, [Next]_registryVars PROVE TypeOK'
  OBVIOUS
<1>1. CASE RegistryNext
  BY <1>1, LauncherType, AnswerLostType, ResumeType, ClientType, ContainerType, MonitorType
  DEF RegistryNext
<1>2. CASE \E h \in Hosts : HostBoots(h) \/ HostGoes(h)
  BY <1>2, MachineType
<1>3. CASE UNCHANGED registryVars
  BY <1>3 DEF registryVars, TypeOK
<1> QED BY <1>1, <1>2, <1>3 DEF Next

\* Every variable keeps its type: in particular a /start under way always names
\* a room, and an entry is never left with a launcher's word as its state.
THEOREM TypeCorrect == Spec => []TypeOK
<1>1. Init => TypeOK BY InitTypeOK
<1>2. TypeOK /\ [Next]_registryVars => TypeOK' BY NextTypeOK
<1> QED BY <1>1, <1>2, PTL DEF Spec

-----------------------------------------------------------------------------
(* A room is only in a started entry.                                        *)

\* The steps that write an entry.
LEMMA OnlyWriters ==
    [Next]_registryVars =>
        \/ \E t \in Tasks : Resume(t)
        \/ \E g \in Gateways : Register(g) \/ Unregister(g)
        \/ UNCHANGED entry
<1> SUFFICES ASSUME [Next]_registryVars,
                    ~ \E t \in Tasks : Resume(t),
                    ~ \E g \in Gateways : Register(g) \/ Unregister(g)
             PROVE  UNCHANGED entry
  OBVIOUS
<1>1. ASSUME NEW t \in Tasks, Launcher(t) \/ AnswerLost(t) PROVE UNCHANGED entry
  BY <1>1 DEF Launcher, AnswerLost, NoAnswer, LauncherLooks, LauncherStarts, LauncherStops,
              LauncherReports, redisVars
<1>2. ASSUME NEW t \in Requests, NEW g \in Gateways, Client(t, g) PROVE UNCHANGED entry
  BY <1>2 DEF Client, StartBegins, StopBegins, StatusBegins, redisVars
<1>3. ASSUME NEW g \in Gateways, Container(g) PROVE UNCHANGED entry
  BY <1>3 DEF Container, RegisterLost, BoxReady, BoxJoins, BoxExits, Relaunches, CallerPicks, redisVars
<1>4. CASE MonitorStep
  BY <1>4 DEF MonitorStep, MonitorScans, MonitorVisits, redisVars
<1>5. ASSUME NEW h \in Hosts, HostBoots(h) \/ HostGoes(h) PROVE UNCHANGED entry
  BY <1>5 DEF HostBoots, HostGoes, redisVars
<1>6. CASE UNCHANGED registryVars
  BY <1>6 DEF registryVars
<1> QED BY <1>1, <1>2, <1>3, <1>4, <1>5, <1>6 DEF Next, RegistryNext

LEMMA NextRoomOnlyWhenStarted ==
    TypeOK /\ RoomOnlyWhenStarted /\ [Next]_registryVars => RoomOnlyWhenStarted'
<1> SUFFICES ASSUME TypeOK, RoomOnlyWhenStarted, [Next]_registryVars
             PROVE  RoomOnlyWhenStarted'
  OBVIOUS
<1>1. ASSUME NEW t \in Tasks, Resume(t) PROVE RoomOnlyWhenStarted'
  <2>1. CASE StartEnds(t)
    BY <2>1 DEF StartEnds, RoomOnlyWhenStarted, TypeOK
  <2>2. CASE StopEnds(t)
    BY <2>2 DEF StopEnds, RoomOnlyWhenStarted, TypeOK
  <2>3. CASE PollEnds(t)
    BY <2>3 DEF PollEnds, Observed, Absent, RoomOnlyWhenStarted, TypeOK
  <2> QED BY <1>1, <2>1, <2>2, <2>3 DEF Resume
<1>2. ASSUME NEW g \in Gateways, Register(g) \/ Unregister(g) PROVE RoomOnlyWhenStarted'
  BY <1>2 DEF Register, Registered, Fresh, Unregister, Absent, RoomOnlyWhenStarted, TypeOK
<1>3. CASE UNCHANGED entry
  BY <1>3 DEF RoomOnlyWhenStarted
<1> QED BY <1>1, <1>2, <1>3, OnlyWriters

\* Whatever is written last, and however stale, an entry that names a room is
\* started: no conference is ever shown on a free, deleted or stopping gateway.
THEOREM RoomsAreStarted == Spec => []RoomOnlyWhenStarted
<1>1. Init => RoomOnlyWhenStarted
  BY DEF Init, RoomOnlyWhenStarted, Absent
<1>2. TypeOK /\ RoomOnlyWhenStarted /\ [Next]_registryVars => RoomOnlyWhenStarted'
  BY NextRoomOnlyWhenStarted
<1> QED BY <1>1, <1>2, TypeCorrect, PTL DEF Spec

-----------------------------------------------------------------------------
(* "created" is only a beginning.                                            *)

\* Writes that began on a fresh entry never make a used one look unused.
LEMMA NextCreated ==
    TypeOK /\ [Next]_registryVars =>
        [\A g \in Gateways :
             entry[g] # Absent /\ entry[g].st # "created" => entry'[g].st # "created"]_entry
<1> DEFINE Step ==
      \A g \in Gateways :
          entry[g] # Absent /\ entry[g].st # "created" => entry'[g].st # "created"
<1> SUFFICES ASSUME TypeOK, [Next]_registryVars PROVE Step \/ UNCHANGED entry
  OBVIOUS
<1>1. ASSUME NEW t \in Tasks, Resume(t) PROVE Step
  <2>1. CASE StartEnds(t)
    BY <2>1 DEF StartEnds, TypeOK
  <2>2. CASE StopEnds(t)
    BY <2>2 DEF StopEnds, TypeOK
  <2>3. CASE PollEnds(t)
    BY <2>3 DEF PollEnds, Observed, Absent, TypeOK
  <2> QED BY <1>1, <2>1, <2>2, <2>3 DEF Resume
<1>2. ASSUME NEW g \in Gateways, Register(g) \/ Unregister(g) PROVE Step
  BY <1>2 DEF Register, Registered, Unregister, Absent, TypeOK
<1> QED BY <1>1, <1>2, OnlyWriters

\* Registering again, at any time, or finishing late what was begun on a fresh
\* entry, never makes a gateway that has been used look unused.
THEOREM CreatedIsABeginning == Spec => CreatedOnlyFromNothing
<1>1. TypeOK /\ [Next]_registryVars =>
        [\A g \in Gateways :
             entry[g] # Absent /\ entry[g].st # "created" => entry'[g].st # "created"]_entry
  BY NextCreated
<1> QED BY <1>1, TypeCorrect, PTL DEF Spec, CreatedOnlyFromNothing

-----------------------------------------------------------------------------
(* The room an entry names is one its number was sent to.                    *)

LEMMA InitRoomInv == Init => RoomInv
<1> SUFFICES ASSUME Init PROVE RoomInv
  OBVIOUS
<1>1. TypeOK BY InitTypeOK
<1>2. RoomTruthful BY DEF Init, Absent, RoomTruthful
<1>3. KnownRooms BY RegistryAssumption DEF Init, NoBox, KnownRooms, RegistryAssumption
<1>4. \A t \in Tasks : IsIdle(t) BY DEF Init, IsIdle
<1> QED BY <1>1, <1>2, <1>3, <1>4 DEF RoomInv

\* Rooms are only ever added to what a number served.
LEMMA ServedGrows ==
    TypeOK /\ [Next]_registryVars => \A n \in Numbers : served[n] \subseteq served'[n]
<1> SUFFICES ASSUME TypeOK, [Next]_registryVars
             PROVE  \A n \in Numbers : served[n] \subseteq served'[n]
  OBVIOUS
<1>1. ASSUME NEW t \in Tasks, LauncherStarts(t)
      PROVE  \A n \in Numbers : served[n] \subseteq served'[n]
  BY <1>1 DEF LauncherStarts, TypeOK
<1>2. ASSUME NEW f \in Gateways, NEW r \in Rooms, CallerPicks(f, r)
      PROVE  \A n \in Numbers : served[n] \subseteq served'[n]
  BY <1>2 DEF CallerPicks, TypeOK
<1>3. ASSUME ~ \E t \in Tasks : LauncherStarts(t),
             ~ \E g \in Gateways, r \in Rooms : CallerPicks(g, r)
      PROVE  UNCHANGED served
  <2>1. ASSUME NEW t \in Tasks, Launcher(t) \/ AnswerLost(t) \/ Resume(t)
        PROVE  UNCHANGED served
    BY <1>3, <2>1 DEF Launcher, AnswerLost, NoAnswer, LauncherLooks, LauncherStops, LauncherReports,
                      Resume, StartEnds, StopEnds, PollEnds, vmVars
  <2>2. ASSUME NEW t \in Requests, NEW g \in Gateways, Client(t, g)
        PROVE  UNCHANGED served
    BY <2>2 DEF Client, StartBegins, StopBegins, StatusBegins, vmVars
  <2>3. ASSUME NEW g \in Gateways, Container(g) \/ Unregister(g)
        PROVE  UNCHANGED served
    BY <1>3, <2>3 DEF Container, Register, RegisterLost, BoxReady, BoxJoins, BoxExits,
                      Relaunches, Unregister, vmVars
  <2>4. CASE MonitorStep
    BY <2>4 DEF MonitorStep, MonitorScans, MonitorVisits, vmVars
  <2>5. ASSUME NEW h \in Hosts, HostBoots(h) \/ HostGoes(h) PROVE UNCHANGED served
    BY <2>5 DEF HostBoots, HostGoes
  <2>6. CASE UNCHANGED registryVars
    BY <2>6 DEF registryVars
  <2> QED BY <2>1, <2>2, <2>3, <2>4, <2>5, <2>6 DEF Next, RegistryNext
<1> QED BY <1>1, <1>2, <1>3

\* A step that writes a room into an entry has the room from an honest answer.
LEMMA NextRoomTruthful == RoomInv /\ [Next]_registryVars => RoomTruthful'
<1> SUFFICES ASSUME RoomInv, [Next]_registryVars PROVE RoomTruthful'
  OBVIOUS
<1>1. \A g \in Gateways : served[NumberOf[g]] \subseteq served'[NumberOf[g]]
  BY ServedGrows, RegistryAssumption DEF RoomInv, RegistryAssumption
<1>2. ASSUME NEW t \in Tasks, Resume(t) PROVE RoomTruthful'
  <2>1. ~IsIdle(t)
    BY <1>2, BusyWhen DEF Resume, StartEnds, StopEnds, PollEnds
  <2>2. /\ task[t].gw \in Gateways /\ task[t].room \in MaybeRoom
        /\ HonestAnswer(t)
    BY <2>1, BusyType DEF RoomInv
  <2>3. CASE StartEnds(t)
    BY <1>1, <2>2, <2>3
    DEF StartEnds, RoomTruthful, RoomInv, TypeOK, HonestAnswer, MaybeRoom
  <2>4. CASE StopEnds(t)
    BY <1>1, <2>4 DEF StopEnds, RoomTruthful, RoomInv, TypeOK
  <2>5. CASE PollEnds(t)
    BY <1>1, <2>2, <2>5
    DEF PollEnds, Observed, Absent, Resumes, RoomTruthful, RoomInv, TypeOK, HonestAnswer,
        MaybeRoom
  <2> QED BY <1>2, <2>3, <2>4, <2>5 DEF Resume
<1>3. ASSUME NEW f \in Gateways, Register(f) \/ Unregister(f) PROVE RoomTruthful'
  <2>1. \A g \in Gateways : entry'[g].room \in {entry[g].room, NoRoom}
    BY <1>3 DEF Register, Registered, Fresh, Unregister, Absent, RoomInv, TypeOK
  <2> QED BY <1>1, <2>1 DEF RoomTruthful, RoomInv
<1>4. CASE UNCHANGED entry
  BY <1>1, <1>4 DEF RoomTruthful, RoomInv
<1> QED BY <1>2, <1>3, <1>4, OnlyWriters

\* Nothing is known of a new container's room but what it is launched for.
LEMMA LaunchedKnows ==
    ASSUME TypeOK, KnownRooms, NEW g \in Gateways, NEW r \in MaybeRoom, NEW S, Launches(g, r, S),
           NEW k \in Gateways
    PROVE  box'[k].goal \in {box[k].goal, NoRoom} \/ (k = g /\ box'[k].goal = r)
  BY DEF Launches, LaunchBox, GoneBox, TypeOK

\* A history that is left is the one that was there, or empty.
LEMMA LeftKnows ==
    ASSUME TypeOK, NEW n \in Numbers, Leaves(n), NEW m \in Numbers
    PROVE  hist'[m] \in {hist[m], NoRoom, NoFile}
  BY DEF Leaves, TypeOK

\* Histories and goals change when a number is sent to a room, and then only to
\* what it was sent to.
LEMMA NextKnownRooms == RoomInv /\ [Next]_registryVars => KnownRooms'
<1> SUFFICES ASSUME RoomInv, [Next]_registryVars, NEW k \in Gateways
             PROVE  {box'[k].goal, hist'[NumberOf[k]]} \intersect Rooms \subseteq served'[NumberOf[k]]
  BY DEF KnownRooms
<1> DEFINE m == NumberOf[k]
           Known == {box'[k].goal, hist'[m]} \intersect Rooms \subseteq served'[m]
<1>1. TypeOK /\ KnownRooms /\ m \in Numbers
  BY RegistryAssumption DEF RoomInv, RegistryAssumption
<1>2. {box[k].goal, hist[m]} \intersect Rooms \subseteq served[m] /\ served[m] \subseteq served'[m]
  BY <1>1, ServedGrows DEF KnownRooms
<1>3. NoRoom \notin Rooms /\ NoFile \notin Rooms
  BY RegistryAssumption DEF RegistryAssumption
<1>4. ASSUME box'[k].goal \in {box[k].goal, NoRoom} \/ box'[k].goal \in served'[m],
             hist'[m] \in {hist[m], NoRoom, NoFile} \/ hist'[m] \in served'[m]
      PROVE  Known
  BY <1>2, <1>3, <1>4
<1> HIDE DEF Known
<1>5. ASSUME UNCHANGED <<box, hist>> PROVE Known
  <2>1. box' = box /\ hist' = hist BY <1>5
  <2>2. box'[k].goal = box[k].goal /\ hist'[m] = hist[m] BY <2>1
  <2> QED BY <1>4, <2>2
<1>6. ASSUME NEW t \in Tasks, LauncherStarts(t) PROVE Known
  <2> DEFINE g == task[t].gw
             r == task[t].room
  <2>1. g \in Gateways /\ r \in MaybeRoom /\ NumberOf[g] \in Numbers
    BY <1>1, <1>6, BusyWhen, BusyType, RegistryAssumption DEF LauncherStarts, RegistryAssumption
  <2>2. hist'[m] \in {hist[m], NoRoom, NoFile}
    <3>1. Leaves(NumberOf[g]) \/ hist' = hist BY <1>6 DEF LauncherStarts
    <3> QED BY <1>1, <2>1, <3>1, LeftKnows
  <2>3. box' = box \/ r \in served'[NumberOf[g]]
    BY <1>1, <1>6, <2>1 DEF LauncherStarts, TypeOK
  <2>4. NoRoom \in MaybeRoom BY DEF MaybeRoom
  <2> HIDE DEF g, r
  <2>5. \/ \E S : Launches(g, r, S)
        \/ \E S : \E f \in Gateways : Launches(f, NoRoom, S)
        \/ box' = box
    BY <1>6 DEF LauncherStarts, g, r
  <2>6. ASSUME NEW S, Launches(g, r, S) PROVE box'[k].goal \in {box[k].goal, NoRoom} \/ box'[k].goal \in served'[m]
    BY <1>1, <2>1, <2>3, <2>6, LaunchedKnows
  <2>7. ASSUME NEW f \in Gateways, NEW S, Launches(f, NoRoom, S) PROVE box'[k].goal \in {box[k].goal, NoRoom}
    BY <1>1, <2>4, <2>7, LaunchedKnows
  <2> QED BY <1>4, <2>2, <2>5, <2>6, <2>7
<1>7. ASSUME NEW t \in Tasks, LauncherStops(t) PROVE Known
  <2>1. task[t].gw \in Gateways /\ NumberOf[task[t].gw] \in Numbers
    BY <1>1, <1>7, BusyWhen, BusyType, RegistryAssumption DEF LauncherStops, RegistryAssumption
  <2>2. hist'[m] \in {hist[m], NoRoom, NoFile}
    <3>1. Leaves(NumberOf[task[t].gw]) \/ hist' = hist BY <1>7 DEF LauncherStops
    <3> QED BY <1>1, <2>1, <3>1, LeftKnows
  <2>3. box'[k].goal \in {box[k].goal, NoRoom}
    BY <1>1, <1>7, <2>1 DEF LauncherStops, DownBox, TypeOK
  <2> QED BY <1>4, <2>2, <2>3
<1>8. ASSUME NEW f \in Gateways, Container(f) PROVE Known
  <2>0. NumberOf[f] \in Numbers BY RegistryAssumption DEF RegistryAssumption
  <2>1. CASE Register(f) \/ RegisterLost(f)
    <3>1. box'[k].goal = box[k].goal /\ hist' = hist
      BY <1>1, <2>1 DEF Register, RegisterLost, Launched, TypeOK, Boxes
    <3> QED BY <1>4, <3>1
  <2>2. CASE BoxReady(f)
    <3>1. box'[k].goal = box[k].goal /\ hist'[m] \in {hist[m], NoRoom}
      BY <1>1, <2>0, <2>2 DEF BoxReady, TypeOK, Boxes
    <3> QED BY <1>4, <3>1
  <2>3. CASE BoxJoins(f)
    <3>1. box' = box /\ (hist'[m] = hist[m] \/ (NumberOf[f] = m /\ hist'[m] = box[f].goal))
      BY <1>1, <2>0, <2>3 DEF BoxJoins, TypeOK
    <3>2. NumberOf[f] = m => box[f].goal = NoRoom \/ box[f].goal \in served'[m]
      <4>1. {box[f].goal} \intersect Rooms \subseteq served[NumberOf[f]] BY <1>1 DEF KnownRooms
      <4>2. box[f].goal \in MaybeRoom BY <1>1 DEF TypeOK, Boxes
      <4> QED BY <1>2, <4>1, <4>2 DEF MaybeRoom
    <3> QED BY <1>4, <3>1, <3>2
  <2>4. CASE BoxExits(f)
    <3>1. hist'[m] \in {hist[m], NoRoom, NoFile} BY <1>1, <2>0, <2>4, LeftKnows DEF BoxExits
    <3>2. box'[k].goal \in {box[k].goal, NoRoom} BY <1>1, <2>4 DEF BoxExits, DownBox, TypeOK
    <3> QED BY <1>4, <3>1, <3>2
  <2>5. ASSUME NEW g \in Gateways, Relaunches(f, g) PROVE Known
    <3>1. NoRoom \in MaybeRoom BY DEF MaybeRoom
    <3>2. box'[k].goal \in {box[k].goal, NoRoom} /\ hist' = hist
      BY <1>1, <2>5, <3>1, LaunchedKnows DEF Relaunches
    <3> QED BY <1>4, <3>2
  <2>6. ASSUME NEW r \in Rooms, CallerPicks(f, r) PROVE Known
    <3>1. r \in served'[NumberOf[f]]
      BY <1>1, <2>0, <2>6 DEF CallerPicks, TypeOK
    <3>2. (box'[k].goal = box[k].goal \/ (k = f /\ box'[k].goal = r)) /\ hist' = hist
      BY <1>1, <2>6 DEF CallerPicks, TypeOK, Boxes
    <3> QED BY <1>4, <3>1, <3>2
  <2> QED BY <1>8, <2>1, <2>2, <2>3, <2>4, <2>5, <2>6 DEF Container
<1>9. ASSUME NEW h \in Hosts, HostBoots(h) \/ HostGoes(h) PROVE Known
  <2>1. box'[k].goal \in {box[k].goal, NoRoom}
    BY <1>9 DEF HostBoots, HostGoes, LaunchBox, NoBox
  <2>2. hist'[m] \in {hist[m], NoFile}
    BY <1>1, <1>9 DEF HostBoots, HostGoes
  <2> QED BY <1>4, <2>1, <2>2
<1>10. (\E t \in Tasks : NoAnswer(t) \/ LauncherLooks(t) \/ LauncherReports(t) \/ AnswerLost(t) \/ Resume(t))
        \/ MonitorStep \/ (\E t \in Requests, g \in Gateways : Client(t, g))
        \/ (\E g \in Gateways : Unregister(g)) \/ UNCHANGED registryVars
      => UNCHANGED <<box, hist>>
  BY DEF NoAnswer, LauncherLooks, LauncherReports, AnswerLost, Resume, StartEnds, StopEnds, PollEnds,
         MonitorStep, MonitorScans, MonitorVisits, Client, StartBegins, StopBegins, StatusBegins,
         Unregister, vmVars, registryVars
<1>11. Known
  <2>1. ASSUME NEW t \in Tasks, Launcher(t) PROVE Known
    BY <1>5, <1>6, <1>7, <1>10, <2>1 DEF Launcher
  <2>2. ASSUME RegistryNext PROVE Known BY <1>5, <1>8, <1>10, <2>1, <2>2, Zenon DEF RegistryNext
  <2>3. ASSUME UNCHANGED registryVars PROVE Known BY <1>5, <1>10, <2>3, Zenon
  <2> QED BY <1>9, <2>2, <2>3 DEF Next
<1> QED BY <1>11 DEF Known, m

\* An answer is honest when it is given, and stays so while it is on its way.
LEMMA NextHonestAnswer ==
    RoomInv /\ [Next]_registryVars => (\A t \in Tasks : ~IsIdle(t) => HonestAnswer(t))'
<1> SUFFICES ASSUME RoomInv, [Next]_registryVars, NEW u \in Tasks, ~IsIdle(u)'
             PROVE  HonestAnswer(u)'
  BY DEF HonestAnswer, IsIdle
<1>1. TypeOK' /\ TypeOK
  BY NextTypeOK DEF RoomInv
<1>2. \A g \in Gateways : NumberOf[g] \in Numbers /\ served[NumberOf[g]] \subseteq served'[NumberOf[g]]
  BY ServedGrows, <1>1, RegistryAssumption DEF RegistryAssumption
<1>3. CASE task'[u] = task[u]
  <2>1. ~IsIdle(u) BY <1>3 DEF IsIdle
  <2>2. HonestAnswer(u) /\ task[u].gw \in Gateways
    BY <2>1, <1>1, BusyType DEF RoomInv
  <2> QED BY <1>2, <1>3, <2>2 DEF HonestAnswer
<1>4. ASSUME Launcher(u) PROVE HonestAnswer(u)'
  <2>1. CASE NoAnswer(u) \/ LauncherLooks(u)
    <3>1. HonestAnswer(u) /\ task[u].gw \in Gateways /\ task[u] \in StartTasks \union AskTasks
      BY <2>1, <1>1, BusyType DEF NoAnswer, LauncherLooks, Asked, RoomInv
    <3>2. PICK a \in Answers \ {"ok"} : task'[u] = [task[u] EXCEPT !.ans = a, !.room = task[u].room]
      BY <2>1, <1>1 DEF NoAnswer, LauncherLooks, Answer, Answers, TypeOK
    <3> QED BY <3>1, <3>2, <1>2 DEF HonestAnswer, StartTasks, AskTasks
  <2>2. CASE LauncherStarts(u)
    <3>1. task[u].gw \in Gateways /\ task[u] \in StartTasks \union AskTasks
      BY <2>2, <1>1, BusyWhen, BusyType DEF LauncherStarts
    <3>2. PICK a \in Answers : /\ Answer(u, a, task[u].room)
                              /\ \/ a = "error"
                                 \/ served' = [served EXCEPT ![NumberOf[task[u].gw]] = @ \union {task[u].room}]
      BY <2>2 DEF LauncherStarts, Answers
    <3>3. task'[u] = [task[u] EXCEPT !.ans = a, !.room = task[u].room]
      BY <3>2, <1>1 DEF Answer, TypeOK
    <3>4. a = "ok" => task[u].room \in served'[NumberOf[task[u].gw]]
      BY <3>1, <3>2, <1>1, <1>2 DEF TypeOK
    <3>5. task[u].op = "start" BY <2>2, BusyWhen DEF LauncherStarts, Waits
    <3>6. /\ task'[u].op = "start" /\ task'[u].ans = a
          /\ task'[u].gw = task[u].gw /\ task'[u].room = task[u].room
      BY <3>1, <3>3, <3>5 DEF StartTasks, AskTasks
    <3> QED BY <3>4, <3>6 DEF HonestAnswer
  <2>3. CASE LauncherStops(u)
    <3>1. task[u] \in StartTasks \union AskTasks
      BY <2>3, <1>1, BusyWhen, BusyType DEF LauncherStops
    <3>2. PICK a \in Answers : task'[u] = [task[u] EXCEPT !.ans = a, !.room = NoRoom]
      BY <2>3, <1>1 DEF LauncherStops, Answer, Answers, TypeOK
    <3> QED BY <3>1, <3>2, RegistryAssumption
            DEF HonestAnswer, StartTasks, AskTasks, RegistryAssumption
  <2>4. CASE LauncherReports(u)
    <3>1. task[u].gw \in Gateways /\ task[u] \in StartTasks \union AskTasks
      BY <2>4, <1>1, BusyWhen, BusyType DEF LauncherReports
    <3>2. PICK a \in Answers, r \in {NoRoom, hist[NumberOf[task[u].gw]]} :
              task'[u] = [task[u] EXCEPT !.ans = a, !.room = r]
      BY <2>4, <1>1 DEF LauncherReports, Answer, Answers, TypeOK
    <3>3. {r} \intersect Rooms \subseteq served[NumberOf[task[u].gw]]
      BY <3>1, <3>2, RegistryAssumption DEF KnownRooms, RoomInv, RegistryAssumption
    <3> QED BY <3>1, <3>2, <3>3, <1>2 DEF HonestAnswer, StartTasks, AskTasks
  <2> QED BY <1>4, <2>1, <2>2, <2>3, <2>4 DEF Launcher
<1>5. ASSUME AnswerLost(u) PROVE HonestAnswer(u)'
  <2>1. HonestAnswer(u) /\ task[u].gw \in Gateways /\ task[u] \in StartTasks \union AskTasks
    BY <1>5, <1>1, BusyType DEF AnswerLost, RoomInv
  <2>2. task'[u] = [task[u] EXCEPT !.ans = "lost", !.room = task[u].room]
    BY <1>5, <1>1 DEF AnswerLost, Answer, TypeOK
  <2> QED BY <2>1, <2>2, <1>2 DEF HonestAnswer, StartTasks, AskTasks
<1>6. ASSUME Resume(u) PROVE FALSE
  BY <1>1, <1>6 DEF Resume, StartEnds, StopEnds, PollEnds, Finish, TypeOK, IsIdle
<1>7. ASSUME NEW g \in Gateways, Client(u, g), u \in Requests PROVE HonestAnswer(u)'
  BY <1>1, <1>7, RegistryAssumption
  DEF Client, StartBegins, StopBegins, StatusBegins, Send, HonestAnswer, TypeOK,
      RegistryAssumption
<1>8. ASSUME u = Monitor, NEW g \in Gateways, MonitorVisits(g), task'[u] # task[u]
      PROVE  HonestAnswer(u)'
  BY <1>1, <1>8, RegistryAssumption
  DEF MonitorVisits, Send, HonestAnswer, TypeOK, RegistryAssumption
<1>9. \/ task'[u] = task[u]
      \/ Launcher(u) \/ AnswerLost(u) \/ Resume(u)
      \/ u \in Requests /\ \E g \in Gateways : Client(u, g)
      \/ u = Monitor /\ (\E g \in Gateways : MonitorVisits(g)) /\ task'[u] # task[u]
  <2>1. ASSUME NEW t \in Tasks, t # u, Launcher(t) \/ AnswerLost(t) \/ Resume(t)
        PROVE  task'[u] = task[u]
    BY <1>1, <2>1
    DEF Launcher, NoAnswer, LauncherLooks, LauncherStarts, LauncherStops, LauncherReports, AnswerLost,
        Resume, StartEnds, StopEnds, PollEnds, Answer, Finish, TypeOK
  <2>2. ASSUME NEW t \in Requests, t # u, NEW g \in Gateways, Client(t, g)
        PROVE  task'[u] = task[u]
    BY <1>1, <2>2 DEF Client, StartBegins, StopBegins, StatusBegins, Send, TypeOK
  <2>3. CASE MonitorStep /\ u # Monitor
    BY <1>1, <2>3 DEF MonitorStep, MonitorScans, MonitorVisits, Send, TypeOK
  <2>4. CASE MonitorScans
    BY <2>4 DEF MonitorScans
  <2>5. ASSUME NEW g \in Gateways, Container(g) \/ Unregister(g) PROVE task'[u] = task[u]
    BY <2>5 DEF Container, Register, RegisterLost, BoxReady, BoxJoins, BoxExits,
                Relaunches, CallerPicks, Unregister, proxyVars
  <2>6. ASSUME NEW h \in Hosts, HostBoots(h) \/ HostGoes(h) PROVE task'[u] = task[u]
    BY <2>6 DEF HostBoots, HostGoes, proxyVars
  <2>7. CASE UNCHANGED registryVars
    BY <2>7 DEF registryVars
  <2> QED BY <2>1, <2>2, <2>3, <2>4, <2>5, <2>6, <2>7 DEF Next, RegistryNext, MonitorStep
<1> QED BY <1>3, <1>4, <1>5, <1>6, <1>7, <1>8, <1>9

\* However late a /start or a poll writes, the room it leaves in an entry is one
\* that a container of its own number was sent to, and not another's: the history
\* file is all that one container leaves to the next.
THEOREM RoomsAreTrue == Spec => []RoomTruthful
<1>1. Init => RoomInv
  BY InitRoomInv
<1>2. RoomInv /\ [Next]_registryVars => RoomInv'
  BY NextTypeOK, NextRoomTruthful, NextKnownRooms, NextHonestAnswer DEF RoomInv
<1>3. RoomInv => RoomTruthful
  BY DEF RoomInv
<1> QED BY <1>1, <1>2, <1>3, PTL DEF Spec

-----------------------------------------------------------------------------
(* The scaler beside it.  Its invariant: types, and a gateway is only held in *)
(* downScale while one is still to be marked, so that `count` never falls    *)
(* below zero.                                                               *)

HeldIsCounted ==
    scaler.held # NoGateway => At("shrink") /\ scaler.count > 0

PoolInv == PoolTypeOK /\ HeldIsCounted

LEMMA RestTypes ==
    /\ Idling \in ScalerStates /\ Idling.held = NoGateway
    /\ Failed \in ScalerStates /\ Failed.held = NoGateway
  BY DEF Idling, Failed, ScalerStates

\* Where a decision takes the scaler.
LEMMA WorkTypes ==
    ASSUME NEW n \in Nat, NEW S \in SUBSET Gateways
    PROVE  LET grow == [Idling EXCEPT !.pc = "grow", !.count = n]
               shrink == [Idling EXCEPT !.pc = "shrink", !.count = n, !.left = S]
           IN  /\ grow \in ScalerStates /\ grow.held = NoGateway
               /\ shrink \in ScalerStates /\ shrink.held = NoGateway
  BY DEF Idling, ScalerStates

LEMMA KeysCounted == Keys \subseteq Gateways /\ Cardinality(Keys) \in Nat
<1>1. Keys \subseteq Gateways
  BY DEF Keys
<1> QED BY <1>1, PoolAssumption, FS_Subset, FS_CardinalityType DEF PoolAssumption

LEMMA InitPoolInv == PoolInit => PoolInv
  BY InitTypeOK, RestTypes, PoolAssumption
  DEF PoolInit, PoolInv, PoolTypeOK, HeldIsCounted, PoolAssumption

\* A machine goes with what it hosts, and with its place among those without
\* an address.
LEMMA TerminateType ==
    ASSUME PoolTypeOK, NEW h \in Hosts, Terminate(h)
    PROVE  TypeOK' /\ machines' \subseteq Hosts /\ bare' \subseteq machines'
<1>1. TypeOK'
  BY MachineType DEF Terminate, PoolTypeOK, registryVars, TypeOK
<1> QED BY <1>1 DEF Terminate, PoolTypeOK

-----------------------------------------------------------------------------
(* One lemma per phase of the iteration.                                     *)

\* A step that only moves the scaler.
LEMMA ScalerMoves ==
    ASSUME PoolInv, UNCHANGED <<registryVars, machines, bare, mishaps>>,
           scaler' \in ScalerStates,
           scaler'.held # NoGateway => scaler'.pc = "shrink" /\ scaler'.count > 0
    PROVE  PoolInv'
  BY DEF PoolInv, PoolTypeOK, HeldIsCounted, At, registryVars, TypeOK

LEMMA CleanupKeeps ==
    ASSUME PoolInv,
           \/ IterationBegins \/ CleanEnds \/ Counts
           \/ \E g \in Gateways : CleanVisits(g) \/ CountsReady(g)
    PROVE  PoolInv'
<1> USE ScalerMoves, RestTypes DEF PoolInv, PoolTypeOK, HeldIsCounted, At, ScalerStates
<1>1. CASE IterationBegins
  BY <1>1, KeysCounted DEF IterationBegins, Idling
<1>2. CASE CleanEnds
  BY <1>2 DEF CleanEnds, Goto
<1>3. CASE Counts
  BY <1>3, KeysCounted DEF Counts
<1>4. ASSUME NEW g \in Gateways, CleanVisits(g) PROVE PoolInv'
  BY <1>4 DEF CleanVisits
<1>5. ASSUME NEW g \in Gateways, CountsReady(g) PROVE PoolInv'
  <2> DEFINE ready == IF Free(g) THEN scaler.ready + 1 ELSE scaler.ready
  <2>1. ready \in Nat /\ scaler.left \ {g} \in SUBSET Gateways
    OBVIOUS
  <2>2. scaler' = [scaler EXCEPT !.left = scaler.left \ {g}, !.ready = ready]
    BY <1>5 DEF CountsReady
  <2> HIDE DEF ready
  <2> QED BY <1>5, <2>1, <2>2 DEF CountsReady
<1> QED BY <1>1, <1>2, <1>3, <1>4, <1>5

\* The scaler's decision: a number to order or to mark, never below zero.
LEMMA DecisionKeeps ==
    ASSUME PoolInv, NEW s \in Slots, Decides(s)
    PROVE  PoolInv'
<1> DEFINE n == CapacityIncrease(s, scaler.count, scaler.ready)
<1>1. scaler.count \in Nat /\ scaler.ready \in Nat /\ IsSlot(s)
  BY PoolAssumption DEF PoolInv, PoolTypeOK, ScalerStates, PoolAssumption
<1>2. n \in Int
  BY <1>1, IncreaseType
<1>0. UNCHANGED <<registryVars, machines, bare, mishaps>>
  BY DEF Decides
<1>3. scaler' = CASE n > 0 -> [Idling EXCEPT !.pc = "grow", !.count = n]
                  [] n < 0 -> [Idling EXCEPT !.pc = "shrink", !.count = -n, !.left = Keys]
                  [] n = 0 -> Idling
  BY DEF Decides
<1> HIDE DEF n
<1>4. n > 0 \/ n < 0 \/ n = 0
  BY <1>2
<1>5. CASE n > 0
  <2>1. scaler' = [Idling EXCEPT !.pc = "grow", !.count = n]
    BY <1>2, <1>3, <1>5
  <2>2. n \in Nat /\ Keys \in SUBSET Gateways
    BY <1>2, <1>5, KeysCounted
  <2>3. scaler' \in ScalerStates /\ scaler'.held = NoGateway
    BY <2>1, <2>2, WorkTypes
  <2> QED BY <1>0, <2>3, ScalerMoves
<1>6. CASE n < 0
  <2>1. scaler' = [Idling EXCEPT !.pc = "shrink", !.count = -n, !.left = Keys]
    BY <1>2, <1>3, <1>6
  <2>2. -n \in Nat /\ Keys \in SUBSET Gateways
    BY <1>2, <1>6, KeysCounted
  <2>3. scaler' \in ScalerStates /\ scaler'.held = NoGateway
    BY <2>1, <2>2, WorkTypes
  <2> QED BY <1>0, <2>3, ScalerMoves
<1>7. CASE n = 0
  <2>1. scaler' = Idling
    BY <1>3, <1>7
  <2> QED BY <1>0, <2>1, ScalerMoves, RestTypes
<1> QED BY <1>4, <1>5, <1>6, <1>7

\* What is ordered is never more than what is left to order.
LEMMA OrderFits ==
    ASSUME PoolInv, scaler.count > 0
    PROVE  SizeFor(Types, scaler.count) \in 1..scaler.count
<1>1. /\ Types \in [1..Len(Types) -> Nat \ {0}] /\ Len(Types) \in Nat
      /\ \E i \in 1..Len(Types) : Types[i] = 1
  BY PoolAssumption DEF PoolAssumption
<1>2. scaler.count \in Nat \ {0}
  BY DEF PoolInv, PoolTypeOK, ScalerStates
<1> QED BY <1>1, <1>2, SizeForFits

LEMMA GrowthKeeps ==
    ASSUME PoolInv,
           \/ OrderRefused \/ GrowEnds
           \/ \E h \in Hosts : Orders(h) \/ OrdersBare(h)
    PROVE  PoolInv'
<1> USE DEF PoolInv, PoolTypeOK, HeldIsCounted, At, ScalerStates
<1>1. CASE OrderRefused \/ GrowEnds
  BY <1>1, ScalerMoves, RestTypes DEF OrderRefused, GrowEnds
<1>2. ASSUME NEW h \in Hosts, Orders(h) PROVE PoolInv'
  <2>1. TypeOK' /\ UNCHANGED <<bare, mishaps>> /\ machines' = machines \union {h}
    BY <1>2 DEF Orders, registryVars, TypeOK
  <2>2. SizeOf(h) \in 1..scaler.count
    BY <1>2, OrderFits DEF Orders
  <2>3. scaler' = [scaler EXCEPT !.count = scaler.count - SizeOf(h)]
    BY <1>2 DEF Orders
  <2>4. scaler' \in ScalerStates /\ scaler'.held = NoGateway
    BY <1>2, <2>2, <2>3 DEF Orders
  <2> QED BY <2>1, <2>4
<1>3. ASSUME NEW h \in Hosts, OrdersBare(h) PROVE PoolInv'
  <2>1. TypeOK' /\ mishaps' \in 0..MaxMishaps
    BY <1>3, PoolAssumption DEF OrdersBare, registryVars, TypeOK, PoolAssumption
  <2> QED BY <1>3, <2>1, RestTypes DEF OrdersBare
<1> QED BY <1>1, <1>2, <1>3

\* Marking takes one off the count that was above zero when it was held.
LEMMA ShrinkingKeeps ==
    ASSUME PoolInv,
           \/ ShrinkEnds
           \/ \E g \in Gateways : ShrinkReads(g) \/ ShrinkMarks(g)
    PROVE  PoolInv'
<1> USE DEF PoolInv, PoolTypeOK, HeldIsCounted, At, ScalerStates
<1>1. CASE ShrinkEnds
  BY <1>1, ScalerMoves DEF ShrinkEnds, Goto
<1>2. ASSUME NEW g \in Gateways, ShrinkReads(g) PROVE PoolInv'
  <2>1. CASE entry[g] = Absent
    BY <1>2, <2>1, ScalerMoves, RestTypes DEF ShrinkReads
  <2>2. CASE entry[g] # Absent
    <3>1. PICK held \in {g, NoGateway} :
              scaler' = [scaler EXCEPT !.left = scaler.left \ {g}, !.held = held]
      BY <1>2, <2>2 DEF ShrinkReads
    <3>2. scaler.pc = "shrink" /\ scaler.count > 0
      BY <1>2 DEF ShrinkReads
    <3>3. held \in Gateways \union {NoGateway} /\ scaler.left \ {g} \in SUBSET Gateways
      OBVIOUS
    <3>4. scaler' \in ScalerStates /\ scaler'.pc = "shrink" /\ scaler'.count > 0
      BY <3>1, <3>2, <3>3
    <3> QED BY <1>2, <3>4, ScalerMoves DEF ShrinkReads
  <2> QED BY <2>1, <2>2
<1>3. ASSUME NEW g \in Gateways, ShrinkMarks(g) PROVE PoolInv'
  <2>1. scaler.count > 0 /\ HostOf[g] \in Hosts
    BY <1>3, RegistryAssumption DEF ShrinkMarks, RegistryAssumption
  <2>2. scaler' \in ScalerStates /\ scaler'.held = NoGateway
    <3>1. scaler.count - 1 \in Nat /\ scaler.doomed \union {HostOf[g]} \in SUBSET Hosts
      BY <2>1
    <3>2. scaler' = [scaler EXCEPT !.held = NoGateway, !.count = scaler.count - 1,
                                   !.doomed = scaler.doomed \union {HostOf[g]}]
      BY <1>3 DEF ShrinkMarks
    <3> QED BY <3>1, <3>2
  <2>3. TypeOK'
    BY <1>3 DEF ShrinkMarks, TypeOK, Entries, States, MaybeRoom, vmVars, proxyVars
  <2> QED BY <1>3, <2>2, <2>3 DEF ShrinkMarks
<1> QED BY <1>1, <1>2, <1>3

LEMMA DestructionKeeps ==
    ASSUME PoolInv,
           \/ ProviderFails \/ DestroyEnds
           \/ \E h \in Hosts : Reap(h) \/ Destroys(h) \/ DestroysHalf(h) \/ DestroysNothing(h)
    PROVE  PoolInv'
<1> USE DEF PoolInv, PoolTypeOK, HeldIsCounted, At, ScalerStates
<1>1. CASE ProviderFails
  <2>1. TypeOK' /\ mishaps' \in 0..MaxMishaps
    BY <1>1, PoolAssumption DEF ProviderFails, registryVars, TypeOK, PoolAssumption
  <2> QED BY <1>1, <2>1, RestTypes DEF ProviderFails
<1>2. CASE DestroyEnds
  BY <1>2, ScalerMoves, RestTypes DEF DestroyEnds
<1>3. ASSUME NEW h \in Hosts, Reap(h) PROVE PoolInv'
  BY <1>3, TerminateType DEF Reap
<1>4. ASSUME NEW h \in Hosts, Destroys(h) PROVE PoolInv'
  <2>1. scaler' \in ScalerStates /\ scaler'.held = NoGateway
    BY <1>4 DEF Destroys
  <2> QED BY <1>4, <2>1, TerminateType DEF Destroys
<1>5. ASSUME NEW h \in Hosts, DestroysHalf(h) PROVE PoolInv'
  <2>1. TypeOK' /\ mishaps' \in 0..MaxMishaps
    BY <1>5, PoolAssumption DEF DestroysHalf, registryVars, TypeOK, PoolAssumption
  <2> QED BY <1>5, <2>1, RestTypes DEF DestroysHalf
<1>6. ASSUME NEW h \in Hosts, DestroysNothing(h) PROVE PoolInv'
  BY <1>6, ScalerMoves, RestTypes DEF DestroysNothing
<1> QED BY <1>1, <1>2, <1>3, <1>4, <1>5, <1>6

LEMMA RegistryKeeps ==
    ASSUME PoolInv,
           \/ RegistryNext /\ UNCHANGED poolVars
           \/ \E h \in Hosts : MachineBoots(h)
    PROVE  PoolInv'
<1>1. TypeOK'
  BY NextTypeOK DEF PoolInv, PoolTypeOK, Next, MachineBoots
<1> QED BY <1>1 DEF PoolInv, PoolTypeOK, HeldIsCounted, At, poolVars, MachineBoots

LEMMA NextPoolInv == PoolInv /\ [PoolNext]_vars => PoolInv'
<1>1. PoolInv /\ UNCHANGED vars => PoolInv'
  BY ScalerMoves DEF vars, poolVars, PoolInv, PoolTypeOK, HeldIsCounted, At
<1> QED
  BY <1>1, CleanupKeeps, DecisionKeeps, GrowthKeeps, ShrinkingKeeps, DestructionKeeps,
     RegistryKeeps
  DEF PoolNext, ScalerStep

\* Whatever fails or vanishes under an iteration, it never orders or marks more
\* than it decided to (what is left stays a natural number), and a machine
\* taken for one without an address is one that runs.
THEOREM PoolTypeCorrect == PoolSpec => []PoolTypeOK
<1>1. PoolInit => PoolInv BY InitPoolInv
<1>2. PoolInv /\ [PoolNext]_vars => PoolInv' BY NextPoolInv
<1>3. PoolInv => PoolTypeOK BY DEF PoolInv
<1> QED BY <1>1, <1>2, <1>3, PTL DEF PoolSpec

-----------------------------------------------------------------------------
(* The registry's promises, with a second writer on the same entries.        *)

\* The only step of the pool that the registry does not know.
LEMMA OnlyMarks ==
    [PoolNext]_vars =>
        \/ [Next]_registryVars
        \/ \E g \in Gateways : ShrinkMarks(g)
<1> SUFFICES ASSUME [PoolNext]_vars, ~ \E g \in Gateways : ShrinkMarks(g)
             PROVE  [Next]_registryVars
  OBVIOUS
<1>1. CASE RegistryNext \/ \E h \in Hosts : MachineBoots(h)
  BY <1>1 DEF Next, MachineBoots
<1>2. ASSUME NEW h \in Hosts, Terminate(h) PROVE [Next]_registryVars
  BY <1>2 DEF Terminate, Next
<1>3. CASE ScalerStep
  BY <1>2, <1>3
  DEF ScalerStep, IterationBegins, CleanEnds, Counts, OrderRefused, GrowEnds, ShrinkEnds,
      ProviderFails, DestroyEnds, CleanVisits, CountsReady, ShrinkReads, Reap, Orders,
      OrdersBare, Destroys, DestroysHalf, DestroysNothing, Decides
<1>4. CASE UNCHANGED vars
  BY <1>4 DEF vars
<1> QED BY <1>1, <1>3, <1>4 DEF PoolNext

\* The mark is written over an entry that was idle when it was read, and may have
\* been started since: it still leaves no room behind.
THEOREM PoolRoomsAreStarted == PoolSpec => []RoomOnlyWhenStarted
<1>1. PoolInit => RoomOnlyWhenStarted
  BY DEF PoolInit, Init, RoomOnlyWhenStarted, Absent
<1>2. PoolTypeOK /\ RoomOnlyWhenStarted /\ [PoolNext]_vars => RoomOnlyWhenStarted'
  <2> SUFFICES ASSUME PoolTypeOK, RoomOnlyWhenStarted, [PoolNext]_vars
               PROVE  RoomOnlyWhenStarted'
    OBVIOUS
  <2>1. ASSUME NEW g \in Gateways, ShrinkMarks(g) PROVE RoomOnlyWhenStarted'
    BY <2>1 DEF ShrinkMarks, RoomOnlyWhenStarted, PoolTypeOK, TypeOK
  <2> QED BY <2>1, OnlyMarks, NextRoomOnlyWhenStarted DEF PoolTypeOK
<1> QED BY <1>1, <1>2, PoolTypeCorrect, PTL DEF PoolSpec

\* Not even the scaler, which writes back what it read, shows a conference on a
\* gateway whose number was not sent to it.
THEOREM PoolRoomsAreTrue == PoolSpec => []RoomTruthful
<1>1. PoolInit => RoomInv
  BY InitRoomInv DEF PoolInit
<1>2. RoomInv /\ [PoolNext]_vars => RoomInv'
  <2> SUFFICES ASSUME RoomInv, [PoolNext]_vars PROVE RoomInv'
    OBVIOUS
  <2>1. ASSUME NEW g \in Gateways, ShrinkMarks(g) PROVE RoomInv'
    <3>1. TypeOK'
      BY <2>1 DEF ShrinkMarks, RoomInv, TypeOK, Entries, States, MaybeRoom, vmVars, proxyVars
    <3> QED
      BY <2>1, <3>1
      DEF ShrinkMarks, RoomInv, RoomTruthful, KnownRooms, HonestAnswer, IsIdle, TypeOK,
          vmVars, proxyVars
  <2>2. [Next]_registryVars => RoomInv'
    BY NextTypeOK, NextRoomTruthful, NextKnownRooms, NextHonestAnswer DEF RoomInv
  <2> QED BY <2>1, <2>2, OnlyMarks
<1>3. RoomInv => RoomTruthful
  BY DEF RoomInv
<1> QED BY <1>1, <1>2, <1>3, PTL DEF PoolSpec

\* A mark that comes late does not make a used gateway look unused either.
THEOREM PoolCreatedIsABeginning == PoolSpec => CreatedOnlyFromNothing
<1> DEFINE Step ==
      \A g \in Gateways :
          entry[g] # Absent /\ entry[g].st # "created" => entry'[g].st # "created"
<1>1. PoolTypeOK /\ [PoolNext]_vars => [Step]_entry
  <2>1. ASSUME PoolTypeOK, NEW g \in Gateways, ShrinkMarks(g) PROVE Step
    BY <2>1 DEF ShrinkMarks, PoolTypeOK, TypeOK
  <2>2. PoolTypeOK /\ [Next]_registryVars => [Step]_entry
    BY NextCreated DEF PoolTypeOK
  <2> QED BY <2>1, <2>2, OnlyMarks
<1> QED BY <1>1, PoolTypeCorrect, PTL DEF PoolSpec, CreatedOnlyFromNothing

-----------------------------------------------------------------------------
(* What an iteration may mark.                                               *)

\* The two counts are read at different moments, so either may be the stale one;
\* still no more is marked than what was counted idle beyond some slot's buffer,
\* or exceeds that slot's maximum.
THEOREM PoolShrinkSparesBuffer == PoolSpec => ShrinkSparesBuffer
<1> DEFINE Step ==
      At("ready") /\ scaler'.pc = "shrink" =>
          \E s \in Slots :
             scaler'.count <= Higher(scaler.ready - s.unlockedMin, scaler.count - s.maxGw)
<1>1. PoolTypeOK /\ [PoolNext]_vars => [Step]_scaler
  <2> SUFFICES ASSUME PoolTypeOK, [PoolNext]_vars, At("ready"), scaler'.pc = "shrink",
                      scaler' # scaler
               PROVE  \E s \in Slots :
                         scaler'.count
                            <= Higher(scaler.ready - s.unlockedMin, scaler.count - s.maxGw)
    OBVIOUS
  <2>1. ASSUME NEW g \in Gateways, CountsReady(g) PROVE FALSE
    BY <2>1 DEF CountsReady, PoolTypeOK, ScalerStates, At
  <2>2. PICK s \in Slots : Decides(s)
    <3>1. ~ \E g \in Gateways : CountsReady(g)
      BY <2>1
    <3> QED
      BY <3>1
      DEF PoolNext, ScalerStep, vars, poolVars, At, MachineBoots, IterationBegins, CleanEnds,
          Counts, OrderRefused, GrowEnds, ShrinkEnds, ProviderFails, DestroyEnds, CleanVisits,
          ShrinkReads, ShrinkMarks, Reap, Orders, OrdersBare, Destroys, DestroysHalf,
          DestroysNothing
  <2> DEFINE n == CapacityIncrease(s, scaler.count, scaler.ready)
  <2>3. scaler.count \in Nat /\ scaler.ready \in Nat /\ IsSlot(s)
    BY PoolAssumption DEF PoolTypeOK, ScalerStates, PoolAssumption
  <2>4. n \in Int /\ -n <= Higher(scaler.ready - s.unlockedMin, scaler.count - s.maxGw)
    BY <2>3, IncreaseType, ShrinkSparesTheBuffer
  <2>5. scaler' = CASE n > 0 -> [Idling EXCEPT !.pc = "grow", !.count = n]
                    [] n < 0 -> [Idling EXCEPT !.pc = "shrink", !.count = -n, !.left = Keys]
                    [] n = 0 -> Idling
    BY <2>2 DEF Decides
  <2> HIDE DEF n
  <2>6. n < 0
    <3>1. n > 0 => scaler'.pc = "grow"
      BY <2>4, <2>5 DEF Idling
    <3>2. n = 0 => scaler'.pc = "idle"
      BY <2>4, <2>5 DEF Idling
    <3> QED BY <2>4, <3>1, <3>2
  <2>7. scaler'.count = -n
    BY <2>4, <2>5, <2>6 DEF Idling
  <2> QED BY <2>4, <2>7
<1> QED BY <1>1, PoolTypeCorrect, PTL DEF PoolSpec, ShrinkSparesBuffer

=============================================================================
