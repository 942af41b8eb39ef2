------------------------------ MODULE SipPool ------------------------------
(***************************************************************************)
(* The SIP pool: Kamailio locks a gateway for each incoming call            *)
(* (request_gw.py), unlocks it when its call is missed (kamailioRun.py), and *)
(* the scaler (ScalerSIP.py) counts, marks and destroys, all through the     *)
(* tables location and dialog.                                              *)
(*                                                                          *)
(* A step is one transaction, one call of the provider, or one SIP event.    *)
(* The two SELECT of lockGw are one step: they share a snapshot.             *)
(***************************************************************************)
EXTENDS ScalerPolicy, FiniteSets, Sequences

CONSTANTS
    Gateways,     \* user names of the gateways
    Hosts,        \* virtual machines
    HostOf,       \* the machine of a gateway, part of `received`
    Contacts,     \* contact URIs; a container has one of its own
    UserOf,       \* the user name in a contact
    NoGateway, NoContact,
    Callers,      \* calls that may be under way at once
    Slots,        \* the time slots' settings
    Types,        \* instance types, in gateways per machine, as upScale sorts them
    MaxCrashes,   \* bound on containers that die without unregistering
    MaxMishaps    \* bound on failures of the provider and of the database

ASSUME SipAssumption ==
    /\ HostOf \in [Gateways -> Hosts]
    /\ UserOf \in [Contacts -> Gateways]
    /\ IsFiniteSet(Contacts)
    /\ IsFiniteSet(Gateways)
    /\ NoGateway \notin Gateways
    /\ NoContact \notin Contacts
    /\ \A s \in Slots : IsSlot(s)
    /\ Types \in Seq(Nat \ {0})
    /\ \E i \in DOMAIN Types : Types[i] = 1
    /\ MaxCrashes \in Nat
    /\ MaxMishaps \in Nat

VARIABLES
    reg,       \* per contact: its row in location, and the container behind it
    call,      \* per caller: what Kamailio does for it; "talks" is a row in dialog
    unlocks,   \* gateways whose missed call is logged and not yet handled
    host,      \* each machine: never ordered, ordered, booted, gone
    scaler,    \* the iteration under way
    crashes,   \* how many containers crashed
    mishaps    \* how many calls of the provider or the database failed

callVars == <<call, unlocks>>
vmVars == <<host, crashes>>
scalerVars == <<scaler, mishaps>>
sipVars == <<reg, call, unlocks, host, scaler, crashes, mishaps>>

-----------------------------------------------------------------------------
(* Rows, calls and iterations.                                              *)

\* A row lasts from the registration of its container until that unregisters,
\* or, when it died, until the registration expires.
Off == [run |-> "off", locked |-> FALSE, toStop |-> FALSE]
Fresh == [run |-> "ready", locked |-> FALSE, toStop |-> FALSE]
Rows == [run : {"off", "ready", "ending", "dead"}, locked : BOOLEAN, toStop : BOOLEAN]

\* `left` holds the contacts lockGw has yet to try, with the number of free
\* gateways its SELECT counted on the same machine.
NoCall == [st |-> "none", left |-> {}, gw |-> NoGateway, via |-> NoContact]
Calls == [st : {"none", "tries", "rings", "talks"}, left : SUBSET [at : Contacts, free : Nat],
          gw : Gateways \union {NoGateway}, via : Contacts \union {NoContact}]

\* `blind` and `joined` are observers: whether a count could not be read, and
\* the machines where a gateway registered since downScale selected.
Idling == [pc |-> "idle", count |-> 0, ready |-> 0, list |-> [h \in Hosts |-> 0],
           doomed |-> {}, blind |-> FALSE, joined |-> {}]
Failed == [Idling EXCEPT !.pc = "failed"]
ScalerStates ==
    [pc : {"idle", "failed", "clean", "count", "ready", "decide", "grow", "select",
           "shrink", "destroy"},
     count : Nat, ready : Nat, list : [Hosts -> Nat], doomed : SUBSET Hosts,
     blind : BOOLEAN, joined : SUBSET Hosts]

MachineOf(c) == HostOf[UserOf[c]]
Contact(g) == {c \in Contacts : UserOf[c] = g}
SizeOf(h) == Cardinality({g \in Gateways : HostOf[g] = h})
Registered(c) == reg[c].run # "off"
Alive(c) == reg[c].run \in {"ready", "ending"}
Engaged(k) == call[k].st \in {"rings", "talks"}
OnCall(g) == \E k \in Callers : call[k].st = "talks" /\ call[k].gw = g
Warm(h) == \E k \in Callers : call[k].st = "talks" /\ HostOf[call[k].gw] = h
Unlocked(c) == Registered(c) /\ ~reg[c].locked /\ ~OnCall(UserOf[c])
At(pc) == scaler.pc = pc
Goto(pc) == scaler' = [scaler EXCEPT !.pc = pc]

\* A call is with a gateway from its lock on, and talks with a container of it.
CallsTypeOK ==
    /\ call \in [Callers -> Calls]
    /\ \A k \in Callers : Engaged(k) => call[k].gw \in Gateways
    /\ \A k \in Callers : call[k].st = "talks" =>
          call[k].via \in Contacts /\ UserOf[call[k].via] = call[k].gw
    /\ unlocks \subseteq Gateways

RowsTypeOK ==
    /\ reg \in [Contacts -> Rows]
    /\ host \in [Hosts -> {"new", "ordered", "on", "gone"}]
    /\ crashes \in 0..MaxCrashes

ScalerTypeOK ==
    /\ scaler \in ScalerStates
    /\ mishaps \in 0..MaxMishaps

SipTypeOK == CallsTypeOK /\ RowsTypeOK /\ ScalerTypeOK

SipInit ==
    /\ reg = [c \in Contacts |-> Off]
    /\ call = [k \in Callers |-> NoCall]
    /\ unlocks = {}
    /\ host = [h \in Hosts |-> "new"]
    /\ scaler = Idling
    /\ crashes = 0
    /\ mishaps = 0

-----------------------------------------------------------------------------
(* An incoming call.                                                        *)

\* The machines lockGw looks at: those with a call, or else the others.
Choices ==
    LET free == {c \in Contacts : Unlocked(c)}
        warm == {c \in free : Warm(MachineOf(c))}
    IN  IF warm # {} THEN warm ELSE free

\* COUNT(username).
Counted(S) ==
    {[at |-> c, free |-> Cardinality({d \in Choices : MachineOf(d) = MachineOf(c)})] : c \in S}

\* GROUP BY vm: one contact, any one, stands for the free ones of its machine.
\* Without any, the call is routed to nobody.
CallArrives(k) ==
    /\ call[k].st = "none"
    /\ Choices # {}
    /\ \E S \in SUBSET Choices :
          /\ \A c \in Choices : \E d \in S : MachineOf(d) = MachineOf(c)
          /\ \A c, d \in S : MachineOf(c) = MachineOf(d) => c = d
          /\ call' = [call EXCEPT ![k] = [NoCall EXCEPT !.st = "tries", !.left = Counted(S)]]
    /\ UNCHANGED <<reg, unlocks, vmVars, scalerVars>>

\* ORDER BY count ASC.
Next2Try(k, r) == r \in call[k].left /\ \A q \in call[k].left : r.free <= q.free

\* A bug: the UPDATE trusts the SELECT.
LocksUnchecked(k, r) ==
    /\ call[k].st = "tries"
    /\ Next2Try(k, r)
    /\ Registered(r.at)
    /\ reg' = [reg EXCEPT ![r.at].locked = TRUE]
    /\ call' = [call EXCEPT ![k] = [NoCall EXCEPT !.st = "rings", !.gw = UserOf[r.at]]]
    /\ UNCHANGED <<unlocks, vmVars, scalerVars>>

\* UPDATE ... WHERE locked = 0 AND NOT EXISTS (a dialog); commit; rowcount > 0.
Locks(k, r) ==
    /\ call[k].st = "tries"
    /\ Next2Try(k, r)
    /\ Unlocked(r.at)
    /\ reg' = [reg EXCEPT ![r.at].locked = TRUE]
    /\ call' = [call EXCEPT ![k] = [NoCall EXCEPT !.st = "rings", !.gw = UserOf[r.at]]]
    /\ UNCHANGED <<unlocks, vmVars, scalerVars>>

\* No row was updated: the next contact, or nobody.
LockMisses(k, r) ==
    /\ call[k].st = "tries"
    /\ Next2Try(k, r)
    /\ ~Unlocked(r.at)
    /\ call' = [call EXCEPT ![k] = IF call[k].left = {r} THEN NoCall
                ELSE [NoCall EXCEPT !.st = "tries", !.left = call[k].left \ {r}]]
    /\ UNCHANGED <<reg, unlocks, vmVars, scalerVars>>

\* A bug: the row of another user name is looked up.
AnswersForAnother(k, c) ==
    /\ call[k].st = "rings"
    /\ reg[c].run = "ready"
    /\ \A j \in Callers : call[j].via # c
    /\ call' = [call EXCEPT ![k].st = "talks", ![k].via = c]
    /\ UNCHANGED <<reg, unlocks, vmVars, scalerVars>>

\* event_handler.py accepts; baresip takes one call at a time.
Answers(k, c) ==
    /\ call[k].st = "rings"
    /\ UserOf[c] = call[k].gw
    /\ reg[c].run = "ready"
    /\ \A j \in Callers : call[j].via # c
    /\ call' = [call EXCEPT ![k].st = "talks", ![k].via = c]
    /\ UNCHANGED <<reg, unlocks, vmVars, scalerVars>>

\* Not found, busy, no reply: nobody unlocks the gateway.
Fails(k) ==
    /\ call[k].st = "rings"
    /\ call' = [call EXCEPT ![k] = NoCall]
    /\ UNCHANGED <<reg, unlocks, vmVars, scalerVars>>

\* A failure with code 500, of a gateway that is registered, is logged as missed.
FailsWith500(k) ==
    /\ call[k].st = "rings"
    /\ \E c \in Contact(call[k].gw) : Registered(c)
    /\ call' = [call EXCEPT ![k] = NoCall]
    /\ unlocks' = unlocks \union {call[k].gw}
    /\ UNCHANGED <<reg, vmVars, scalerVars>>

\* kamailioRun.py reads the line: whatever row has the user name, marked or not.
Unlocks(g) ==
    /\ g \in unlocks
    /\ unlocks' = unlocks \ {g}
    /\ reg' = [c \in Contacts |->
                 IF UserOf[c] = g THEN [reg[c] EXCEPT !.locked = FALSE] ELSE reg[c]]
    /\ UNCHANGED <<call, vmVars, scalerVars>>

\* CALL_CLOSED at the gateway: it quits, once its call is cancelled or hung up.
Quits(c) ==
    reg' = [reg EXCEPT ![c].run = IF @ = "ready" THEN "ending" ELSE @]

GivesUp(k, c) ==
    /\ call[k].st = "rings"
    /\ UserOf[c] = call[k].gw
    /\ \A j \in Callers : call[j].via # c
    /\ call' = [call EXCEPT ![k] = NoCall]
    /\ Quits(c)
    /\ UNCHANGED <<unlocks, vmVars, scalerVars>>

HangsUp(k) ==
    /\ call[k].st = "talks"
    /\ call' = [call EXCEPT ![k] = NoCall]
    /\ Quits(call[k].via)
    /\ UNCHANGED <<unlocks, vmVars, scalerVars>>

CallStep(k) ==
    \/ CallArrives(k) \/ Fails(k) \/ FailsWith500(k) \/ HangsUp(k)
    \/ \E r \in call[k].left : Locks(k, r) \/ LockMisses(k, r)
    \/ \E c \in Contacts : Answers(k, c) \/ GivesUp(k, c)

-----------------------------------------------------------------------------
(* Containers and machines.                                                 *)

\* baresip unregisters when it quits.
Leaves(c) ==
    /\ reg[c].run = "ending"
    /\ reg' = [reg EXCEPT ![c] = Off]
    /\ UNCHANGED <<callVars, vmVars, scalerVars>>

\* A new container of the gateway registers once it can answer, with a contact
\* of its own: no lockGw under way knows it.  It takes tens of seconds to get
\* there, and a logged line far less to be read.
Registers(c) ==
    /\ host[MachineOf(c)] = "on"
    /\ reg[c] = Off
    /\ \A d \in Contact(UserOf[c]) : ~Alive(d)
    /\ UserOf[c] \notin unlocks
    /\ \A k \in Callers : call[k].via # c /\ \A r \in call[k].left : r.at # c
    /\ reg' = [reg EXCEPT ![c] = Fresh]
    /\ scaler' = IF At("shrink") THEN [scaler EXCEPT !.joined = @ \union {MachineOf(c)}]
                 ELSE scaler
    /\ UNCHANGED <<callVars, vmVars, mishaps>>

Crashes(c) ==
    /\ Alive(c)
    /\ crashes < MaxCrashes
    /\ crashes' = crashes + 1
    /\ reg' = [reg EXCEPT ![c].run = "dead"]
    /\ UNCHANGED <<callVars, host, scalerVars>>

\* The registration is not renewed (usrloc, max. one minute and a timer's round).
Expires(c) ==
    /\ reg[c].run = "dead"
    /\ reg' = [reg EXCEPT ![c] = Off]
    /\ UNCHANGED <<callVars, vmVars, scalerVars>>

MachineBoots(h) ==
    /\ host[h] = "ordered"
    /\ host' = [host EXCEPT ![h] = "on"]
    /\ UNCHANGED <<reg, callVars, crashes, scalerVars>>

ContainerStep(c) == Leaves(c) \/ Registers(c) \/ Crashes(c) \/ Expires(c)

-----------------------------------------------------------------------------
(* The scaler.                                                              *)

\* Machines with a marked row.
Marked == {MachineOf(c) : c \in {d \in Contacts : Registered(d) /\ reg[d].toStop}}

\* A bug: a mark is only looked for where no call locked the gateway.
BeginsWithUnlocked ==
    /\ At("idle") \/ At("failed")
    /\ scaler' = [Idling EXCEPT !.pc = "clean", !.doomed =
          {MachineOf(c) : c \in {d \in Contacts : Unlocked(d) /\ reg[d].toStop}}]
    /\ UNCHANGED <<reg, callVars, vmVars, mishaps>>

IterationBegins ==
    /\ At("idle") \/ At("failed")
    /\ scaler' = [Idling EXCEPT !.pc = "clean", !.doomed = Marked]
    /\ UNCHANGED <<reg, callVars, vmVars, mishaps>>

\* Without the database there is no cleanup, and the iteration goes on.
BeginsBlind ==
    /\ At("idle") \/ At("failed")
    /\ mishaps < MaxMishaps
    /\ mishaps' = mishaps + 1
    /\ scaler' = [Idling EXCEPT !.pc = "count"]
    /\ UNCHANGED <<reg, callVars, vmVars>>

\* Every machine of this model has its public address: the rest of the cleanup
\* (Reap, in MediaPool) finds none to destroy.
CleanEnds ==
    /\ At("clean")
    /\ scaler.doomed = {}
    /\ Goto("count")
    /\ UNCHANGED <<reg, callVars, vmVars, mishaps>>

Counts ==
    /\ At("count")
    /\ scaler' = [scaler EXCEPT !.pc = "ready", !.count =
          Cardinality({c \in Contacts : Registered(c) /\ ~reg[c].toStop})]
    /\ UNCHANGED <<reg, callVars, vmVars, mishaps>>

CountsReady ==
    /\ At("ready")
    /\ scaler' = [scaler EXCEPT !.pc = "decide", !.ready =
          Cardinality({c \in Contacts : Unlocked(c)})]
    /\ UNCHANGED <<reg, callVars, vmVars, mishaps>>

\* A bug: a count that cannot be read leaves the previous one.
KeepsCount ==
    /\ At("count") \/ At("ready")
    /\ mishaps < MaxMishaps
    /\ mishaps' = mishaps + 1
    /\ scaler' = [scaler EXCEPT !.blind = TRUE, !.ready = scaler.count,
                                !.pc = IF At("count") THEN "ready" ELSE "decide"]
    /\ UNCHANGED <<reg, callVars, vmVars>>

\* A count that cannot be read is 0.
CountsNothing ==
    /\ At("count") \/ At("ready")
    /\ mishaps < MaxMishaps
    /\ mishaps' = mishaps + 1
    /\ scaler' = [scaler EXCEPT !.blind = TRUE,
                                !.pc = IF At("count") THEN "ready" ELSE "decide"]
    /\ UNCHANGED <<reg, callVars, vmVars>>

Decides(s) ==
    LET n == CapacityIncrease(s, scaler.count, scaler.ready) IN
    /\ At("decide")
    /\ scaler' = CASE n > 0 -> [Idling EXCEPT !.pc = "grow", !.count = n]
                   [] n < 0 -> [Idling EXCEPT !.pc = "select", !.count = -n]
                   [] n = 0 -> Idling
    /\ UNCHANGED <<reg, callVars, vmVars, mishaps>>

Orders(h) ==
    /\ At("grow")
    /\ scaler.count > 0
    /\ host[h] = "new"
    /\ SizeOf(h) = SizeFor(Types, scaler.count)
    /\ host' = [host EXCEPT ![h] = "ordered"]
    /\ scaler' = [scaler EXCEPT !.count = @ - SizeOf(h)]
    /\ UNCHANGED <<reg, callVars, crashes, mishaps>>

OrderRefused ==
    /\ At("grow")
    /\ scaler.count > 0
    /\ \A h \in Hosts : host[h] = "new" => SizeOf(h) # SizeFor(Types, scaler.count)
    /\ scaler' = Failed
    /\ UNCHANGED <<reg, callVars, vmVars, mishaps>>

GrowEnds ==
    /\ At("grow")
    /\ scaler.count = 0
    /\ scaler' = Idling
    /\ UNCHANGED <<reg, callVars, vmVars, mishaps>>

\* SELECT: the machines with neither a locked row nor a dialog, and their rows.
Quiet(h) ==
    /\ ~Warm(h)
    /\ \A c \in Contacts : Registered(c) /\ MachineOf(c) = h => ~reg[c].locked
RowsOn(h) == {c \in Contacts : Registered(c) /\ ~reg[c].locked /\ MachineOf(c) = h}

ShrinkSelects ==
    /\ At("select")
    /\ scaler' = [scaler EXCEPT !.pc = "shrink", !.list =
          [h \in Hosts |-> IF Quiet(h) THEN Cardinality(RowsOn(h)) ELSE 0]]
    /\ UNCHANGED <<reg, callVars, vmVars, mishaps>>

\* ORDER BY count DESC.
NextOfList(h) == scaler.list[h] > 0 /\ \A i \in Hosts : scaler.list[i] <= scaler.list[h]

\* A bug: the number of rows that were updated is not compared.
ShrinkMarksAnyway(h) ==
    /\ At("shrink")
    /\ NextOfList(h)
    /\ scaler.list[h] <= scaler.count
    /\ reg' = [c \in Contacts |->
                 IF c \in RowsOn(h) THEN [reg[c] EXCEPT !.locked = TRUE, !.toStop = TRUE]
                 ELSE reg[c]]
    /\ scaler' = [scaler EXCEPT !.list[h] = 0, !.count = @ - scaler.list[h],
                                !.doomed = @ \union {h}]
    /\ UNCHANGED <<callVars, vmVars, mishaps>>

\* UPDATE, and COMMIT when it updated as many rows as were selected.
ShrinkMarks(h) ==
    /\ At("shrink")
    /\ NextOfList(h)
    /\ scaler.list[h] <= scaler.count
    /\ Cardinality(RowsOn(h)) = scaler.list[h]
    /\ reg' = [c \in Contacts |->
                 IF c \in RowsOn(h) THEN [reg[c] EXCEPT !.locked = TRUE, !.toStop = TRUE]
                 ELSE reg[c]]
    /\ scaler' = [scaler EXCEPT !.list[h] = 0, !.count = @ - scaler.list[h],
                                !.doomed = @ \union {h}]
    /\ UNCHANGED <<callVars, vmVars, mishaps>>

\* Too large for what is left to take off, or ROLLBACK.
ShrinkSkips(h) ==
    /\ At("shrink")
    /\ NextOfList(h)
    /\ scaler.list[h] <= scaler.count => Cardinality(RowsOn(h)) # scaler.list[h]
    /\ scaler' = [scaler EXCEPT !.list[h] = 0]
    /\ UNCHANGED <<reg, callVars, vmVars, mishaps>>

ShrinkEnds ==
    /\ At("shrink")
    /\ \A h \in Hosts : scaler.list[h] = 0
    /\ Goto("destroy")
    /\ UNCHANGED <<reg, callVars, vmVars, mishaps>>

\* Before the SELECT returned ipList is unbound, after that an error ends the loop.
ShrinkFails ==
    /\ At("select") \/ At("shrink")
    /\ mishaps < MaxMishaps
    /\ mishaps' = mishaps + 1
    /\ scaler' = IF At("select") THEN Failed
                 ELSE [scaler EXCEPT !.pc = "destroy", !.list = Idling.list]
    /\ UNCHANGED <<reg, callVars, vmVars>>

\* The machine stops with everything on it.
Destroys(h) ==
    /\ At("clean") \/ At("destroy")
    /\ h \in scaler.doomed
    /\ host[h] = "on"
    /\ host' = [host EXCEPT ![h] = "gone"]
    /\ reg' = [c \in Contacts |-> IF Alive(c) /\ MachineOf(c) = h
                                  THEN [reg[c] EXCEPT !.run = "dead"] ELSE reg[c]]
    /\ scaler' = [scaler EXCEPT !.doomed = @ \ {h}]
    /\ UNCHANGED <<callVars, crashes, mishaps>>

\* As in MediaPool: an exception, or the previous machine is terminated again.
DestroysNothing(h) ==
    /\ At("clean") \/ At("destroy")
    /\ h \in scaler.doomed
    /\ host[h] = "gone"
    /\ scaler' \in {Failed, [scaler EXCEPT !.doomed = @ \ {h}]}
    /\ UNCHANGED <<reg, callVars, vmVars, mishaps>>

\* Any call of the provider may fail: the cleanup ends with one.
ProviderFails ==
    /\ At("clean") \/ (At("destroy") /\ scaler.doomed # {}) \/ (At("grow") /\ scaler.count > 0)
    /\ mishaps < MaxMishaps
    /\ mishaps' = mishaps + 1
    /\ scaler' = Failed
    /\ UNCHANGED <<reg, callVars, vmVars>>

DestroyEnds ==
    /\ At("destroy")
    /\ scaler.doomed = {}
    /\ scaler' = Idling
    /\ UNCHANGED <<reg, callVars, vmVars, mishaps>>

ScalerStep ==
    \/ IterationBegins \/ BeginsBlind \/ CleanEnds \/ Counts \/ CountsReady \/ CountsNothing
    \/ OrderRefused \/ GrowEnds \/ ShrinkSelects \/ ShrinkEnds \/ ShrinkFails
    \/ ProviderFails \/ DestroyEnds
    \/ \E s \in Slots : Decides(s)
    \/ \E h \in Hosts :
          Orders(h) \/ ShrinkMarks(h) \/ ShrinkSkips(h) \/ Destroys(h) \/ DestroysNothing(h)

-----------------------------------------------------------------------------

SipNext ==
    \/ \E k \in Callers : CallStep(k)
    \/ \E g \in Gateways : Unlocks(g)
    \/ \E c \in Contacts : ContainerStep(c)
    \/ \E h \in Hosts : MachineBoots(h)
    \/ ScalerStep

\* scale.sh never stops asking, and a registration nobody renews expires.
SipSpec ==
    /\ SipInit
    /\ [][SipNext]_sipVars
    /\ WF_sipVars(ScalerStep)
    /\ \A c \in Contacts : WF_sipVars(Expires(c))

-----------------------------------------------------------------------------
(* Properties.                                                              *)

\* docs/call_flow.md: a gateway is locked until the end of its call.  Two calls
\* are never forwarded to one gateway, nor one to a gateway that is quitting, as
\* long as no container died without unregistering (request_gw.py, lockGw, and
\* the late unlock of kamailioRun.py).
OneCallPerGateway ==
    crashes = 0 =>
        /\ \A j, k \in Callers : Engaged(j) /\ Engaged(k) /\ j # k => call[j].gw # call[k].gw
        /\ \A k \in Callers : Engaged(k) =>
              \A c \in Contact(call[k].gw) : reg[c].run # "ending"

\* ScalerSIP.py, downScale: between its SELECT and its UPDATE a gateway of the
\* machine may be called.  The machine, if it is there, is then left alone, unless
\* another gateway of it registered meanwhile and makes up for the count (or a
\* container crashed, whose row outlives it).
ShrinkSparesCalls ==
    [][\A h \in Hosts : At("shrink") /\ crashes = 0 /\ host[h] = "on"
                         /\ h \in scaler'.doomed \ (scaler.doomed \union scaler.joined)
          => \A k \in Callers : Engaged(k) => HostOf[call[k].gw] # h]_sipVars

\* ScalerSIP.py, the two counts: an iteration that could not read one of them
\* (it takes 0) only takes off what exceeds the maximum of a slot.
BlindSparesPool ==
    [][At("decide") /\ scaler.blind /\ scaler'.pc = "select"
          => \E s \in Slots : scaler'.count <= scaler.count - s.maxGw]_scaler

\* ScalerSIP.py, cleanup: a machine that was marked is destroyed, whatever failed
\* after the mark was committed, and its rows go.
MarkedGo ==
    \A c \in Contacts : reg[c].toStop ~> ~Registered(c)

=============================================================================
