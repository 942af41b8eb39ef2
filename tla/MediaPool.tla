------------------------------ MODULE MediaPool ------------------------------
(***************************************************************************)
(* GatewayRegistry with the scaler of the media pool (ScalerMedia.py): a     *)
(* second process on the same Redis entries, which orders machines from the  *)
(* cloud provider and terminates them.  scale.sh asks for one iteration a    *)
(* minute, and waits for its end: clean up, count, then grow or shrink.      *)
(*                                                                          *)
(* Each Redis command and each call of the provider is a step of its own.    *)
(* Any exception ends the iteration ("failed"); what it did until then stays.*)
(***************************************************************************)
EXTENDS GatewayRegistry, ScalerPolicy, Sequences

CONSTANTS
    Slots,        \* the time slots' settings
    Types,        \* instance types, in gateways per machine, as upScale sorts them
    MaxMishaps    \* bound on the provider's failures

ASSUME PoolAssumption ==
    /\ IsFiniteSet(Gateways)
    /\ \A s \in Slots : IsSlot(s)
    /\ Types \in Seq(Nat \ {0})
    /\ \E i \in DOMAIN Types : Types[i] = 1
    /\ MaxMishaps \in Nat

VARIABLES
    scaler,     \* the iteration under way
    machines,   \* instances the provider runs for us
    bare,       \* those among them that have no public address
    mishaps     \* how many calls of the provider failed

poolVars == <<scaler, machines, bare, mishaps>>
vars == <<registryVars, poolVars>>

-----------------------------------------------------------------------------
(* `left` holds the keys or addresses still to visit, `count` the gateways   *)
(* counted, then those still to order or to mark, `ready` those counted as   *)
(* idle, `held` the gateway whose entry was read and is about to be written, *)
(* and `doomed` the addresses to destroy.                                    *)

Idling == [pc |-> "idle", left |-> {}, count |-> 0, ready |-> 0,
           held |-> NoGateway, doomed |-> {}]
Failed == [Idling EXCEPT !.pc = "failed"]

ScalerStates ==
    [pc : {"idle", "failed", "clean", "reap", "ready", "grow", "shrink", "destroy"},
     left : SUBSET Gateways, count : Nat, ready : Nat,
     held : Gateways \union {NoGateway}, doomed : SUBSET Hosts]

Keys == {g \in Gateways : Present(g)}
SizeOf(h) == Cardinality({g \in Firsts : HostOf[g] = h})
At(pc) == scaler.pc = pc
Goto(pc) == scaler' = [scaler EXCEPT !.pc = pc]

PoolTypeOK ==
    /\ TypeOK
    /\ scaler \in ScalerStates
    /\ machines \subseteq Hosts
    /\ bare \subseteq machines
    /\ mishaps \in 0..MaxMishaps

PoolInit ==
    /\ Init
    /\ scaler = Idling
    /\ machines = {}
    /\ bare = {}
    /\ mishaps = 0

\* A bug: a terminated instance is still taken for one without an address.
TerminateKeepsBare(h) ==
    /\ machines' = machines \ {h}
    /\ bare' = bare
    /\ IF host[h] = "on" THEN HostGoes(h) ELSE UNCHANGED registryVars

\* The instance stops with everything on it.
Terminate(h) ==
    /\ machines' = machines \ {h}
    /\ bare' = bare \ {h}
    /\ IF host[h] = "on" THEN HostGoes(h) ELSE UNCHANGED registryVars

-----------------------------------------------------------------------------
(* cleanup                                                                   *)

IterationBegins ==
    /\ At("idle") \/ At("failed")
    /\ scaler' = [Idling EXCEPT !.pc = "clean", !.left = Keys]
    /\ UNCHANGED <<registryVars, machines, bare, mishaps>>

\* An entry that went away since the scan has no gw_ip (KeyError).  Of one
\* marked "stopping", the time of the mark, which is naive, is taken from an
\* aware one (TypeError), so no address is ever added to the list.
CleanVisits(g) ==
    /\ At("clean")
    /\ g \in scaler.left
    /\ scaler' = IF entry[g] = Absent \/ entry[g].st = "stopping"
                 THEN Failed
                 ELSE [scaler EXCEPT !.left = @ \ {g}]
    /\ UNCHANGED <<registryVars, machines, bare, mishaps>>

CleanEnds ==
    /\ At("clean")
    /\ scaler.left = {}
    /\ Goto("reap")
    /\ UNCHANGED <<registryVars, machines, bare, mishaps>>

\* A bug: only machines that booted are looked at.
ReapBooted(h) ==
    /\ At("reap")
    /\ h \in bare
    /\ host[h] = "on"
    /\ Terminate(h)
    /\ UNCHANGED <<scaler, mishaps>>

\* Machines without a public address, ten minutes after their launch.
Reap(h) ==
    /\ At("reap")
    /\ h \in bare
    /\ Terminate(h)
    /\ UNCHANGED <<scaler, mishaps>>

\* The others are too young.  The keys are counted.
Counts ==
    /\ At("reap")
    /\ scaler' = [scaler EXCEPT !.pc = "ready", !.left = Keys, !.count = Cardinality(Keys)]
    /\ UNCHANGED <<registryVars, machines, bare, mishaps>>

\* getReadyToRunCapacity reads the entries one by one, after a scan of its own
\* which is taken to return the same keys.
CountsReady(g) ==
    /\ At("ready")
    /\ g \in scaler.left
    /\ scaler' = [scaler EXCEPT !.left = @ \ {g}, !.ready = IF Free(g) THEN @ + 1 ELSE @]
    /\ UNCHANGED <<registryVars, machines, bare, mishaps>>

\* The slot is the one of the time of day.
Decides(s) ==
    LET n == CapacityIncrease(s, scaler.count, scaler.ready) IN
    /\ At("ready")
    /\ scaler.left = {}
    /\ scaler' = CASE n > 0 -> [Idling EXCEPT !.pc = "grow", !.count = n]
                   [] n < 0 -> [Idling EXCEPT !.pc = "shrink", !.count = -n, !.left = Keys]
                   [] n = 0 -> Idling
    /\ UNCHANGED <<registryVars, machines, bare, mishaps>>

-----------------------------------------------------------------------------
(* upScale                                                                   *)

Offered(h) == h \notin machines /\ host[h] = "new"

Orders(h) ==
    /\ At("grow")
    /\ scaler.count > 0
    /\ Offered(h)
    /\ SizeOf(h) = SizeFor(Types, scaler.count)
    /\ machines' = machines \union {h}
    /\ scaler' = [scaler EXCEPT !.count = @ - SizeOf(h)]
    /\ UNCHANGED <<registryVars, bare, mishaps>>

\* The instance runs, but allocating or associating its address fails.
OrdersBare(h) ==
    /\ At("grow")
    /\ scaler.count > 0
    /\ Offered(h)
    /\ SizeOf(h) = SizeFor(Types, scaler.count)
    /\ mishaps < MaxMishaps
    /\ mishaps' = mishaps + 1
    /\ machines' = machines \union {h}
    /\ bare' = bare \union {h}
    /\ scaler' = Failed
    /\ UNCHANGED registryVars

\* The provider has no machine of that size left.
OrderRefused ==
    /\ At("grow")
    /\ scaler.count > 0
    /\ \A h \in Hosts : Offered(h) => SizeOf(h) # SizeFor(Types, scaler.count)
    /\ scaler' = Failed
    /\ UNCHANGED <<registryVars, machines, bare, mishaps>>

GrowEnds ==
    /\ At("grow")
    /\ scaler.count = 0
    /\ scaler' = Idling
    /\ UNCHANGED <<registryVars, machines, bare, mishaps>>

-----------------------------------------------------------------------------
(* downScale                                                                 *)

\* GET: an entry that went away since the scan ends the iteration (KeyError).
ShrinkReads(g) ==
    /\ At("shrink")
    /\ scaler.held = NoGateway
    /\ scaler.count > 0
    /\ g \in scaler.left
    /\ scaler' = IF entry[g] = Absent
                 THEN Failed
                 ELSE [scaler EXCEPT !.left = @ \ {g}, !.held = IF Free(g) THEN g ELSE @]
    /\ UNCHANGED <<registryVars, machines, bare, mishaps>>

\* A bug: only the state is replaced, in what the entry has become meanwhile.
ShrinkMarksState(g) ==
    /\ At("shrink")
    /\ scaler.held = g
    /\ entry' = [entry EXCEPT ![g].st = "stopping"]
    /\ scaler' = [scaler EXCEPT !.held = NoGateway, !.count = @ - 1,
                                !.doomed = @ \union {HostOf[g]}]
    /\ UNCHANGED <<vmVars, proxyVars, machines, bare, mishaps>>

\* SET: the whole entry as it was read, that of an idle gateway, comes back
\* with the mark, whatever was written since.
ShrinkMarks(g) ==
    /\ At("shrink")
    /\ scaler.held = g
    /\ entry' = [entry EXCEPT ![g] = [st |-> "stopping", room |-> NoRoom]]
    /\ scaler' = [scaler EXCEPT !.held = NoGateway, !.count = @ - 1,
                                !.doomed = @ \union {HostOf[g]}]
    /\ UNCHANGED <<vmVars, proxyVars, machines, bare, mishaps>>

ShrinkEnds ==
    /\ At("shrink")
    /\ scaler.held = NoGateway
    /\ scaler.count = 0 \/ scaler.left = {}
    /\ Goto("destroy")
    /\ UNCHANGED <<registryVars, machines, bare, mishaps>>

\* destroyInstances looks the instance up by its address and terminates it,
\* with every gateway it hosts.
Destroys(h) ==
    /\ At("destroy")
    /\ h \in scaler.doomed
    /\ h \in machines
    /\ scaler' = [scaler EXCEPT !.doomed = @ \ {h}]
    /\ Terminate(h)
    /\ UNCHANGED mishaps

\* No instance has that address any more: an exception if it is the first of
\* the list, else the previous one is terminated again.
DestroysNothing(h) ==
    /\ At("destroy")
    /\ h \in scaler.doomed \ machines
    /\ scaler' \in {Failed, [scaler EXCEPT !.doomed = @ \ {h}]}
    /\ UNCHANGED <<registryVars, machines, bare, mishaps>>

\* The address is taken off before the instance is terminated: a failure in
\* between leaves a machine that runs without one.
DestroysHalf(h) ==
    /\ At("destroy")
    /\ h \in scaler.doomed \intersect machines
    /\ mishaps < MaxMishaps
    /\ mishaps' = mishaps + 1
    /\ bare' = bare \union {h}
    /\ scaler' = Failed
    /\ UNCHANGED <<registryVars, machines>>

\* Any call of the provider may fail: the instances are listed at each cleanup,
\* and an address is released after its instance is gone.
ProviderFails ==
    /\ At("reap") \/ At("destroy") \/ (At("grow") /\ scaler.count > 0)
    /\ mishaps < MaxMishaps
    /\ mishaps' = mishaps + 1
    /\ scaler' = Failed
    /\ UNCHANGED <<registryVars, machines, bare>>

DestroyEnds ==
    /\ At("destroy")
    /\ scaler.doomed = {}
    /\ scaler' = Idling
    /\ UNCHANGED <<registryVars, machines, bare, mishaps>>

-----------------------------------------------------------------------------

ScalerStep ==
    \/ IterationBegins \/ CleanEnds \/ Counts \/ OrderRefused \/ GrowEnds
    \/ ShrinkEnds \/ ProviderFails \/ DestroyEnds
    \/ \E g \in Gateways :
          CleanVisits(g) \/ CountsReady(g) \/ ShrinkReads(g) \/ ShrinkMarks(g)
    \/ \E h \in Hosts :
          Reap(h) \/ Orders(h) \/ OrdersBare(h)
          \/ Destroys(h) \/ DestroysHalf(h) \/ DestroysNothing(h)
    \/ \E s \in Slots : Decides(s)

MachineBoots(h) == h \in machines /\ HostBoots(h) /\ UNCHANGED poolVars

PoolNext ==
    \/ RegistryNext /\ UNCHANGED poolVars
    \/ \E h \in Hosts : MachineBoots(h)
    \/ ScalerStep

\* scale.sh never stops asking; an instance that runs grows older than ten
\* minutes, and every cleanup that gets that far then reaps it.
PoolSpec ==
    /\ PoolInit
    /\ [][PoolNext]_vars
    /\ RegistryFairness
    /\ WF_vars(ScalerStep)
    /\ \A h \in Hosts : SF_vars(Reap(h))

-----------------------------------------------------------------------------
(* Properties.                                                               *)

\* However stale the two counts, and however they contradict each other, an
\* iteration shrinks by no more than what it counted as idle beyond the buffer
\* of some slot, or by what exceeds that slot's maximum.
ShrinkSparesBuffer ==
    [][At("ready") /\ scaler'.pc = "shrink" =>
          \E s \in Slots :
             scaler'.count <= Higher(scaler.ready - s.unlockedMin, scaler.count - s.maxGw)]_scaler

\* One failed iteration does not stop the next ones: whatever vanished under a
\* scan, or was left marked, some cleanup gets through again and again.
CleanupGetsThrough == []<>At("reap")

\* The mark of a destruction that did not complete does not stay (and block the
\* cleanup): the entry goes with its machine, or the monitor puts it back.
MarkTransient ==
    \A g \in Gateways : (entry[g].st = "stopping") ~> (entry[g].st # "stopping")

\* A machine whose public address could not be set is terminated in the end,
\* also when iterations fail before they look for it.
BareReclaimed == \A h \in Hosts : (h \in bare) ~> (h \notin bare)

=============================================================================
