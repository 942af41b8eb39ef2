--------------------------- MODULE SipPool_proofs ---------------------------
(***************************************************************************)
(* The SIP pool, for any gateways, machines, contacts, callers and settings: *)
(* first the calls (one per gateway, as long as no container crashed), then  *)
(* the scaler (what it may mark, and how many).                              *)
(***************************************************************************)
EXTENDS SipPool, ScalerPolicy_proofs, FiniteSetTheorems

-----------------------------------------------------------------------------
(* The inductive invariant.  OneCallPerGateway rests on the lock, and the    *)
(* lock on the rows: who can have one that is unlocked.                      *)

\* Containers die with their machine, and only so: no other replaces them.
DeadAreGone ==
    \A c \in Contacts : Registered(c) => (reg[c].run = "dead" <=> host[MachineOf(c)] = "gone")

\* A gateway has one row at a time.
OneRow ==
    \A c, d \in Contacts : Registered(c) /\ Registered(d) /\ UserOf[c] = UserOf[d] => c = d

\* A container that is quitting still has its lock.
EndingIsLocked == \A c \in Contacts : reg[c].run = "ending" => reg[c].locked

\* The rows of a gateway with a call are locked, and its container is ready,
\* or it went with its machine.
CallIsLocked ==
    \A k \in Callers : Engaged(k) =>
        /\ \A c \in Contact(call[k].gw) : Registered(c) => reg[c].locked
        /\ \/ \E c \in Contact(call[k].gw) : reg[c].run = "ready"
           \/ host[HostOf[call[k].gw]] = "gone"

\* Nothing happens to a gateway between its missed call and its unlock.
UnlockIsDue ==
    \A g \in unlocks :
        /\ \A c \in Contact(g) : Registered(c) => reg[c].locked /\ reg[c].run # "ending"
        /\ \A k \in Callers : Engaged(k) => call[k].gw # g

\* Two calls are never with one gateway.
CallsApart ==
    \A j, k \in Callers : Engaged(j) /\ Engaged(k) /\ j # k => call[j].gw # call[k].gw

LockInv == DeadAreGone /\ OneRow /\ EndingIsLocked /\ CallIsLocked /\ UnlockIsDue /\ CallsApart
IInv == CallsTypeOK /\ RowsTypeOK /\ (crashes = 0 => LockInv)

-----------------------------------------------------------------------------

LEMMA InitIInv == SipInit => IInv
  BY SipAssumption
  DEF SipInit, IInv, CallsTypeOK, RowsTypeOK, LockInv, DeadAreGone, OneRow, EndingIsLocked,
      CallIsLocked, UnlockIsDue, CallsApart, SipAssumption, Engaged, Registered, Calls, NoCall,
      Rows, Off

\* The lock says that a gateway with a call has no container that is quitting.
LEMMA OneCallFollows == IInv => OneCallPerGateway
<1> SUFFICES ASSUME IInv, crashes = 0 PROVE OneCallPerGateway
  BY DEF OneCallPerGateway
<1>1. LockInv BY DEF IInv
<1>2. ASSUME NEW k \in Callers, Engaged(k), NEW c \in Contact(call[k].gw),
             reg[c].run = "ending"
      PROVE  FALSE
  <2>1. c \in Contacts /\ UserOf[c] = call[k].gw BY <1>2 DEF Contact
  <2>2. CASE \E d \in Contact(call[k].gw) : reg[d].run = "ready"
    BY <1>1, <1>2, <2>1, <2>2 DEF LockInv, OneRow, Registered, Contact
  <2>3. CASE host[HostOf[call[k].gw]] = "gone"
    BY <1>1, <1>2, <2>1, <2>3 DEF LockInv, DeadAreGone, Registered, MachineOf
  <2> QED BY <1>1, <1>2, <2>2, <2>3 DEF LockInv, CallIsLocked
<1> QED BY <1>1, <1>2 DEF OneCallPerGateway, LockInv, CallsApart

-----------------------------------------------------------------------------
(* Calls.                                                                   *)

LEMMA CallerStepInv ==
    ASSUME IInv, NEW k \in Callers, call[k].st \in {"none", "tries"},
           NEW new \in Calls, new.st \in {"none", "tries"}, call' = [call EXCEPT ![k] = new],
           UNCHANGED <<reg, unlocks, host, crashes>>
    PROVE  IInv'
<1>1. \A j \in Callers : Engaged(j)' => Engaged(j) /\ call'[j] = call[j]
  BY DEF IInv, CallsTypeOK, Engaged
<1>2. CallsTypeOK'
  BY <1>1 DEF IInv, CallsTypeOK, Engaged
<1>3. RowsTypeOK' BY DEF IInv, RowsTypeOK
<1>4. LockInv => LockInv'
  BY <1>1 DEF LockInv, DeadAreGone, OneRow, EndingIsLocked, CallIsLocked, UnlockIsDue, CallsApart,
              Registered, Contact, MachineOf
<1> QED BY <1>2, <1>3, <1>4 DEF IInv

LEMMA CallArrivesInv ==
    ASSUME IInv, NEW k \in Callers, CallArrives(k)
    PROVE  IInv'
<1>1. PICK S \in SUBSET Choices :
         call' = [call EXCEPT ![k] = [NoCall EXCEPT !.st = "tries", !.left = Counted(S)]]
  BY DEF CallArrives
<1>2. Choices \subseteq Contacts BY DEF Choices
<1>3. ASSUME NEW c \in Contacts
      PROVE  Cardinality({d \in Choices : MachineOf(d) = MachineOf(c)}) \in Nat
  <2>1. IsFiniteSet({d \in Choices : MachineOf(d) = MachineOf(c)})
    BY <1>2, FS_Subset, SipAssumption DEF SipAssumption
  <2> QED BY <2>1, FS_CardinalityType
<1>4. Counted(S) \subseteq [at : Contacts, free : Nat]
  <2> DEFINE free(c) == Cardinality({d \in Choices : MachineOf(d) = MachineOf(c)})
  <2>1. \A c \in S : c \in Contacts /\ free(c) \in Nat BY <1>1, <1>2, <1>3
  <2>2. Counted(S) = {[at |-> c, free |-> free(c)] : c \in S} BY DEF Counted
  <2> HIDE DEF free
  <2> QED BY <2>1, <2>2
<1> DEFINE new == [NoCall EXCEPT !.st = "tries", !.left = Counted(S)]
<1>5. new \in Calls /\ new.st = "tries" BY <1>4 DEF NoCall, Calls
<1> HIDE DEF new
<1>6. call' = [call EXCEPT ![k] = new] BY <1>1 DEF new
<1>7. call[k].st = "none" /\ UNCHANGED <<reg, unlocks, host, crashes>>
  BY DEF CallArrives, vmVars
<1> QED BY <1>5, <1>6, <1>7, CallerStepInv

LEMMA LockMissesInv ==
    ASSUME IInv, NEW k \in Callers, NEW r \in call[k].left, LockMisses(k, r)
    PROVE  IInv'
<1>1. call[k] \in Calls BY DEF IInv, CallsTypeOK
<1>2. CASE call[k].left = {r}
  <2>1. NoCall \in Calls BY DEF NoCall, Calls
  <2> QED
    BY <1>2, <2>1, CallerStepInv DEF LockMisses, NoCall, vmVars
<1>3. CASE call[k].left # {r}
  <2> DEFINE new == [NoCall EXCEPT !.st = "tries", !.left = call[k].left \ {r}]
  <2>1. new \in Calls /\ new.st = "tries" BY <1>1 DEF NoCall, Calls
  <2>2. call' = [call EXCEPT ![k] = new] BY <1>3 DEF LockMisses
  <2> QED
    BY <2>1, <2>2, CallerStepInv DEF LockMisses, vmVars
<1> QED BY <1>2, <1>3

LEMMA LocksInv ==
    ASSUME IInv, NEW k \in Callers, NEW r \in call[k].left, Locks(k, r)
    PROVE  IInv'
<1> DEFINE c == r.at
           g == UserOf[c]
<1>1. c \in Contacts /\ g \in Gateways
  BY SipAssumption DEF IInv, CallsTypeOK, Calls, SipAssumption
<1>2. /\ reg' = [reg EXCEPT ![c].locked = TRUE]
      /\ call' = [call EXCEPT ![k] = [NoCall EXCEPT !.st = "rings", !.gw = g]]
      /\ UNCHANGED <<unlocks, host, crashes>>
      /\ Registered(c) /\ ~reg[c].locked /\ call[k].st = "tries"
  BY DEF Locks, Unlocked, vmVars
<1>3. CallsTypeOK'
  BY <1>1, <1>2 DEF IInv, CallsTypeOK, Calls, NoCall, Engaged
<1>4. RowsTypeOK'
  BY <1>1, <1>2 DEF IInv, RowsTypeOK, Rows
<1>5. \A d \in Contacts : /\ reg'[d].run = reg[d].run
                          /\ reg[d].locked => reg'[d].locked
                          /\ d = c => reg'[d].locked
  BY <1>1, <1>2 DEF IInv, RowsTypeOK, Rows
<1>6. \A j \in Callers : j # k => call'[j] = call[j]
  BY <1>2 DEF IInv, CallsTypeOK
<1>7. call'[k].gw = g /\ call'[k].st = "rings"
  BY <1>2 DEF IInv, CallsTypeOK, NoCall
<1>8. ASSUME LockInv PROVE LockInv'
  <2>1. DeadAreGone' /\ OneRow' /\ EndingIsLocked'
    BY <1>2, <1>5, <1>8 DEF LockInv, DeadAreGone, OneRow, EndingIsLocked, Registered, MachineOf
  <2>2. \A j \in Callers : Engaged(j) => call[j].gw # g
    BY <1>1, <1>2, <1>8 DEF LockInv, CallIsLocked, Contact
  <2>3. \A d \in Contact(g) : Registered(d) => d = c
    BY <1>1, <1>2, <1>8 DEF LockInv, OneRow, Contact
  <2>4. reg[c].run = "ready" \/ host[HostOf[g]] = "gone"
    BY <1>1, <1>2, <1>8 DEF LockInv, EndingIsLocked, DeadAreGone, Registered, MachineOf,
                            IInv, RowsTypeOK, Rows
  <2>5. CallIsLocked'
    <3> SUFFICES ASSUME NEW j \in Callers, Engaged(j)'
                 PROVE  /\ \A d \in Contact(call'[j].gw) : Registered(d)' => reg'[d].locked
                        /\ \/ \E d \in Contact(call'[j].gw) : reg'[d].run = "ready"
                           \/ host'[HostOf[call'[j].gw]] = "gone"
      BY DEF CallIsLocked, Contact
    <3>1. CASE j = k
      BY <1>1, <1>2, <1>5, <1>7, <2>3, <2>4, <3>1 DEF Contact, Registered
    <3>2. CASE j # k
      BY <1>2, <1>5, <1>6, <1>8, <3>2 DEF LockInv, CallIsLocked, Contact, Registered, Engaged
    <3> QED BY <3>1, <3>2
  <2>6. g \notin unlocks
    BY <1>1, <1>2, <1>8 DEF LockInv, UnlockIsDue, Contact
  <2>7. UnlockIsDue'
    BY <1>2, <1>5, <1>6, <1>7, <1>8, <2>6 DEF LockInv, UnlockIsDue, Contact, Registered, Engaged
  <2>8. CallsApart'
    BY <1>6, <1>7, <1>8, <2>2 DEF LockInv, CallsApart, Engaged
  <2> QED BY <2>1, <2>5, <2>7, <2>8 DEF LockInv
<1> QED BY <1>2, <1>3, <1>4, <1>8 DEF IInv

\* The call of k ends, and with it, perhaps, the container of its gateway.
LEMMA CallEnds ==
    ASSUME IInv, NEW k \in Callers, Engaged(k), call' = [call EXCEPT ![k] = NoCall],
           UNCHANGED <<host, crashes>>
    PROVE  /\ ~Engaged(k)'
           /\ \A j \in Callers : Engaged(j)' => j # k /\ Engaged(j) /\ call'[j] = call[j]
           /\ LockInv => \A j \in Callers : Engaged(j)' => call'[j].gw # call[k].gw
           /\ unlocks' \subseteq Gateways => CallsTypeOK'
<1>1. ~Engaged(k)' BY DEF IInv, CallsTypeOK, Engaged, NoCall
<1>2. \A j \in Callers : Engaged(j)' => j # k /\ Engaged(j) /\ call'[j] = call[j]
  BY <1>1 DEF IInv, CallsTypeOK, Engaged
<1>3. LockInv => \A j \in Callers : Engaged(j)' => call'[j].gw # call[k].gw
  BY <1>2 DEF LockInv, CallsApart
<1>4. NoCall \in Calls BY DEF NoCall, Calls
<1>5. unlocks' \subseteq Gateways => CallsTypeOK'
  BY <1>2, <1>4 DEF IInv, CallsTypeOK, Engaged
<1> QED BY <1>1, <1>2, <1>3, <1>5

LEMMA FailsInv ==
    ASSUME IInv, NEW k \in Callers, Fails(k) \/ FailsWith500(k)
    PROVE  IInv'
<1>1. /\ Engaged(k) /\ call[k].gw \in Gateways
      /\ call' = [call EXCEPT ![k] = NoCall] /\ UNCHANGED <<reg, host, crashes>>
      /\ unlocks' \in {unlocks, unlocks \union {call[k].gw}}
  BY DEF Fails, FailsWith500, Engaged, vmVars, IInv, CallsTypeOK
<1>2. CallsTypeOK' BY <1>1, CallEnds DEF IInv, CallsTypeOK
<1>3. RowsTypeOK' BY <1>1 DEF IInv, RowsTypeOK
<1>4. ASSUME LockInv PROVE LockInv'
  <2>1. DeadAreGone' /\ OneRow' /\ EndingIsLocked'
    BY <1>1, <1>4 DEF LockInv, DeadAreGone, OneRow, EndingIsLocked, Registered, MachineOf
  <2>2. \A j \in Callers : Engaged(j)' =>
           Engaged(j) /\ call'[j] = call[j] /\ call'[j].gw # call[k].gw
    BY <1>1, <1>4, CallEnds
  <2>3. CallIsLocked' /\ CallsApart'
    BY <1>1, <1>4, <2>2 DEF LockInv, CallIsLocked, CallsApart, Contact, Registered, Engaged
  <2>4. ASSUME NEW c \in Contact(call[k].gw), Registered(c)
        PROVE  reg[c].locked /\ reg[c].run # "ending"
    BY <1>1, <1>4, <2>4 DEF LockInv, CallIsLocked, OneRow, DeadAreGone, Registered, Contact,
                            MachineOf
  <2>5. UnlockIsDue'
    BY <1>1, <1>4, <2>4, <2>2 DEF LockInv, UnlockIsDue, Contact, Registered, Engaged
  <2> QED BY <2>1, <2>3, <2>5 DEF LockInv
<1> QED BY <1>1, <1>2, <1>3, <1>4 DEF IInv

LEMMA QuitsInv ==
    ASSUME IInv, NEW k \in Callers, Engaged(k), NEW c \in Contacts, UserOf[c] = call[k].gw,
           call' = [call EXCEPT ![k] = NoCall], Quits(c), UNCHANGED <<unlocks, host, crashes>>
    PROVE  IInv'
<1>1. CallsTypeOK' BY CallEnds DEF IInv, CallsTypeOK
<1>2. RowsTypeOK' BY DEF IInv, RowsTypeOK, Quits, Rows
<1>3. \A d \in Contacts : /\ d # c => reg'[d] = reg[d]
                          /\ reg'[d].locked = reg[d].locked
                          /\ reg'[d].run = "off" <=> reg[d].run = "off"
                          /\ reg'[d].run = "dead" <=> reg[d].run = "dead"
  BY DEF Quits, IInv, RowsTypeOK, Rows
<1>4. ASSUME LockInv PROVE LockInv'
  <2>1. DeadAreGone' /\ OneRow'
    BY <1>3, <1>4 DEF LockInv, DeadAreGone, OneRow, Registered, MachineOf
  <2>2. Registered(c) => reg[c].locked
    BY <1>4 DEF LockInv, CallIsLocked, Contact
  <2>3. EndingIsLocked'
    BY <1>3, <1>4, <2>2 DEF LockInv, EndingIsLocked, Registered
  <2>4. \A j \in Callers : Engaged(j)' =>
           Engaged(j) /\ call'[j] = call[j] /\ call'[j].gw # call[k].gw
    BY <1>4, CallEnds
  <2>5. CallIsLocked'
    BY <1>3, <1>4, <2>4 DEF LockInv, CallIsLocked, Contact, Registered, Engaged
  <2>6. CallsApart'
    BY <1>4, <2>4 DEF LockInv, CallsApart, Engaged
  <2>7. call[k].gw \notin unlocks
    BY <1>4 DEF LockInv, UnlockIsDue
  <2>8. UnlockIsDue'
    BY <1>3, <1>4, <2>4, <2>7 DEF LockInv, UnlockIsDue, Contact, Registered, Engaged
  <2> QED BY <2>1, <2>3, <2>5, <2>6, <2>8 DEF LockInv
<1> QED BY <1>1, <1>2, <1>4 DEF IInv

LEMMA AnswersInv ==
    ASSUME IInv, NEW k \in Callers, NEW c \in Contacts, Answers(k, c)
    PROVE  IInv'
<1>1. \A j \in Callers : /\ Engaged(j)' <=> Engaged(j)
                         /\ call'[j].gw = call[j].gw
  BY DEF Answers, IInv, CallsTypeOK, Engaged, Calls
<1>2. UNCHANGED <<reg, unlocks, host, crashes>> BY DEF Answers, vmVars
<1>3. CallsTypeOK'
  BY <1>1, <1>2 DEF Answers, IInv, CallsTypeOK, Engaged, Calls
<1>4. RowsTypeOK' BY <1>2 DEF IInv, RowsTypeOK
<1>5. LockInv => LockInv'
  BY <1>1, <1>2 DEF LockInv, DeadAreGone, OneRow, EndingIsLocked, CallIsLocked, UnlockIsDue,
                    CallsApart, Registered, Contact, MachineOf
<1> QED BY <1>2, <1>3, <1>4, <1>5 DEF IInv

LEMMA CallStepInv ==
    ASSUME IInv, NEW k \in Callers, CallStep(k)
    PROVE  IInv'
<1>1. CASE HangsUp(k)
  BY <1>1, QuitsInv DEF HangsUp, Engaged, vmVars, IInv, CallsTypeOK
<1>2. ASSUME NEW c \in Contacts, GivesUp(k, c) PROVE IInv'
  BY <1>2, QuitsInv DEF GivesUp, Engaged, vmVars
<1> QED
  BY <1>1, <1>2, CallArrivesInv, FailsInv, LocksInv, LockMissesInv, AnswersInv DEF CallStep

-----------------------------------------------------------------------------
(* Rows, containers and machines.                                           *)

LEMMA CallsKept ==
    ASSUME IInv, UNCHANGED <<call, unlocks>>
    PROVE  CallsTypeOK'
  BY DEF IInv, CallsTypeOK, Engaged

LEMMA UnlocksInv ==
    ASSUME IInv, NEW g \in Gateways, Unlocks(g)
    PROVE  IInv'
<1>1. /\ g \in unlocks /\ unlocks' = unlocks \ {g} /\ UNCHANGED <<call, host, crashes>>
      /\ \A c \in Contacts : /\ reg'[c].run = reg[c].run
                             /\ UserOf[c] # g => reg'[c] = reg[c]
  BY DEF Unlocks, callVars, vmVars, IInv, RowsTypeOK, Rows
<1>2. CallsTypeOK' BY <1>1 DEF IInv, CallsTypeOK, Engaged
<1>3. RowsTypeOK' BY DEF Unlocks, vmVars, IInv, RowsTypeOK, Rows
<1>4. ASSUME LockInv PROVE LockInv'
  <2>1. DeadAreGone' /\ OneRow' /\ CallsApart'
    BY <1>1, <1>4 DEF LockInv, DeadAreGone, OneRow, CallsApart, Registered, MachineOf, Engaged
  <2>2. EndingIsLocked'
    BY <1>1, <1>4 DEF LockInv, EndingIsLocked, UnlockIsDue, Contact, Registered
  <2>3. \A k \in Callers : Engaged(k) => call[k].gw # g
    BY <1>1, <1>4 DEF LockInv, UnlockIsDue
  <2>4. CallIsLocked'
    BY <1>1, <1>4, <2>3 DEF LockInv, CallIsLocked, Contact, Registered, Engaged
  <2>5. UnlockIsDue'
    BY <1>1, <1>4 DEF LockInv, UnlockIsDue, Contact, Registered, Engaged
  <2> QED BY <2>1, <2>2, <2>4, <2>5 DEF LockInv
<1> QED BY <1>1, <1>2, <1>3, <1>4 DEF IInv

\* A container that unregistered, or whose registration expired, has no row.
LEMMA RowGoesInv ==
    ASSUME IInv, NEW c \in Contacts, Leaves(c) \/ Expires(c)
    PROVE  IInv'
<1>1. /\ reg[c].run \in {"ending", "dead"} /\ reg' = [reg EXCEPT ![c] = Off]
      /\ UNCHANGED <<call, unlocks, host, crashes>>
  BY DEF Leaves, Expires, callVars, vmVars
<1>2. CallsTypeOK' BY <1>1, CallsKept
<1>3. RowsTypeOK' BY <1>1 DEF IInv, RowsTypeOK, Rows, Off
<1>4. \A d \in Contacts : IF d = c THEN reg'[d].run = "off" ELSE reg'[d] = reg[d]
  BY <1>1 DEF IInv, RowsTypeOK, Off
<1>5. ASSUME LockInv PROVE LockInv'
  <2>1. DeadAreGone' /\ OneRow' /\ EndingIsLocked' /\ CallsApart'
    BY <1>1, <1>4, <1>5 DEF LockInv, DeadAreGone, OneRow, EndingIsLocked, CallsApart, Registered,
                            MachineOf, Engaged
  <2>2. CallIsLocked'
    BY <1>1, <1>4, <1>5 DEF LockInv, CallIsLocked, Contact, Registered, Engaged
  <2>3. UnlockIsDue'
    BY <1>1, <1>4, <1>5 DEF LockInv, UnlockIsDue, Contact, Registered, Engaged
  <2> QED BY <2>1, <2>2, <2>3 DEF LockInv
<1> QED BY <1>1, <1>2, <1>3, <1>5 DEF IInv

\* The only step that makes an unlocked row: nobody is engaged at the gateway,
\* for its machine is there and its container was not.
LEMMA RegistersInv ==
    ASSUME IInv, NEW c \in Contacts, Registers(c)
    PROVE  IInv'
<1> DEFINE g == UserOf[c]
<1>1. /\ host[HostOf[g]] = "on" /\ reg[c] = Off /\ g \notin unlocks
      /\ \A d \in Contact(g) : ~Alive(d)
      /\ reg' = [reg EXCEPT ![c] = Fresh] /\ UNCHANGED <<call, unlocks, host, crashes>>
  BY DEF Registers, callVars, vmVars, MachineOf
<1>2. CallsTypeOK' BY <1>1, CallsKept
<1>3. RowsTypeOK' BY <1>1 DEF IInv, RowsTypeOK, Rows, Fresh
<1>4. \A d \in Contacts : IF d = c THEN reg'[d].run = "ready" ELSE reg'[d] = reg[d]
  BY <1>1 DEF IInv, RowsTypeOK, Fresh
<1>5. ASSUME LockInv PROVE LockInv'
  <2>1. \A d \in Contact(g) : ~Registered(d)
    BY <1>1, <1>3, <1>5 DEF LockInv, DeadAreGone, Contact, Registered, Alive, MachineOf, IInv,
                            RowsTypeOK, Rows
  <2>2. \A k \in Callers : Engaged(k) => call[k].gw # g
    BY <1>1, <1>5 DEF LockInv, CallIsLocked, Alive
  <2>3. DeadAreGone' /\ OneRow' /\ EndingIsLocked' /\ CallsApart'
    BY <1>1, <1>4, <1>5, <2>1 DEF LockInv, DeadAreGone, OneRow, EndingIsLocked, CallsApart,
                                  Registered, MachineOf, Contact, Engaged
  <2>4. CallIsLocked'
    BY <1>1, <1>4, <1>5, <2>2 DEF LockInv, CallIsLocked, Contact, Registered, Engaged
  <2>5. UnlockIsDue'
    BY <1>1, <1>4, <1>5 DEF LockInv, UnlockIsDue, Contact, Registered, Engaged
  <2> QED BY <2>3, <2>4, <2>5 DEF LockInv
<1> QED BY <1>1, <1>2, <1>3, <1>5 DEF IInv

LEMMA ContainerStepInv ==
    ASSUME IInv, NEW c \in Contacts, ContainerStep(c)
    PROVE  IInv'
<1>1. CASE Crashes(c)
  <2>1. CallsTypeOK' BY <1>1, CallsKept DEF Crashes, callVars
  <2>2. RowsTypeOK'
    BY <1>1, SipAssumption DEF Crashes, IInv, RowsTypeOK, Rows, SipAssumption
  <2>3. crashes' # 0
    BY <1>1 DEF Crashes, IInv, RowsTypeOK
  <2> QED BY <2>1, <2>2, <2>3 DEF IInv
<1> QED BY <1>1, RowGoesInv, RegistersInv DEF ContainerStep

\* A machine that is ordered or boots neither was gone nor is.
LEMMA MachineComesInv ==
    ASSUME IInv, NEW h \in Hosts, host[h] \in {"new", "ordered"},
           NEW s \in {"ordered", "on"}, host' = [host EXCEPT ![h] = s],
           UNCHANGED <<reg, call, unlocks, crashes>>
    PROVE  IInv'
<1>1. CallsTypeOK' BY CallsKept
<1>2. RowsTypeOK' BY DEF IInv, RowsTypeOK
<1>3. \A i \in Hosts : host'[i] = "gone" <=> host[i] = "gone"
  BY DEF IInv, RowsTypeOK
<1>4. \A c \in Contacts : MachineOf(c) \in Hosts
  BY SipAssumption DEF SipAssumption, MachineOf
<1>5. \A k \in Callers : Engaged(k) => HostOf[call[k].gw] \in Hosts
  BY SipAssumption DEF SipAssumption, IInv, CallsTypeOK
<1>6. ASSUME LockInv PROVE LockInv'
  <2>1. DeadAreGone'
    BY <1>3, <1>4, <1>6 DEF LockInv, DeadAreGone, Registered, MachineOf
  <2>2. OneRow' /\ EndingIsLocked' /\ UnlockIsDue' /\ CallsApart'
    BY <1>6 DEF LockInv, OneRow, EndingIsLocked, UnlockIsDue, CallsApart, Registered, Contact,
                Engaged
  <2>3. CallIsLocked'
    BY <1>3, <1>5, <1>6 DEF LockInv, CallIsLocked, Contact, Registered, Engaged
  <2> QED BY <2>1, <2>2, <2>3 DEF LockInv
<1> QED BY <1>1, <1>2, <1>6 DEF IInv

-----------------------------------------------------------------------------
(* The scaler: all but three of its actions leave rows and machines alone.    *)

LEMMA NothingTouched ==
    ASSUME IInv, UNCHANGED <<reg, call, unlocks, host, crashes>>
    PROVE  IInv'
  BY DEF IInv, CallsTypeOK, RowsTypeOK, LockInv, DeadAreGone, OneRow, EndingIsLocked, CallIsLocked,
         UnlockIsDue, CallsApart, Engaged, Registered, Contact, MachineOf

\* The rows that are marked get locked: no call loses its lock.
LEMMA ShrinkMarksInv ==
    ASSUME IInv, NEW h \in Hosts, ShrinkMarks(h)
    PROVE  IInv'
<1>1. /\ \A c \in Contacts : reg'[c].run = reg[c].run /\ (reg[c].locked => reg'[c].locked)
      /\ UNCHANGED <<call, unlocks, host, crashes>>
  BY DEF ShrinkMarks, callVars, vmVars, IInv, RowsTypeOK, Rows
<1>2. CallsTypeOK' BY <1>1, CallsKept
<1>3. RowsTypeOK' BY DEF ShrinkMarks, vmVars, IInv, RowsTypeOK, Rows
<1>4. ASSUME LockInv PROVE LockInv'
  <2>1. DeadAreGone' /\ OneRow' /\ EndingIsLocked' /\ CallsApart'
    BY <1>1, <1>4 DEF LockInv, DeadAreGone, OneRow, EndingIsLocked, CallsApart, Registered,
                      MachineOf, Engaged
  <2>2. CallIsLocked'
    BY <1>1, <1>4 DEF LockInv, CallIsLocked, Contact, Registered, Engaged
  <2>3. UnlockIsDue'
    BY <1>1, <1>4 DEF LockInv, UnlockIsDue, Contact, Registered, Engaged
  <2> QED BY <2>1, <2>2, <2>3 DEF LockInv
<1> QED BY <1>1, <1>2, <1>3, <1>4 DEF IInv

\* Its calls are left with a machine that is gone, their locks with dead rows.
LEMMA DestroysInv ==
    ASSUME IInv, NEW h \in Hosts, Destroys(h)
    PROVE  IInv'
<1>1. /\ host' = [host EXCEPT ![h] = "gone"]
      /\ \A c \in Contacts :
            /\ reg'[c].locked = reg[c].locked
            /\ IF Alive(c) /\ MachineOf(c) = h THEN reg'[c].run = "dead"
               ELSE reg'[c].run = reg[c].run
      /\ UNCHANGED <<call, unlocks, crashes>>
  BY DEF Destroys, callVars, IInv, RowsTypeOK, Rows
<1>2. CallsTypeOK' BY <1>1, CallsKept
<1>3. RowsTypeOK' BY <1>1 DEF Destroys, IInv, RowsTypeOK, Rows
<1>4. \A i \in Hosts : host'[i] = IF i = h THEN "gone" ELSE host[i]
  BY <1>1 DEF IInv, RowsTypeOK
<1>5. \A c \in Contacts : MachineOf(c) \in Hosts /\ (Registered(c)' <=> Registered(c))
  BY <1>1, SipAssumption DEF SipAssumption, MachineOf, Registered, Alive
<1>6. \A k \in Callers : Engaged(k) => HostOf[call[k].gw] \in Hosts
  BY SipAssumption DEF SipAssumption, IInv, CallsTypeOK
<1>7. ASSUME LockInv PROVE LockInv'
  <2>1. DeadAreGone'
    <3> SUFFICES ASSUME NEW c \in Contacts, Registered(c)
                 PROVE  reg'[c].run = "dead" <=> host'[MachineOf(c)] = "gone"
      BY <1>5 DEF DeadAreGone, MachineOf
    <3>1. reg[c].run \in {"ready", "ending", "dead"}
      BY DEF IInv, RowsTypeOK, Rows, Registered
    <3> QED BY <1>1, <1>4, <1>5, <1>7, <3>1 DEF LockInv, DeadAreGone, Alive
  <2>2. OneRow' /\ CallsApart'
    BY <1>1, <1>5, <1>7 DEF LockInv, OneRow, CallsApart, Engaged
  <2>3. EndingIsLocked'
    BY <1>1, <1>7 DEF LockInv, EndingIsLocked
  <2>4. UnlockIsDue'
    BY <1>1, <1>5, <1>7 DEF LockInv, UnlockIsDue, Contact, Engaged
  <2>5. CallIsLocked'
    <3> SUFFICES ASSUME NEW k \in Callers, Engaged(k)
                 PROVE  /\ \A c \in Contact(call[k].gw) : Registered(c)' => reg'[c].locked
                        /\ \/ \E c \in Contact(call[k].gw) : reg'[c].run = "ready"
                           \/ host'[HostOf[call[k].gw]] = "gone"
      BY <1>1 DEF CallIsLocked, Contact, Engaged
    <3>1. \A c \in Contact(call[k].gw) : Registered(c)' => reg'[c].locked
      BY <1>1, <1>5, <1>7 DEF LockInv, CallIsLocked, Contact
    <3>2. CASE HostOf[call[k].gw] = h
      BY <1>4, <3>1, <3>2
    <3>3. CASE HostOf[call[k].gw] # h
      BY <1>1, <1>4, <1>6, <1>7, <3>1, <3>3 DEF LockInv, CallIsLocked, Contact, MachineOf
    <3> QED BY <3>2, <3>3
  <2> QED BY <2>1, <2>2, <2>3, <2>4, <2>5 DEF LockInv
<1> QED BY <1>1, <1>2, <1>3, <1>7 DEF IInv

LEMMA ScalerStepInv ==
    ASSUME IInv, ScalerStep
    PROVE  IInv'
<1>1. \/ \E h \in Hosts : Orders(h) \/ ShrinkMarks(h) \/ Destroys(h)
      \/ UNCHANGED <<reg, call, unlocks, host, crashes>>
  BY DEF ScalerStep, IterationBegins, BeginsBlind, CleanEnds, Counts, CountsReady, CountsNothing,
         OrderRefused, GrowEnds, ShrinkSelects, ShrinkEnds, ShrinkFails, ProviderFails, DestroyEnds,
         Decides, ShrinkSkips, DestroysNothing, callVars, vmVars
<1>2. ASSUME NEW h \in Hosts, Orders(h) PROVE IInv'
  BY <1>2, MachineComesInv DEF Orders, callVars
<1> QED BY <1>1, <1>2, ShrinkMarksInv, DestroysInv, NothingTouched

-----------------------------------------------------------------------------

LEMMA StepIInv == IInv /\ [SipNext]_sipVars => IInv'
<1> SUFFICES ASSUME IInv, [SipNext]_sipVars PROVE IInv'
  OBVIOUS
<1>1. ASSUME NEW g \in Gateways, Unlocks(g) PROVE IInv'
  BY <1>1, UnlocksInv
<1>2. ASSUME NEW h \in Hosts, MachineBoots(h) PROVE IInv'
  BY <1>2, MachineComesInv DEF MachineBoots, callVars
<1>3. CASE UNCHANGED sipVars
  BY <1>3, NothingTouched DEF sipVars
<1> QED
  BY <1>1, <1>2, <1>3, CallStepInv, ContainerStepInv, ScalerStepInv DEF SipNext

\* No two calls are with one gateway, nor is one with a gateway that is quitting,
\* while no container crashed: lockGw's conditional UPDATE (request_gw.py), the
\* unlock by user name (kamailioRun.py) and downScale's marks (ScalerSIP.py) keep
\* the row of a gateway with a call locked.
THEOREM GatewaysTakeOneCall == SipSpec => []OneCallPerGateway
<1>1. IInv => OneCallPerGateway BY OneCallFollows
<1> QED BY InitIInv, StepIInv, <1>1, PTL DEF SipSpec

\* Calls and rows keep their types: a call talks with a container of the gateway
\* its INVITE was rewritten to.
THEOREM CallsAndRowsTyped == SipSpec => [](CallsTypeOK /\ RowsTypeOK)
<1>1. IInv => CallsTypeOK /\ RowsTypeOK BY DEF IInv
<1> QED BY InitIInv, StepIInv, <1>1, PTL DEF SipSpec

-----------------------------------------------------------------------------
(* The scaler: its types, where its two counts come from, and what it knows  *)
(* of the machines it selected.                                              *)

\* Both counts are 0 until they are read, and one that could not be read stays so.
CountsFromZero ==
    /\ scaler.pc \in {"clean", "count"} => scaler.count = 0 /\ scaler.ready = 0 /\ ~scaler.blind
    /\ At("ready") => scaler.ready = 0 /\ (scaler.blind => scaler.count = 0)
    /\ At("decide") /\ scaler.blind => scaler.count = 0 \/ scaler.ready = 0

\* The rows of a machine, locked or not.
AllRowsOn(h) == {c \in Contacts : Registered(c) /\ MachineOf(c) = h}

\* Every row the machine has now was counted by the SELECT, unless a gateway of it
\* registered since.
SelectedAll ==
    At("shrink") =>
        \A h \in Hosts : scaler.list[h] > 0 /\ h \notin scaler.joined
                          => Cardinality(AllRowsOn(h)) <= scaler.list[h]

ScalerInv == ScalerTypeOK /\ CountsFromZero /\ SelectedAll

LEMMA RestTypes ==
    /\ Idling \in ScalerStates /\ Idling.pc = "idle"
    /\ Failed \in ScalerStates /\ Failed.pc = "failed"
  BY DEF Idling, Failed, ScalerStates

\* Where a decision takes the scaler.
LEMMA WorkTypes ==
    ASSUME NEW n \in Nat
    PROVE  LET grow == [Idling EXCEPT !.pc = "grow", !.count = n]
               select == [Idling EXCEPT !.pc = "select", !.count = n]
           IN  /\ grow \in ScalerStates /\ grow.pc = "grow"
               /\ select \in ScalerStates /\ select.pc = "select"
  BY DEF Idling, ScalerStates

LEMMA ContactsCounted ==
    ASSUME NEW S \in SUBSET Contacts
    PROVE  IsFiniteSet(S) /\ Cardinality(S) \in Nat
  BY SipAssumption, FS_Subset, FS_CardinalityType DEF SipAssumption

LEMMA MachinesAreHosts == \A c \in Contacts : MachineOf(c) \in Hosts
  BY SipAssumption DEF SipAssumption, MachineOf

LEMMA InitScalerInv == SipInit => ScalerInv
  BY RestTypes, SipAssumption
  DEF SipInit, ScalerInv, ScalerTypeOK, CountsFromZero, SelectedAll, At, SipAssumption

\* Rows that go or change leave what was selected as large as it was.
LEMMA RowsShrink ==
    ASSUME ScalerTypeOK, SelectedAll, UNCHANGED scaler,
           \A c \in Contacts : Registered(c)' => Registered(c)
    PROVE  SelectedAll'
<1>1. \A h \in Hosts : AllRowsOn(h)' \subseteq AllRowsOn(h) /\ AllRowsOn(h) \subseteq Contacts
  BY DEF AllRowsOn, MachineOf
<1>2. \A h \in Hosts : /\ Cardinality(AllRowsOn(h)') <= Cardinality(AllRowsOn(h))
                        /\ Cardinality(AllRowsOn(h)') \in Nat
                        /\ Cardinality(AllRowsOn(h)) \in Nat
  BY <1>1, ContactsCounted, FS_Subset
<1>3. \A h \in Hosts : scaler.list[h] \in Nat
  BY DEF ScalerTypeOK, ScalerStates
<1> QED BY <1>2, <1>3 DEF SelectedAll, At

LEMMA QuitsKeepsRow ==
    ASSUME RowsTypeOK, NEW c, Quits(c)
    PROVE  \A d \in Contacts : Registered(d)' => Registered(d)
<1> SUFFICES ASSUME NEW d \in Contacts, ~Registered(d) PROVE ~Registered(d)'
  OBVIOUS
<1>1. reg' = [reg EXCEPT ![c].run = IF reg[c].run = "ready" THEN "ending" ELSE reg[c].run]
  BY DEF Quits
<1>2. reg[d] \in Rows /\ reg[d].run = "off"
  BY DEF RowsTypeOK, Registered
<1>3. CASE d = c
  BY <1>1, <1>2, <1>3 DEF RowsTypeOK, Rows, Registered
<1>4. CASE d # c
  BY <1>1, <1>2, <1>4 DEF RowsTypeOK, Registered
<1> QED BY <1>3, <1>4

\* The steps of the calls, of Kamailio and of the containers.
LEMMA OthersKeepRows ==
    ASSUME IInv,
           \/ \E k \in Callers : CallStep(k)
           \/ \E g \in Gateways : Unlocks(g)
           \/ \E c \in Contacts : Leaves(c) \/ Crashes(c) \/ Expires(c)
           \/ \E h \in Hosts : MachineBoots(h)
           \/ UNCHANGED sipVars
    PROVE  /\ UNCHANGED <<scaler, mishaps>>
           /\ \A c \in Contacts : Registered(c)' => Registered(c)
<1>1. reg \in [Contacts -> Rows]
  BY DEF IInv, RowsTypeOK
<1>2. ASSUME NEW k \in Callers, CallStep(k)
      PROVE  /\ UNCHANGED <<scaler, mishaps>>
             /\ \A c \in Contacts : Registered(c)' => Registered(c)
  <2>1. CASE CallArrives(k)
    <3>1. UNCHANGED <<reg, scaler, mishaps>>
      BY <2>1 DEF CallArrives, scalerVars
    <3> QED BY <3>1 DEF Registered
  <2>2. CASE Fails(k) \/ FailsWith500(k)
    BY <2>2 DEF Fails, FailsWith500, scalerVars, Registered
  <2>3. CASE HangsUp(k)
    BY <2>3, QuitsKeepsRow DEF HangsUp, scalerVars, IInv
  <2>4. ASSUME NEW r \in call[k].left, Locks(k, r) \/ LockMisses(k, r)
        PROVE  /\ UNCHANGED <<scaler, mishaps>>
               /\ \A c \in Contacts : reg'[c].run = reg[c].run
    BY <1>1, <2>4 DEF Locks, LockMisses, scalerVars, Rows
  <2>5. ASSUME NEW c \in Contacts, Answers(k, c)
        PROVE  UNCHANGED <<reg, scaler, mishaps>>
    BY <2>5 DEF Answers, scalerVars
  <2>6. ASSUME NEW c \in Contacts, GivesUp(k, c)
        PROVE  /\ UNCHANGED <<scaler, mishaps>>
               /\ \A d \in Contacts : Registered(d)' => Registered(d)
    BY <2>6, QuitsKeepsRow DEF GivesUp, scalerVars, IInv
  <2> QED BY <1>2, <2>1, <2>2, <2>3, <2>4, <2>5, <2>6 DEF CallStep, Registered
<1>3. ASSUME NEW g \in Gateways, Unlocks(g)
      PROVE  UNCHANGED <<scaler, mishaps>> /\ \A c \in Contacts : reg'[c].run = reg[c].run
  BY <1>1, <1>3 DEF Unlocks, scalerVars, Rows
<1>4. ASSUME NEW c \in Contacts, Leaves(c) \/ Crashes(c) \/ Expires(c)
      PROVE  /\ UNCHANGED <<scaler, mishaps>>
             /\ \A d \in Contacts : Registered(d)' => Registered(d)
  BY <1>1, <1>4 DEF Leaves, Crashes, Expires, scalerVars, Rows, Off, Registered, Alive
<1>5. CASE (\E h \in Hosts : MachineBoots(h)) \/ UNCHANGED sipVars
  BY <1>5 DEF MachineBoots, sipVars, scalerVars, Registered
<1> QED BY <1>2, <1>3, <1>4, <1>5 DEF Registered

LEMMA OthersKeepScaler ==
    ASSUME IInv, ScalerInv,
           \/ \E k \in Callers : CallStep(k)
           \/ \E g \in Gateways : Unlocks(g)
           \/ \E c \in Contacts : Leaves(c) \/ Crashes(c) \/ Expires(c)
           \/ \E h \in Hosts : MachineBoots(h)
           \/ UNCHANGED sipVars
    PROVE  ScalerInv'
<1>1. UNCHANGED <<scaler, mishaps>> /\ \A c \in Contacts : Registered(c)' => Registered(c)
  BY OthersKeepRows
<1>2. SelectedAll'
  BY <1>1, RowsShrink DEF ScalerInv
<1> QED BY <1>1, <1>2 DEF ScalerInv, ScalerTypeOK, CountsFromZero, At

\* downScale under way is told of the machine that has one row more.
LEMMA RegistersKeepsScaler ==
    ASSUME IInv, ScalerInv, NEW c \in Contacts, Registers(c)
    PROVE  ScalerInv'
<1>1. /\ UNCHANGED mishaps
      /\ scaler' = IF At("shrink")
                   THEN [scaler EXCEPT !.joined = scaler.joined \union {MachineOf(c)}]
                   ELSE scaler
      /\ \A d \in Contacts : d # c => reg'[d] = reg[d]
  BY DEF Registers, IInv, RowsTypeOK
<1>2. scaler \in ScalerStates /\ mishaps \in 0..MaxMishaps
  BY DEF ScalerInv, ScalerTypeOK
<1>3. CASE ~At("shrink")
  BY <1>1, <1>3 DEF ScalerInv, ScalerTypeOK, CountsFromZero, SelectedAll, At
<1>4. CASE At("shrink")
  <2>1. scaler.joined \union {MachineOf(c)} \in SUBSET Hosts
    BY <1>2, MachinesAreHosts DEF ScalerStates
  <2>2. /\ scaler' \in ScalerStates /\ scaler'.pc = "shrink" /\ scaler'.list = scaler.list
        /\ scaler'.joined = scaler.joined \union {MachineOf(c)}
    BY <1>1, <1>2, <1>4, <2>1 DEF ScalerStates, At
  <2>3. \A h \in Hosts : h # MachineOf(c) => AllRowsOn(h)' = AllRowsOn(h)
    BY <1>1 DEF AllRowsOn, Registered, MachineOf
  <2>4. SelectedAll'
    BY <1>4, <2>2, <2>3 DEF ScalerInv, SelectedAll
  <2> QED BY <1>1, <1>2, <2>2, <2>4 DEF ScalerInv, ScalerTypeOK, CountsFromZero, At
<1> QED BY <1>3, <1>4

\* What a step of the scaler outside of downScale has to keep.
LEMMA NotShrinking ==
    ASSUME scaler' \in ScalerStates, mishaps' \in 0..MaxMishaps,
           scaler'.pc \notin {"clean", "count", "ready", "decide", "shrink"}
    PROVE  ScalerInv'
  BY DEF ScalerInv, ScalerTypeOK, CountsFromZero, SelectedAll, At

LEMMA CountingKeeps ==
    ASSUME ScalerInv,
           IterationBegins \/ BeginsBlind \/ CleanEnds \/ Counts \/ CountsReady \/ CountsNothing
    PROVE  ScalerInv'
<1> USE DEF ScalerInv, ScalerTypeOK, CountsFromZero, SelectedAll, At, ScalerStates
<1>1. CASE IterationBegins
  <2>1. Marked \in SUBSET Hosts
    BY MachinesAreHosts DEF Marked
  <2> QED BY <1>1, <2>1, RestTypes DEF IterationBegins, Idling
<1>2. CASE BeginsBlind
  <2>1. mishaps' \in 0..MaxMishaps
    BY <1>2, SipAssumption DEF BeginsBlind, SipAssumption
  <2> QED BY <1>2, <2>1, RestTypes DEF BeginsBlind, Idling
<1>3. CASE CleanEnds
  BY <1>3 DEF CleanEnds, Goto
<1>4. CASE Counts
  <2>1. Cardinality({c \in Contacts : Registered(c) /\ ~reg[c].toStop}) \in Nat
    BY ContactsCounted
  <2> QED BY <1>4, <2>1 DEF Counts
<1>5. CASE CountsReady
  <2>1. Cardinality({c \in Contacts : Unlocked(c)}) \in Nat
    BY ContactsCounted
  <2> QED BY <1>5, <2>1 DEF CountsReady
<1>6. CASE CountsNothing
  <2>1. mishaps' \in 0..MaxMishaps
    BY <1>6, SipAssumption DEF CountsNothing, SipAssumption
  <2>2. CASE At("count")
    BY <1>6, <2>1, <2>2 DEF CountsNothing
  <2>3. CASE At("ready")
    BY <1>6, <2>1, <2>3 DEF CountsNothing
  <2> QED BY <1>6, <2>2, <2>3 DEF CountsNothing
<1> QED BY <1>1, <1>2, <1>3, <1>4, <1>5, <1>6

LEMMA SipDecisionKeeps ==
    ASSUME ScalerInv, NEW s \in Slots, Decides(s)
    PROVE  ScalerInv'
<1> DEFINE n == CapacityIncrease(s, scaler.count, scaler.ready)
<1>1. /\ scaler.count \in Nat /\ scaler.ready \in Nat /\ IsSlot(s)
      /\ mishaps' \in 0..MaxMishaps
  BY SipAssumption DEF ScalerInv, ScalerTypeOK, ScalerStates, SipAssumption, Decides
<1>2. n \in Int
  BY <1>1, IncreaseType
<1>3. scaler' = CASE n > 0 -> [Idling EXCEPT !.pc = "grow", !.count = n]
                  [] n < 0 -> [Idling EXCEPT !.pc = "select", !.count = -n]
                  [] n = 0 -> Idling
  BY DEF Decides
<1> HIDE DEF n
<1>4. CASE n > 0
  <2>1. n \in Nat /\ scaler' = [Idling EXCEPT !.pc = "grow", !.count = n]
    BY <1>2, <1>3, <1>4
  <2>2. scaler' \in ScalerStates /\ scaler'.pc = "grow"
    BY <2>1, WorkTypes
  <2> QED BY <1>1, <2>2, NotShrinking
<1>5. CASE n < 0
  <2>1. -n \in Nat /\ scaler' = [Idling EXCEPT !.pc = "select", !.count = -n]
    BY <1>2, <1>3, <1>5
  <2>2. scaler' \in ScalerStates /\ scaler'.pc = "select"
    BY <2>1, WorkTypes
  <2> QED BY <1>1, <2>2, NotShrinking
<1>6. CASE n = 0
  <2>1. scaler' = Idling
    BY <1>3, <1>6
  <2> QED BY <1>1, <2>1, RestTypes, NotShrinking
<1> QED BY <1>2, <1>4, <1>5, <1>6

LEMMA SipGrowthKeeps ==
    ASSUME ScalerInv, OrderRefused \/ GrowEnds \/ \E h \in Hosts : Orders(h)
    PROVE  ScalerInv'
<1>1. CASE OrderRefused \/ GrowEnds
  BY <1>1, RestTypes, NotShrinking DEF OrderRefused, GrowEnds, ScalerInv, ScalerTypeOK
<1>2. ASSUME NEW h \in Hosts, Orders(h) PROVE ScalerInv'
  <2>1. /\ Types \in [1..Len(Types) -> Nat \ {0}] /\ Len(Types) \in Nat
        /\ \E i \in 1..Len(Types) : Types[i] = 1
    BY SipAssumption DEF SipAssumption
  <2>2. scaler.count \in Nat \ {0} /\ scaler.pc = "grow"
    BY <1>2 DEF Orders, At, ScalerInv, ScalerTypeOK, ScalerStates
  <2>3. SizeOf(h) \in 1..scaler.count
    BY <1>2, <2>1, <2>2, SizeForFits DEF Orders
  <2>4. scaler' = [scaler EXCEPT !.count = scaler.count - SizeOf(h)] /\ UNCHANGED mishaps
    BY <1>2 DEF Orders
  <2>5. scaler' \in ScalerStates /\ scaler'.pc = "grow"
    BY <2>2, <2>3, <2>4 DEF ScalerInv, ScalerTypeOK, ScalerStates
  <2> QED BY <2>4, <2>5, NotShrinking DEF ScalerInv, ScalerTypeOK
<1> QED BY <1>1, <1>2

\* A machine is only selected when none of its rows is locked: all were counted.
LEMMA SelectionKeeps ==
    ASSUME ScalerInv, ShrinkSelects
    PROVE  ScalerInv'
<1> DEFINE list == [h \in Hosts |-> IF Quiet(h) THEN Cardinality(RowsOn(h)) ELSE 0]
<1>1. scaler' = [scaler EXCEPT !.pc = "shrink", !.list = list] /\ UNCHANGED <<reg, mishaps>>
  BY DEF ShrinkSelects
<1>2. \A h \in Hosts : Cardinality(RowsOn(h)) \in Nat
  BY ContactsCounted DEF RowsOn
<1>3. list \in [Hosts -> Nat]
  BY <1>2
<1>4. ASSUME NEW h \in Hosts, list[h] > 0
      PROVE  Cardinality(AllRowsOn(h)) <= list[h]
  <2>1. Quiet(h) /\ list[h] = Cardinality(RowsOn(h))
    BY <1>4
  <2>2. RowsOn(h) = AllRowsOn(h)
    BY <2>1 DEF Quiet, RowsOn, AllRowsOn
  <2> QED BY <1>2, <2>1, <2>2
<1> HIDE DEF list
<1>5. scaler' \in ScalerStates /\ scaler'.pc = "shrink" /\ scaler'.list = list
  BY <1>1, <1>3 DEF ScalerInv, ScalerTypeOK, ScalerStates
<1>6. \A h \in Hosts : AllRowsOn(h)' = AllRowsOn(h)
  BY <1>1 DEF AllRowsOn, Registered, MachineOf
<1> QED
  BY <1>1, <1>4, <1>5, <1>6 DEF ScalerInv, ScalerTypeOK, CountsFromZero, SelectedAll, At

\* A machine that was marked or skipped is off the list; marking keeps the rows.
LEMMA MarkingKeeps ==
    ASSUME IInv, ScalerInv, NEW h \in Hosts, ShrinkMarks(h) \/ ShrinkSkips(h)
    PROVE  ScalerInv'
<1>1. scaler \in ScalerStates /\ scaler.pc = "shrink" /\ UNCHANGED mishaps
  BY DEF ShrinkMarks, ShrinkSkips, At, ScalerInv, ScalerTypeOK
<1>2. /\ scaler' \in ScalerStates /\ scaler'.pc = "shrink" /\ scaler'.joined = scaler.joined
      /\ scaler'.list = [scaler.list EXCEPT ![h] = 0]
  <2>1. CASE ShrinkMarks(h)
    <3>1. scaler.list \in [Hosts -> Nat] /\ scaler.count \in Nat /\ scaler.doomed \in SUBSET Hosts
      BY <1>1 DEF ScalerStates
    <3>2. scaler.list[h] <= scaler.count
      BY <2>1 DEF ShrinkMarks
    <3>3. /\ scaler.count - scaler.list[h] \in Nat
          /\ [scaler.list EXCEPT ![h] = 0] \in [Hosts -> Nat]
          /\ scaler.doomed \union {h} \in SUBSET Hosts
      BY <3>1, <3>2
    <3>4. scaler' = [scaler EXCEPT !.list = [scaler.list EXCEPT ![h] = 0],
                                   !.count = scaler.count - scaler.list[h],
                                   !.doomed = scaler.doomed \union {h}]
      BY <2>1 DEF ShrinkMarks
    <3> QED BY <1>1, <3>3, <3>4 DEF ScalerStates
  <2>2. CASE ShrinkSkips(h)
    BY <1>1, <2>2 DEF ShrinkSkips, ScalerStates
  <2> QED BY <2>1, <2>2
<1>3. \A c \in Contacts : Registered(c)' <=> Registered(c)
  <2>1. reg \in [Contacts -> Rows]
    BY DEF IInv, RowsTypeOK
  <2>2. CASE ShrinkMarks(h)
    <3>1. reg' = [c \in Contacts |->
                     IF c \in RowsOn(h) THEN [reg[c] EXCEPT !.locked = TRUE, !.toStop = TRUE]
                     ELSE reg[c]]
      BY <2>2 DEF ShrinkMarks
    <3> QED BY <2>1, <3>1 DEF Rows, Registered
  <2>3. CASE ShrinkSkips(h)
    BY <2>3 DEF ShrinkSkips, Registered
  <2> QED BY <2>2, <2>3
<1>4. \A i \in Hosts : AllRowsOn(i)' = AllRowsOn(i)
  BY <1>3 DEF AllRowsOn, MachineOf
<1>5. \A i \in Hosts : scaler'.list[i] > 0 => i # h /\ scaler'.list[i] = scaler.list[i]
  BY <1>1, <1>2 DEF ScalerStates
<1> QED
  BY <1>1, <1>2, <1>4, <1>5 DEF ScalerInv, ScalerTypeOK, CountsFromZero, SelectedAll, At

LEMMA EndingKeeps ==
    ASSUME ScalerInv,
           \/ ShrinkEnds \/ ShrinkFails \/ ProviderFails \/ DestroyEnds
           \/ \E h \in Hosts : Destroys(h) \/ DestroysNothing(h)
    PROVE  ScalerInv'
<1>1. /\ scaler \in ScalerStates /\ mishaps \in 0..MaxMishaps
      /\ mishaps < MaxMishaps => mishaps + 1 \in 0..MaxMishaps
  BY SipAssumption DEF ScalerInv, ScalerTypeOK, SipAssumption
<1>2. CASE ShrinkEnds
  BY <1>1, <1>2, NotShrinking DEF ShrinkEnds, Goto, ScalerStates
<1>3. CASE ShrinkFails
  BY <1>1, <1>3, RestTypes, NotShrinking DEF ShrinkFails, ScalerStates
<1>4. CASE ProviderFails
  BY <1>1, <1>4, RestTypes, NotShrinking DEF ProviderFails
<1>5. CASE DestroyEnds
  BY <1>1, <1>5, RestTypes, NotShrinking DEF DestroyEnds
<1>6. ASSUME NEW h \in Hosts, Destroys(h) \/ DestroysNothing(h) PROVE ScalerInv'
  <2> DEFINE next == [scaler EXCEPT !.doomed = scaler.doomed \ {h}]
  <2>1. /\ next \in ScalerStates /\ next.pc = scaler.pc
        /\ next.count = scaler.count /\ next.ready = scaler.ready /\ next.blind = scaler.blind
    BY <1>1 DEF ScalerStates
  <2>2. scaler' \in {Failed, next} /\ UNCHANGED mishaps /\ scaler.pc \in {"clean", "destroy"}
    BY <1>6 DEF Destroys, DestroysNothing, At
  <2> HIDE DEF next
  <2>3. CASE scaler' = Failed
    BY <1>1, <2>2, <2>3, RestTypes, NotShrinking
  <2>4. CASE scaler' = next
    BY <1>1, <2>1, <2>2, <2>4 DEF ScalerInv, ScalerTypeOK, CountsFromZero, SelectedAll, At
  <2> QED BY <2>2, <2>3, <2>4
<1> QED BY <1>2, <1>3, <1>4, <1>5, <1>6

LEMMA StepScalerInv == IInv /\ ScalerInv /\ [SipNext]_sipVars => ScalerInv'
  BY OthersKeepScaler, RegistersKeepsScaler, CountingKeeps, SipDecisionKeeps, SipGrowthKeeps,
     SelectionKeeps, MarkingKeeps, EndingKeeps
  DEF SipNext, ScalerStep, ContainerStep

\* Every variable of the pool keeps its type, whatever fails: an iteration never
\* orders or marks more than it decided to.
THEOREM SipTypeCorrect == SipSpec => []SipTypeOK
<1>1. IInv /\ ScalerInv => SipTypeOK
  BY DEF IInv, ScalerInv, SipTypeOK
<1> QED BY InitIInv, InitScalerInv, StepIInv, StepScalerInv, <1>1, PTL DEF SipSpec
-----------------------------------------------------------------------------
(* What an iteration may mark.                                               *)

\* The step that adds to the machines to destroy, while downScale is under way.
LEMMA OnlyMarksDoom ==
    ASSUME IInv, ScalerInv, [SipNext]_sipVars, At("shrink"),
           NEW h \in Hosts, h \in scaler'.doomed, h \notin scaler.doomed
    PROVE  ShrinkMarks(h)
<1>1. scaler \in ScalerStates /\ scaler.pc = "shrink"
  BY DEF ScalerInv, ScalerTypeOK, At
<1>2. \A i \in Hosts : ShrinkMarks(i) => scaler'.doomed = scaler.doomed \union {i}
  BY <1>1 DEF ShrinkMarks, ScalerStates
<1>3. \A i \in Hosts : ShrinkSkips(i) => scaler'.doomed = scaler.doomed
  BY <1>1 DEF ShrinkSkips, ScalerStates
<1>4. ShrinkEnds \/ ShrinkFails => scaler'.doomed = scaler.doomed
  BY <1>1 DEF ShrinkEnds, ShrinkFails, Goto, At, ScalerStates
<1>5. \A c \in Contacts : Registers(c) => scaler'.doomed = scaler.doomed
  BY <1>1 DEF Registers, ScalerStates
<1>6. CASE ScalerStep
  BY <1>1, <1>2, <1>3, <1>4, <1>6
  DEF ScalerStep, At, IterationBegins, BeginsBlind, CleanEnds, Counts, CountsReady,
      CountsNothing, OrderRefused, GrowEnds, ShrinkSelects, ProviderFails, DestroyEnds, Decides,
      Orders, Destroys, DestroysNothing
<1>7. CASE ~ScalerStep
  BY <1>5, <1>7, OthersKeepRows DEF SipNext, ContainerStep
<1> QED BY <1>6, <1>7

\* A machine that is there is only marked when every row it has is one the SELECT
\* counted and the UPDATE found unlocked: then no call is with a gateway of it.
LEMMA MarkedIsQuiet ==
    ASSUME IInv, ScalerInv, crashes = 0, NEW h \in Hosts, ShrinkMarks(h), host[h] = "on",
           h \notin scaler.joined
    PROVE  \A k \in Callers : Engaged(k) => HostOf[call[k].gw] # h
<1>1. /\ scaler.list[h] > 0 /\ Cardinality(RowsOn(h)) = scaler.list[h]
      /\ Cardinality(AllRowsOn(h)) <= scaler.list[h]
  BY DEF ShrinkMarks, NextOfList, ScalerInv, SelectedAll
<1>2. AllRowsOn(h) \in SUBSET Contacts /\ RowsOn(h) \in SUBSET AllRowsOn(h)
  BY DEF AllRowsOn, RowsOn
<1>3. /\ IsFiniteSet(AllRowsOn(h))
      /\ Cardinality(AllRowsOn(h)) \in Nat /\ Cardinality(RowsOn(h)) \in Nat
  BY <1>2, ContactsCounted, RowsOn(h) \in SUBSET Contacts
<1>4. Cardinality(RowsOn(h)) <= Cardinality(AllRowsOn(h))
  BY <1>2, <1>3, FS_Subset
<1>5. Cardinality(RowsOn(h)) = Cardinality(AllRowsOn(h))
  BY <1>1, <1>3, <1>4
<1>6. RowsOn(h) = AllRowsOn(h)
  BY <1>2, <1>3, <1>5, FS_Subset
<1>7. \A c \in Contacts : Registered(c) /\ MachineOf(c) = h => ~reg[c].locked
  BY <1>6 DEF RowsOn, AllRowsOn
<1>8. ASSUME NEW k \in Callers, Engaged(k), HostOf[call[k].gw] = h PROVE FALSE
  <2>1. LockInv
    BY DEF IInv
  <2>2. PICK c \in Contact(call[k].gw) : reg[c].run = "ready" /\ reg[c].locked
    BY <1>8, <2>1 DEF LockInv, CallIsLocked, Registered
  <2> QED BY <1>7, <1>8, <2>2 DEF Contact, MachineOf, Registered
<1> QED BY <1>8

\* downScale's comparison of the rows it updates with those it selected is enough,
\* for any number of gateways on a machine: a call that came in between saves it.
THEOREM SipShrinkSparesCalls == SipSpec => ShrinkSparesCalls
<1> DEFINE Step ==
      \A h \in Hosts : At("shrink") /\ crashes = 0 /\ host[h] = "on"
                       /\ h \in scaler'.doomed \ (scaler.doomed \union scaler.joined)
          => \A k \in Callers : Engaged(k) => HostOf[call[k].gw] # h
<1>1. IInv /\ ScalerInv /\ [SipNext]_sipVars => [Step]_sipVars
  BY OnlyMarksDoom, MarkedIsQuiet
<1> QED
  BY <1>1, InitIInv, InitScalerInv, StepIInv, StepScalerInv, PTL DEF SipSpec, ShrinkSparesCalls

\* Only a decision starts downScale.
LEMMA OnlyDecidesSelects ==
    ASSUME IInv, ScalerInv, [SipNext]_sipVars, At("decide"), scaler'.pc = "select"
    PROVE  \E s \in Slots : Decides(s)
<1>1. \A c \in Contacts : Registers(c) => scaler' = scaler
  BY DEF Registers, At
<1>2. CASE ScalerStep
  BY <1>2
  DEF ScalerStep, At, IterationBegins, BeginsBlind, CleanEnds, Counts, CountsReady,
      CountsNothing, OrderRefused, GrowEnds, ShrinkSelects, ShrinkEnds, ShrinkFails, ProviderFails,
      DestroyEnds, Orders, ShrinkMarks, ShrinkSkips, Destroys, DestroysNothing
<1>3. CASE ~ScalerStep
  BY <1>1, <1>3, OthersKeepRows DEF SipNext, ContainerStep, At
<1> QED BY <1>2, <1>3

\* A pool counted as empty is not shrunk, and without idle gateways only what
\* exceeds the maximum is.
LEMMA BlindIncrease ==
    ASSUME NEW s, IsSlot(s), NEW capacity \in Nat, NEW ready \in Nat,
           capacity = 0 \/ ready = 0, CapacityIncrease(s, capacity, ready) < 0
    PROVE  -CapacityIncrease(s, capacity, ready) <= capacity - s.maxGw
<1>1. 100 * (capacity - ready) \in Int /\ s.loadMax \in 1..100
  BY DEF IsSlot
<1>2. CeilDiv(100 * (capacity - ready), s.loadMax) \in Int
  BY <1>1, CeilDivType
<1> QED
  BY <1>2 DEF IsSlot, CapacityIncrease, TargetCapacity, MinCapacity, Higher, Lower

\* An iteration that could not read the database takes the counts for 0: it may
\* order too much, and takes off no more than what exceeds a slot's maximum.
THEOREM SipBlindSparesPool == SipSpec => BlindSparesPool
<1> DEFINE Step ==
      At("decide") /\ scaler.blind /\ scaler'.pc = "select"
          => \E s \in Slots : scaler'.count <= scaler.count - s.maxGw
<1>1. IInv /\ ScalerInv /\ [SipNext]_sipVars => [Step]_scaler
  <2> SUFFICES ASSUME IInv, ScalerInv, [SipNext]_sipVars, At("decide"), scaler.blind,
                      scaler'.pc = "select"
               PROVE  \E s \in Slots : scaler'.count <= scaler.count - s.maxGw
    OBVIOUS
  <2>1. PICK s \in Slots : Decides(s)
    BY OnlyDecidesSelects
  <2> DEFINE n == CapacityIncrease(s, scaler.count, scaler.ready)
  <2>2. /\ scaler.count \in Nat /\ scaler.ready \in Nat /\ IsSlot(s)
        /\ scaler.count = 0 \/ scaler.ready = 0
    BY SipAssumption
    DEF ScalerInv, ScalerTypeOK, ScalerStates, CountsFromZero, SipAssumption
  <2>3. n \in Int /\ (n < 0 => -n <= scaler.count - s.maxGw)
    BY <2>2, IncreaseType, BlindIncrease
  <2>4. scaler' = CASE n > 0 -> [Idling EXCEPT !.pc = "grow", !.count = n]
                    [] n < 0 -> [Idling EXCEPT !.pc = "select", !.count = -n]
                    [] n = 0 -> Idling
    BY <2>1 DEF Decides
  <2> HIDE DEF n
  <2>5. n < 0
    <3>1. n > 0 => scaler'.pc = "grow"
      BY <2>3, <2>4 DEF Idling
    <3>2. n = 0 => scaler'.pc = "idle"
      BY <2>3, <2>4 DEF Idling
    <3> QED BY <2>3, <3>1, <3>2
  <2>6. scaler'.count = -n
    BY <2>3, <2>4, <2>5 DEF Idling
  <2> QED BY <2>3, <2>5, <2>6
<1> QED
  BY <1>1, InitIInv, InitScalerInv, StepIInv, StepScalerInv, PTL DEF SipSpec, BlindSparesPool

=============================================================================
