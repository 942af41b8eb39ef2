------------------------- MODULE ManagerAccounts_proofs -------------------------
(***************************************************************************)
(* What the audit tells, which sessions are over and how the last          *)
(* administrator can go, for any users, browsers and bounds.               *)
(***************************************************************************)
EXTENDS ManagerAccounts, FiniteSetTheorems, TLAPS

AuditLines == [role : Roles, enabled : BOOLEAN, must : BOOLEAN] \cup {Absent}

-----------------------------------------------------------------------------
(* Types and the audit, which support each other: an update's line is made  *)
(* from what is told of the account before.                                 *)

RecordsInv == AccountsTypeOK /\ AuditTells

\* An account is never taken for an absent one.
LEMMA RowsAreSomething ==
  /\ \A row \in Row : row # Absent
  /\ \A line \in [role : Roles, enabled : BOOLEAN, must : BOOLEAN] : line # Absent
  BY DEF Row, Absent, Roles

LEMMA FactsTyped ==
  /\ \A row \in Row : Facts(row) = [role |-> row.role, enabled |-> row.enabled, must |-> row.must]
  /\ \A row \in Row : Facts(row) \in [role : Roles, enabled : BOOLEAN, must : BOOLEAN]
  /\ Facts(Absent) = Absent
  BY RowsAreSomething DEF Facts, Row

\* The password is changed: the epoch moves on.
LEMMA FactsFollow ==
  ASSUME NEW row \in Row
  PROVE  /\ [Bumped(row) EXCEPT !.must = TRUE] \in Row
         /\ Facts([Bumped(row) EXCEPT !.must = TRUE]) = [Facts(row) EXCEPT !.must = TRUE]
         /\ [Bumped(row) EXCEPT !.must = FALSE] \in Row
         /\ Facts([Bumped(row) EXCEPT !.must = FALSE]) = [Facts(row) EXCEPT !.must = FALSE]
<1> DEFINE forced == [Bumped(row) EXCEPT !.must = TRUE]
           free == [Bumped(row) EXCEPT !.must = FALSE]
<1>0. Bumped(row) \in Row /\ Bumped(row).role = row.role /\ Bumped(row).enabled = row.enabled
  BY DEF Bumped, Row
<1>1. forced \in Row /\ free \in Row BY <1>0 DEF Row
<1>2. /\ forced.role = row.role /\ forced.enabled = row.enabled /\ forced.must = TRUE
      /\ free.role = row.role /\ free.enabled = row.enabled /\ free.must = FALSE
  BY <1>0 DEF Row
<1> HIDE DEF forced, free
<1>3. /\ Facts(forced) = [role |-> row.role, enabled |-> row.enabled, must |-> TRUE]
      /\ Facts(free) = [role |-> row.role, enabled |-> row.enabled, must |-> FALSE]
  BY <1>1, <1>2, FactsTyped
<1>4. /\ [Facts(row) EXCEPT !.must = TRUE] = [role |-> row.role, enabled |-> row.enabled, must |-> TRUE]
      /\ [Facts(row) EXCEPT !.must = FALSE] = [role |-> row.role, enabled |-> row.enabled, must |-> FALSE]
  <2> DEFINE said == Facts(row)
  <2>1. said \in [role : Roles, enabled : BOOLEAN, must : BOOLEAN]
        /\ said.role = row.role /\ said.enabled = row.enabled
    BY FactsTyped
  <2> HIDE DEF said
  <2>2. \A b \in BOOLEAN : [said EXCEPT !.must = b] = [role |-> said.role, enabled |-> said.enabled, must |-> b]
    BY ONLY <2>1
  <2>3. QED BY <2>1, <2>2, Zenon DEF said
<1>5. QED BY <1>1, <1>3, <1>4 DEF forced, free

LEMMA NewRowTyped == \A i \in Nat \ {0}, r \in Roles : NewRow(i, r) \in Row
  BY DEF NewRow, Row

\* What a request carries is what its step says.
LEMMA RequestFields ==
  ASSUME AccountsTypeOK, NEW c \in Clients
  PROVE  /\ request[c].pc \in {"bootstrap", "login", "change", "judged", "admitted", "checks"}
              => request[c].target \in Users
         /\ request[c].pc = "judged" => request[c].seen \in Row \cup {Absent}
         /\ request[c].pc \in {"admitted", "checks"} => request[c].user \in Users /\ request[c].asked \in Asked
         /\ request[c].pc = "checks" => request[c].seen \in Row \cup {Absent} /\ request[c].left \in Nat
         /\ request[c] # Idle => request[c].pc # "idle"
<1>1. request[c] \in Requests BY DEF AccountsTypeOK
<1>2. QED BY <1>1 DEF Requests, Idle

LEMMA InitRecords == Init => RecordsInv
  BY FactsTyped DEF Init, RecordsInv, AccountsTypeOK, AuditTells, Requests

\* Sign-in and sign-out
LEMMA SignInRecords ==
  ASSUME RecordsInv, NEW c \in Clients,
         \/ \E u \in Users : LoginBegins(c, u)
         \/ Bootstraps(c) \/ Judges(c) \/ LoginEnds(c) \/ Logout(c) \/ SessionCleared(c)
  PROVE  RecordsInv'
<1> USE DEF RecordsInv, AccountsTypeOK, AuditTells
<1>0. Idle \in Requests /\ NoCookie \in Cookie \cup {NoCookie} BY DEF Requests
<1>1. ASSUME NEW u \in Users, LoginBegins(c, u) PROVE RecordsInv'
  <2>1. request' \in [Clients -> Requests] BY <1>1 DEF LoginBegins, Requests
  <2>2. QED BY <1>1, <2>1 DEF LoginBegins
<1>2. CASE Bootstraps(c)
  <2>1. request[c].target \in Users BY <1>2, RequestFields DEF Bootstraps
  <2>2. request' \in [Clients -> Requests]
    <3>1. [request[c] EXCEPT !.pc = "login"] \in Requests BY <1>2 DEF Bootstraps, Requests, Idle
    <3>2. QED BY <1>0, <1>2, <3>1 DEF Bootstraps, Ends
  <2>3. NewRow(nextId, "admin") \in Row BY NewRowTyped DEF Roles
  <2>4. QED BY <1>2, <2>2, <2>3, FactsTyped, AccountsAssumption DEF Bootstraps, AccountsAssumption
<1>3. CASE Judges(c)
  <2>1. request[c].target \in Users BY <1>3, RequestFields DEF Judges
  <2>2. request' \in [Clients -> Requests] BY <1>3, <2>1 DEF Judges, Requests
  <2>3. QED BY <1>3, <2>2 DEF Judges
<1>4. CASE LoginEnds(c)
  <2>1. request[c].target \in Users /\ request[c].seen \in Row \cup {Absent}
    BY <1>4, RequestFields DEF LoginEnds
  <2>2. request' \in [Clients -> Requests] BY <1>0, <1>4 DEF LoginEnds, Ends
  <2>3. cookie' \in [Clients -> Cookie \cup {NoCookie}]
    BY <1>4, <2>1 DEF LoginEnds, Reopens, CookieFor, Cookie, Row
  <2>4. failures' \in Nat BY <1>4 DEF LoginEnds, FailureRecorded, FailuresCleared
  <2>5. outdated' \in [cookies : SUBSET Clients, logins : SUBSET Clients] BY <1>4 DEF LoginEnds
  <2>6. QED BY <1>4, <2>2, <2>3, <2>4, <2>5 DEF LoginEnds
<1>5. CASE Logout(c)
  <2> DEFINE u == cookie[c].user
  <2>1. u \in Users BY <1>5 DEF Logout, Cookie
  <2>2. account' \in [Users -> Row \cup {Absent}] /\ \A v \in Users : Facts(account'[v]) = Facts(account[v])
    <3>1. CASE account[u] = Absent BY <1>5, <2>1, <3>1 DEF Logout
    <3>2. CASE account[u] # Absent
      <4>1. Bumped(account[u]) \in Row /\ Facts(Bumped(account[u])) = Facts(account[u])
        BY <2>1, <3>2, FactsTyped DEF Bumped, Row
      <4>2. QED BY <1>5, <2>1, <3>2, <4>1 DEF Logout
    <3>3. QED BY <3>1, <3>2
  <2>3. outdated' \in [cookies : SUBSET Clients, logins : SUBSET Clients] BY <1>5 DEF Logout, Outdates
  <2>4. QED BY <1>5, <2>2, <2>3 DEF Logout
<1>6. CASE SessionCleared(c) BY <1>6 DEF SessionCleared
<1>7. QED BY <1>1, <1>2, <1>3, <1>4, <1>5, <1>6

\* One's own password, and the steps of an administrator before the last
LEMMA RequestsRecords ==
  ASSUME RecordsInv, NEW c \in Clients,
         \/ ChangeBegins(c) \/ Changes(c) \/ Reads(c) \/ Counts(c)
         \/ \E u \in Users, a \in Asked : Admitted(c, u, a)
  PROVE  RecordsInv'
<1> USE DEF RecordsInv, AccountsTypeOK, AuditTells
<1>0. Idle \in Requests BY DEF Requests
<1>1. CASE ChangeBegins(c)
  <2>1. cookie[c].user \in Users BY <1>1 DEF ChangeBegins, Accepted, Cookie
  <2>2. request' \in [Clients -> Requests] BY <1>1, <2>1 DEF ChangeBegins, Requests
  <2>3. failures' \in Nat BY <1>1 DEF ChangeBegins, FailureRecorded
  <2>4. QED BY <1>1, <2>2, <2>3 DEF ChangeBegins
<1>2. CASE Changes(c)
  <2> DEFINE u == request[c].target
             row == [Bumped(account[u]) EXCEPT !.must = FALSE]
  <2>1. u \in Users BY <1>2, RequestFields DEF Changes
  <2>2. request' \in [Clients -> Requests] BY <1>0, <1>2 DEF Changes, Ends
  <2>3. CASE account[u] = Absent BY <1>2, <2>2, <2>3 DEF Changes
  <2>4. CASE account[u] # Absent
    <3>1. row \in Row /\ Facts(row) = [Facts(account[u]) EXCEPT !.must = FALSE]
      BY <2>1, <2>4, FactsFollow
    <3>2. Facts(row) \in [role : Roles, enabled : BOOLEAN, must : BOOLEAN] BY <3>1, FactsTyped
    <3>3. /\ account' = [account EXCEPT ![u] = row] /\ told' = [told EXCEPT ![u] = Facts(row)]
          /\ cookie' = [cookie EXCEPT ![c] = CookieFor(u, row)]
      BY <1>2, <2>1, <2>4, <3>1 DEF Changes, Write, Reopens
    <3>4. CookieFor(u, row) \in Cookie BY <2>1, <3>1 DEF CookieFor, Cookie, Row
    <3>5. outdated' \in [cookies : SUBSET Clients, logins : SUBSET Clients]
      BY <1>2, <2>4 DEF Changes, Outdates
    <3>6. QED BY <1>2, <2>1, <2>2, <3>1, <3>2, <3>3, <3>4, <3>5 DEF Changes
  <2>5. QED BY <2>3, <2>4
<1>3. CASE Reads(c)
  <2>1. /\ request[c].target \in Users /\ request[c].user \in Users /\ request[c].asked \in Asked
    BY <1>3, RequestFields DEF Reads
  <2>2. \A a \in Asked, row \in Row : Checks(a, row) \in Nat
    <3> SUFFICES ASSUME NEW a \in Asked, NEW row \in Row PROVE Checks(a, row) \in Nat OBVIOUS
    <3>1. ASSUME NEW S \in SUBSET {"role", "enabled"} PROVE Cardinality(S) \in Nat
      <4>1. IsFiniteSet({"role"}) BY FS_Singleton
      <4>2. IsFiniteSet({"role"} \cup {"enabled"}) BY <4>1, FS_AddElement
      <4>3. S \in SUBSET ({"role"} \cup {"enabled"}) OBVIOUS
      <4>4. IsFiniteSet(S) BY ONLY <4>2, <4>3, FS_Subset
      <4>5. QED BY <4>4, FS_CardinalityType
    <3>2. QED BY <3>1 DEF Checks
  <2>3. request' \in [Clients -> Requests]
    BY <1>0, <1>3, <2>1, <2>2 DEF Reads, Ends, Requests
  <2>4. QED BY <1>3, <2>3 DEF Reads
<1>4. CASE Counts(c)
  <2>1. [request[c] EXCEPT !.left = @ - 1] \in Requests BY <1>4 DEF Counts, Requests, Idle
  <2>2. request' \in [Clients -> Requests] BY <1>0, <1>4, <2>1 DEF Counts, Ends
  <2>3. QED BY <1>4, <2>2 DEF Counts
<1>5. ASSUME NEW u \in Users, NEW a \in Asked, Admitted(c, u, a) PROVE RecordsInv'
  <2>1. cookie[c].user \in Users BY <1>5 DEF Admitted, MayAdminister, Accepted, Cookie
  <2>2. request' \in [Clients -> Requests] BY <1>5, <2>1 DEF Admitted, Requests
  <2>3. QED BY <1>5, <2>2 DEF Admitted
<1>6. QED BY <1>1, <1>2, <1>3, <1>4, <1>5

\* An update and its line change the same fields.
LEMMA LineIsTheChange ==
  ASSUME NEW a \in Asked, NEW seen, NEW row \in Row
  PROVE  /\ Differing(a, seen, Bumped(row)) \in Row
         /\ Facts(Differing(a, seen, Bumped(row))) = Differing(a, seen, Facts(row))
<1>1. a.role \in Roles /\ a.enabled \in BOOLEAN BY DEF Asked, Roles
<1>2. Bumped(row) \in Row /\ Facts(Bumped(row)) = Facts(row) BY FactsTyped DEF Bumped, Row
<1>3. Differing(a, seen, Bumped(row)) \in Row BY <1>1, <1>2 DEF Differing, Row
<1> DEFINE role == IF a.role # seen.role THEN a.role ELSE row.role
           enabled == IF a.enabled # seen.enabled THEN a.enabled ELSE row.enabled
<1>4. /\ Differing(a, seen, Bumped(row)).role = role
      /\ Differing(a, seen, Bumped(row)).enabled = enabled
      /\ Differing(a, seen, Bumped(row)).must = row.must
  BY <1>2 DEF Differing, Bumped, Row
<1>5. Facts(Differing(a, seen, Bumped(row))) = [role |-> role, enabled |-> enabled, must |-> row.must]
  BY <1>3, <1>4, FactsTyped
<1>6. Differing(a, seen, Facts(row)) = [role |-> role, enabled |-> enabled, must |-> row.must]
  <2> DEFINE said == Differing(a, seen, Facts(row))
  <2>1. /\ Facts(row) \in [role : Roles, enabled : BOOLEAN, must : BOOLEAN]
        /\ Facts(row) = [role |-> row.role, enabled |-> row.enabled, must |-> row.must]
    BY FactsTyped
  <2>2. said \in [role : Roles, enabled : BOOLEAN, must : BOOLEAN] BY <1>1, <2>1 DEF Differing
  <2>3. said.role = role /\ said.enabled = enabled /\ said.must = row.must BY <2>1 DEF Differing
  <2> HIDE DEF said
  <2>4. said = [role |-> said.role, enabled |-> said.enabled, must |-> said.must] BY ONLY <2>2
  <2>5. QED BY <2>3, <2>4, Zenon DEF said
<1>7. QED BY <1>3, <1>5, <1>6

\* The last steps of an administrator
LEMMA WritesRecords ==
  ASSUME RecordsInv, NEW c \in Clients,
         Updates(c) \/ Resets(c) \/ Deletes(c) \/ Creates(c)
  PROVE  RecordsInv'
<1> USE DEF RecordsInv, AccountsTypeOK, AuditTells
<1> DEFINE u == request[c].target
<1>0. /\ request[c].pc = "checks" /\ u \in Users /\ request[c].user \in Users /\ request[c].asked \in Asked
      /\ request' \in [Clients -> Requests]
  BY RequestFields DEF Updates, Resets, Deletes, Creates, Ends, Requests
<1>1. CASE Updates(c)
  <2>1. CASE account[u] = Absent BY <1>0, <1>1, <2>1 DEF Updates
  <2>2. CASE account[u] # Absent
    <3> DEFINE row == Differing(request[c].asked, request[c].seen, Bumped(account[u]))
    <3>1. row \in Row /\ Facts(row) = Differing(request[c].asked, request[c].seen, told[u])
      BY <1>0, <2>2, LineIsTheChange
    <3>2. account' = [account EXCEPT ![u] = row] /\ told' = [told EXCEPT ![u] = Facts(row)]
      BY <1>1, <2>2, <3>1 DEF Updates, Write
    <3>3. outdated' \in [cookies : SUBSET Clients, logins : SUBSET Clients]
      BY <1>1, <2>2 DEF Updates, Outdates
    <3> HIDE DEF row
    <3>4. QED BY <1>0, <1>1, <3>1, <3>2, <3>3, FactsTyped DEF Updates
  <2>3. QED BY <2>1, <2>2
<1>2. CASE Resets(c)
  <2>1. CASE account[u] = Absent BY <1>0, <1>2, <2>1 DEF Resets
  <2>2. CASE account[u] # Absent
    <3> DEFINE row == [Bumped(account[u]) EXCEPT !.must = TRUE]
    <3>1. row \in Row /\ Facts(row) = [told[u] EXCEPT !.must = TRUE]
      BY <1>0, <2>2, FactsFollow
    <3>2. account' = [account EXCEPT ![u] = row] /\ told' = [told EXCEPT ![u] = Facts(row)]
      BY <1>2, <2>2, <3>1 DEF Resets, Write
    <3>3. cookie' = cookie \/ cookie' = [cookie EXCEPT ![c] = CookieFor(u, row)]
      BY <1>2, <2>2 DEF Resets, Reopens
    <3>4. CookieFor(u, row) \in Cookie BY <1>0, <3>1 DEF CookieFor, Cookie, Row
    <3>5. outdated' \in [cookies : SUBSET Clients, logins : SUBSET Clients]
      BY <1>2, <2>2 DEF Resets, Outdates
    <3>6. nextId' = nextId /\ failures' = failures BY <1>2 DEF Resets
    <3>7. Facts(row) \in [role : Roles, enabled : BOOLEAN, must : BOOLEAN] BY <3>1, FactsTyped
    <3> HIDE DEF row
    <3>8. cookie' \in [Clients -> Cookie \cup {NoCookie}] BY <3>3, <3>4
    <3>9. QED BY <1>0, <3>1, <3>2, <3>5, <3>6, <3>7, <3>8
  <2>3. QED BY <2>1, <2>2
<1>3. CASE Deletes(c) BY <1>0, <1>3, FactsTyped DEF Deletes, Write
<1>4. CASE Creates(c)
  <2>1. NewRow(nextId, request[c].asked.role) \in Row BY <1>0, NewRowTyped DEF Asked, Roles
  <2>2. QED BY <1>0, <1>4, <2>1, FactsTyped DEF Creates
<1>5. QED BY <1>1, <1>2, <1>3, <1>4

LEMMA StepRecords == RecordsInv /\ [Next]_vars => RecordsInv'
<1> SUFFICES ASSUME RecordsInv, [Next]_vars PROVE RecordsInv' OBVIOUS
<1>1. CASE LockEnds
  BY <1>1 DEF LockEnds, FailuresCleared, RecordsInv, AccountsTypeOK, AuditTells
<1>2. ASSUME NEW c \in Clients, ClientSteps(c) PROVE RecordsInv'
  BY <1>2, SignInRecords, RequestsRecords, WritesRecords DEF ClientSteps
<1>3. CASE UNCHANGED vars BY <1>3 DEF vars, RecordsInv, AccountsTypeOK, AuditTells
<1>4. QED BY <1>1, <1>2, <1>3 DEF Next

-----------------------------------------------------------------------------
(* Sessions. *)

\* What was taken from a row, its id and epoch, is no newer than the row that
\* there is now, and older if that was changed since.
NotNewer(row, next, id, epoch) == id < next /\ (row.id = id => epoch <= row.epoch)
Older(row, id, epoch) == row.id = id => epoch < row.epoch

CookieFollows(c) ==
    cookie[c] # NoCookie =>
        LET row == account[cookie[c].user]
        IN  /\ NotNewer(row, nextId, cookie[c].of, cookie[c].epoch)
            /\ c \in outdated.cookies => Older(row, cookie[c].of, cookie[c].epoch)

LoginFollows(c) ==
    request[c].pc = "judged" /\ request[c].seen # Absent =>
        LET row == account[request[c].target]
            seen == request[c].seen
        IN  /\ NotNewer(row, nextId, seen.id, seen.epoch)
            /\ c \in outdated.logins => Older(row, seen.id, seen.epoch)

SessionsInv ==
    /\ \A u \in Users : account[u].id < nextId
    /\ \A c \in Clients : CookieFollows(c) /\ LoginFollows(c)

\* What a step can do of an account
Moves(u) ==
    \/ account'[u] = account[u]
    \/ account'[u].id = 0
    \/ account'[u].id = nextId /\ nextId' = nextId + 1
    \/ account'[u].id = account[u].id /\ account'[u].epoch = account[u].epoch + 1

\* The account is another one than before.
Changed(u) ==
    account[u] # Absent /\ account'[u].id = account[u].id => account'[u].epoch = account[u].epoch + 1

LEMMA FollowsOn ==
  ASSUME AccountsTypeOK, NEW u \in Users, nextId' \in {nextId, nextId + 1}, Moves(u),
         NEW id \in Nat \ {0}, NEW epoch \in Nat, NotNewer(account[u], nextId, id, epoch)
  PROVE  /\ NotNewer(account'[u], nextId', id, epoch)
         /\ Older(account[u], id, epoch) \/ Changed(u) => Older(account'[u], id, epoch)
<1>1. nextId \in Nat \ {0} /\ account[u] \in Row \cup {Absent} BY DEF AccountsTypeOK
<1>2. account[u].id \in Nat /\ (account[u].id = id => account[u] \in Row) BY <1>1 DEF Row, Absent
<1>3. account[u].id = id => account[u].epoch \in Nat BY <1>2 DEF Row
<1>4. QED BY <1>1, <1>2, <1>3, RowsAreSomething DEF NotNewer, Older, Moves, Changed

LEMMA SessionsOn ==
  ASSUME AccountsTypeOK, SessionsInv, nextId' \in {nextId, nextId + 1}, \A u \in Users : Moves(u),
         \A c \in Clients :
            \/ CookieFollows(c)'
            \/ /\ cookie'[c] = cookie[c]
               /\ c \in outdated'.cookies => c \in outdated.cookies \/ Changed(cookie[c].user),
         \A c \in Clients :
            \/ LoginFollows(c)'
            \/ /\ request'[c] = request[c]
               /\ c \in outdated'.logins => c \in outdated.logins \/ Changed(request[c].target)
  PROVE  SessionsInv'
<1>1. ASSUME NEW u \in Users PROVE account'[u].id < nextId'
  <2>1. nextId \in Nat \ {0} /\ account[u] \in Row \cup {Absent} /\ account[u].id < nextId
    BY DEF AccountsTypeOK, SessionsInv
  <2>2. account[u].id \in Nat BY <2>1 DEF Row, Absent
  <2>3. QED BY <2>1, <2>2 DEF Moves
<1>2. ASSUME NEW c \in Clients, cookie'[c] = cookie[c],
             c \in outdated'.cookies => c \in outdated.cookies \/ Changed(cookie[c].user)
      PROVE  CookieFollows(c)'
  <2>1. CASE cookie[c] = NoCookie BY <1>2, <2>1 DEF CookieFollows
  <2>2. CASE cookie[c] # NoCookie
    <3>1. cookie[c].user \in Users /\ cookie[c].of \in Nat \ {0} /\ cookie[c].epoch \in Nat
      BY <2>2 DEF AccountsTypeOK, Cookie
    <3>2. /\ NotNewer(account[cookie[c].user], nextId, cookie[c].of, cookie[c].epoch)
          /\ c \in outdated.cookies => Older(account[cookie[c].user], cookie[c].of, cookie[c].epoch)
      BY <2>2 DEF SessionsInv, CookieFollows
    <3>3. /\ NotNewer(account'[cookie[c].user], nextId', cookie[c].of, cookie[c].epoch)
          /\ c \in outdated'.cookies => Older(account'[cookie[c].user], cookie[c].of, cookie[c].epoch)
      BY <1>2, <3>1, <3>2, FollowsOn
    <3>4. QED BY <1>2, <3>3 DEF CookieFollows
  <2>3. QED BY <2>1, <2>2
<1>3. ASSUME NEW c \in Clients, request'[c] = request[c],
             c \in outdated'.logins => c \in outdated.logins \/ Changed(request[c].target)
      PROVE  LoginFollows(c)'
  <2>1. CASE ~(request[c].pc = "judged" /\ request[c].seen # Absent) BY <1>3, <2>1 DEF LoginFollows
  <2>2. CASE request[c].pc = "judged" /\ request[c].seen # Absent
    <3> DEFINE seen == request[c].seen
    <3>1. request[c].target \in Users /\ seen.id \in Nat \ {0} /\ seen.epoch \in Nat
      BY <2>2, RequestFields DEF Row
    <3>2. /\ NotNewer(account[request[c].target], nextId, seen.id, seen.epoch)
          /\ c \in outdated.logins => Older(account[request[c].target], seen.id, seen.epoch)
      BY <2>2 DEF SessionsInv, LoginFollows
    <3>3. /\ NotNewer(account'[request[c].target], nextId', seen.id, seen.epoch)
          /\ c \in outdated'.logins => Older(account'[request[c].target], seen.id, seen.epoch)
      BY <1>3, <3>1, <3>2, FollowsOn
    <3>4. QED BY <1>3, <3>3 DEF LoginFollows
  <2>3. QED BY <2>1, <2>2
<1>4. QED BY <1>1, <1>2, <1>3 DEF SessionsInv

\* A change of password moves the epoch, of the same account.
LEMMA PasswordMoves ==
  ASSUME NEW row \in Row
  PROVE  /\ Bumped(row) \in Row /\ Bumped(row).id = row.id /\ Bumped(row).epoch = row.epoch + 1
         /\ [Bumped(row) EXCEPT !.must = TRUE].id = row.id
         /\ [Bumped(row) EXCEPT !.must = TRUE].epoch = row.epoch + 1
         /\ [Bumped(row) EXCEPT !.must = FALSE].id = row.id
         /\ [Bumped(row) EXCEPT !.must = FALSE].epoch = row.epoch + 1
<1>1. Bumped(row) \in Row /\ Bumped(row).id = row.id /\ Bumped(row).epoch = row.epoch + 1 BY DEF Bumped, Row
<1>2. \A r \in Row : /\ [r EXCEPT !.must = TRUE].id = r.id /\ [r EXCEPT !.must = TRUE].epoch = r.epoch
                     /\ [r EXCEPT !.must = FALSE].id = r.id /\ [r EXCEPT !.must = FALSE].epoch = r.epoch
  BY DEF Row
<1>3. QED BY <1>1, <1>2

\* What the steps do of the accounts
LEMMA AccountsMove ==
  ASSUME RecordsInv, [Next]_vars
  PROVE  nextId' \in {nextId, nextId + 1} /\ \A u \in Users : Moves(u)
<1> USE DEF RecordsInv, AccountsTypeOK
<1>1. CASE LockEnds \/ UNCHANGED vars BY <1>1 DEF LockEnds, vars, Moves
<1>2. ASSUME NEW c \in Clients, ClientSteps(c)
      PROVE  nextId' \in {nextId, nextId + 1} /\ \A u \in Users : Moves(u)
  <2>0. \A row \in Row : Bumped(row).id = row.id /\ Bumped(row).epoch = row.epoch + 1 BY PasswordMoves
  <2>1. CASE \/ \E u \in Users : LoginBegins(c, u)
             \/ Judges(c) \/ LoginEnds(c) \/ SessionCleared(c) \/ ChangeBegins(c)
             \/ \E u \in Users, a \in Asked : Admitted(c, u, a)
             \/ Reads(c) \/ Counts(c)
    BY <2>1 DEF LoginBegins, Judges, LoginEnds, SessionCleared, ChangeBegins, Admitted, Reads, Counts, Moves
  <2>2. CASE Bootstraps(c) BY <2>2 DEF Bootstraps, NewRow, Moves
  <2>3. CASE Logout(c) BY <2>0, <2>3, RowsAreSomething DEF Logout, Moves
  <2>4. CASE Changes(c)
    <3> DEFINE u == request[c].target
    <3>1. CASE account[u] = Absent BY <2>4, <3>1 DEF Changes, Moves
    <3>2. CASE account[u] # Absent
      <4>1. u \in Users /\ account[u] \in Row BY <2>4, <3>2, RequestFields DEF Changes
      <4>2. account' = [account EXCEPT ![u] = [Bumped(account[u]) EXCEPT !.must = FALSE]] /\ nextId' = nextId
        BY <2>4, <3>2 DEF Changes, Write
      <4>3. QED BY <4>1, <4>2, PasswordMoves DEF Moves
    <3>3. QED BY <3>1, <3>2
  <2>5. CASE Updates(c)
    <3>1. request[c].asked \in Asked BY <2>5, RequestFields DEF Updates
    <3>2. \A row \in Row : /\ Differing(request[c].asked, request[c].seen, Bumped(row)).id = row.id
                           /\ Differing(request[c].asked, request[c].seen, Bumped(row)).epoch = row.epoch + 1
      BY <2>0 DEF Differing, Bumped, Row
    <3>3. QED BY <2>5, <3>2 DEF Updates, Write, Moves
  <2>6. CASE Resets(c)
    <3> DEFINE u == request[c].target
    <3>1. CASE account[u] = Absent BY <2>6, <3>1 DEF Resets, Moves
    <3>2. CASE account[u] # Absent
      <4>1. u \in Users /\ account[u] \in Row BY <2>6, <3>2, RequestFields DEF Resets
      <4>2. account' = [account EXCEPT ![u] = [Bumped(account[u]) EXCEPT !.must = TRUE]] /\ nextId' = nextId
        BY <2>6, <3>2 DEF Resets, Write
      <4>3. QED BY <4>1, <4>2, PasswordMoves DEF Moves
    <3>3. QED BY <3>1, <3>2
  <2>7. CASE Deletes(c) BY <2>7 DEF Deletes, Write, Absent, Moves
  <2>8. CASE Creates(c) BY <2>8 DEF Creates, NewRow, Moves
  <2>9. QED BY <1>2, <2>1, <2>2, <2>3, <2>4, <2>5, <2>6, <2>7, <2>8 DEF ClientSteps
<1>3. QED BY <1>1, <1>2 DEF Next

\* An account that is written is another one than before.
LEMMA WritesChange ==
  ASSUME RecordsInv, NEW c \in Clients
  PROVE  /\ Logout(c) => Changed(cookie[c].user)
         /\ Changes(c) \/ Updates(c) \/ Resets(c) => Changed(request[c].target)
<1> USE DEF RecordsInv, AccountsTypeOK
<1>1. ASSUME Logout(c) PROVE Changed(cookie[c].user)
  <2>1. cookie[c].user \in Users BY <1>1 DEF Logout, Cookie
  <2>2. QED BY <1>1, <2>1, PasswordMoves DEF Logout, Changed
<1>2. ASSUME Changes(c) \/ Updates(c) \/ Resets(c), account[request[c].target] # Absent
      PROVE  account'[request[c].target].epoch = account[request[c].target].epoch + 1
  <2> DEFINE u == request[c].target
  <2>1. u \in Users /\ account[u] \in Row BY <1>2, RequestFields DEF Changes, Updates, Resets
  <2>2. CASE Changes(c)
    <3>1. account' = [account EXCEPT ![u] = [Bumped(account[u]) EXCEPT !.must = FALSE]]
      BY <1>2, <2>2 DEF Changes, Write
    <3>2. QED BY <2>1, <3>1, PasswordMoves
  <2>3. CASE Resets(c)
    <3>1. account' = [account EXCEPT ![u] = [Bumped(account[u]) EXCEPT !.must = TRUE]]
      BY <1>2, <2>3 DEF Resets, Write
    <3>2. QED BY <2>1, <3>1, PasswordMoves
  <2>4. CASE Updates(c)
    <3>1. account' = [account EXCEPT ![u] = Differing(request[c].asked, request[c].seen, Bumped(account[u]))]
      BY <1>2, <2>4 DEF Updates, Write
    <3>2. \A row \in Row : Differing(request[c].asked, request[c].seen, Bumped(row)).epoch = row.epoch + 1
      BY DEF Differing, Bumped, Row
    <3>3. QED BY <2>1, <3>1, <3>2
  <2>5. QED BY <1>2, <2>2, <2>3, <2>4
<1>3. QED BY <1>1, <1>2 DEF Changed

\* A cookie made of the row as it is written now
LEMMA NewCookieFollows ==
  ASSUME NEW c \in Clients, NEW u \in Users, NEW row \in Row, cookie \in [Clients -> Cookie \cup {NoCookie}],
         cookie' = [cookie EXCEPT ![c] = CookieFor(u, row)], account'[u] = row, row.id < nextId',
         c \notin outdated'.cookies
  PROVE  CookieFollows(c)' /\ \A d \in Clients \ {c} : cookie'[d] = cookie[d]
<1>1. cookie'[c] = [user |-> u, epoch |-> row.epoch, of |-> row.id] BY DEF CookieFor
<1>2. row.epoch \in Nat BY DEF Row
<1>3. NotNewer(account'[u], nextId', row.id, row.epoch) BY <1>2 DEF NotNewer
<1>4. QED BY <1>1, <1>3 DEF CookieFollows

\* One's own password, and the writes of an administrator
LEMMA WritesSessions ==
  ASSUME RecordsInv, SessionsInv, NEW c \in Clients, [Next]_vars,
         Changes(c) \/ Updates(c) \/ Resets(c) \/ Logout(c)
  PROVE  SessionsInv'
<1>0. /\ nextId' \in {nextId, nextId + 1} /\ \A u \in Users : Moves(u)
      /\ AccountsTypeOK /\ cookie \in [Clients -> Cookie \cup {NoCookie}] /\ request \in [Clients -> Requests]
      /\ account \in [Users -> Row \cup {Absent}]
  BY AccountsMove DEF RecordsInv, AccountsTypeOK
<1> DEFINE u == IF Logout(c) THEN cookie[c].user ELSE request[c].target
<1>1. Changed(u) BY WritesChange
<1>2. \A d \in Clients :
        \/ LoginFollows(d)'
        \/ request'[d] = request[d] /\ outdated' = outdated
        \/ /\ request'[d] = request[d]
           /\ d \in outdated'.logins => d \in outdated.logins \/ request[d].target = u
  <2>1. CASE Logout(c) BY <2>1 DEF Logout, Outdates
  <2>2. CASE ~Logout(c) /\ (Changes(c) \/ Updates(c) \/ Resets(c))
    <3>1. request' = [request EXCEPT ![c] = Idle] BY <2>2 DEF Changes, Updates, Resets, Ends
    <3>2. LoginFollows(c)' BY <1>0, <3>1 DEF LoginFollows, Idle
    <3>3. \/ outdated' = outdated
          \/ outdated'.logins = outdated.logins \cup
                {d \in Clients : request[d].pc = "judged" /\ request[d].target = u}
      BY <2>2 DEF Changes, Updates, Resets, Outdates
    <3>4. QED BY <1>0, <3>1, <3>2, <3>3
  <2>3. QED BY <2>1, <2>2
<1>3. \A d \in Clients :
        \/ CookieFollows(d)'
        \/ cookie'[d] = cookie[d] /\ outdated' = outdated
        \/ /\ cookie'[d] = cookie[d]
           /\ d \in outdated'.cookies => d \in outdated.cookies \/ cookie[d].user = u
  <2>1. CASE Logout(c)
    <3>1. cookie' = [cookie EXCEPT ![c] = NoCookie] BY <2>1 DEF Logout
    <3>2. CookieFollows(c)' BY <1>0, <3>1 DEF CookieFollows
    <3>3. QED BY <1>0, <2>1, <3>1, <3>2 DEF Logout, Outdates
  <2>2. CASE ~Logout(c) /\ Updates(c) BY <2>2 DEF Updates, Outdates
  <2>3. CASE ~Logout(c) /\ (Changes(c) \/ Resets(c))
    <3>1. CASE cookie' = cookie BY <2>3, <3>1 DEF Changes, Resets, Outdates
    <3>2. CASE cookie' # cookie
      <4>0. account[u] \in Row /\ u \in Users
        BY <1>0, <2>3, <3>2, RequestFields DEF Changes, Resets
      <4>1. PICK row \in Row : /\ account' = [account EXCEPT ![u] = row] /\ row.id = account[u].id
                              /\ cookie' = [cookie EXCEPT ![c] = CookieFor(u, row)]
        <5>1. CASE Changes(c)
          BY <2>3, <3>2, <4>0, <5>1, FactsFollow, PasswordMoves DEF Changes, Write, Reopens
        <5>2. CASE Resets(c)
          BY <2>3, <3>2, <4>0, <5>2, FactsFollow, PasswordMoves DEF Resets, Write, Reopens
        <5>3. QED BY <2>3, <5>1, <5>2
      <4>2. outdated'.cookies = (outdated.cookies \cup
               {d \in Clients : cookie[d] # NoCookie /\ cookie[d].user = u}) \ {c}
        BY <2>3, <3>2 DEF Changes, Resets, Outdates
      <4>3. account'[u] = row BY <1>0, <4>0, <4>1
      <4>4. row.id < nextId'
        <5>1. row.id < nextId /\ row.id \in Nat /\ nextId \in Nat BY <4>0, <4>1 DEF SessionsInv, RecordsInv, AccountsTypeOK, Row
        <5>2. QED BY <1>0, <5>1
      <4>5. CookieFollows(c)' /\ \A d \in Clients \ {c} : cookie'[d] = cookie[d]
        BY <1>0, <4>0, <4>1, <4>2, <4>3, <4>4, NewCookieFollows
      <4>6. QED BY <4>2, <4>5
    <3>3. QED BY <3>1, <3>2
  <2>4. QED BY <2>1, <2>2, <2>3
<1>4. QED BY <1>0, <1>1, <1>2, <1>3, SessionsOn

\* Sign-in, and what leaves cookies and sign-ins alone
LEMMA SignInSessions ==
  ASSUME RecordsInv, SessionsInv, NEW c \in Clients, [Next]_vars,
         Judges(c) \/ LoginEnds(c) \/ SessionCleared(c)
  PROVE  SessionsInv'
<1>0. /\ nextId' \in {nextId, nextId + 1} /\ \A u \in Users : Moves(u)
      /\ AccountsTypeOK /\ cookie \in [Clients -> Cookie \cup {NoCookie}] /\ request \in [Clients -> Requests]
      /\ outdated \in [cookies : SUBSET Clients, logins : SUBSET Clients]
      /\ account \in [Users -> Row \cup {Absent}]
  BY AccountsMove DEF RecordsInv, AccountsTypeOK
<1>1. CASE Judges(c)
  <2> DEFINE u == request[c].target
  <2>1. u \in Users BY <1>0, <1>1, RequestFields DEF Judges
  <2>2. PICK seen \in {account[u], Absent} :
          request' = [request EXCEPT ![c] = [pc |-> "judged", target |-> u, seen |-> seen]]
    BY <1>1 DEF Judges
  <2>3. cookie' = cookie /\ account' = account /\ nextId' = nextId
        /\ outdated'.cookies = outdated.cookies /\ outdated'.logins = outdated.logins \ {c}
    BY <1>0, <1>1 DEF Judges
  <2>4. LoginFollows(c)'
    <3>1. CASE seen = Absent BY <1>0, <2>2, <3>1 DEF LoginFollows
    <3>2. CASE seen # Absent
      <4>1. seen = account[u] /\ seen.epoch \in Nat /\ seen.id < nextId
        BY <1>0, <2>1, <2>2, <3>2 DEF SessionsInv, Row
      <4>2. NotNewer(account[u], nextId, seen.id, seen.epoch) BY <4>1 DEF NotNewer
      <4>3. request'[c] = [pc |-> "judged", target |-> u, seen |-> seen] BY <1>0, <2>2
      <4>4. QED BY <2>3, <4>2, <4>3 DEF LoginFollows
    <3>3. QED BY <3>1, <3>2
  <2>5. \A d \in Clients \ {c} : request'[d] = request[d] BY <1>0, <2>2
  <2>6. QED BY <1>0, <2>3, <2>4, <2>5, SessionsOn
<1>2. CASE LoginEnds(c)
  <2> DEFINE u == request[c].target
             seen == request[c].seen
  <2>1. u \in Users /\ seen \in Row \cup {Absent} /\ request[c].pc = "judged"
    BY <1>0, <1>2, RequestFields DEF LoginEnds
  <2>2. request' = [request EXCEPT ![c] = Idle] /\ account' = account /\ nextId' = nextId
    BY <1>2 DEF LoginEnds, Ends
  <2>3. LoginFollows(c)' /\ \A d \in Clients \ {c} : request'[d] = request[d]
    BY <1>0, <2>2 DEF LoginFollows, Idle
  <2>4. CASE seen = Absent BY <1>0, <1>2, <2>3, <2>4, SessionsOn DEF LoginEnds
  <2>5. CASE seen # Absent
    <3>1. /\ cookie' = [cookie EXCEPT ![c] = [user |-> u, epoch |-> seen.epoch, of |-> seen.id]]
          /\ outdated'.logins = outdated.logins \ {c}
          /\ outdated'.cookies = IF c \in outdated.logins THEN outdated.cookies \cup {c}
                                 ELSE outdated.cookies \ {c}
      BY <1>2, <2>5 DEF LoginEnds, Reopens, CookieFor
    <3>2. /\ NotNewer(account[u], nextId, seen.id, seen.epoch)
          /\ c \in outdated.logins => Older(account[u], seen.id, seen.epoch)
      BY <2>1, <2>5 DEF SessionsInv, LoginFollows
    <3>3. cookie'[c] = [user |-> u, epoch |-> seen.epoch, of |-> seen.id] BY <1>0, <3>1
    <3>4. CookieFollows(c)' BY <2>2, <3>1, <3>2, <3>3 DEF CookieFollows
    <3>5. \A d \in Clients \ {c} : /\ cookie'[d] = cookie[d]
                                  /\ d \in outdated'.cookies => d \in outdated.cookies
      BY <1>0, <3>1
    <3>6. QED BY <1>0, <2>3, <3>1, <3>4, <3>5, SessionsOn
  <2>6. QED BY <2>4, <2>5
<1>3. CASE SessionCleared(c)
  <2>1. CookieFollows(c)' BY <1>0, <1>3 DEF SessionCleared, CookieFollows
  <2>2. QED BY <1>0, <1>3, <2>1, SessionsOn DEF SessionCleared
<1>4. QED BY <1>1, <1>2, <1>3

LEMMA OthersSessions ==
  ASSUME RecordsInv, SessionsInv, [Next]_vars,
         \/ LockEnds \/ UNCHANGED vars
         \/ \E c \in Clients :
               \/ \E u \in Users : LoginBegins(c, u)
               \/ Bootstraps(c) \/ ChangeBegins(c) \/ Deletes(c) \/ Creates(c) \/ Reads(c) \/ Counts(c)
               \/ \E u \in Users, a \in Asked : Admitted(c, u, a)
  PROVE  SessionsInv'
<1>0. /\ nextId' \in {nextId, nextId + 1} /\ \A u \in Users : Moves(u)
      /\ AccountsTypeOK /\ request \in [Clients -> Requests]
  BY AccountsMove DEF RecordsInv, AccountsTypeOK
<1>1. cookie' = cookie /\ outdated' = outdated
  BY DEF LockEnds, vars, LoginBegins, Bootstraps, ChangeBegins, Deletes, Creates, Reads, Counts, Admitted
<1>2. \A c \in Clients : request'[c] = request[c] \/ request'[c].pc # "judged"
  <2>1. CASE LockEnds \/ UNCHANGED vars BY <2>1 DEF LockEnds, vars
  <2>2. ASSUME NEW c \in Clients,
               \/ \E u \in Users : LoginBegins(c, u)
               \/ Bootstraps(c) \/ ChangeBegins(c) \/ Deletes(c) \/ Creates(c) \/ Reads(c) \/ Counts(c)
               \/ \E u \in Users, a \in Asked : Admitted(c, u, a)
        PROVE  \A d \in Clients : request'[d] = request[d] \/ request'[d].pc # "judged"
    <3>1. CASE \/ \E u \in Users : LoginBegins(c, u)
               \/ ChangeBegins(c) \/ Reads(c)
               \/ \E u \in Users, a \in Asked : Admitted(c, u, a)
      BY <1>0, <3>1 DEF LoginBegins, ChangeBegins, Reads, Admitted, Ends, Idle
    <3>2. CASE Deletes(c) \/ Creates(c)
      BY <1>0, <3>2 DEF Deletes, Creates, Ends, Idle
    <3>3. CASE Bootstraps(c)
      <4> DEFINE next == [request[c] EXCEPT !.pc = "login"]
      <4>1. request[c] \in Requests /\ request[c].pc = "bootstrap" BY <1>0, <3>3 DEF Bootstraps
      <4>2. next.pc # "judged" BY <4>1 DEF Requests, Idle
      <4>3. request' = [request EXCEPT ![c] = next] \/ request' = [request EXCEPT ![c] = Idle]
        BY <1>0, <3>3 DEF Bootstraps, Ends
      <4> HIDE DEF next
      <4>4. \A d \in Clients \ {c} : request'[d] = request[d] BY <1>0, <4>3
      <4>5. request'[c].pc # "judged" BY <1>0, <4>2, <4>3 DEF Idle
      <4>6. QED BY <4>4, <4>5
    <3>4. CASE Counts(c)
      <4> DEFINE next == [request[c] EXCEPT !.left = @ - 1]
      <4>1. request[c] \in Requests /\ request[c].pc = "checks" BY <1>0, <3>4 DEF Counts
      <4>2. next.pc # "judged" BY <4>1 DEF Requests, Idle
      <4>3. request' = [request EXCEPT ![c] = next] \/ request' = [request EXCEPT ![c] = Idle]
        BY <1>0, <3>4 DEF Counts, Ends
      <4> HIDE DEF next
      <4>4. \A d \in Clients \ {c} : request'[d] = request[d] BY <1>0, <4>3
      <4>5. request'[c].pc # "judged" BY <1>0, <4>2, <4>3 DEF Idle
      <4>6. QED BY <4>4, <4>5
    <3>5. QED BY <2>2, <3>1, <3>2, <3>3, <3>4
  <2>3. QED BY <2>1, <2>2
<1>3. \A c \in Clients : request'[c].pc # "judged" => LoginFollows(c)' BY DEF LoginFollows
<1>4. QED BY <1>0, <1>1, <1>2, <1>3, SessionsOn

LEMMA StepSessions == RecordsInv /\ SessionsInv /\ [Next]_vars => SessionsInv'
  BY WritesSessions, SignInSessions, OthersSessions DEF Next, ClientSteps

-----------------------------------------------------------------------------
(* The last administrator. *)

\* What an account asks to be done to itself leaves it an administrator.
SparesItself(c) ==
    request[c].pc = "checks" /\ request[c].target = request[c].user =>
        /\ request[c].asked.op # "delete"
        /\ request[c].asked.op = "update" =>
              /\ request[c].seen # Absent
              /\ request[c].asked.role = request[c].seen.role
              /\ request[c].seen.enabled => request[c].asked.enabled

SelfInv == \A c \in Clients : SparesItself(c)

LEMMA StepSelf == RecordsInv /\ SelfInv /\ [Next]_vars => SelfInv'
<1> SUFFICES ASSUME RecordsInv, SelfInv, [Next]_vars PROVE SelfInv' OBVIOUS
<1>0. AccountsTypeOK /\ request \in [Clients -> Requests] BY DEF RecordsInv, AccountsTypeOK
<1>1. CASE LockEnds \/ UNCHANGED vars BY <1>1 DEF LockEnds, vars, SelfInv, SparesItself
<1>2. ASSUME NEW c \in Clients, ClientSteps(c) PROVE SelfInv'
  <2>1. SparesItself(c)' /\ \A d \in Clients \ {c} : request'[d] = request[d]
    <3>1. CASE \/ \E u \in Users : LoginBegins(c, u)
               \/ Judges(c) \/ ChangeBegins(c) \/ SessionCleared(c) \/ Logout(c)
               \/ \E u \in Users, a \in Asked : Admitted(c, u, a)
      BY <1>0, <3>1 DEF LoginBegins, Judges, ChangeBegins, SessionCleared, Logout, Admitted, SparesItself,
         SelfInv, Idle
    <3>2. CASE \/ LoginEnds(c) \/ Changes(c) \/ Updates(c) \/ Resets(c) \/ Deletes(c) \/ Creates(c)
      BY <1>0, <3>2 DEF LoginEnds, Changes, Updates, Resets, Deletes, Creates, Ends, Idle, SparesItself
    <3>3. CASE Bootstraps(c)
      <4> DEFINE next == [request[c] EXCEPT !.pc = "login"]
      <4>1. next.pc # "checks" BY <1>0, <3>3 DEF Bootstraps, Requests, Idle
      <4>2. request' = [request EXCEPT ![c] = next] \/ request' = [request EXCEPT ![c] = Idle]
        BY <1>0, <3>3 DEF Bootstraps, Ends
      <4> HIDE DEF next
      <4>3. QED BY <1>0, <4>1, <4>2 DEF SparesItself, Idle
    <3>4. CASE Counts(c)
      <4> DEFINE next == [request[c] EXCEPT !.left = @ - 1]
      <4>1. /\ next.target = request[c].target /\ next.user = request[c].user
            /\ next.asked = request[c].asked /\ next.seen = request[c].seen /\ request[c].pc = "checks"
        BY <1>0, <3>4 DEF Counts, Requests, Idle
      <4>2. request' = [request EXCEPT ![c] = next] \/ request' = [request EXCEPT ![c] = Idle]
        BY <1>0, <3>4 DEF Counts, Ends
      <4> HIDE DEF next
      <4>3. QED BY <1>0, <4>1, <4>2 DEF SelfInv, SparesItself, Idle
    <3>5. CASE Reads(c)
      <4>1. request[c].asked \in Asked /\ request[c].target \in Users /\ account[request[c].target] \in Row \cup {Absent}
        BY <1>0, <3>5, RequestFields DEF Reads, AccountsTypeOK
      <4>2. QED BY <1>0, <3>5, <4>1 DEF Reads, Ends, SelfRefused, SparesItself, Idle, Asked, Row
    <3>6. QED BY <1>2, <3>1, <3>2, <3>3, <3>4, <3>5 DEF ClientSteps
  <2>2. QED BY <2>1 DEF SelfInv, SparesItself
<1>3. QED BY <1>1, <1>2 DEF Next

\* Whatever is not an update or a deletion leaves every administrator one.
LEMMA AdminsStay ==
  ASSUME RecordsInv, NEW c \in Clients,
         \/ \E u \in Users : LoginBegins(c, u)
         \/ Bootstraps(c) \/ Judges(c) \/ LoginEnds(c) \/ Logout(c) \/ SessionCleared(c)
         \/ ChangeBegins(c) \/ Changes(c)
         \/ \E u \in Users, a \in Asked : Admitted(c, u, a)
         \/ Reads(c) \/ Counts(c) \/ Resets(c) \/ Creates(c)
  PROVE  ActiveAdmins \subseteq ActiveAdmins'
<1>0. /\ AccountsTypeOK /\ account \in [Users -> Row \cup {Absent}]
  BY DEF RecordsInv, AccountsTypeOK
<1>1. CASE account' = account BY <1>1 DEF ActiveAdmins
<1>2. CASE \E u \in Users, i \in Nat \ {0}, r \in Roles :
              account[u] = Absent /\ account' = [account EXCEPT ![u] = NewRow(i, r)]
  BY <1>0, <1>2 DEF ActiveAdmins
<1>3. CASE \E u \in Users, row \in Row : /\ account' = [account EXCEPT ![u] = row]
                                       /\ row.role = account[u].role /\ row.enabled = account[u].enabled
  BY <1>0, <1>3, RowsAreSomething DEF ActiveAdmins
<1>4. Bootstraps(c) \/ Creates(c) => account' = account \/
         \E u \in Users, i \in Nat \ {0}, r \in Roles :
              account[u] = Absent /\ account' = [account EXCEPT ![u] = NewRow(i, r)]
  <2>1. ASSUME Creates(c) PROVE request[c].target \in Users /\ request[c].asked.role \in Roles
    BY <1>0, <2>1, RequestFields DEF Creates, Asked, Roles
  <2>2. nextId \in Nat \ {0} /\ AdminUser \in Users BY <1>0, AccountsAssumption DEF AccountsTypeOK, AccountsAssumption
  <2>3. QED BY <2>1, <2>2 DEF Bootstraps, Creates, Roles
<1>5. Logout(c) \/ Changes(c) \/ Resets(c) => account' = account \/
         \E u \in Users, row \in Row : /\ account' = [account EXCEPT ![u] = row]
                                    /\ row.role = account[u].role /\ row.enabled = account[u].enabled
  <2>0. \A row \in Row : /\ Bumped(row) \in Row /\ Bumped(row).role = row.role /\ Bumped(row).enabled = row.enabled
    BY DEF Bumped, Row
  <2>1. \A row \in Row : /\ [row EXCEPT !.must = TRUE] \in Row /\ [row EXCEPT !.must = FALSE] \in Row
                        /\ [row EXCEPT !.must = TRUE].role = row.role /\ [row EXCEPT !.must = TRUE].enabled = row.enabled
                        /\ [row EXCEPT !.must = FALSE].role = row.role /\ [row EXCEPT !.must = FALSE].enabled = row.enabled
    BY DEF Row
  <2>2. ASSUME Logout(c), account' # account
        PROVE  cookie[c].user \in Users /\ account' = [account EXCEPT ![cookie[c].user] = Bumped(account[cookie[c].user])]
               /\ account[cookie[c].user] \in Row
    BY <1>0, <2>2 DEF Logout, Cookie, AccountsTypeOK
  <2>3. ASSUME Changes(c), account' # account
        PROVE  /\ request[c].target \in Users /\ account[request[c].target] \in Row
               /\ account' = [account EXCEPT ![request[c].target] = [Bumped(account[request[c].target]) EXCEPT !.must = FALSE]]
    BY <1>0, <2>3, RequestFields DEF Changes, Write
  <2>4. ASSUME Resets(c), account' # account
        PROVE  /\ request[c].target \in Users /\ account[request[c].target] \in Row
               /\ account' = [account EXCEPT ![request[c].target] = [Bumped(account[request[c].target]) EXCEPT !.must = TRUE]]
    BY <1>0, <2>4, RequestFields DEF Resets, Write
  <2>5. ASSUME NEW u \in Users, NEW row \in Row, account' = [account EXCEPT ![u] = row],
               row.role = account[u].role, row.enabled = account[u].enabled
        PROVE  \E v \in Users, r \in Row : /\ account' = [account EXCEPT ![v] = r]
                                         /\ r.role = account[v].role /\ r.enabled = account[v].enabled
    BY <2>5
  <2>6. CASE Logout(c) /\ account' # account BY <2>0, <2>2, <2>5, <2>6
  <2>7. CASE Changes(c) /\ account' # account
    <3> DEFINE u == request[c].target
               row == [Bumped(account[u]) EXCEPT !.must = FALSE]
    <3>1. u \in Users /\ account[u] \in Row /\ account' = [account EXCEPT ![u] = row] BY <2>3, <2>7
    <3>2. row \in Row /\ row.role = account[u].role /\ row.enabled = account[u].enabled
      BY <2>0, <2>1, <3>1
    <3> HIDE DEF u, row
    <3>3. QED BY <2>5, <3>1, <3>2
  <2>8. CASE Resets(c) /\ account' # account
    <3> DEFINE u == request[c].target
               row == [Bumped(account[u]) EXCEPT !.must = TRUE]
    <3>1. u \in Users /\ account[u] \in Row /\ account' = [account EXCEPT ![u] = row] BY <2>4, <2>8
    <3>2. row \in Row /\ row.role = account[u].role /\ row.enabled = account[u].enabled
      BY <2>0, <2>1, <3>1
    <3> HIDE DEF u, row
    <3>3. QED BY <2>5, <3>1, <3>2
  <2>9. QED BY <2>6, <2>7, <2>8
<1>6. \/ Bootstraps(c) \/ Creates(c) \/ Logout(c) \/ Changes(c) \/ Resets(c)
      \/ account' = account
  BY DEF LoginBegins, Judges, LoginEnds, SessionCleared, ChangeBegins, Admitted, Reads, Counts
<1>7. QED BY <1>1, <1>2, <1>3, <1>4, <1>5, <1>6

\* An administrator whom a request takes away is not the one who asked for it,
\* who is left.
LEMMA RequesterStays ==
  ASSUME RecordsInv, SelfInv, NEW c \in Clients, Updates(c) \/ Deletes(c),
         request[c].user \in ActiveAdmins
  PROVE  request[c].user \in ActiveAdmins'
<1> DEFINE u == request[c].target
           me == request[c].user
<1>0. /\ account \in [Users -> Row \cup {Absent}] /\ AccountsTypeOK
      /\ request[c].pc = "checks" /\ u \in Users /\ me \in Users
      /\ request[c].asked \in Asked /\ request[c].seen \in Row \cup {Absent}
  BY RequestFields DEF RecordsInv, AccountsTypeOK, Updates, Deletes
<1>1. CASE account' = account BY <1>1 DEF ActiveAdmins
<1>2. CASE u # me /\ account' # account
  <2>1. account'[me] = account[me] BY <1>0, <1>2 DEF Updates, Deletes, Write
  <2>2. QED BY <1>0, <2>1 DEF ActiveAdmins
<1>3. CASE u = me /\ account' # account
  <2>1. Updates(c) /\ request[c].asked.op = "update"
    BY <1>0, <1>3 DEF SelfInv, SparesItself, Updates, Deletes
  <2>2. /\ request[c].seen # Absent
        /\ request[c].asked.role = request[c].seen.role
        /\ request[c].seen.enabled => request[c].asked.enabled
    BY <1>0, <1>3, <2>1 DEF SelfInv, SparesItself
  <2> DEFINE row == Differing(request[c].asked, request[c].seen, Bumped(account[u]))
  <2>3. account[u] \in Row /\ account[u].role = "admin" /\ account[u].enabled
    BY <1>0, <1>3 DEF ActiveAdmins
  <2>4. account' = [account EXCEPT ![u] = row] BY <2>1, <2>3, RowsAreSomething DEF Updates, Write
  <2>5. Bumped(account[u]) \in Row /\ Bumped(account[u]).role = "admin" /\ Bumped(account[u]).enabled
    BY <2>3 DEF Bumped, Row
  <2>6. row \in Row BY <1>0, <2>3, LineIsTheChange
  <2>7. row.role = "admin" BY <2>2, <2>5 DEF Differing, Row
  <2>8. row.enabled
    <3>1. row.enabled = IF request[c].asked.enabled # request[c].seen.enabled THEN request[c].asked.enabled
                        ELSE Bumped(account[u]).enabled
      BY <2>5 DEF Differing, Row
    <3>2. CASE request[c].asked.enabled BY <2>5, <3>1, <3>2
    <3>3. CASE ~request[c].asked.enabled
      <4>1. request[c].asked.enabled \in BOOLEAN BY <1>0 DEF Asked
      <4>2. request[c].seen \in Row /\ request[c].seen.enabled \in BOOLEAN
        BY <1>0, <2>2, <2>1 DEF Row
      <4>3. QED BY <2>2, <2>5, <3>1, <3>3, <4>1, <4>2
    <3>4. QED BY <3>2, <3>3
  <2> HIDE DEF row
  <2>9. account'[u] = row BY <1>0, <2>4
  <2>10. QED BY <1>3, <2>3, <2>6, <2>7, <2>8, <2>9, <1>0, RowsAreSomething DEF ActiveAdmins
<1>4. QED BY <1>1, <1>2, <1>3

-----------------------------------------------------------------------------
(* The theorems. *)

AccountsInv == RecordsInv /\ SessionsInv /\ SelfInv

LEMMA InitInvariant == Init => AccountsInv
<1> SUFFICES ASSUME Init PROVE AccountsInv OBVIOUS
<1>1. SessionsInv BY DEF Init, SessionsInv, CookieFollows, LoginFollows, Idle, Absent
<1>2. SelfInv BY DEF Init, SelfInv, SparesItself, Idle
<1>3. QED BY <1>1, <1>2, InitRecords DEF AccountsInv

LEMMA StepInvariant == AccountsInv /\ [Next]_vars => AccountsInv'
  BY StepRecords, StepSessions, StepSelf DEF AccountsInv

LEMMA InvariantHolds == Spec => []AccountsInv
  BY InitInvariant, StepInvariant, PTL DEF Spec

\* Every variable has its type (manager/users.py, auth.py).
THEOREM AccountsTyped == Spec => []AccountsTypeOK
<1>1. AccountsInv => AccountsTypeOK BY DEF AccountsInv, RecordsInv
<1>2. QED BY <1>1, InvariantHolds, PTL

\* The audit lines tell the table, though a request decides on rows that it read
\* in an earlier transaction (users.py: _write).
THEOREM AuditTellsTheTable == Spec => []AuditTells
<1>1. AccountsInv => AuditTells BY DEF AccountsInv, RecordsInv
<1>2. QED BY <1>1, InvariantHolds, PTL

\* No cookie is accepted for an account that was changed since its password was
\* checked, unless the account was deleted and created anew (auth.py).
THEOREM OutdatedAreRefused == Spec => []OutdatedRefused
<1>1. ASSUME AccountsInv PROVE OutdatedRefused
  <2> SUFFICES ASSUME NEW c \in Clients, Accepted(c), account[cookie[c].user].id = cookie[c].of
               PROVE  c \notin outdated.cookies
    BY DEF OutdatedRefused
  <2>1. cookie[c].epoch \in Nat
    BY <1>1 DEF AccountsInv, RecordsInv, AccountsTypeOK, Accepted, Cookie
  <2>2. c \in outdated.cookies => cookie[c].epoch < account[cookie[c].user].epoch
    BY <1>1 DEF AccountsInv, SessionsInv, CookieFollows, Older, Accepted
  <2>3. QED BY <2>1, <2>2 DEF Accepted
<1>2. QED BY <1>1, InvariantHolds, PTL

\* The last administrator goes only by a request of one who is no administrator
\* any more (api/users.py: updateUser, deleteUser).
THEOREM LastAdminLostInRace == Spec => LostOnlyInRace
<1> DEFINE Raced == \E c \in Clients : request[c].pc = "checks" /\ request'[c] = Idle
                                     /\ request[c].user \notin ActiveAdmins
<1>1. ASSUME AccountsInv, [Next]_vars, ActiveAdmins # {}, ActiveAdmins' = {} PROVE Raced
  <2>1. CASE LockEnds \/ UNCHANGED vars BY <1>1, <2>1 DEF LockEnds, vars, ActiveAdmins
  <2>2. ASSUME NEW c \in Clients, ClientSteps(c) PROVE Raced
    <3>1. Updates(c) \/ Deletes(c) BY <1>1, <2>2, AdminsStay DEF AccountsInv, ClientSteps
    <3>2. request[c].user \notin ActiveAdmins BY <1>1, <3>1, RequesterStays DEF AccountsInv
    <3>3. request[c].pc = "checks" /\ request'[c] = Idle
      BY <1>1, <3>1 DEF Updates, Deletes, Ends, AccountsInv, RecordsInv, AccountsTypeOK
    <3>4. QED BY <3>2, <3>3
  <2>3. QED BY <1>1, <2>1, <2>2 DEF Next
<1>2. AccountsInv /\ [Next]_vars => [ActiveAdmins # {} /\ ActiveAdmins' = {} => Raced]_vars BY <1>1
<1>3. QED BY <1>2, InvariantHolds, PTL DEF Spec, LostOnlyInRace

=============================================================================
