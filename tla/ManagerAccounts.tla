--------------------------- MODULE ManagerAccounts ---------------------------
(***************************************************************************)
(* The console accounts of the manager: the table manager_users, the       *)
(* session cookies, and the requests that read and write them              *)
(* (manager/users.py, auth.py, app.py, api/users.py).  Each function of    *)
(* users.py is a transaction of its own, the routes run in a thread pool,  *)
(* and so a request is a sequence of steps between which others fall.      *)
(***************************************************************************)
EXTENDS Naturals, FiniteSets

CONSTANTS
    Users,        \* user names
    AdminUser,    \* the name ensureBootstrap gives to the first account
    Clients,      \* browsers, each with one request at a time
    MaxFailures,  \* auth.maxFailures; all clients share one address
    MaxEpoch,     \* bound: no request that would move the epoch starts beyond it
    MaxRows       \* bound: no account is created beyond this many

ASSUME AccountsAssumption ==
    AdminUser \in Users /\ MaxFailures \in Nat \ {0} /\ {MaxEpoch, MaxRows} \subseteq Nat

Roles == {"admin", "operator"}

VARIABLES
    account,   \* the rows of manager_users
    nextId,    \* the sequence behind their column id
    cookie,    \* what each browser's session holds; a row's id is not part of
               \* it in the code and only observed
    request,   \* the request each browser has under way
    failures,  \* auth._failures, for the one address
    told,      \* observer: the table as the lines of user_audit tell it
    outdated   \* observer: cookies, and sign-ins under way, whose account has
               \* been changed since its password was checked for them

vars == <<account, nextId, cookie, request, failures, told, outdated>>

Absent == [id |-> 0]
Row == [id : Nat \ {0}, role : Roles, enabled : BOOLEAN, epoch : Nat, must : BOOLEAN]
NewRow(i, r) == [id |-> i, role |-> r, enabled |-> TRUE, epoch |-> 0, must |-> TRUE]

NoCookie == [of |-> 0]
Cookie == [user : Users, epoch : Nat, of : Nat \ {0}]
CookieFor(u, row) == [user |-> u, epoch |-> row.epoch, of |-> row.id]

Idle == [pc |-> "idle"]

ActiveAdmins == {u \in Users : account[u] # Absent /\ account[u].role = "admin" /\ account[u].enabled}

(* What user_audit can say of a row: never the epoch. *)
Facts(row) == IF row = Absent THEN Absent
              ELSE [role |-> row.role, enabled |-> row.enabled, must |-> row.must]

-----------------------------------------------------------------------------
(* Sessions. *)

(* sessionAccount: the cookie names an enabled account, under its epoch. *)
Accepted(c) ==
    /\ cookie[c] # NoCookie
    /\ account[cookie[c].user] # Absent
    /\ account[cookie[c].user].enabled
    /\ account[cookie[c].user].epoch = cookie[c].epoch

(* requireAdmin *)
MayAdminister(c) ==
    /\ Accepted(c)
    /\ ~account[cookie[c].user].must
    /\ account[cookie[c].user].role = "admin"

Ends(c) == request' = [request EXCEPT ![c] = Idle]

(* The account changes: the sessions and sign-ins of before should end, but *)
(* those of the browsers in `kept`, which get a new cookie for it.           *)
Outdates(u, kept) ==
    outdated' = [cookies |-> (outdated.cookies \cup
                               {c \in Clients : cookie[c] # NoCookie /\ cookie[c].user = u}) \ kept,
                 logins |-> outdated.logins \cup
                              {c \in Clients : request[c].pc = "judged" /\ request[c].target = u}]

(* session_epoch = session_epoch + 1 *)
Bumped(row) == [row EXCEPT !.epoch = @ + 1]

(* openSession *)
Reopens(c, u, row) ==
    cookie' = [cookie EXCEPT ![c] = CookieFor(u, row)]

(* _write: the change and its audit line are one transaction. *)
Write(u, row, line) ==
    /\ account' = [account EXCEPT ![u] = row]
    /\ told' = [told EXCEPT ![u] = line]

(* recordLoginFailure, clearLoginFailures *)
FailureRecorded == failures' = failures + 1
FailuresCleared == failures' = 0

-----------------------------------------------------------------------------
(* POST /auth/login *)

LoginBegins(c, u) ==
    /\ request[c] = Idle
    /\ failures < MaxFailures
    /\ request' = [request EXCEPT ![c] = [pc |-> IF \A v \in Users : account[v] = Absent
                                                 THEN "bootstrap" ELSE "login",
                                          target |-> u]]
    /\ UNCHANGED <<account, nextId, cookie, failures, told, outdated>>

(* ensureBootstrap found the table empty.  The insertion fails when another *)
(* request was quicker, and takes the request with it.                      *)
Bootstraps(c) ==
    /\ request[c].pc = "bootstrap"
    /\ IF account[AdminUser] = Absent
       THEN /\ account' = [account EXCEPT ![AdminUser] = NewRow(nextId, "admin")]
            /\ told' = [told EXCEPT ![AdminUser] = Facts(NewRow(nextId, "admin"))]
            /\ nextId' = nextId + 1
            /\ request' = [request EXCEPT ![c].pc = "login"]
       ELSE Ends(c) /\ UNCHANGED <<account, told, nextId>>
    /\ UNCHANGED <<cookie, failures, outdated>>

(* authenticate: the row is read, then the password checked against it. *)
Judges(c) ==
    /\ request[c].pc = "login"
    /\ \E right \in BOOLEAN :
        LET row == account[request[c].target]
            good == row # Absent /\ row.enabled /\ right
        IN  request' = [request EXCEPT ![c] = [pc |-> "judged", target |-> @.target,
                                               seen |-> IF good THEN row ELSE Absent]]
    /\ outdated' = [outdated EXCEPT !.logins = @ \ {c}]
    /\ UNCHANGED <<account, nextId, cookie, failures, told>>

(* A bug: the cookie is made of the row as it is now. *)
LoginEndsAfresh(c) ==
    /\ request[c].pc = "judged"
    /\ Ends(c)
    /\ LET u == request[c].target IN
       IF request[c].seen = Absent \/ account[u] = Absent
       THEN UNCHANGED <<cookie, outdated>>
       ELSE /\ Reopens(c, u, account[u])
            /\ outdated' = [cookies |-> IF c \in outdated.logins THEN outdated.cookies \cup {c}
                                        ELSE outdated.cookies \ {c},
                            logins |-> outdated.logins \ {c}]
    /\ UNCHANGED <<account, nextId, failures, told>>

LoginEnds(c) ==
    /\ request[c].pc = "judged"
    /\ Ends(c)
    /\ LET row == request[c].seen IN
       IF row = Absent
       THEN /\ FailureRecorded
            /\ UNCHANGED <<cookie, outdated>>
       ELSE /\ FailuresCleared
            /\ Reopens(c, request[c].target, row)
            /\ outdated' = [cookies |-> IF c \in outdated.logins THEN outdated.cookies \cup {c}
                                        ELSE outdated.cookies \ {c},
                            logins |-> outdated.logins \ {c}]
    /\ UNCHANGED <<account, nextId, told>>

(* unlockAt passes: the entry no longer counts. *)
LockEnds ==
    /\ failures > 0
    /\ FailuresCleared
    /\ UNCHANGED <<account, nextId, cookie, request, told, outdated>>

(* closeSession does not ask whether the cookie it clears was still good. *)
Logout(c) ==
    /\ request[c] = Idle /\ cookie[c] # NoCookie
    /\ LET u == cookie[c].user IN
        /\ account[u] # Absent => account[u].epoch < MaxEpoch
        /\ account' = IF account[u] = Absent THEN account ELSE [account EXCEPT ![u] = Bumped(@)]
        /\ Outdates(u, {})
    /\ cookie' = [cookie EXCEPT ![c] = NoCookie]
    /\ UNCHANGED <<nextId, request, failures, told>>

(* A session past SESSION_HOURS, or one sessionAccount refuses, is cleared. *)
SessionCleared(c) ==
    /\ request[c] = Idle /\ cookie[c] # NoCookie
    /\ cookie' = [cookie EXCEPT ![c] = NoCookie]
    /\ UNCHANGED <<account, nextId, request, failures, told, outdated>>

-----------------------------------------------------------------------------
(* POST /account/password *)

(* changeOwnPassword up to the check of the current password. *)
ChangeBegins(c) ==
    /\ request[c] = Idle
    /\ Accepted(c)
    /\ account[cookie[c].user].epoch < MaxEpoch
    /\ failures < MaxFailures
    /\ \/ /\ request' = [request EXCEPT ![c] = [pc |-> "change", target |-> cookie[c].user]]
          /\ UNCHANGED failures
       \/ /\ FailureRecorded
          /\ UNCHANGED request
    /\ UNCHANGED <<account, nextId, cookie, told, outdated>>

(* setPassword, then openSession with the row it returned. *)
Changes(c) ==
    /\ request[c].pc = "change"
    /\ Ends(c)
    /\ LET u == request[c].target
           row == [Bumped(account[u]) EXCEPT !.must = FALSE]
       IN IF account[u] = Absent
          THEN UNCHANGED <<account, cookie, told, outdated>>
          ELSE /\ Write(u, row, [told[u] EXCEPT !.must = FALSE])
               /\ Reopens(c, u, row)
               /\ Outdates(u, {c})
    /\ UNCHANGED <<nextId, failures>>

-----------------------------------------------------------------------------
(* The administrator's requests.  A body names every field of the account: *)
(* those that equal the row as it is read are no change.                   *)

Asked == [op : {"update", "create"}, role : Roles, enabled : BOOLEAN]
           \cup [op : {"reset", "delete"}, role : {"operator"}, enabled : {TRUE}]

(* The dependency requireAdmin of a route. *)
Admitted(c, u, a) ==
    /\ request[c] = Idle
    /\ MayAdminister(c)
    /\ account[u] # Absent => account[u].epoch < MaxEpoch
    /\ a.op = "create" => nextId <= MaxRows /\ a.enabled
    /\ request' = [request EXCEPT ![c] = [pc |-> "admitted", user |-> cookie[c].user,
                                          target |-> u, asked |-> a]]
    /\ UNCHANGED <<account, nextId, cookie, failures, told, outdated>>

(* How often updateUser and deleteUser ask lastAdmin before they write. *)
Checks(a, row) ==
    IF row.role # "admin" \/ ~row.enabled THEN 0
    ELSE CASE a.op = "update" -> Cardinality({f \in {"role", "enabled"} :
                                   \/ f = "role" /\ a.role # row.role
                                   \/ f = "enabled" /\ ~a.enabled})
           [] a.op = "delete" -> 1
           [] OTHER -> 0

(* A bug: an account may demote and disable itself. *)
SelfRefusedDeletion(a, row) == a.op = "delete"

(* What an account may not do to itself. *)
SelfRefused(a, row) ==
    \/ a.op = "update" /\ (a.role # row.role \/ (row.enabled /\ ~a.enabled))
    \/ a.op = "delete"

(* target(): the row is read; what that settles is settled here. *)
Reads(c) ==
    /\ request[c].pc = "admitted"
    /\ LET r == request[c]
           row == account[r.target]
           refused == IF r.asked.op = "create" THEN row # Absent
                      ELSE \/ row = Absent
                           \/ r.target = r.user /\ SelfRefused(r.asked, row)
                           \/ r.asked.op = "update" /\ r.asked.role = row.role /\ r.asked.enabled = row.enabled
       IN IF refused THEN Ends(c)
          ELSE request' = [request EXCEPT ![c] =
                             [pc |-> "checks", user |-> r.user, target |-> r.target, asked |-> r.asked,
                              seen |-> row, left |-> IF row = Absent THEN 0 ELSE Checks(r.asked, row)]]
    /\ UNCHANGED <<account, nextId, cookie, failures, told, outdated>>

(* lastAdmin counts, in a transaction of its own. *)
Counts(c) ==
    /\ request[c].pc = "checks" /\ request[c].left > 0
    /\ IF Cardinality(ActiveAdmins) <= 1 THEN Ends(c)
       ELSE request' = [request EXCEPT ![c].left = @ - 1]
    /\ UNCHANGED <<account, nextId, cookie, failures, told, outdated>>

(* updateAccount sets, and its line tells, the fields that differed when the *)
(* row was read.                                                             *)
Differing(a, seen, row) ==
    [row EXCEPT !.role = IF a.role # seen.role THEN a.role ELSE @,
                !.enabled = IF a.enabled # seen.enabled THEN a.enabled ELSE @]

(* A bug: the line tells the fields that were asked for. *)
UpdatesTellingBody(c) ==
    /\ request[c].pc = "checks" /\ request[c].left = 0 /\ request[c].asked.op = "update"
    /\ Ends(c)
    /\ LET r == request[c] IN
       IF account[r.target] = Absent THEN UNCHANGED <<account, told, outdated>>
       ELSE /\ Write(r.target, Differing(r.asked, r.seen, Bumped(account[r.target])),
                     [told[r.target] EXCEPT !.role = r.asked.role, !.enabled = r.asked.enabled])
            /\ Outdates(r.target, {})
    /\ UNCHANGED <<nextId, cookie, failures>>

Updates(c) ==
    /\ request[c].pc = "checks" /\ request[c].left = 0 /\ request[c].asked.op = "update"
    /\ Ends(c)
    /\ LET r == request[c] IN
       IF account[r.target] = Absent THEN UNCHANGED <<account, told, outdated>>
       ELSE /\ Write(r.target, Differing(r.asked, r.seen, Bumped(account[r.target])),
                     Differing(r.asked, r.seen, told[r.target]))
            /\ Outdates(r.target, {})
    /\ UNCHANGED <<nextId, cookie, failures>>

(* resetPassword; an administrator's own session follows. *)
Resets(c) ==
    /\ request[c].pc = "checks" /\ request[c].asked.op = "reset"
    /\ Ends(c)
    /\ LET r == request[c]
           row == [Bumped(account[r.target]) EXCEPT !.must = TRUE]
       IN IF account[r.target] = Absent THEN UNCHANGED <<account, cookie, told, outdated>>
          ELSE /\ Write(r.target, row, [told[r.target] EXCEPT !.must = TRUE])
               /\ IF r.target = r.user
                  THEN /\ Reopens(c, r.target, row)
                       /\ Outdates(r.target, {c})
                  ELSE UNCHANGED cookie /\ Outdates(r.target, {})
    /\ UNCHANGED <<nextId, failures>>

Deletes(c) ==
    /\ request[c].pc = "checks" /\ request[c].left = 0 /\ request[c].asked.op = "delete"
    /\ Ends(c)
    /\ Write(request[c].target, Absent, Absent)
    /\ UNCHANGED <<nextId, cookie, failures, outdated>>

(* The insertion meets the unique name when another request was quicker. *)
Creates(c) ==
    /\ request[c].pc = "checks" /\ request[c].asked.op = "create"
    /\ Ends(c)
    /\ LET u == request[c].target
           row == NewRow(nextId, request[c].asked.role)
       IN IF account[u] # Absent THEN UNCHANGED <<account, told, nextId>>
          ELSE /\ account' = [account EXCEPT ![u] = row]
               /\ told' = [told EXCEPT ![u] = Facts(row)]
               /\ nextId' = nextId + 1
    /\ UNCHANGED <<cookie, failures, outdated>>

-----------------------------------------------------------------------------
Init ==
    /\ account = [u \in Users |-> Absent]
    /\ nextId = 1
    /\ cookie = [c \in Clients |-> NoCookie]
    /\ request = [c \in Clients |-> Idle]
    /\ failures = 0
    /\ told = [u \in Users |-> Absent]
    /\ outdated = [cookies |-> {}, logins |-> {}]

ClientSteps(c) ==
    \/ \E u \in Users : LoginBegins(c, u)
    \/ Bootstraps(c) \/ Judges(c) \/ LoginEnds(c)
    \/ Logout(c) \/ SessionCleared(c)
    \/ ChangeBegins(c) \/ Changes(c)
    \/ \E u \in Users, a \in Asked : Admitted(c, u, a)
    \/ Reads(c) \/ Counts(c)
    \/ Updates(c) \/ Resets(c) \/ Deletes(c) \/ Creates(c)

Next == LockEnds \/ \E c \in Clients : ClientSteps(c)

Spec == Init /\ [][Next]_vars

-----------------------------------------------------------------------------
(* Types.  The bounds stop requests from starting, not those under way. *)
Requests ==
    {Idle} \cup [pc : {"bootstrap", "login", "change"}, target : Users]
      \cup [pc : {"judged"}, target : Users, seen : Row \cup {Absent}]
      \cup [pc : {"admitted"}, user : Users, target : Users, asked : Asked]
      \cup [pc : {"checks"}, user : Users, target : Users, asked : Asked,
            seen : Row \cup {Absent}, left : Nat]

(* Every variable has its type: an update, a reset and a deletion have read *)
(* the row they write, which may be another one by then.                    *)
AccountsTypeOK ==
    /\ account \in [Users -> Row \cup {Absent}]
    /\ nextId \in Nat \ {0}
    /\ cookie \in [Clients -> Cookie \cup {NoCookie}]
    /\ request \in [Clients -> Requests]
    /\ failures \in Nat
    /\ told \in [Users -> [role : Roles, enabled : BOOLEAN, must : BOOLEAN] \cup {Absent}]
    /\ outdated \in [cookies : SUBSET Clients, logins : SUBSET Clients]

(* "Disabled, or an epoch bumped by a password change, a role change, a     *)
(* lock-out or a sign-out, and the session is over" (auth.py:11-13), also   *)
(* when the sign-in was under way at that moment: while the account is not  *)
(* deleted, no cookie is accepted that was opened for its earlier state.    *)
OutdatedRefused ==
    \A c \in Clients :
        (Accepted(c) /\ account[cookie[c].user].id = cookie[c].of) => c \notin outdated.cookies

(* "A change is never kept without its line, nor a line without its change" *)
(* (users.py:19-20): replaying the audit lines gives the table, though each *)
(* request decides on rows it read in an earlier transaction.               *)
AuditTells == \A u \in Users : told[u] = Facts(account[u])

(* The last enabled administrator goes only when the requests of two cross: *)
(* whoever demotes, disables or deletes it has lost that rank since its own *)
(* request was admitted (users.lastAdmin, and the refusals of one's own     *)
(* account in api/users.py).                                                *)
LostOnlyInRace ==
    [][ActiveAdmins # {} /\ ActiveAdmins' = {} =>
         \E c \in Clients : request[c].pc = "checks" /\ request'[c] = Idle
                            /\ request[c].user \notin ActiveAdmins]_vars

=============================================================================
