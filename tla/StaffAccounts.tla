--------------------------- MODULE StaffAccounts ---------------------------
(***************************************************************************)
(* The accounts of the staff and the sessions they hold                    *)
(* (identity/service.ts, identity/repo.ts, identity/domain).               *)
(*                                                                         *)
(* A session carries nothing but a token: role, store and activity are     *)
(* read from the account on every request.  A request keeps the principal  *)
(* it started with.  Managing an account locks its row, checks it as it is *)
(* under the lock, writes it, and drops its sessions with it when their    *)
(* authority changed.  A sign-in verifies first and opens its session in a *)
(* statement of its own.                                                   *)
(***************************************************************************)
EXTENDS Requests

CONSTANTS
    Users,
    FirstAccounts,  \* accounts there may be at the start, Nothing for none
    MaxStaffCalls   \* bound: requests served in one behaviour

VARIABLES
    account,   \* the User row of each user, or Nothing
    rowLock,   \* the request holding the row for update
    cookies,   \* live sessions: the row their sign-in verified, and whether
               \* the row had changed by the time the session was opened
    resetTo    \* the password of an account's last reset by its staff

staffRows == <<account, rowLock, cookies, resetTo>>
staffVars == <<request, account, rowLock, cookies, resetTo>>

Accounts ==
    [role : Roles, store : Stores \cup {NoStore}, active : BOOLEAN, password : Nat]

\* Constants of a behaviour: accounts that pair role and store as they must.
\* assertRoleStorePairing
Paired(role, store) == (role = "SUPER_ADMIN") = (store = NoStore)

ASSUME StaffConstants ==
    /\ MaxStaffCalls \in Nat
    /\ Nothing \notin Accounts
    /\ \A f \in FirstAccounts :
         /\ f \in [Users -> Accounts \cup {Nothing}]
         /\ \A u \in Users : f[u] # Nothing => Paired(f[u].role, f[u].store)

\* principalForUser: a disabled user has no principal at all.
Principal(u) ==
    [kind |-> "user", user |-> u, role |-> account[u].role, store |-> account[u].store]

IsActive(u) == account[u] # Nothing /\ account[u].active

-----------------------------------------------------------------------------
(* What is asked *)

\* The forms send a store with every role but SUPER_ADMIN, and may leave it out.
Posts ==
    {p \in [role : Roles, store : Stores \cup {NoStore}] :
        p.role = "SUPER_ADMIN" => p.store = NoStore}

StaffJobs ==
    [op : {"create", "update"}, target : Users, post : Posts]
        \cup [op : {"enable", "disable", "reset"}, target : Users]

\* The action each operation needs to be granted.
Needs(op) ==
    CASE op = "create" -> "user:create"
      [] op \in {"update", "enable"} -> "user:update"
      [] op = "disable" -> "user:disable"
      [] op = "reset" -> "user:reset-password"

\* assignableRoles and manageableRoles
RolesUnder(p) ==
    CASE p.role = "SUPER_ADMIN" -> Roles
      [] p.role = "STORE_MANAGER" -> {"STORE_STAFF"}
      [] OTHER -> {}

\* assertCanManageTarget, on the row as read.
CanManage(p, target, row) == p.user = target \/ row.role \in RolesUnder(p)

\* The role and store asked for are ones the principal may give.
CanAssign(p, op, post) ==
    post.role \in RolesUnder(p) /\ Authorized(p, Needs(op), post.store)

\* Refusals before any transaction.
MayAsk(p, j) ==
    /\ j.op = "disable" => j.target # p.user
    /\ j.op = "create" => Paired(j.post.role, j.post.store) /\ CanAssign(p, j.op, j.post)

\* withManagedTarget, and for an update the rules on what is proposed.
Eligible(p, j, row) ==
    /\ Authorized(p, Needs(j.op), row.store)
    /\ CanManage(p, j.target, row)
    /\ j.op = "update" =>
         /\ Paired(j.post.role, j.post.store)
         /\ (j.post.role # row.role \/ j.post.store # row.store) => CanAssign(p, j.op, j.post)

-----------------------------------------------------------------------------
(* What is written *)

\* Each operation writes its own columns.
Written(j, row) ==
    CASE j.op = "update" -> [row EXCEPT !.role = j.post.role, !.store = j.post.store]
      [] j.op = "enable" -> [row EXCEPT !.active = TRUE]
      [] j.op = "disable" -> [row EXCEPT !.active = FALSE]
      [] OTHER -> [row EXCEPT !.password = row.password + 1]

\* Does the operation end the sessions of the account it read as row?
EndsSessions(j, row) ==
    \/ j.op \in {"disable", "reset"}
    \/ j.op = "update" /\ (j.post.role # row.role \/ j.post.store # row.store)

SessionsOf(u) == {c \in cookies : c.user = u}

ActiveAdmins == {u \in Users : IsActive(u) /\ account[u].role = "SUPER_ADMIN"}

-----------------------------------------------------------------------------
(* Managing accounts *)

\* requirePrincipal: a live session of an account that is active now.
AskStaff(r) ==
    /\ served < MaxStaffCalls
    /\ \E c \in cookies, j \in StaffJobs :
         /\ IsActive(c.user)
         /\ MayAsk(Principal(c.user), j)
         /\ Starts(r, Principal(c.user), j, "asked", Nothing)
    /\ UNCHANGED <<account, rowLock, cookies, resetTo>>

\* createUser: an email has one account.
Create(r) ==
    /\ pc[r] = "asked" /\ job[r].op = "create"
    /\ account' =
         IF account[job[r].target] = Nothing
         THEN [account EXCEPT ![job[r].target] =
                 [role |-> job[r].post.role, store |-> job[r].post.store,
                  active |-> TRUE, password |-> 0]]
         ELSE account
    /\ Answered(r)
    /\ UNCHANGED <<rowLock, cookies, resetTo>>

\* Bug: the row is read without its lock.
LockTargetUnlocked(r) ==
    /\ pc[r] = "asked" /\ job[r].op # "create"
    /\ LET t == job[r].target IN
         /\ rowLock[t] = Nothing
         /\ IF account[t] # Nothing /\ Eligible(caller[r], job[r], account[t])
            THEN GoesOn(r, "checked", account[t])
            ELSE Answered(r)
    /\ UNCHANGED <<account, rowLock, cookies, resetTo>>

\* withManagedTarget: findByIdForUpdate, then the checks on that row.
LockTarget(r) ==
    /\ pc[r] = "asked" /\ job[r].op # "create"
    /\ LET t == job[r].target IN
         /\ rowLock[t] = Nothing
         /\ IF account[t] # Nothing /\ Eligible(caller[r], job[r], account[t])
            THEN /\ GoesOn(r, "checked", account[t])
                 /\ rowLock' = [rowLock EXCEPT ![t] = r]
            ELSE /\ Answered(r)
                 /\ UNCHANGED rowLock
    /\ UNCHANGED <<account, cookies, resetTo>>

Unlock(r) == rowLock' = [u \in Users |-> IF rowLock[u] = r THEN Nothing ELSE rowLock[u]]

\* Disabling an active administrator counts the active ones first.
MustCount(r) == job[r].op = "disable" /\ seen[r].active /\ seen[r].role = "SUPER_ADMIN"

CountAdmins(r) ==
    /\ pc[r] = "checked" /\ MustCount(r)
    /\ \/ /\ Cardinality(ActiveAdmins) > 1
          /\ GoesOn(r, "counted", seen[r])
          /\ UNCHANGED rowLock
       \/ /\ Cardinality(ActiveAdmins) <= 1
          /\ Answered(r)
          /\ Unlock(r)
    /\ UNCHANGED <<account, cookies, resetTo>>

\* Bug: a change of role or store leaves the sessions alone.
WriteKeepingSessions(r) ==
    /\ \/ pc[r] = "checked" /\ ~MustCount(r)
       \/ pc[r] = "counted"
    /\ LET t == job[r].target IN
         /\ account' = [account EXCEPT ![t] = Written(job[r], account[t])]
         /\ cookies' = IF job[r].op # "update" /\ EndsSessions(job[r], seen[r])
                       THEN cookies \ SessionsOf(t) ELSE cookies
         /\ resetTo' = IF job[r].op = "reset"
                       THEN [resetTo EXCEPT ![t] = account[t].password + 1] ELSE resetTo
    /\ Answered(r)
    /\ Unlock(r)

\* updateUser, setUserActive, resetPassword: the row and its sessions, at once.
Write(r) ==
    /\ \/ pc[r] = "checked" /\ ~MustCount(r)
       \/ pc[r] = "counted"
    /\ LET t == job[r].target IN
         /\ account' = [account EXCEPT ![t] = Written(job[r], account[t])]
         /\ cookies' = IF EndsSessions(job[r], seen[r])
                       THEN cookies \ SessionsOf(t) ELSE cookies
         /\ resetTo' = IF job[r].op = "reset"
                       THEN [resetTo EXCEPT ![t] = account[t].password + 1] ELSE resetTo
    /\ Answered(r)
    /\ Unlock(r)

-----------------------------------------------------------------------------
(* One's own account *)

\* changeOwnPassword verifies the current password before its transaction.
VerifyOwn(r) ==
    /\ served < MaxStaffCalls
    /\ \E c \in cookies :
         /\ IsActive(c.user)
         /\ Starts(r, Principal(c.user), [op |-> "own", target |-> c.user],
                   "verified", account[c.user])
    /\ UNCHANGED <<account, rowLock, cookies, resetTo>>

\* The new hash is written whatever the row holds by then; no session ends.
WriteOwn(r) ==
    /\ pc[r] = "verified" /\ job[r].op = "own"
    /\ LET t == job[r].target IN
         /\ rowLock[t] = Nothing
         /\ account' = [account EXCEPT ![t] = Written(job[r], account[t])]
    /\ Answered(r)
    /\ UNCHANGED <<rowLock, cookies, resetTo>>

\* verifyCredentials: the account is active and the password is its own.
SignIn(r) ==
    /\ served < MaxStaffCalls
    /\ \E u \in Users :
         /\ IsActive(u)
         /\ Starts(r, Nothing, [op |-> "signIn", target |-> u], "verified", account[u])
    /\ UNCHANGED <<account, rowLock, cookies, resetTo>>

\* createSessionForUser: the foreign key waits for the lock of the row.
OpenSession(r) ==
    /\ pc[r] = "verified" /\ job[r].op = "signIn"
    /\ LET t == job[r].target IN
         /\ rowLock[t] = Nothing
         /\ cookies' = cookies \cup
              {[user |-> t, row |-> seen[r], late |-> account[t] # seen[r]]}
    /\ Answered(r)
    /\ UNCHANGED <<account, rowLock, resetTo>>

\* destroySession, purgeExpiredSessions, and readSession when it finds the
\* session expired or its account disabled.
EndSession ==
    /\ served < MaxStaffCalls
    /\ \E c \in cookies : cookies' = cookies \ {c}
    /\ served' = served + 1
    /\ UNCHANGED <<pc, job, caller, seen, account, rowLock, resetTo>>

-----------------------------------------------------------------------------
StaffInit ==
    /\ RequestsInit
    /\ account \in FirstAccounts
    /\ rowLock = [u \in Users |-> Nothing]
    /\ cookies = {[user |-> u, row |-> account[u], late |-> FALSE] : u \in {v \in Users : IsActive(v)}}
    /\ resetTo = [u \in Users |-> 0]

StaffNext ==
    \/ EndSession
    \/ \E r \in Requests :
         \/ AskStaff(r) \/ Create(r) \/ LockTarget(r) \/ CountAdmins(r) \/ Write(r)
         \/ VerifyOwn(r) \/ WriteOwn(r) \/ SignIn(r) \/ OpenSession(r)

StaffSpec == StaffInit /\ [][StaffNext]_staffVars

-----------------------------------------------------------------------------
(* Properties *)

Cookies == [user : Users, row : Accounts, late : BOOLEAN]

SeenRight(r) ==
    CASE pc[r] = "idle" -> seen[r] = Nothing /\ job[r] = Nothing
      [] pc[r] = "asked" -> job[r] \in StaffJobs
      [] pc[r] \in {"checked", "counted"} ->
           /\ job[r] \in StaffJobs /\ job[r].op # "create"
           /\ rowLock[job[r].target] = r
           /\ account[job[r].target] = seen[r]
           /\ Eligible(caller[r], job[r], seen[r])
      [] pc[r] = "verified" ->
           /\ job[r] \in [op : {"own", "signIn"}, target : Users]
           /\ account[job[r].target] # Nothing
           /\ seen[r] \in Accounts
      [] OTHER -> FALSE

\* Role and store are always a pair the rest of the program can read: an
\* administrator without a shop, anyone else with one (identity/domain
\* assertRoleStorePairing), and the row a request checked under its lock is
\* the row it goes on to write.
StaffInv ==
    /\ account \in [Users -> Accounts \cup {Nothing}]
    /\ \A u \in Users : account[u] # Nothing => Paired(account[u].role, account[u].store)
    /\ rowLock \in [Users -> Requests \cup {Nothing}]
    /\ cookies \subseteq Cookies
    /\ resetTo \in [Users -> Nat]
    /\ \A r \in Requests : SeenRight(r)

\* A live session never outlives the authority it was opened under: its
\* account has the role, the store and the activity the sign-in verified, and
\* no password reset since.  Only a sign-in that was under way when the change
\* committed may leave a session behind (repo.ts deleteSessionsForUser).
CookiesMatchAuthority ==
    \A c \in cookies :
        \/ c.late
        \/ /\ account[c.user] # Nothing
           /\ account[c.user].role = c.row.role
           /\ account[c.user].store = c.row.store
           /\ account[c.user].active = c.row.active
           /\ c.row.password >= resetTo[c.user]

\* A manager's request changes nothing but the staff of the manager's own shop
\* or the manager's own account, as they are at the moment of the write, and
\* leaves them staff of that shop: however requests interleave, no manager
\* reaches a peer, makes one, or moves anyone (service.ts withManagedTarget).
ManagersRunTheirOwnStaff ==
    [][\A r \in Requests, u \in Users :
         (/\ account'[u] # account[u]
          /\ pc[r] # "idle" /\ pc'[r] = "idle"
          /\ job[r].op \notin {"own", "signIn"}
          /\ caller[r].role # "SUPER_ADMIN")
         => /\ caller[r].role = "STORE_MANAGER"
            /\ account[u] # Nothing =>
                 \/ account[u].role = "STORE_STAFF" /\ account[u].store = caller[r].store
                 \/ u = caller[r].user
            /\ account'[u].store = caller[r].store
            /\ account'[u].role = "STORE_STAFF" \/ account'[u].role = account[u].role]_staffVars

\* Whoever disables an administrator leaves another one active: "The last
\* active `SUPER_ADMIN` cannot be disabled" (service.ts, setUserActive).
LastAdminIsNotDisabled ==
    [][\A u \in ActiveAdmins : ~account'[u].active => ActiveAdmins' # {}]_staffVars
=============================================================================
