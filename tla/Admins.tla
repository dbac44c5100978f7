-------------------------------- MODULE Admins --------------------------------
(***************************************************************************)
(* The operators of an installation: first-run setup, sign-in behind the   *)
(* brute-force lockout, sessions and API tokens, and the management of     *)
(* admins with its guards for the last admin and the last owner            *)
(* (src/src/api/auth.ts, admins.ts, api-tokens.ts, security.ts and their   *)
(* core files).  Handlers run as EventLoop says.                           *)
(***************************************************************************)
EXTENDS EventLoop

CONSTANTS Admins,        \* rows that may come to be, each with an address of its own
          MaxFailures,   \* auth.lockout.max_attempts, not 0
          Lockout,       \* auth.lockout.duration_seconds
          SessionTtl,    \* seconds an admin token lives
          MaxSessions    \* bound: admin tokens signed

ASSUME AdminsAssumption ==
  /\ MaxFailures \in Nat \ {0} /\ Lockout \in Nat
  /\ SessionTtl \in Nat /\ MaxSessions \in Nat

VARIABLES admins,     \* rows of cogworks_admin
          failures,   \* failures[a]: the times in cogworks_login_failures for a's address
          sessions,   \* admin and API tokens answered, in order, with their rows
          setups      \* requests whose setup was answered with an account

adminTables == <<admins, failures, sessions, setups>>
adminVars == <<adminTables, clockVars, loopVars>>

Roles == {"viewer", "editor", "developer", "owner"}
Rank == [viewer |-> 0, editor |-> 1, developer |-> 2, owner |-> 3]

AdminExists(a) == a \in Admins /\ admins[a].in = "yes"
AdminRows == {a \in Admins : AdminExists(a)}
Owners == {a \in AdminRows : admins[a].role = "owner"}

AdminValid(j) ==
  /\ j \in DOMAIN sessions
  /\ now < sessions[j].exp
  /\ ~sessions[j].revoked
  /\ AdminExists(sessions[j].admin)
  /\ admins[sessions[j].admin].resetAt <= sessions[j].iat

\* getLockoutPolicy and isLockedOut, for the address; an IP is one more key.
Recent(a) == {n \in DOMAIN failures[a] : failures[a][n] >= now - Lockout}
LockedLate(a) == Cardinality(Recent(a)) > MaxFailures     \* mutant
LockedOut(a) == Cardinality(Recent(a)) >= MaxFailures

----------------------------------------------------------------------------
\* The statements that write.
AddAdmin(a, role) == [op |-> "add", admin |-> a, role |-> role]
DropAdmin(a) == [op |-> "drop", admin |-> a]
TakeBack(a) == [op |-> "back", admin |-> a]
SetRole(a, role, was) == [op |-> "role", admin |-> a, role |-> role, was |-> was]
BumpReset(A) == [op |-> "bump", admins |-> A]
Fail(a) == [op |-> "fail", admin |-> a]
Forgive(a) == [op |-> "forgive", admin |-> a]
Record(a, iat) == [op |-> "record", admin |-> a, iat |-> iat]
Void(j) == [op |-> "void", session |-> j]
\* The statements that read, and decide what the handler does next.
OnlyOne(a) == [op |-> "only", admin |-> a]
Stamp(a) == [op |-> "stamp", admin |-> a]
Create(me, a, role) == [op |-> "create", me |-> me, admin |-> a, role |-> role]
Patch(me, a, role, pw) == [op |-> "patch", me |-> me, admin |-> a, role |-> role, pw |-> pw]
Demote(mine, a, role, was) ==
  [op |-> "demote", mine |-> mine, admin |-> a, role |-> role, was |-> was]
Delete(me, a) == [op |-> "delete", me |-> me, admin |-> a]

LastAdmin(role) == role = "owner" /\ Cardinality(AdminRows) <= 1     \* mutant
LastOwner(role) == role = "owner" /\ Cardinality(Owners) <= 1

\* What the handler of request r does after s, when `rest` was left.
AdminThen(s, rest) ==
  CASE s.op = "only" -> IF AdminRows = {s.admin} THEN <<>> ELSE <<TakeBack(s.admin)>>
    [] s.op = "stamp" -> <<Await, Record(s.admin, now)>>
    [] s.op = "create" ->
         IF AdminExists(s.me) /\ Rank[s.role] <= Rank[admins[s.me].role]
           THEN <<Await, AddAdmin(s.admin, s.role)>> ELSE <<>>
    [] s.op = "patch" ->
         IF AdminExists(s.me) /\ AdminExists(s.admin)
           THEN (IF s.pw THEN <<Await>> ELSE <<>>)
                  \o <<Demote(admins[s.me].role, s.admin, s.role, admins[s.admin].role)>>
           ELSE <<>>
    [] s.op = "demote" ->
         IF Rank[s.role] > Rank[s.mine] \/ (s.role # "owner" /\ LastOwner(s.was))
           THEN <<>> ELSE <<SetRole(s.admin, s.role, s.was)>>
    [] s.op = "delete" ->
         IF /\ AdminExists(s.me) /\ s.me # s.admin
            /\ Cardinality(AdminRows) > 1
            /\ AdminExists(s.admin) /\ ~LastOwner(admins[s.admin].role)
           THEN <<DropAdmin(s.admin)>> ELSE <<>>
    [] OTHER -> rest

AdminsAfter(s) ==
  CASE s.op = "add" -> [admins EXCEPT ![s.admin] =
                          [in |-> "yes", role |-> s.role, resetAt |-> 0]]
    [] s.op \in {"drop", "back"} -> [admins EXCEPT ![s.admin].in = "gone"]
    [] s.op = "role" /\ AdminExists(s.admin) -> [admins EXCEPT ![s.admin].role = s.role]
    [] s.op = "bump" -> [a \in Admins |-> IF a \in s.admins \cap AdminRows
                                            THEN [admins[a] EXCEPT !.resetAt = now] ELSE admins[a]]
    [] OTHER -> admins

FailuresAfter(s) ==
  CASE s.op = "fail" -> [failures EXCEPT ![s.admin] = Append(@, now)]
    [] s.op = "forgive" -> [failures EXCEPT ![s.admin] = <<>>]
    [] OTHER -> failures

SessionsAfter(s) ==
  CASE s.op = "record" -> Append(sessions, [admin |-> s.admin, iat |-> s.iat,
                                            exp |-> s.iat + SessionTtl, revoked |-> FALSE])
    [] s.op = "void" -> [sessions EXCEPT ![s.session].revoked = TRUE]
    [] OTHER -> sessions

SetupsUnchecked(s, r) == IF s.op = "only" THEN setups \cup {r} ELSE setups     \* mutant
SetupsAfter(s, r) ==
  IF s.op = "only" /\ AdminRows = {s.admin} THEN setups \cup {r} ELSE setups

----------------------------------------------------------------------------
AdminsInit ==
  /\ LoopInit
  /\ \E first \in {{}} \cup {{a} : a \in Admins} :
       admins = [a \in Admins |-> [in |-> IF a \in first THEN "yes" ELSE "no",
                                   role |-> "owner", resetAt |-> 0]]
  /\ failures = [a \in Admins |-> <<>>]
  /\ sessions = <<>> /\ setups = {}

AdminHandle(r, stmts) ==
  /\ Begin(r, stmts)
  /\ UNCHANGED <<adminTables, clockVars>>

AdminStatement(r) ==
  /\ todo[r] # <<>> /\ Head(todo[r]).op # "await" /\ Runnable(r)
  /\ LET s == Head(todo[r]) IN
     /\ Leaves(r, AdminThen(s, Tail(todo[r])))
     /\ admins' = AdminsAfter(s) /\ failures' = FailuresAfter(s)
     /\ sessions' = SessionsAfter(s) /\ setups' = SetupsAfter(s, r)
  /\ UNCHANGED clockVars

AdminContinue(r) == Resume(r) /\ UNCHANGED <<adminTables, clockVars>>

Promised(op) == {r \in Requests : \E n \in DOMAIN todo[r] : todo[r][n].op = op}
Unused == {a \in Admins : /\ admins[a].in = "no"
                          /\ \A r \in Requests : \A n \in DOMAIN todo[r] :
                               todo[r][n].op \in {"add", "create"} => todo[r][n].admin # a}

\* POST /admin/setup: no look at the table before the row is written.
Setup(r) ==
  \E a \in Unused : AdminHandle(r, <<Await, AddAdmin(a, "owner"), OnlyOne(a)>>)

\* POST /admin/auth/login, with the right password or a wrong one.
AdminLogin(r, a, good) ==
  /\ ~LockedOut(a)
  /\ IF good
       THEN /\ AdminExists(a)
            /\ Len(sessions) + Cardinality(Promised("stamp") \cup Promised("record"))
                 < MaxSessions
            /\ AdminHandle(r, <<Await, Forgive(a), Stamp(a)>>)
       ELSE AdminHandle(r, <<Await, Fail(a)>>)

\* The endpoints behind the owner's gate: the gate has read the role, and the handler
\* reads the admin again when its own look at the token is over.
Gated(r, me, s) == me \in Owners /\ AdminHandle(r, <<Await, s>>)

CreateAdmin(r, me, role) == \E a \in Unused : Gated(r, me, Create(me, a, role))
PatchAdmin(r, me, a, role, pw) == Gated(r, me, Patch(me, a, role, pw))
DeleteAdmin(r, me, a) == Gated(r, me, Delete(me, a))
RevokeSession(r, me, j) == j \in DOMAIN sessions /\ Gated(r, me, Void(j))
ForceLogoutAll(r, me) == Gated(r, me, BumpReset(Admins))
MintApiToken(r, me) ==
  /\ Len(sessions) + Cardinality(Promised("stamp") \cup Promised("record")) < MaxSessions
  /\ Gated(r, me, Stamp(me))

\* The create-admin command with --force: it adds an owner or resets a password.
CommandLine(r, a) ==
  \/ AdminExists(a) /\ AdminHandle(r, <<Await, BumpReset({a})>>)
  \/ a \in Unused /\ AdminHandle(r, <<Await, AddAdmin(a, "owner")>>)

AdminTick == Tick /\ UNCHANGED adminTables
AdminCrash(p) == CrashLoop(p) /\ UNCHANGED adminTables

AdminRunning == \E r \in Requests : AdminStatement(r) \/ AdminContinue(r)
SignIns(r, A) == \E a \in A, good \in BOOLEAN : AdminLogin(r, a, good)
Management(r, roles) ==
  \E me \in Admins :
    \/ \E role \in roles : CreateAdmin(r, me, role)
    \/ \E a \in Admins : \/ DeleteAdmin(r, me, a)
                         \/ \E role \in roles, pw \in BOOLEAN : PatchAdmin(r, me, a, role, pw)
Credentials(r) ==
  \E me \in Admins :
    \/ \E j \in DOMAIN sessions : RevokeSession(r, me, j)
    \/ ForceLogoutAll(r, me) \/ MintApiToken(r, me)

AdminsNext ==
  \/ AdminRunning \/ AdminTick
  \/ \E p \in Procs : AdminCrash(p)
  \/ \E r \in Requests : \/ Setup(r) \/ SignIns(r, Admins) \/ Management(r, Roles) \/ Credentials(r)
                         \/ \E a \in Admins : CommandLine(r, a)

AdminsSpec == AdminsInit /\ [][AdminsNext]_adminVars

----------------------------------------------------------------------------
\* The rows hold what the schema gives them; a token's admin has had a row.
AdminsTypeOK ==
  /\ admins \in [Admins -> [in : {"no", "yes", "gone"}, role : Roles, resetAt : 0..MaxTime]]
  /\ \A j \in DOMAIN sessions : admins[sessions[j].admin].in # "no"
  /\ setups \subseteq Requests

\* Of the setups that run at the same time, in one process or several, at most one is
\* answered with an account: each writes its row first and takes it back when it is not
\* alone.
SetupOnce == Cardinality(setups) <= 1

\* The lockout is read before the password is verified and a failure is written after, so
\* the failures of one window may pass the limit by the other requests in flight, not more.
LockoutBound ==
  \A a \in Admins : \A n \in DOMAIN failures[a] :
    Cardinality({m \in DOMAIN failures[a] :
                   failures[a][m] \in (failures[a][n] - Lockout)..failures[a][n]})
      <= MaxFailures + Cardinality(Requests) - 1

\* What requests that overlap may gain against the two guards of the way in.
EntryGuarded == SetupOnce /\ LockoutBound

\* An installation keeps an owner, beside those a setup may still take back, with one
\* exception: a change of password and role at once reads the target's role before it
\* waits for the hash, and guards with that role.
Standing == {a \in Owners : \A r \in Requests : \A n \in DOMAIN todo[r] :
                              todo[r][n].op \in {"only", "back"} => todo[r][n].admin # a}
StaleRole ==
  \E r \in Requests :
    /\ todo[r] # <<>> /\ todo'[r] # todo[r]
    /\ Head(todo[r]).op = "role" /\ Head(todo[r]).was # admins[Head(todo[r]).admin].role
OwnerKept == [][Standing # {} => Standing' # {} \/ StaleRole]_adminVars
=============================================================================
