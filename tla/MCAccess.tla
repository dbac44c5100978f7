------------------------------ MODULE MCAccess ------------------------------
(***************************************************************************)
(* Accounts and Admins for TLC.  One behaviour exercises one family of     *)
(* handlers, so that the families' states add up instead of multiplying.   *)
(***************************************************************************)
EXTENDS Accounts, Admins, TLC

CONSTANTS r1, r2, r3, p1, p2, u1, u2, u3, e1, e2, w1, w2, i1, c1, c2, a1, a2, a3

ASSUME AccessAssumption == {r1, r2, r3} \subseteq Requests /\ a1 \in Admins /\ w1 \in Passwords

VARIABLE family

MCTtl == [x \in {"email_verify", "password_reset", "oauth2_merge"} |-> 1] @@
         [x \in {"otp", "mfa_ticket", "webauthn_reg", "webauthn_auth"} |-> 0]
\* Setups race in two processes; the other families run in one.
MCHome == (r1 :> p1) @@ (r2 :> p1) @@ (r3 :> p2)

OfUsers == {"mail", "factor", "provider", "key"}
OfAdmins == {"setup", "lockout", "owners", "sessions"}

MCInit ==
  /\ AccountsInit /\ AdminsInit
  /\ users = [u \in Users |-> IF u = u1 THEN User("yes", e1, w1, FALSE, FALSE)
                              ELSE User("no", NoOne, NoOne, FALSE, FALSE)]
  /\ family \in OfUsers \cup OfAdmins
  /\ AdminRows = IF family = "setup" THEN {} ELSE {a1}

Users1(r) ==
  \/ family = "mail" /\ (Password(r) \/ Mail(r) \/ Mailed(r) \/ Session(r))
  \/ family = "factor" /\ (Password(r) \/ Factor(r))
  \/ family = "provider" /\ (SignUp(r, {w1}) \/ Provider(r, {w1}))
  \/ family = "key" /\ (Password(r) \/ Key(r))

Admins1(r) ==
  \/ family = "lockout" /\ SignIns(r, {a1})
  \/ family = "owners" /\ Management(r, {"editor"} \cup {"owner" : x \in AdminRows \ Owners})
  \/ family = "sessions" /\ (Credentials(r) \/ AdminLogin(r, a1, TRUE))

MCNext ==
  /\ UNCHANGED family
  /\ \/ /\ family \in OfUsers
        /\ UNCHANGED adminTables
        /\ \/ Running
           \/ family # "mail" /\ \E p \in Procs : AccountsCrash(p)
           \/ \E r \in {r1, r2} : Users1(r)
           \/ family = "mail" /\ now = 0 /\ AccountsTick
           \/ family = "provider" /\ \E u \in Users : DeleteUser(u)
     \/ /\ family \in OfAdmins
        /\ UNCHANGED <<accountTables, accepted, spent>>
        /\ \/ AdminRunning
           \/ \E r \in {r1, r2} : Admins1(r)
           \/ family = "lockout" /\ SignIns(r3, {a1})
           \/ family = "setup" /\ \E p \in Procs : AdminCrash(p)
           \/ family = "setup" /\ \E r \in {r1, r3} : Setup(r) \/ CommandLine(r, a1)
           \/ family \in {"lockout", "sessions"} /\ AdminTick

MCSpec == MCInit /\ [][MCNext]_<<accountVars, adminVars, family>>

\* However requests overlap: no two accounts share an address, one setup is answered with
\* an account, and the failures of a lockout's window are bounded.
AccountsGuarded == EmailUnique /\ EntryGuarded
=============================================================================
