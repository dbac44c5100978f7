------------------------------- MODULE Accounts -------------------------------
(***************************************************************************)
(* The users of one auth collection: sign-up, password, one-time code,     *)
(* passkey and provider sign-in, the second factor, single-use tickets,    *)
(* sessions and what ends them (src/src/api/auth*.ts).  A handler reads    *)
(* and decides when its request is taken up, and leaves behind the         *)
(* statements it will run; EventLoop says what may happen in between.      *)
(* A refusal that changes nothing is no step.                              *)
(***************************************************************************)
EXTENDS EventLoop

CONSTANTS Users, Emails, Passwords, Identities, Codes,
          NoOne,          \* no user, no e-mail address, no password anyone knows
          MaxAttempts,    \* MAX_OTP_ATTEMPTS
          TicketTtl,      \* TicketTtl[purpose]: seconds a ticket lives
          Window,         \* seconds a session token lives
          MaxTickets, MaxTokens    \* bounds of the model

Purposes == {"email_verify", "password_reset", "oauth2_merge", "otp", "mfa_ticket",
             "webauthn_reg", "webauthn_auth"}

ASSUME AccountsAssumption ==
  /\ MaxAttempts \in Nat /\ Window \in Nat /\ TicketTtl \in [Purposes -> Nat]
  /\ MaxTickets \in Nat /\ MaxTokens \in Nat
  /\ IsFiniteSet(Users) /\ NoOne \notin Users
  /\ Codes \cap Nat = {}     \* a request may be let in with either

VARIABLES users,      \* rows of cw_<collection>, by id
          passkeys,   \* users who have a credential
          links,      \* oauth_links: the user of each linked identity
          tickets,    \* auth_tokens, in order of creation
          codes,      \* recovery codes and their lookup rows
          tokens,     \* session tokens answered, in order
          revoked,    \* token_revocations
          accepted,   \* per request, the tickets and codes it was let in with
          spent       \* those a finished request was let in with, or a wipe removed

accountTables == <<users, passkeys, links, tickets, codes, tokens, revoked>>
accountVars == <<accountTables, accepted, spent, clockVars, loopVars>>

User(status, email, pw, verified, anon) ==
  [in |-> status, email |-> email, pw |-> pw, verified |-> verified, anon |-> anon,
   secret |-> FALSE, enabled |-> FALSE, resetAt |-> 0]

Exists(u) == u \in Users /\ users[u].in = "yes"
ByEmail(e) == {u \in Users : Exists(u) /\ users[u].email = e}

Live(k, purpose) ==
  /\ k \in DOMAIN tickets
  /\ tickets[k].purpose = purpose
  /\ ~tickets[k].used
  /\ tickets[k].expires >= now

Signed(j) == j \in DOMAIN tokens /\ now < tokens[j].exp

\* verifyAuthToken, with the recheck of the principal.
Valid(j) ==
  /\ Signed(j)
  /\ j \notin revoked
  /\ tokens[j].collection
  /\ Exists(tokens[j].user)
  /\ users[tokens[j].user].resetAt <= tokens[j].iat

Usable(c, u) == codes[c].user = u /\ codes[c].row = "live" /\ codes[c].lookup
Held(u) == {c \in Codes : codes[c].user = u /\ codes[c].row \in {"live", "used"}}

----------------------------------------------------------------------------
\* The statements.
Issue(u, purpose, i) == [op |-> "issue", user |-> u, purpose |-> purpose, identity |-> i]
Use(k) == [op |-> "use", ticket |-> k]
Attempt(k, n) == [op |-> "attempt", ticket |-> k, n |-> n]
Sign(u, collection) == [op |-> "sign", user |-> u, collection |-> collection]
Revoke(j) == [op |-> "revoke", token |-> j]
Verified(u) == [op |-> "verified", user |-> u]
Reset(u, p, at) == [op |-> "reset", user |-> u, pw |-> p, at |-> at]
Totp(u, secret, enabled) ==
  [op |-> "totp", user |-> u, secret |-> secret, enabled |-> enabled]
Promoted(u, e, p) == [op |-> "promote", user |-> u, email |-> e, pw |-> p]
Insert(u, e, p, verified, anon) ==
  [op |-> "insert", user |-> u, row |-> User("yes", e, p, verified, anon)]
Link(i, u) == [op |-> "link", identity |-> i, user |-> u]
Unlinked(i) == [op |-> "unlink", identity |-> i]
Passkey(u) == [op |-> "passkey", user |-> u]
SpendCode(c) == [op |-> "spend", code |-> c]
Unlook(c) == [op |-> "unlook", code |-> c]
Wipe(u, lookups) == [op |-> "wipe", user |-> u, lookups |-> lookups]
Mint(c, u) == [op |-> "mint", code |-> c, user |-> u]
Lookup(c) == [op |-> "lookup", code |-> c]
\* Reads that decide what follows.
Match(k, c, n) == [op |-> "match", ticket |-> k, code |-> c, n |-> n]
Profile(i, e, verified) ==
  [op |-> "profile", identity |-> i, email |-> e, verified |-> verified]

\* A wrong second factor is counted on its ticket, and the last one uses it up.
Counted(k, n) ==
  IF n + 1 >= MaxAttempts THEN <<Attempt(k, n + 1), Use(k)>> ELSE <<Attempt(k, n + 1)>>

Pending == UNION {{todo[r][n] : n \in DOMAIN todo[r]} : r \in Requests}
Unborn ==
  {u \in Users : users[u].in = "no" /\ ~\E s \in Pending : s.op = "insert" /\ s.user = u}

\* What the handler does after statement s, when `rest` was left.
Then(s, rest) ==
  IF s.op = "match" THEN
    LET u == tickets[s.ticket].user IN
    IF Usable(s.code, u)
      THEN <<Await, SpendCode(s.code), Unlook(s.code), Use(s.ticket), Sign(u, TRUE)>>
      ELSE Counted(s.ticket, s.n)
  ELSE IF s.op = "profile" THEN
    IF links[s.identity] # NoOne THEN <<Sign(links[s.identity], TRUE)>>
    ELSE IF s.verified /\ ByEmail(s.email) # {} THEN
      <<Issue(CHOOSE u \in ByEmail(s.email) : TRUE, "oauth2_merge", s.identity)>>
    ELSE LET u == CHOOSE u \in Unborn : TRUE IN
      <<Await, Insert(u, s.email, NoOne, s.verified, FALSE), Link(s.identity, u), Sign(u, TRUE)>>
  ELSE rest

\* A statement the database refuses: the handler throws and ends.
EmailTaken(u, e) == ByEmail(e) \ {u} # {}
RefusedLinksOnly(s) == s.op = "link" /\ links[s.identity] \notin {NoOne, s.user}   \* mutant
Refused(s) ==
  \/ s.op = "insert" /\ EmailTaken(s.user, s.row.email)
  \/ s.op = "promote" /\ EmailTaken(s.user, s.email)
  \/ s.op = "link" /\ links[s.identity] \notin {NoOne, s.user}

UsersRewritten(s) ==     \* mutant: confirming an address writes the whole row anew
  IF s.op = "verified"
    THEN [users EXCEPT ![s.user] = User(@.in, @.email, @.pw, TRUE, @.anon)]
    ELSE IF s.op = "reset"
           THEN [users EXCEPT ![s.user].pw = s.pw, ![s.user].resetAt = s.at] ELSE users
UsersAfter(s) ==
  CASE s.op = "insert" -> [users EXCEPT ![s.user] = s.row]
    [] s.op = "verified" -> [users EXCEPT ![s.user].verified = TRUE]
    [] s.op = "reset" -> [users EXCEPT ![s.user].pw = s.pw, ![s.user].resetAt = s.at]
    [] s.op = "totp" ->
         [users EXCEPT ![s.user].secret = s.secret, ![s.user].enabled = s.enabled]
    [] s.op = "promote" -> [users EXCEPT ![s.user].email = s.email,
                                         ![s.user].pw = s.pw, ![s.user].anon = FALSE]
    [] OTHER -> users

TicketsNoUse(s) ==     \* what the statements but "use" do; alone, a mutant
  CASE s.op = "issue" ->
         Append(tickets, [user |-> s.user, purpose |-> s.purpose, identity |-> s.identity,
                          expires |-> now + TicketTtl[s.purpose], used |-> FALSE, attempts |-> 0])
    [] s.op = "attempt" -> [tickets EXCEPT ![s.ticket].attempts = s.n]
    [] OTHER -> tickets
TicketsAfter(s) ==
  IF s.op = "use" THEN [tickets EXCEPT ![s.ticket].used = TRUE] ELSE TicketsNoUse(s)

CodesAfter(s) ==
  CASE s.op = "spend" -> [codes EXCEPT ![s.code].row = "used"]
    [] s.op = "unlook" -> [codes EXCEPT ![s.code].lookup = FALSE]
    [] s.op = "wipe" ->
         [c \in Codes |-> IF c \in Held(s.user)
                            THEN [codes[c] EXCEPT !.row = "gone", !.lookup = @ /\ ~s.lookups]
                            ELSE codes[c]]
    [] s.op = "mint" -> [codes EXCEPT ![s.code] =
                           [user |-> s.user, row |-> "live", lookup |-> FALSE]]
    [] s.op = "lookup" -> [codes EXCEPT ![s.code].lookup = TRUE]
    [] OTHER -> codes

LinksAfter(s) ==
  CASE s.op = "link" -> [links EXCEPT ![s.identity] = s.user]
    [] s.op = "unlink" -> [links EXCEPT ![s.identity] = NoOne]
    [] OTHER -> links

TokensAfter(s) ==
  IF s.op = "sign"
    THEN Append(tokens, [user |-> s.user, iat |-> now, exp |-> now + Window,
                         collection |-> s.collection])
    ELSE tokens

RevokedAfter(s) == IF s.op = "revoke" THEN revoked \cup {s.token} ELSE revoked
PasskeysAfter(s) == IF s.op = "passkey" THEN passkeys \cup {s.user} ELSE passkeys

----------------------------------------------------------------------------
AccountsInit ==
  /\ LoopInit
  /\ users \in [Users -> {User("no", NoOne, NoOne, FALSE, FALSE)} \cup
                         {User("yes", x[1], x[2], FALSE, FALSE) : x \in Emails \X Passwords}]
  /\ \A u, v \in Users : Exists(u) /\ Exists(v) /\ users[u].email = users[v].email => u = v
  /\ passkeys = {} /\ tickets = <<>> /\ tokens = <<>> /\ revoked = {}
  /\ links = [i \in Identities |-> NoOne]
  /\ codes = [c \in Codes |-> [user |-> NoOne, row |-> "new", lookup |-> FALSE]]
  /\ spent = {}
  /\ accepted = [r \in Requests |-> {}]

\* The bounds: a request is taken up only when what it may issue and sign fits.
Of(stmts, ops) == Cardinality({n \in DOMAIN stmts : stmts[n].op \in ops})
Reserved(ops) == Cardinality({x \in Requests \X (1..6) :
                   x[2] \in DOMAIN todo[x[1]] /\ todo[x[1]][x[2]].op \in ops})
Fits(stmts) ==
  /\ Len(tickets) + Reserved({"issue", "profile"}) + Of(stmts, {"issue", "profile"})
       <= MaxTickets
  /\ Len(tokens) + Reserved({"sign", "profile", "match"})
       + Of(stmts, {"sign", "profile", "match"}) <= MaxTokens
  /\ Reserved({"insert", "profile"}) + Of(stmts, {"insert", "profile"})
       <= Cardinality({u \in Users : users[u].in = "no"})

\* Request r is taken up, let in with `keys`, and will run `stmts`.
Handle(r, keys, stmts) ==
  /\ Begin(r, stmts)
  /\ Fits(stmts)
  /\ accepted' = [accepted EXCEPT ![r] = keys]
  /\ UNCHANGED <<accountTables, now, crashes, spent>>

Statement(r) ==
  /\ todo[r] # <<>> /\ Head(todo[r]).op # "await" /\ Runnable(r)
  /\ LET s == Head(todo[r])
         rest == IF Refused(s) THEN <<>> ELSE Then(s, Tail(todo[r]))
         keys == IF Refused(s) \/ (s.op = "match" /\ ~Usable(s.code, tickets[s.ticket].user))
                   THEN {}
                   ELSE accepted[r] \cup (IF s.op = "match" THEN {s.code} ELSE {})
     IN /\ Leaves(r, rest)
        /\ accepted' = [accepted EXCEPT ![r] = IF rest = <<>> THEN {} ELSE keys]
        /\ spent' = spent \cup (IF rest = <<>> THEN keys ELSE {})
                          \cup (IF s.op = "wipe" THEN Held(s.user) ELSE {})
        /\ IF Refused(s) THEN UNCHANGED accountTables
           ELSE /\ users' = UsersAfter(s) /\ passkeys' = PasskeysAfter(s)
                /\ links' = LinksAfter(s) /\ tickets' = TicketsAfter(s)
                /\ codes' = CodesAfter(s) /\ tokens' = TokensAfter(s)
                /\ revoked' = RevokedAfter(s)
  /\ UNCHANGED <<now, crashes>>

Continue(r) ==
  /\ Resume(r)
  /\ accepted' = [accepted EXCEPT ![r] = IF Len(todo[r]) = 1 THEN {} ELSE @]
  /\ UNCHANGED <<accountTables, now, crashes, spent>>

----------------------------------------------------------------------------
\* Sign-up and the accounts' rows.

\* A taken address gets a reset mail instead of an account.
Register(r, e, p) ==
  \/ \E u \in ByEmail(e) : Handle(r, {}, <<Issue(u, "password_reset", NoOne)>>)
  \/ /\ ByEmail(e) = {}
     /\ \E u \in Unborn : Handle(r, {}, <<Await, Insert(u, e, p, FALSE, FALSE),
                                          Issue(u, "email_verify", NoOne)>>)

Anonymous(r) ==
  \E u \in Unborn, e \in Emails :       \* the synthetic address is nobody's
    /\ ByEmail(e) = {}
    /\ Handle(r, {}, <<Await, Insert(u, e, NoOne, FALSE, TRUE), Sign(u, TRUE)>>)

PromoteAccount(r, j, e, p) ==
  /\ Valid(j)
  /\ LET u == tokens[j].user IN
     /\ users[u].anon
     /\ ~EmailTaken(u, e)
     /\ Handle(r, {}, <<Await, Promoted(u, e, p), Sign(u, TRUE)>>)

DeleteUser(u) ==
  /\ Exists(u)
  /\ \A p \in Procs : turn[p] = {}
  /\ users' = [users EXCEPT ![u].in = "gone"]
  /\ UNCHANGED <<passkeys, links, tickets, codes, tokens, revoked, now, crashes, accepted,
                 spent, loopVars>>

\* Password sign-in, and its second step.
SecondStep(u) ==
  IF users[u].enabled THEN <<Issue(u, "mfa_ticket", NoOne)>> ELSE <<Sign(u, TRUE)>>

Login(r, e, p) ==
  \E u \in ByEmail(e) :
    /\ users[u].pw = p
    /\ Handle(r, {}, <<Await>> \o SecondStep(u))

LoginMfa(r, k, good) ==
  /\ Live(k, "mfa_ticket")
  /\ LET u == tickets[k].user IN
     /\ Exists(u) /\ users[u].secret
     /\ IF good THEN Handle(r, {k}, <<Use(k), Sign(u, TRUE)>>)
                ELSE Handle(r, {}, Counted(k, tickets[k].attempts))

LoginRecovery(r, k, c) ==
  /\ Live(k, "mfa_ticket")
  /\ Exists(tickets[k].user) /\ users[tickets[k].user].secret
  /\ Handle(r, {k}, <<Await, Match(k, c, tickets[k].attempts)>>)

\* Tickets sent by mail.
RequestVerify(r, j) ==
  /\ Valid(j)
  /\ ~users[tokens[j].user].verified
  /\ Handle(r, {}, <<Issue(tokens[j].user, "email_verify", NoOne)>>)

VerifyEmail(r, k) ==
  /\ Live(k, "email_verify")
  /\ Handle(r, {k}, <<Verified(tickets[k].user), Use(k)>>)

RequestPasswordReset(r, e) ==
  \E u \in ByEmail(e) : Handle(r, {}, <<Issue(u, "password_reset", NoOne)>>)

ConfirmPasswordReset(r, k, p) ==
  /\ Live(k, "password_reset")
  /\ Handle(r, {k}, <<Await, Reset(tickets[k].user, p, now), Use(k)>>)

OtpRequest(r, e) ==
  \E u \in ByEmail(e) : ~users[u].anon /\ Handle(r, {}, <<Issue(u, "otp", NoOne)>>)

OtpAuth(r, k) ==
  /\ Live(k, "otp")
  /\ LET u == tickets[k].user
         n == tickets[k].attempts
     IN IF n >= MaxAttempts THEN Handle(r, {}, <<Use(k)>>)
        ELSE IF ~Exists(u) THEN Handle(r, {}, <<Attempt(k, n + 1)>>)
        ELSE Handle(r, {k}, <<Use(k)>> \o (IF users[u].verified THEN <<>> ELSE <<Verified(u)>>)
                            \o SecondStep(u))

\* Sessions.
Logout(r, j) == Signed(j) /\ j \notin revoked /\ Handle(r, {}, <<Revoke(j)>>)
Refresh(r, j) == Valid(j) /\ Handle(r, {}, <<Sign(tokens[j].user, FALSE)>>)
Impersonate(r, u) == Exists(u) /\ Handle(r, {}, <<Await, Sign(u, TRUE)>>)

\* The second factor's setup, and its recovery codes.
TotpSetup(r, j) ==
  Valid(j) /\ Handle(r, {}, <<Totp(tokens[j].user, TRUE, users[tokens[j].user].enabled)>>)
TotpConfirm(r, j) ==
  /\ Valid(j)
  /\ users[tokens[j].user].secret
  /\ Handle(r, {}, <<Totp(tokens[j].user, TRUE, TRUE)>>)
TotpOff(r, u) == Handle(r, {}, <<Totp(u, FALSE, FALSE), Wipe(u, FALSE)>>)
TotpDisable(r, j) == Valid(j) /\ users[tokens[j].user].secret /\ TotpOff(r, tokens[j].user)
AdminDisableMfa(r, u) == Exists(u) /\ TotpOff(r, u)

Unminted == {c \in Codes : /\ codes[c].row = "new"
                           /\ ~\E s \in Pending : s.op = "mint" /\ s.code = c}
RegenerateCodes(r, j, c) ==
  /\ Valid(j) /\ c \in Unminted
  /\ LET u == tokens[j].user IN
     Handle(r, {}, <<Wipe(u, TRUE), Await, Mint(c, u), Lookup(c)>>)

\* Passkeys.
PasskeyOptions(r, j) ==
  Valid(j) /\ Handle(r, {}, <<Issue(tokens[j].user, "webauthn_reg", NoOne)>>)
PasskeyRegister(r, j, k) ==
  /\ Valid(j) /\ Live(k, "webauthn_reg") /\ tickets[k].user = tokens[j].user
  /\ Handle(r, {k}, <<Await, Use(k), Passkey(tokens[j].user)>>)
PasskeyLoginOptions(r, e) ==
  \E u \in ByEmail(e) : Handle(r, {}, <<Await, Issue(u, "webauthn_auth", NoOne)>>)
PasskeyLogin(r, k, u) ==
  /\ Live(k, "webauthn_auth")
  /\ IF u \in passkeys /\ Exists(u) THEN Handle(r, {k}, <<Await, Use(k), Sign(u, TRUE)>>)
                                    ELSE Handle(r, {}, <<Use(k)>>)

\* Sign-in with a provider.
Exchange(r, i, e, verified) == Handle(r, {}, <<Await, Profile(i, e, verified)>>)
MergeConfirm(r, k, p) ==
  /\ Live(k, "oauth2_merge")
  /\ LET u == tickets[k].user IN
     /\ Exists(u)
     /\ users[u].pw = p \/ \E j \in DOMAIN tokens : Signed(j) /\ tokens[j].user = u
     /\ Handle(r, {k}, <<Await, Link(tickets[k].identity, u)>>
                       \o (IF users[u].verified THEN <<>> ELSE <<Verified(u)>>)
                       \o <<Use(k), Sign(u, TRUE)>>)
Unlink(r, j, i) ==
  /\ Signed(j) /\ Exists(tokens[j].user)
  /\ links[i] = tokens[j].user
  /\ ~users[links[i]].anon \/ \E o \in Identities \ {i} : links[o] = links[i]
  /\ Handle(r, {}, <<Unlinked(i)>>)

AccountsTick == Tick /\ UNCHANGED <<accountTables, accepted, spent>>

AccountsCrash(p) ==
  /\ CrashLoop(p)
  /\ accepted' = [r \in Requests |-> IF Home[r] = p THEN {} ELSE accepted[r]]
  /\ UNCHANGED <<accountTables, spent>>

Running == \E r \in Requests : Statement(r) \/ Continue(r)
Mailed(r) == \E k \in DOMAIN tickets :
  \/ VerifyEmail(r, k) \/ OtpAuth(r, k)
  \/ \E p \in Passwords : ConfirmPasswordReset(r, k, p)
Mail(r) == \E e \in Emails : RequestPasswordReset(r, e) \/ OtpRequest(r, e)
Password(r) == \E e \in Emails, p \in Passwords : Login(r, e, p)
SignUp(r, typed) == \/ Anonymous(r)
                    \/ \E e \in Emails, p \in typed : Register(r, e, p)
Session(r) == \E j \in DOMAIN tokens : Logout(r, j) \/ Refresh(r, j) \/ RequestVerify(r, j)
Factor(r) ==
  \/ \E j \in DOMAIN tokens :
       \/ TotpSetup(r, j) \/ TotpConfirm(r, j) \/ TotpDisable(r, j)
       \/ \E c \in Codes : RegenerateCodes(r, j, c)
  \/ \E k \in DOMAIN tickets : \/ \E good \in BOOLEAN : LoginMfa(r, k, good)
                               \/ \E c \in Codes : LoginRecovery(r, k, c)
  \/ \E u \in Users : AdminDisableMfa(r, u) \/ Impersonate(r, u)
Key(r) ==
  \/ \E j \in DOMAIN tokens, k \in DOMAIN tickets : PasskeyRegister(r, j, k)
  \/ \E j \in DOMAIN tokens : PasskeyOptions(r, j)
  \/ \E k \in DOMAIN tickets, u \in Users : PasskeyLogin(r, k, u)
  \/ \E e \in Emails : PasskeyLoginOptions(r, e)
Provider(r, typed) ==
  \/ \E i \in Identities, e \in Emails, verified \in BOOLEAN : Exchange(r, i, e, verified)
  \/ \E k \in DOMAIN tickets, p \in typed : MergeConfirm(r, k, p)
  \/ \E j \in DOMAIN tokens, i \in Identities : Unlink(r, j, i)
  \/ \E j \in DOMAIN tokens, e \in Emails, p \in typed : PromoteAccount(r, j, e, p)

AccountsNext ==
  \/ Running
  \/ AccountsTick
  \/ \E p \in Procs : AccountsCrash(p)
  \/ \E r \in Requests :
       \/ SignUp(r, Passwords) \/ Password(r) \/ Mail(r) \/ Mailed(r) \/ Session(r)
       \/ Factor(r) \/ Key(r) \/ Provider(r, Passwords)
  \/ \E u \in Users : DeleteUser(u)

AccountsSpec == AccountsInit /\ [][AccountsNext]_accountVars

----------------------------------------------------------------------------
\* The columns of the account's rows hold what the schema gives them, and only the
\* requests of a process hold its turn.
AccountsTypeOK ==
  /\ \A u \in Users : /\ users[u].in \in {"no", "yes", "gone"}
                      /\ users[u].email \in Emails \cup {NoOne}
                      /\ users[u].enabled \in BOOLEAN /\ users[u].resetAt \in 0..MaxTime
  /\ \A i \in Identities : links[i] \in Users \cup {NoOne}
  /\ \A k \in DOMAIN tickets : tickets[k].attempts \in 0..(MaxAttempts + crashes)
  /\ revoked \subseteq DOMAIN tokens
  /\ \A p \in Procs : turn[p] \in {{}} \cup {{r} : r \in {x \in Requests : Home[x] = p}}

\* No two accounts share an address, however registrations, promotions and provider
\* sign-ins interleave: each looks the address up, waits for a hash and writes then.
EmailUnique ==
  \A u, v \in Users : Exists(u) /\ Exists(v) /\ users[u].email = users[v].email => u = v

\* Once a request that a ticket or a recovery code let in has finished, or the code was
\* wiped, that ticket or code lets nobody in again.
NoReplay ==
  [][\A r \in Requests : (accepted'[r] \ accepted[r]) \cap spent = {}]_accountVars

\* A token that is refused, for its age, a logout, a reset or a deleted account, is never
\* valid again, with one exception: a password reset takes the time before it waits for
\* the hash, and one that began before another and ends after it sets resetAt back.
LateReset(u) ==
  \E r \in Requests : /\ todo[r] # <<>> /\ todo'[r] # todo[r]
                       /\ Head(todo[r]).op = "reset" /\ Head(todo[r]).user = u
                       /\ Head(todo[r]).at < users[u].resetAt
RefusedStays ==
  [][\A j \in DOMAIN tokens : Valid(j)' => Valid(j) \/ LateReset(tokens[j].user)]_accountVars

\* What was used up or refused, ticket, code or token, lets nobody in again.
NothingRevives == NoReplay /\ RefusedStays

\* A token is accepted in the second it was signed for an account that stands.
SignedValid ==
  \A j \in DOMAIN tokens :
    /\ now = tokens[j].iat /\ j \notin revoked
    /\ Exists(tokens[j].user) /\ users[tokens[j].user].resetAt <= now
    => Valid(j)
=============================================================================
