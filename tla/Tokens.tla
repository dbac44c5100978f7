--------------------------------- MODULE Tokens ---------------------------------
(***************************************************************************)
(* API tokens: minted by an admin, verified in steps against tables that   *)
(* change meanwhile, revoked, pruned, and their uses counted in a buffer   *)
(* of each process (src/src/core/api-tokens.ts, src/src/core/sec.ts,       *)
(* src/src/api/api-tokens.ts, src/src/scripts/token.ts).                   *)
(***************************************************************************)
EXTENDS Integers, Sequences, FiniteSets, SequencesExt, FiniteSetsExt

CONSTANTS Tokens, Minters, Bearers, Revokers, TokenProcs,
          Lives,        \* lifetimes, at least a minute
          RowsKept,     \* rows stay this long once expired or revoked: 30 days
          MaxDay, MaxUses, MaxFlushes      \* for TLC

ASSUME TokensAssumption ==
  Lives \subseteq Nat \ {0} /\ RowsKept \in Nat /\ IsFiniteSet(TokenProcs)

VARIABLES day,
          jwt,          \* what a bearer holds: who minted it, when, until when
          tokenRow,     \* cogworks_api_tokens
          revocations,  \* cogworks_token_revocations
          minter,       \* cogworks_admin: there, and password_reset_at
          bearer,       \* a request with a token, and the step verifyAuthToken is at
          revoker,      \* a revoke, and the step it is at
          buffer,       \* of each process: uses not yet flushed
          flushes,      \* of each process: flushes under way, each with what it has yet to write
          revoked,      \* history: tokens whose revoke was answered
          touched,      \* history: tokens someone began to revoke
          uses, missed  \* history: requests built-in routes answered; those whose count was lost

tokenVars == <<day, jwt, tokenRow, revocations, minter, bearer, revoker, buffer, flushes,
               revoked, touched, uses, missed>>
tableVars == <<jwt, tokenRow, revocations, minter, revoker, revoked, touched>>
countVars == <<buffer, flushes, uses, missed>>

NotMinted == [by |-> "nobody", iat |-> 0, exp |-> 0]
NoRow == [there |-> FALSE, revokedAt |-> -1, count |-> 0]
Idle == [at |-> "idle", token |-> CHOOSE t \in Tokens : TRUE, stood |-> FALSE, asks |-> "api"]
Nothing == [t \in Tokens |-> 0]

TokensInit ==
  /\ day = 0 /\ jwt = [t \in Tokens |-> NotMinted] /\ tokenRow = [t \in Tokens |-> NoRow]
  /\ revocations = {} /\ minter = [a \in Minters |-> [there |-> TRUE, reset |-> 0]]
  /\ bearer = [b \in Bearers |-> Idle] /\ revoker = [r \in Revokers |-> Idle]
  /\ buffer = [p \in TokenProcs |-> Nothing] /\ flushes = [p \in TokenProcs |-> <<>>]
  /\ revoked = {} /\ touched = {} /\ uses = Nothing /\ missed = Nothing

----------------------------------------------------------------------------
\* mintApiToken, from the admin's request or the command line: signed, then inserted.
Mint(t, a, life) ==
  /\ jwt[t] = NotMinted /\ minter[a].there
  /\ jwt' = [jwt EXCEPT ![t] = [by |-> a, iat |-> day, exp |-> day + life]]
  /\ tokenRow' = [tokenRow EXCEPT ![t] = [NoRow EXCEPT !.there = TRUE]]
  /\ UNCHANGED <<day, revocations, minter, bearer, revoker, countVars, revoked, touched>>

\* revokeApiToken: the row is read, marked, and the token put on the list.
RevokeBegins(r, t) ==
  /\ revoker[r].at = "idle" /\ tokenRow[t].there
  /\ revoker' = [revoker EXCEPT ![r] = [Idle EXCEPT !.token = t,
                                                 !.at = IF tokenRow[t].revokedAt = -1 THEN "mark" ELSE "list"]]
  /\ touched' = touched \cup {t}
  /\ UNCHANGED <<day, jwt, tokenRow, revocations, minter, bearer, countVars, revoked>>

RevokeMarks(r) ==
  LET t == revoker[r].token IN
  /\ revoker[r].at = "mark" /\ revoker' = [revoker EXCEPT ![r].at = "list"]
  /\ tokenRow' = [tokenRow EXCEPT ![t].revokedAt = IF tokenRow[t].there THEN day ELSE @]
  /\ UNCHANGED <<day, jwt, revocations, minter, bearer, countVars, revoked, touched>>

RevokeLists(r) ==
  /\ revoker[r].at = "list" /\ revoker' = [revoker EXCEPT ![r] = Idle]
  /\ revocations' = revocations \cup {revoker[r].token}
  /\ revoked' = revoked \cup {revoker[r].token}
  /\ UNCHANGED <<day, jwt, tokenRow, minter, bearer, countVars, touched>>

\* The process dies in the middle of a revoke: it was not answered.
RevokeDies(r) ==
  /\ revoker[r].at # "idle" /\ revoker' = [revoker EXCEPT ![r] = Idle]
  /\ UNCHANGED <<day, jwt, tokenRow, revocations, minter, bearer, countVars, revoked, touched>>

\* pruneExpiredApiTokens; the counts of a row go with it.
Stale(t) ==
  /\ tokenRow[t].there
  /\ jwt[t].exp < day - RowsKept \/ tokenRow[t].revokedAt \in 0..(day - RowsKept - 1)
PruneTokens ==
  /\ \E t \in Tokens : Stale(t)
  /\ tokenRow' = [t \in Tokens |-> IF Stale(t) THEN NoRow ELSE tokenRow[t]]
  /\ missed' = [t \in Tokens |-> IF Stale(t) THEN missed[t] + tokenRow[t].count ELSE missed[t]]
  /\ UNCHANGED <<day, jwt, revocations, minter, bearer, revoker, buffer, flushes, uses, revoked, touched>>

\* The admin who minted is deleted, or gets a new password: setup-admin, and
\* forceLogoutAllAdmins for everyone.
DeleteMinter(a) ==
  /\ minter[a].there /\ minter' = [minter EXCEPT ![a].there = FALSE]
  /\ UNCHANGED <<day, jwt, tokenRow, revocations, bearer, revoker, countVars, revoked, touched>>

ResetMinters(A) ==
  /\ minter' = [a \in Minters |-> IF a \in A /\ minter[a].there THEN [minter[a] EXCEPT !.reset = day] ELSE minter[a]]
  /\ UNCHANGED <<day, jwt, tokenRow, revocations, bearer, revoker, countVars, revoked, touched>>

----------------------------------------------------------------------------
\* What a request asks for: an endpoint that takes any audience or the tokens' own ("api":
\* records, MCP), one that asks for another ("admin": whatever goes through getAdmin), or a
\* route of the operator's, which takes the sessions of users and administrators only ("custom").
AskedFor == {"api", "admin", "custom"}

\* verifyAuthToken of an API token: signature, audience and expiry, then three reads.
AnyReset(a, iat) == FALSE                                      \* mutant: a reset is not looked at
Outdated(a, iat) == minter[a].reset > iat
Gone(t) == ~minter[jwt[t].by].there \/ minter[jwt[t].by].reset > jwt[t].iat

Present(b, t, asks) ==
  /\ bearer[b].at = "idle" /\ jwt[t] # NotMinted /\ uses[t] < MaxUses
  /\ bearer' = [bearer EXCEPT ![b] =
       [at |-> IF asks = "api" /\ jwt[t].exp > day THEN "list" ELSE "refused", token |-> t,
        stood |-> t \notin revoked /\ ~Gone(t) /\ jwt[t].exp > day, asks |-> asks]]
  /\ UNCHANGED <<day, tableVars, countVars>>

Goes(b, from, passes, to) ==
  /\ bearer[b].at = from
  /\ bearer' = [bearer EXCEPT ![b].at = IF passes THEN to ELSE "refused"]
  /\ UNCHANGED <<day, tableVars, countVars>>

ChecksList(b) == Goes(b, "list", bearer[b].token \notin revocations, "row")
ChecksRow(b) ==
  LET row == tokenRow[bearer[b].token] IN
  Goes(b, "row", row.there /\ row.revokedAt = -1, "minter")
ChecksMinter(b) ==
  LET held == jwt[bearer[b].token] IN
  Goes(b, "minter", minter[held.by].there /\ ~Outdated(held.by, held.iat), "admitted")

----------------------------------------------------------------------------
\* recordApiTokenUsage, after a built-in route's handler, whatever its answer; the buffer is
\* full at once or flushed later.
Left(p) == buffer[p]                                           \* mutant: cleared when it is written
Taken(p) == Nothing

Flushed(p, now) ==
  IF now = Nothing THEN buffer' = [buffer EXCEPT ![p] = now] /\ flushes' = flushes
  ELSE /\ Len(flushes[p]) < MaxFlushes
       /\ flushes' = [flushes EXCEPT ![p] = Append(@, now)] /\ buffer' = [buffer EXCEPT ![p] = Taken(p)]

Counts(b, p) ==
  LET t == bearer[b].token  now == [buffer[p] EXCEPT ![t] = @ + 1] IN
  /\ bearer[b].at \in {"admitted", "refused"} /\ bearer[b].asks # "custom"
  /\ bearer' = [bearer EXCEPT ![b] = Idle]
  /\ uses' = [uses EXCEPT ![t] = @ + 1]
  /\ \/ Cardinality({x \in Tokens : now[x] > 0}) = Cardinality(Tokens) /\ Flushed(p, now)
     \/ buffer' = [buffer EXCEPT ![p] = now] /\ flushes' = flushes
  /\ UNCHANGED <<day, tableVars, missed>>

\* The operator's routes are dispatched before all that, and answer at once.
CustomAnswers(b) ==
  /\ bearer[b].at = "refused" /\ bearer[b].asks = "custom"
  /\ bearer' = [bearer EXCEPT ![b] = Idle]
  /\ UNCHANGED <<day, tableVars, countVars>>

FlushUsage(p) ==
  /\ buffer[p] # Nothing /\ Flushed(p, buffer[p])
  /\ UNCHANGED <<day, tableVars, bearer, uses, missed>>

\* A flush writes its rows one by one; a failed write is passed over, as is a row that is gone.
FlushRow(p, n, t, fails) ==
  LET count == flushes[p][n][t]  rest == [flushes[p][n] EXCEPT ![t] = 0]
      kept == tokenRow[t].there /\ ~fails IN
  /\ count > 0
  /\ flushes' = [flushes EXCEPT ![p] = IF rest = Nothing THEN RemoveAt(@, n) ELSE [@ EXCEPT ![n] = rest]]
  /\ tokenRow' = IF kept THEN [tokenRow EXCEPT ![t].count = @ + count] ELSE tokenRow
  /\ missed' = IF kept THEN missed ELSE [missed EXCEPT ![t] = @ + count]
  /\ UNCHANGED <<day, jwt, revocations, minter, bearer, revoker, buffer, uses, revoked, touched>>

\* What a process has not written in a crash is lost.
Unwritten(t) ==
  SumFunction([p \in TokenProcs |-> buffer[p][t] + SumFunction([n \in DOMAIN flushes[p] |-> flushes[p][n][t]])])
UsageCrash(p) ==
  /\ buffer[p] # Nothing \/ flushes[p] # <<>>
  /\ missed' = [t \in Tokens |-> missed[t] + buffer[p][t] + SumFunction([n \in DOMAIN flushes[p] |-> flushes[p][n][t]])]
  /\ buffer' = [buffer EXCEPT ![p] = Nothing] /\ flushes' = [flushes EXCEPT ![p] = <<>>]
  /\ UNCHANGED <<day, tableVars, bearer, uses>>

DayPasses == day < MaxDay /\ day' = day + 1 /\ UNCHANGED <<tableVars, bearer, countVars>>

Minting ==
  \/ \E t \in Tokens, a \in Minters, life \in Lives : Mint(t, a, life)
  \/ \E a \in Minters : DeleteMinter(a) \/ ResetMinters({a})
  \/ ResetMinters(Minters)
Revoking ==
  \/ \E r \in Revokers : RevokeMarks(r) \/ RevokeLists(r) \/ RevokeDies(r)
  \/ \E r \in Revokers, t \in Tokens : RevokeBegins(r, t)
  \/ PruneTokens
Verifying ==
  \/ \E b \in Bearers, t \in Tokens, asks \in AskedFor : Present(b, t, asks)
  \/ \E b \in Bearers : ChecksList(b) \/ ChecksRow(b) \/ ChecksMinter(b) \/ CustomAnswers(b)
Counting ==
  \/ \E b \in Bearers, p \in TokenProcs : Counts(b, p)
  \/ \E p \in TokenProcs : FlushUsage(p) \/ UsageCrash(p)
  \/ \E p \in TokenProcs, t \in Tokens, fails \in BOOLEAN :
       \E n \in DOMAIN flushes[p] : FlushRow(p, n, t, fails)

TokensNext == DayPasses \/ Minting \/ Revoking \/ Verifying \/ Counting
TokensSpec == TokensInit /\ [][TokensNext]_tokenVars

----------------------------------------------------------------------------
\* Whatever is revoked, pruned and reset while a request is verified: it is admitted only by
\* an endpoint that takes API tokens, with a token that, when it came, no answered revoke had
\* ended and whose minter stood; and refused only by an endpoint that takes none, or with a
\* token that expired, that someone began to revoke, or whose minter does not stand.
AdmitsLive ==
  \A b \in Bearers :
    /\ bearer[b].at = "admitted" => bearer[b].stood /\ bearer[b].asks = "api"
    /\ bearer[b].at = "refused" =>
         \/ bearer[b].asks # "api"
         \/ jwt[bearer[b].token].exp <= day \/ bearer[b].token \in touched \/ Gone(bearer[b].token)

\* And every request with a token that a built-in route answered is counted once, in a
\* buffer, a flush, the row, or as lost with a crash, a failed write or the row itself.
CountsUses == \A t \in Tokens : tokenRow[t].count + Unwritten(t) + missed[t] = uses[t]

TokensHonest == AdmitsLive /\ CountsUses
=============================================================================
