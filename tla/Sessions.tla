------------------------------ MODULE Sessions ------------------------------
(***************************************************************************)
(* The sessions of the auth-service: the tables "users" and                *)
(* "refresh_tokens" (prisma-setup/schema.prisma), the JWTs handed to       *)
(* clients, and every request handler and cron job that reads or writes    *)
(* them (auth.service.ts, user-deletion.service.ts,                        *)
(* token-cleanup.service.ts).                                              *)
(*                                                                         *)
(* A handler is a sequence of awaited Prisma calls.  Each call is one SQL  *)
(* statement (or one $transaction) and is one action here; between two     *)
(* awaits any other handler, a cron job or the clock may run, and what the *)
(* handler has read so far stays in req[p].  A request that is refused     *)
(* before its first write changes nothing and is not a step.               *)
(***************************************************************************)
EXTENDS Naturals, FiniteSets, Functions

CONSTANTS
    UserIds,    \* values of users.id
    Devices,    \* a device is its (user_agent, ip_address) pair
    TokenIds,   \* what randomBytes(32) may yield; never twice the same
    Procs,      \* request handlers in flight
    MaxTokens,  \* TOKEN_LIMITS.MAX_REFRESH_TOKENS_PER_USER
    Lifetime,   \* REFRESH_TOKEN.DAYS, in ticks of the clock
    MaxTime,    \* bound: the clock stops here
    Workload,   \* bound: the kinds of requests that are made
    Null        \* SQL's NULL and JavaScript's null

RequestKinds == {"sign_in", "refresh", "logout", "logout_all", "soft_delete",
                 "hard_delete", "update_user", "cron_tokens", "cron_users"}

ASSUME SessionsAssumption ==
    /\ MaxTokens \in Nat \ {0}
    /\ Lifetime \in Nat \ {0}
    /\ MaxTime \in Nat
    /\ Workload \subseteq RequestKinds
    /\ IsFiniteSet(Procs)
    /\ Null \notin Nat \cup UserIds \cup Devices \cup TokenIds

VARIABLES
    users,           \* the table users: id -> row
    refresh_tokens,  \* the table refresh_tokens: id -> row
    jwt,             \* the refresh JWTs signed and stored so far: tokenId -> claims
    req,             \* the handlers in flight: what each awaits and has read
    now              \* new Date()

vars == <<users, refresh_tokens, jwt, req, now>>

UserRow == [is_active : BOOLEAN, email_verified : BOOLEAN]

\* token is the id of the JWT whose bcrypt hash the row holds.
TokenRow == [user_id : UserIds, device : Devices, token : TokenIds,
             expires_at : Nat, created_at : Nat, last_used_at : Nat \cup {Null}]

\* userId and exp are claims of the JWT.  session is a history variable: the
\* sign-in the token descends from, named by the id of that sign-in's token.
Claims == [userId : UserIds, exp : Nat, session : TokenIds]

Steps == {"idle",
          "find_device", "delete_device", "find_active", "delete_evicted", "create",
          "find_token", "delete_expired", "touch", "rotate",
          "delete_token", "revoke_all", "deactivate", "delete_user",
          "update_user", "cleanup_unused"}

Request == [step : Steps, user : UserIds \cup {Null}, device : Devices \cup {Null},
            id : TokenIds \cup {Null}, read : SUBSET TokenIds]

Idle == [step |-> "idle", user |-> Null, device |-> Null, id |-> Null, read |-> {}]

TypeOK ==
    /\ DOMAIN users \subseteq UserIds
    /\ \A u \in DOMAIN users : users[u] \in UserRow
    /\ DOMAIN refresh_tokens \subseteq TokenIds
    /\ \A t \in DOMAIN refresh_tokens : refresh_tokens[t] \in TokenRow
    /\ DOMAIN jwt \subseteq TokenIds
    /\ \A t \in DOMAIN jwt : jwt[t] \in Claims
    /\ req \in [Procs -> Request]
    /\ now \in Nat

-----------------------------------------------------------------------------
(* The handlers' bookkeeping.                                              *)

Begin(p, kind, step, u, d, t) ==
    /\ kind \in Workload
    /\ req[p] = Idle
    /\ req' = [req EXCEPT ![p] =
                  [step |-> step, user |-> u, device |-> d, id |-> t, read |-> {}]]

At(p, step) == req[p].step = step

GoTo(p, step) == req' = [req EXCEPT ![p].step = step]

Return(p) == req' = [req EXCEPT ![p] = Idle]

\* Go on to step with what a findMany or findUnique has just read.
GoToWith(p, step, S) == req' = [req EXCEPT ![p].step = step, ![p].read = S]

-----------------------------------------------------------------------------
(* What the statements select and write.                                   *)

TokensOf(u) == {t \in DOMAIN refresh_tokens : refresh_tokens[t].user_id = u}

DeleteTokens(S) == refresh_tokens' = Restrict(refresh_tokens, DOMAIN refresh_tokens \ S)

\* expires_at < new Date()
Expired(t) == refresh_tokens[t].expires_at < now

\* expires_at > new Date(): at the instant of expiry a row is neither.
ActiveTokens(u) == {t \in TokensOf(u) : refresh_tokens[t].expires_at > now}

\* jsonwebtoken refuses a token from the instant exp on.
ValidJwt(t) == t \in DOMAIN jwt /\ now < jwt[t].exp

\* ORDER BY last_used_at ASC: PostgreSQL puts NULLs last.
SortsBefore(s, t) ==
    LET a == refresh_tokens[s].last_used_at
        b == refresh_tokens[t].last_used_at
    IN  IF b = Null THEN TRUE ELSE a # Null /\ a <= b

\* Variant: slice(0, length - MAX).
IsEvictedShort(S, active) ==
    /\ S \subseteq active
    /\ Cardinality(S) = Cardinality(active) - MaxTokens
    /\ \A s \in S, t \in active \ S : SortsBefore(s, t)

\* slice(0, length - MAX + 1) of the sorted active tokens; rows that tie may
\* come in any order, so several sets may qualify.
IsEvicted(S, active) ==
    /\ S \subseteq active
    /\ Cardinality(S) = (Cardinality(active) - MaxTokens) + 1
    /\ \A s \in S, t \in active \ S : SortsBefore(s, t)

\* The OR of cleanupUnusedTokens, called with daysOld = REFRESH_TOKEN.DAYS.
Unused(t) ==
    LET row == refresh_tokens[t]
    IN  \/ row.last_used_at # Null /\ row.last_used_at + Lifetime < now
        \/ row.last_used_at = Null /\ row.created_at + Lifetime < now

\* A user row disappears with its tokens: onDelete: Cascade.
DeleteUsers(U) ==
    /\ users' = Restrict(users, DOMAIN users \ U)
    /\ DeleteTokens(UNION {TokensOf(u) : u \in U})

\* Store row under the new id t, in place of the rows gone, and sign its JWT.
PutToken(gone, t, row, claims) ==
    /\ refresh_tokens' = [i \in (DOMAIN refresh_tokens \ gone) \cup {t} |->
                              IF i = t THEN row ELSE refresh_tokens[i]]
    /\ jwt' = [i \in DOMAIN jwt \cup {t} |-> IF i = t THEN claims ELSE jwt[i]]

NewRow(u, d, t) ==
    [user_id |-> u, device |-> d, token |-> t, expires_at |-> now + Lifetime,
     created_at |-> now, last_used_at |-> Null]

\* Variants: the new JWT's hash is not stored; last_used_at is left to touch.
RotatedRowOldHash(old, new, d) ==
    [refresh_tokens[old] EXCEPT !.device = d, !.expires_at = now + Lifetime,
                                !.last_used_at = now]
RotatedRowOldUse(old, new, d) ==
    [refresh_tokens[old] EXCEPT !.token = new, !.device = d,
                                !.expires_at = now + Lifetime]

\* The data of rotateTokens' update.
RotatedRow(old, new, d) ==
    [refresh_tokens[old] EXCEPT !.token = new, !.device = d,
                                !.expires_at = now + Lifetime, !.last_used_at = now]

-----------------------------------------------------------------------------
(* Sign-in: signIn and generateTokenPair.                                  *)

\* Variant that forgets is_active.
MaySignInVerified(u) == users[u].email_verified

MaySignIn(u) == users[u].is_active /\ users[u].email_verified

\* Variant that drops deviceInfo on the way to generateTokenPair.
SignInNoDevice(p, u, d) ==
    /\ u \in DOMAIN users
    /\ MaySignIn(u)
    /\ Begin(p, "sign_in", "find_device", u, Null, Null)
    /\ UNCHANGED <<users, refresh_tokens, jwt, now>>

\* findUnique, the checks and bcrypt.compare; a refused sign-in writes nothing.
SignIn(p, u, d) ==
    /\ u \in DOMAIN users
    /\ MaySignIn(u)
    /\ Begin(p, "sign_in", "find_device", u, d, Null)
    /\ UNCHANGED <<users, refresh_tokens, jwt, now>>

FindDeviceTokens(p) ==
    /\ At(p, "find_device")
    /\ LET S == {t \in TokensOf(req[p].user) : refresh_tokens[t].device = req[p].device}
       IN  GoToWith(p, IF S = {} THEN "find_active" ELSE "delete_device", S)
    /\ UNCHANGED <<users, refresh_tokens, jwt, now>>

DeleteDeviceTokens(p) ==
    /\ At(p, "delete_device")
    /\ DeleteTokens(req[p].read)
    /\ GoToWith(p, "find_active", {})
    /\ UNCHANGED <<users, jwt, now>>

\* cleanupExistingDeviceToken swallows a database error and sign-in goes on.
DeviceCleanupFails(p) ==
    /\ req[p].step \in {"find_device", "delete_device"}
    /\ GoToWith(p, "find_active", {})
    /\ UNCHANGED <<users, refresh_tokens, jwt, now>>

FindActiveTokens(p) ==
    /\ At(p, "find_active")
    /\ LET active == ActiveTokens(req[p].user)
       IN  IF Cardinality(active) >= MaxTokens
           THEN \E S \in SUBSET active :
                    IsEvicted(S, active) /\ GoToWith(p, "delete_evicted", S)
           ELSE GoTo(p, "create")
    /\ UNCHANGED <<users, refresh_tokens, jwt, now>>

DeleteEvictedTokens(p) ==
    /\ At(p, "delete_evicted")
    /\ DeleteTokens(req[p].read)
    /\ GoToWith(p, "create", {})
    /\ UNCHANGED <<users, jwt, now>>

\* refreshToken.create; without the user's row the foreign key refuses it.
CreateToken(p) ==
    /\ At(p, "create")
    /\ LET u == req[p].user
       IN  IF u \in DOMAIN users
           THEN \E t \in TokenIds \ DOMAIN jwt :
                   PutToken({}, t, NewRow(u, req[p].device, t),
                            [userId |-> u, exp |-> now + Lifetime, session |-> t])
           ELSE UNCHANGED <<refresh_tokens, jwt>>
    /\ Return(p)
    /\ UNCHANGED <<users, now>>

-----------------------------------------------------------------------------
(* Refresh: refreshToken, updateTokenUsage and rotateTokens.               *)

Refresh(p, t, d) ==
    /\ ValidJwt(t)
    /\ Begin(p, "refresh", "find_token", Null, d, t)
    /\ UNCHANGED <<users, refresh_tokens, jwt, now>>

\* Without a row the answer is REFRESH_TOKEN_NOT_FOUND.
FindToken(p) ==
    /\ At(p, "find_token")
    /\ LET t == req[p].id
       IN  CASE t \notin DOMAIN refresh_tokens -> Return(p)
             [] t \in DOMAIN refresh_tokens /\ Expired(t) -> GoTo(p, "delete_expired")
             [] OTHER -> req' = [req EXCEPT ![p].step = "touch",
                                            ![p].user = refresh_tokens[t].user_id,
                                            ![p].read = {refresh_tokens[t].token}]
    /\ UNCHANGED <<users, refresh_tokens, jwt, now>>

\* TOKEN_EXPIRED, or P2025 when the row has gone meanwhile.
DeleteExpiredToken(p) ==
    /\ At(p, "delete_expired")
    /\ DeleteTokens({req[p].id})
    /\ Return(p)
    /\ UNCHANGED <<users, jwt, now>>

\* bcrypt.compare of the presented token with the hash that was read: a
\* mismatch is taken for theft and revokes every token of the user.
TouchToken(p) ==
    /\ At(p, "touch")
    /\ LET t == req[p].id
       IN  CASE t \notin req[p].read ->
                    /\ DeleteTokens(TokensOf(req[p].user))
                    /\ Return(p)
             [] t \in req[p].read /\ t \in DOMAIN refresh_tokens ->
                    /\ refresh_tokens' = [refresh_tokens EXCEPT
                                             ![t].last_used_at = now,
                                             ![t].device = req[p].device]
                    /\ GoToWith(p, "rotate", {})
             [] OTHER -> Return(p) /\ UNCHANGED refresh_tokens   \* P2025
    /\ UNCHANGED <<users, jwt, now>>

\* Variants: a create that leaves the old row; an upsert that needs no old row.
RotateTokenByCreate(p) ==
    /\ At(p, "rotate")
    /\ LET old == req[p].id
       IN  IF old \in DOMAIN refresh_tokens
           THEN \E new \in TokenIds \ DOMAIN jwt :
                   PutToken({}, new, RotatedRow(old, new, req[p].device),
                            [jwt[old] EXCEPT !.exp = now + Lifetime])
           ELSE UNCHANGED <<refresh_tokens, jwt>>
    /\ Return(p)
    /\ UNCHANGED <<users, now>>

RotateTokenByUpsert(p) ==
    /\ At(p, "rotate")
    /\ \E new \in TokenIds \ DOMAIN jwt :
          PutToken({req[p].id}, new, NewRow(req[p].user, req[p].device, new),
                   [jwt[req[p].id] EXCEPT !.exp = now + Lifetime])
    /\ Return(p)
    /\ UNCHANGED <<users, now>>

\* One UPDATE gives the row a new primary key; P2025 when no row has the old one.
RotateToken(p) ==
    /\ At(p, "rotate")
    /\ LET old == req[p].id
       IN  IF old \in DOMAIN refresh_tokens
           THEN \E new \in TokenIds \ DOMAIN jwt :
                   PutToken({old}, new, RotatedRow(old, new, req[p].device),
                            [jwt[old] EXCEPT !.exp = now + Lifetime])
           ELSE UNCHANGED <<refresh_tokens, jwt>>
    /\ Return(p)
    /\ UNCHANGED <<users, now>>

-----------------------------------------------------------------------------
(* Ending sessions: logout, logout-all, and deletion of the account.  The   *)
(* caller's access token and permission (canUserPerformActionOnUser) are    *)
(* checked on rows this module does not hold, so any target may be chosen.  *)

Logout(p, t) ==
    /\ ValidJwt(t)
    /\ Begin(p, "logout", "delete_token", Null, Null, t)
    /\ UNCHANGED <<users, refresh_tokens, jwt, now>>

\* delete by id: P2025, and an error to the client, when the row has gone.
DeleteToken(p) ==
    /\ At(p, "delete_token")
    /\ DeleteTokens({req[p].id})
    /\ Return(p)
    /\ UNCHANGED <<users, jwt, now>>

IsActiveUser(u) == u \in DOMAIN users /\ users[u].is_active

LogoutAll(p, u) ==
    /\ IsActiveUser(u)
    /\ Begin(p, "logout_all", "revoke_all", u, Null, Null)
    /\ UNCHANGED <<users, refresh_tokens, jwt, now>>

RevokeAll(p) ==
    /\ At(p, "revoke_all")
    /\ DeleteTokens(TokensOf(req[p].user))
    /\ Return(p)
    /\ UNCHANGED <<users, jwt, now>>

SoftDelete(p, u) ==
    /\ IsActiveUser(u)
    /\ Begin(p, "soft_delete", "deactivate", u, Null, Null)
    /\ UNCHANGED <<users, refresh_tokens, jwt, now>>

\* One $transaction: both writes, or neither when the user has gone (P2025).
Deactivate(p) ==
    /\ At(p, "deactivate")
    /\ IF req[p].user \in DOMAIN users
       THEN /\ DeleteTokens(TokensOf(req[p].user))
            /\ users' = [users EXCEPT ![req[p].user].is_active = FALSE]
       ELSE UNCHANGED <<users, refresh_tokens>>
    /\ Return(p)
    /\ UNCHANGED <<jwt, now>>

\* Unlike the others, hardDeleteUser accepts an inactive target.
HardDelete(p, u) ==
    /\ u \in DOMAIN users
    /\ Begin(p, "hard_delete", "delete_user", u, Null, Null)
    /\ UNCHANGED <<users, refresh_tokens, jwt, now>>

DeleteUser(p) ==
    /\ At(p, "delete_user")
    /\ DeleteUsers({req[p].user})
    /\ Return(p)
    /\ UNCHANGED <<jwt, now>>

\* updateUser as far as sessions see it: an ADMIN sets email_verified.
UpdateUser(p, u) ==
    /\ IsActiveUser(u)
    /\ Begin(p, "update_user", "update_user", u, Null, Null)
    /\ UNCHANGED <<users, refresh_tokens, jwt, now>>

WriteUser(p) ==
    /\ At(p, "update_user")
    /\ IF req[p].user \in DOMAIN users
       THEN \E b \in BOOLEAN : users' = [users EXCEPT ![req[p].user].email_verified = b]
       ELSE UNCHANGED users
    /\ Return(p)
    /\ UNCHANGED <<refresh_tokens, jwt, now>>

-----------------------------------------------------------------------------
(* The cron jobs.                                                          *)

\* dailyCleanup.  One deleteMany removes every expired row, so the batch loop
\* around it has nothing left to do on a second round.
DailyCleanup ==
    /\ "cron_tokens" \in Workload
    /\ DeleteTokens({t \in DOMAIN refresh_tokens : Expired(t)})
    /\ UNCHANGED <<users, jwt, req, now>>

\* weeklyDeepCleanup awaits cleanupExpiredTokens, then cleanupUnusedTokens.
WeeklyCleanup(p) ==
    /\ Begin(p, "cron_tokens", "cleanup_unused", Null, Null, Null)
    /\ DeleteTokens({t \in DOMAIN refresh_tokens : Expired(t)})
    /\ UNCHANGED <<users, jwt, now>>

CleanupUnused(p) ==
    /\ At(p, "cleanup_unused")
    /\ DeleteTokens({t \in DOMAIN refresh_tokens :
                        Unused(t) /\ refresh_tokens[t].expires_at > now})
    /\ Return(p)
    /\ UNCHANGED <<users, jwt, now>>

\* cleanupUnverifiedUsers: every account here was created more than
\* EMAIL_VERIFICATION_TOKEN.MINUTES before the model's time 0.
CleanupUnverifiedUsers ==
    /\ "cron_users" \in Workload
    /\ DeleteUsers({u \in DOMAIN users : ~users[u].email_verified})
    /\ UNCHANGED <<jwt, req, now>>

-----------------------------------------------------------------------------
(* A database error, or the death of the process, ends a handler between   *)
(* two statements; the clock runs.                                         *)

Fail(p) ==
    /\ req[p] # Idle
    /\ Return(p)
    /\ UNCHANGED <<users, refresh_tokens, jwt, now>>

Tick ==
    /\ now < MaxTime
    /\ now' = now + 1
    /\ UNCHANGED <<users, refresh_tokens, jwt, req>>

Init ==
    /\ users \in [UserIds -> [is_active : {TRUE}, email_verified : BOOLEAN]]
    /\ refresh_tokens = [t \in {} |-> Null]
    /\ jwt = [t \in {} |-> Null]
    /\ req = [p \in Procs |-> Idle]
    /\ now = 0

SignInStep(p) ==
    \/ \E u \in UserIds, d \in Devices : SignIn(p, u, d)
    \/ FindDeviceTokens(p)
    \/ DeleteDeviceTokens(p)
    \/ DeviceCleanupFails(p)
    \/ FindActiveTokens(p)
    \/ DeleteEvictedTokens(p)
    \/ CreateToken(p)

RefreshStep(p) ==
    \/ \E t \in TokenIds, d \in Devices : Refresh(p, t, d)
    \/ FindToken(p)
    \/ DeleteExpiredToken(p)
    \/ TouchToken(p)
    \/ RotateToken(p)

EndStep(p) ==
    \/ \E t \in TokenIds : Logout(p, t)
    \/ DeleteToken(p)
    \/ \E u \in UserIds : LogoutAll(p, u)
    \/ RevokeAll(p)

AccountStep(p) ==
    \/ \E u \in UserIds : SoftDelete(p, u)
    \/ Deactivate(p)
    \/ \E u \in UserIds : HardDelete(p, u)
    \/ DeleteUser(p)
    \/ \E u \in UserIds : UpdateUser(p, u)
    \/ WriteUser(p)

CronStep ==
    \/ DailyCleanup
    \/ \E p \in Procs : WeeklyCleanup(p)
    \/ \E p \in Procs : CleanupUnused(p)
    \/ CleanupUnverifiedUsers

Next ==
    \/ \E p \in Procs : SignInStep(p) \/ RefreshStep(p) \/ EndStep(p) \/ AccountStep(p)
    \/ CronStep
    \/ \E p \in Procs : Fail(p)
    \/ Tick

Spec == Init /\ [][Next]_vars

-----------------------------------------------------------------------------
(* Properties.                                                             *)

\* A session never forks: however refreshes of one token race with each other
\* and with logouts, at most one row descends from one sign-in.
OneTokenPerSession ==
    \A s, t \in DOMAIN refresh_tokens :
        jwt[s].session = jwt[t].session => s = t

\* A refresh that presents a token the service signed never runs into the
\* branch of refreshToken that calls it theft and revokes the user's tokens.
NeverTakenForTheft ==
    \A p \in Procs : At(p, "touch") => req[p].id \in req[p].read

\* cleanupUnusedTokens(REFRESH_TOKEN.DAYS) never logs out a live session: a
\* row unused for as long as a token lives has expired already.
UnusedCleanupSparesLiveSessions ==
    \A t \in DOMAIN refresh_tokens : Unused(t) => refresh_tokens[t].expires_at <= now

\* enforceTokenLimit reads before generateTokenPair writes, so concurrent
\* sign-ins can overshoot MAX_REFRESH_TOKENS_PER_USER; sign-ins alone never do
\* by more than the number of other handlers in flight.  A refresh voids even
\* this: it changes the id of a row between its choice and its deletion.
SessionLimitUpToRaces ==
    \A u \in UserIds : Cardinality(ActiveTokens(u)) < MaxTokens + Cardinality(Procs)

\* A deactivated account has no more sessions than the sign-ins that were past
\* their is_active check when softDeleteUser committed; none of them is left
\* when requests do not overlap.
DeactivatedOnlyKeepsRacingSignIns ==
    \A u \in DOMAIN users : ~users[u].is_active =>
        Cardinality(TokensOf(u)) < Cardinality(Procs)

-----------------------------------------------------------------------------
(* The ledger of sessions these tables implement.                          *)

IsOpen(s) == \E t \in DOMAIN refresh_tokens : jwt[t].session = s

\* A session is named by the token id its sign-in created.
SessionStatus ==
    [s \in TokenIds |->
        IF s \notin DOMAIN jwt THEN "new"
        ELSE IF jwt[s].session # s THEN "new"
        ELSE IF IsOpen(s) THEN "open" ELSE "ended"]

SessionOwner ==
    [s \in TokenIds |->
        IF s \notin DOMAIN jwt THEN Null
        ELSE IF jwt[s].session # s THEN Null
        ELSE jwt[s].userId]

Ledger == INSTANCE SessionLedger WITH
    SessionIds <- TokenIds,
    accounts <- DOMAIN users,
    status <- SessionStatus,
    owner <- SessionOwner

\* Every behaviour of the handlers is a behaviour of the ledger: in particular
\* a session that logout, logout-all, eviction, deletion or a cleanup has ended
\* is not brought back by a refresh that had already read its row.
ImplementsLedger == Ledger!Spec
=============================================================================
