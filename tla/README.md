# demo-t3: a verification of its session, account and client protocols

This directory models the parts of demo-t3 whose correctness depends on the
order in which things happen: rows read before an `await` and written after it,
cron jobs under running requests, timers, queues, messages and traffic shifts.
The modules are TLA+; TLC checks them on small instances and the TLA+ proof
system proves the theorems of the `*Proofs` modules for every instance.

Paths below are relative to the repository's root.

## 1. The system

demo-t3 is an Nx monorepo: a React client, a NestJS gateway, an authentication
service, an e-mail service, and the scripts that deploy them.

| Component | State | Operations | Talks to |
|---|---|---|---|
| **Sessions** (`apps/auth-service`) | PostgreSQL tables `users`, `refresh_tokens` | sign-in, refresh (rotation), logout, logout-all, soft and hard delete, update, daily and weekly token clean-up, monthly account clean-up | gateway (HTTP) |
| **Accounts** (`apps/auth-service`) | `users`, Redis keys `email:verification:*` | register, verify e-mail, re-registration of an expired account | Redis, RabbitMQ |
| **Permissions** (`apps/auth-service`) | none (role and activity of two rows) | `extractUserFromAccessToken`, `canUserPerformActionOnUser` | |
| **E-mail delivery** (`apps/email-service`, `modules/messaging` of auth-service) | events not yet published, the queue, the message in hand | emit, publish, consume, send or save, acknowledge or requeue | RabbitMQ, SMTP |
| **Gateway** (`apps/server-nest`) | Redis cache of verified access tokens, cookies of the client | sign-in, refresh, logout, profile, update, register, verify e-mail, guards, relay of errors | auth-service with a 5 s timeout, Redis |
| **Client token refresh** (`apps/client-mx`) | `isRefreshing`, `failedQueue`, `hasRefreshFailed`, `lastRefreshError`, one timer | answer to a 401, proactive refresh, start, stop, reset | gateway |
| **Client session** (`apps/client-mx`) | the user and the `session_expires` cookie | login, start-up, logout, refresh failure | client token refresh |
| **Storefront** (`apps/client-mx`, `server-nest`) | cart, pages of products, modal and toast with their reset timers | edit, order, paginate, open, close | gateway |
| **Deployment** (`.github/scripts`) | blue and green environments, images, HAProxy weights, the `current` link | deploy, health wait, shift, roll back, stop; clean-up of Docker, renewal of certificates | HAProxy, Docker |
| **Errors** (`libs/models`, the exception filters) | none | code to status, text to code | every service |
| **UI, monitoring, backups** | none that the program reads back | | |

### What is hard

* **Interleaving.** Every handler of the auth-service is a chain of awaited
  Prisma calls with no transaction around it (one exception, soft delete). Between
  two calls any other request, replica or cron job may run. What a handler read is stale when it writes.
* **Time.** A token expires by the JWT's `exp`, by `expires_at < now` in the
  refresh and the clean-up, and by `expires_at > now` in the session limit.
* **Failure.** Any call may fail half-way through a handler; one failure
  (`cleanupExistingDeviceToken`) is swallowed on purpose.
* **Delivery.** RabbitMQ redelivers; `emit` is fire and forget; the gateway
  gives up after 5 s on calls that may still commit.
* **Callbacks and timers.** The client queues requests while a refresh is under
  way and re-arms a timer that it may lose the handle of.

### What would make each component correct

* **Sessions**: a session (the chain of refresh tokens that descends from one
  sign-in) never forks and never comes back once it has ended; a client that behaves is never taken for a thief; the
  session limit holds; deactivation leaves no session; clean-ups only remove what is dead.
* **Accounts**: a verified account is never deleted by a registration; a
  verification token works once; a registration can be completed or repeated.
* **Gateway**: the browser's cookies are the session in the database, however the
  requests of its tabs overlap; a logout that succeeded has ended the session; a
  stale access token changes nothing; every request is answered.
* **E-mail delivery**: every registration is mailed, about once; a
  message is acknowledged only after its mail was sent.
* **Client**: every request is answered; one refresh at a time; nothing
  refreshes after logout; a failed refresh ends the session.
* **Deployment**: there is always a way through to a healthy nginx and a healthy gateway; the symlink names
  the environment in use; what goes into service is the commit deployed; the script ends.
* **Storefront**: what an answer clears from the cart was ordered; the list is a
  prefix of the products; nothing is shown blank.

## 2. Plan

Built, in this order:

1. `Sessions`, `SessionLedger`, `SessionsProofs`, `SessionLedgerProofs`: the
   tables and every handler and cron job on them; the abstract ledger; type
   correctness, every safety invariant of the runs and the refinement proved,
   and from the refinement what logout and revocation guarantee.
2. `ClientSession`, `ClientSessionProofs`: the client's refresh manager,
   interceptor and user manager, with liveness under fairness of network
   answers and timers. The refresh lock and the discipline of its queue proved.
3. `Accounts`, `AccountsProofs`: registration, verification tokens in Redis,
   re-registration and administration. Type correctness, unique addresses, no
   limbo, the survival of fresh accounts and verification by the right link proved.
4. `EmailDelivery`, `DeliveryPromise`, `EmailDeliveryProofs`: from the event to the
   acknowledgement, and the abstract promise it implements. Everything but the liveness proved.
5. `Errors`, `Gateway`, `GatewayProofs`: cookies, cache, lost answers and the relay of errors,
   with the access token checks of auth-service and its permissions. Everything
   proved but the liveness, and that this view of the auth-service implements the ledger too.
6. `BlueGreen`, `BlueGreenProofs`: the deployment. Everything but the liveness proved.
7. `Storefront`, `StorefrontProofs`: cart, orders, list, dialogs and toasts. Everything proved.

How they compose: `Gateway` treats a call of the auth-service, all but `updateUser`, as one step whose
outcomes are those that `Sessions` and `Accounts` allow; `Accounts` ends where it
emits an event, `EmailDelivery` begins there; `ClientSession` and `Storefront` are two
halves of one page that share nothing but the user.

Left: the rows of the permission table that do not touch state, the user's own
update, and two deployments at once. What the prover cannot reach is in section 10.

## 3. Sessions

### State and actions

`Sessions.tla` holds the two tables as partial functions from ids to rows
(`users`, `refresh_tokens`), the JWTs signed so far (`jwt`), the handlers in
flight (`req`) and the clock (`now`).

* One Prisma call is one SQL statement and is one action. Between two awaits a
  handler waits in `req[p]` with what it has read: the step it is at, the user,
  the device, the token id and the ids read. `SignIn` is the handler's first
  read and checks; `FindDeviceTokens` and `DeleteDeviceTokens` are
  `cleanupExistingDeviceToken`; `FindActiveTokens` and `DeleteEvictedTokens`
  are `enforceTokenLimit`; `CreateToken` is the insert of `generateTokenPair`.
  `Refresh`, `FindToken`, `DeleteExpiredToken`, `TouchToken` and `RotateToken`
  are `refreshToken` with `updateTokenUsage` and `rotateTokens`.
  `Logout`/`DeleteToken`, `LogoutAll`/`RevokeAll`, `SoftDelete`/`Deactivate`,
  `HardDelete`/`DeleteUser` and `UpdateUser`/`WriteUser` are the check and the
  write of the handlers they are named after; `DailyCleanup`, `WeeklyCleanup`
  with `CleanupUnused`, and `CleanupUnverifiedUsers` are the cron jobs.
* A request refused before its first write changes nothing and is not a step.
* `Fail` ends a handler between any two calls: a database error, a lost
  connection or the death of the process. `DeviceCleanupFails` is the one error the code swallows.
* `Tick` lets time pass at any moment, so a token may expire between any two calls.

Choices that a reader should know:

* **A statement is atomic** at PostgreSQL's READ COMMITTED level. The
  `$transaction` of `softDeleteUser` is one action as well: its `deleteMany` and its
  `update` do not conflict with the insert of a concurrent sign-in (the insert takes
  `FOR KEY SHARE` on the user's row, the update `FOR NO KEY UPDATE`), so a token
  committed between them survives, exactly as one created just after the transaction does.
* **Primary keys move.** `rotateTokens` updates the `id` of the row. `PutToken`
  therefore removes one id and adds another in one step.
* **NULL order.** `orderBy: { last_used_at: 'asc' }` is PostgreSQL's ascending
  order, in which NULLs come last (`SortsBefore`). Rows that tie are in no
  particular order: `IsEvicted` allows every choice.
* **The JWT and the row expire at the same tick.** In the code the JWT's `exp` is
  the earlier one by the time `bcrypt.hash` takes, rounded down to a second; `Tick` may
  fall between the check of the JWT and the read of the row, which is the only way to reach the branch
  `TOKEN_EXPIRED` of `refreshToken` in the program too.
* **The hash comparison** is the identity of the JWT. bcrypt reads the first 72
  bytes only, so it may also accept another JWT of the same user; for a JWT
  the service signed the row read holds its own hash (`NeverTakenForTheft`), so the difference never shows.
* **Access tokens and permissions** are not in this module: any user that the
  handler's own checks admit may be the target of a request.
* **Days.** `cleanupUnusedTokens` subtracts calendar days; the containers run in UTC, where a day is 24 hours.
* `cleanupExpiredTokens` loops while a batch of exactly 1000 was deleted; its
  statement has no limit, so the second round is a clean-up like any other.

### The abstract specification

`SessionLedger.tla` knows accounts and sessions, no tokens: a session is new,
open or ended; it opens once, on an account that exists, and may end others as it does; open sessions may end
together; an account that goes takes its sessions along. `Sessions` maps a
session to the JWT of its sign-in (`jwt[t].session` follows a token through its
rotations) and says a session is open while some row descends from it.
`ImplementsLedger` is the refinement: the rotation of a row that a logout, an
eviction or a deletion has removed meanwhile must fail, never re-create it.
`Gateway`, whose calls that touch a session are one step each and may be served after the gateway gave up on
them, is proved to implement the same ledger (section 6), so the two views of the service agree on it.

### Properties and runs

All runs use `MCSessions` and model values for users, devices, tokens and
handlers, with symmetry over them (no liveness is checked).

| Run | Instance | Checks | Shows |
|---|---|---|---|
| `session_refresh` | 1 user, 1 device, 3 tokens, 2 handlers, lifetime 1, clock to 2 | `TypeOK`, `OneTokenPerSession`, `NeverTakenForTheft`, `UnusedCleanupSparesLiveSessions`, `ImplementsLedger` | races of refreshes with each other, sign-in, logout, revocation, deletion, cron and expiry |
| `session_accounts` | 1 user, 2 devices, limit 1, 4 tokens, 3 handlers, no clock, no refreshes | `SessionLimitUpToRaces`, `DeactivatedOnlyKeepsRacingSignIns` | sign-ins race with each other and with deactivation, deletion, update and account clean-up: the overshoot of the limit, and what is left on a deactivated account, are bounded by the handlers |

The bounds. Two handlers are enough for every race of two requests, and the
clean-ups run without a handler of their own; three are used where the bound
itself counts handlers. Three tokens let one session be created and rotated twice, or two
sessions live at once, one of them rotated. One more tick than the lifetime lets a
token expire, be rotated at its last instant, and be found by the clean-up; expiry is reached together with the
refinement, so that a row at its last instant is refreshed, counted and cleaned up under `ImplementsLedger`. `Workload` restricts which requests a run
makes; the runs together use all of them. A run stops when the supply of
token ids and ticks is used up, hence `CHECK_DEADLOCK FALSE` in the runs in which nothing else remains to be done.

### Worth knowing

* A refresh between the choice of a victim of the limit and its deletion renames the
  victim; the deletion by id misses it. Repeated, this adds sessions beyond the limit
  (`README.md:202` speaks of a limit per user). Concurrent sign-ins alone exceed it
  too, since both count before either creates, but by less than their number.
* A session that was never refreshed is evicted last, because PostgreSQL sorts NULL last; the test
  `auth-token-management.service.test.ts:234` calls NULL the oldest, but mocks the database's answer.
* The theft branch of `refreshToken` (lines 246 to 254) cannot be reached with a token the
  service signed, because rotation changes the row's id and a rotated token finds no row.
* `cleanupUnusedTokens(REFRESH_TOKEN.DAYS)` never has a row to delete.

### Proofs

`SessionsProofs.tla` proves, for any sets of users, devices, tokens and
handlers (the handlers finite) and any positive limit and lifetime (`SessionsAssumption`), that
`TypeOK`, `OneTokenPerSession`, `NeverTakenForTheft`,
`UnusedCleanupSparesLiveSessions` and `DeactivatedOnlyKeepsRacingSignIns` are invariants of `Spec`, and
`SessionLimitUpToRaces` where no refresh is in the workload. (`DeactivatedOnlyKeepsRacingSignIns` is proved with refreshes too.)

None of them is inductive alone. `IInv` adds what they rest on:

* `HandlersOK`: a handler in a refresh holds the id of a signed JWT; in a
  sign-in, a user and a device; at `touch`, the hash of the very token it presents.
* `RowOK`: a row holds the hash of the JWT with its own id, belongs to that
  JWT's user, who exists, and expires at most one lifetime from now and at most one lifetime after its last use.
* `ClaimsOK`: a session is rooted in the JWT of its sign-in, of the same user.

Every action changes the tables in one of six ways (`TableStep`): it keeps the
tokens, removes some, creates one, touches one, rotates one, or removes users. `EveryStepIsGood`
sorts the actions into the six ways and shows `HandlersOK` kept;
`TableStepKeepsTables` shows `TablesOK` kept by each way.
`SessionLedgerProofs.tla` reuses the same split to prove `LedgerImplemented`:
each way is one step of the ledger or a stutter. From the ledger follows what a user relies on:

* `NoReplay`: an id of a signed JWT that has left the table never returns (one
  conjunct of the six ways: a row is created only under an id that no JWT has yet).
* `LogoutIsEffective` and `RevocationIsEffective`: the delete of a logout ends the
  whole session, because `OneTokenPerSession` leaves no second row of it; `RevokeAll`,
  `Deactivate` and `DeleteUser` end every session the account has opened so far.
* `EndedForGood`: a session that is over is over in all later states, whatever was in flight.

Two invariants count rows and handlers, and have a strengthening each beside `IInv`:

* `RoomOK`: the tokens of a deactivated account and the sign-ins to it that are under way are
  together fewer than the handlers. Deactivation leaves no token and occupies a
  handler of its own; from then on no sign-in begins, and a token that is created
  takes the place of its sign-in. Steps that make neither more (`CalmTables`, `CalmHandlers`) are dealt with once.
* `LimitOK`: for every choice of the handlers that delete their victims next, the
  tokens left then, the handlers about to create and the handlers chosen stay
  below limit plus handlers. The choice matters because two handlers may have chosen the
  same victims. `DeleteEvictedTokens` moves a handler from chosen to creating, `CreateToken` from creating to a token.
  A refresh breaks it: it renames a chosen row (see above).

## 4. Client session

### State and actions

`ClientSession.tla` is one open page of `client-mx`: the fields of
`RefreshTokenManager`, the user of `UserManager`, and the requests of the page.
JavaScript runs one callback at a time, so a callback is one action together
with the promise reactions it settles; nothing runs between them that could see the difference.

* `req[r]` follows one axios request from `SendPageRequest`, `SignIn` or
  `Logout` to the moment its promise settles. `queued` is `failedQueue`,
  `refreshing` the request whose 401 started the refresh it awaits.
  `retried` marks a request that `handleTokenRefresh` has sent again: the
  interceptor that awaits it clears the user when it fails.
* `RefusedForGood`, `RefusedWhileRefreshing` and `RefusedStartsRefresh` are the
  three ways through `handleTokenRefresh` up to its `await`; `RefreshSucceeds`
  and `RefreshFails` are the rest of it. `TimerFires` with
  `ProactiveRefreshSucceeds` and `ProactiveRefreshFails` is
  `performProactiveRefresh`. `ProfileAnswered` with `ExpiryRead` is
  `fetchUserData`, which awaits the profile and then the cookie store.
* `timer` is the handle `proactiveRefreshInterval`; `clearTimeout` on the handle of a timer
  that has fired (`"fired"`) does nothing. `orphans` counts armed timers whose handle was overwritten by
  `scheduleNextProactiveRefresh`, which does not clear it.
* The server is the environment: a request gets any answer, in any order. The
  deadline of a timer is some later moment.
* `return axiosClient(originalRequest)` is not awaited inside the `try`:
  `isRefreshing` is reset when the retry is sent, and a failing retry does not
  reach the `catch` of `handleTokenRefresh`, only that of the interceptor.

### Properties and runs

| Run | Instance | Checks | Shows |
|---|---|---|---|
| `client_refresh` | 2 requests, 4 refusals, 2 orphans, timers, sign-in, logout | `TypeOK`, `OneRefreshAtATime`, `NoRefreshAfterFailure`, `RenewalGoesOn`, `OnlyTimersStrandRequests` | the lock `isRefreshing` excludes every pair of refreshes; none follows a failure until the failure is reset; renewal does not die silently; every request settles unless it is queued behind a proactive refresh |
| `client_queue_timer` | 2 requests, 2 refusals, timers | `EveryRequestSettles` violated | finding 1 |

Two requests make a refresh with a queue behind it; four refusals let each request be refused
again after its retry, or after a failed refresh. `MaxRefusals` bounds the rounds of
401s, which the code does not: a server that accepts refreshes but refuses the
retried request would be asked for ever, and the liveness properties assume it
stops. `MaxOrphans` bounds the sign-ins that may leave a timer behind. The page
can come to rest with every request in the queue (finding 1), hence `CHECK_DEADLOCK FALSE`.

Fairness: each request in flight gets some answer in the end (the browser
reports a lost connection as a failure), each refresh too, and an armed timer
fires. The user is under no obligation to act.

### Findings

1. A request that gets a 401 while a *proactive* refresh is in flight is queued and
   not answered by that refresh: `performProactiveRefresh` has no `processQueue`.
   It waits for some later reactive refresh, and for ever if the refresh failed.

`NoRefreshAfterFailure` speaks of the time until the failure is reset. A sign-in resets it, and so does a profile that
arrives (`setUserData`, `user-manager.ts:37`): one that was asked for before the failure allows refreshes again.

Worth knowing: `processQueue` is never called with an error
(`NoRefreshAfterFailure`), so its `reject` branch is dead and the queue behind
a failing refresh is sent again; a refresh in flight at logout, or an orphaned timer, re-arms
renewal on a page without a user; orphaned timers renew alongside the current one. When a retried
request fails with anything (a 500, a lost connection), the interceptor clears the user, although
its comment says the refresh failed (`auth-interceptor.service.ts:42`).

### Proofs

`ClientSessionProofs.tla` proves `TypeOK`, `OneRefreshAtATime`, `NoRefreshAfterFailure` and the
action property `RenewalGoesOn` of `Spec` for any set of requests and any
bounds. The inductive invariant adds `Lock` (the lock names exactly one owner
of a refresh in flight) and `FailureOnce` (the two failure fields agree, and no
refresh is in flight after a failure): `RenewalGoesOn` needs `Lock`, because a
timer that finds `isRefreshing` set gives up relying on the refresh in flight to re-arm it.

`OnlyTimersStrandRequests` is liveness and only model-checked, but what it rests on is proved: `NobodyAwaitsTheDead`
(a request awaits a refresh of its own exactly while that refresh is in flight), `QueueIsReleased` (the end of a
reactive refresh, with either outcome, sends the whole queue again in that step, and nothing
else moves a queued request) and `OnlyTimersStrand` (a request comes to wait with no such refresh only behind a
proactive one that is in flight), which is the scope of finding 1. What is left to fairness is that refreshes are answered.

## 5. Accounts

### State and actions

`Accounts.tla` holds the table `users` with the fields that decide about
registration, its sequence `nextId`, the keys `email:verification:*` of Redis,
the tokens sent out in events (`emitted`), the handlers and the clock.

* `Register` is the read of `checkIfUserUnverifiedAndDelete`, `DeleteExpired`
  its deletion, `CreateUser` the insert of `createUser`, `StoreToken` the
  `setex` of `generateVerificationToken`, `Emit` the end of `register`.
* `VerifyEmail`, `FindUser`, `SetVerified` and `InvalidateToken` are the four
  calls of `verifyEmail`. A mailed link may be opened at any time and again.
* `ChangeUser` and `WriteUser` are the check and the write of `updateUser`
  (address, or `email_verified` by an ADMIN), `softDeleteUser` and
  `hardDeleteUser`; `CleanupUnverifiedUsers` is the monthly job.
* As in `Sessions`, a call is an action, `Fail` ends a handler between two
  calls, and a request refused before its first write is not a step.
* `issuedTo` is history: the account a token was drawn for.
* `user.update` and `user.delete` of a row that is gone fail (P2025), as does an
  insert or update onto an address that is taken (P2002): the handler ends.
* One clock: the service, PostgreSQL and Redis agree on the time. Redis still
  answers for a key in its last instant, and `created_at < now - period` does not hold in the account's.

### Properties and runs

| Run | Instance | Checks | Shows |
|---|---|---|---|
| `account_register` | 2 addresses, 2 accounts, 2 tokens, 2 handlers, period 1, clock to 2 | `TypeOK`, `OneAccountPerAddress`, `BlockedMeansVerifiable`, `FreshAccountsSurvive`, `VerifiedByItsLink` | the unique index and deletion by id carry the races; the two periods fit together; only the link mailed for an account verifies it |
| `account_race` | 1 address, 1 token, 2 handlers | `VerifiedAccountsSurvive` violated | finding 2 |

Two accounts are an expired one and the one that replaces it; one tick
past the period lets an account expire, a second registration replace it
and a stale handler wake up. The runs stop when accounts, tokens and ticks are
used up (`CHECK_DEADLOCK FALSE`).

### Findings

2. A registration that has read an expired unverified account deletes it by id
   even if it was verified in the meantime (the log line calls it unverified).

Worth knowing: two verifications with one token that overlap both answer 200
(`auth.controller.ts:328` says "can only be used once"), which changes nothing in the tables.

### Proofs

`AccountsProofs.tla` proves `TypeOK`, `OneAccountPerAddress`, `BlockedMeansVerifiable` and
`FreshAccountsSurvive` for any sets and any period. The inductive invariant says what a waiting handler
may still rely on (`HandlerOK`: the account it will delete is expired if it
still exists, the token it will delete belongs to an account that was
verified), that ids are not reused (`UsersOK`), and that a token lasts as long as its
account's period unless the account was verified (`KeyLasts`). Every step moves the tables by adding,
rewriting or removing accounts (`UsersMove`) or adding tokens (`TokensMove`);
`HandlerKept` shows once that what a handler relies on survives any such move of another.

`OnlyItsLinkVerifies` is `VerifiedByItsLink`. The read of the Redis key, the read of the account and the update are three calls, between
which the account may go and its address be registered anew; `HandlerOK` says that the account a
handler found is the one its token was drawn for, `LinksOK` that this token was mailed. The proof follows a request and an account through each kind of step (`RequestMoves`, `RowsMove`).

`OnlyTheRaceLosesVerified` delimits finding 2: `VerifiedAccountsSurvive` holds of every behaviour in which no
verification of an account waits for its write while a registration waits to delete that account (`Apart`). So that one
overlap is the only way to the loss; the run `account_race` shows that it happens.

## 6. Gateway

### State and actions

`Gateway.tla` is `apps/server-nest` between one browser, whose tabs share a cookie
jar, and the auth-service. `jar` holds the grants the browser's two tokens belong to and whether it
has the cookie `csrfToken`; `grants` the claims and expiry of every token pair issued; `row`,
`account` and `target` are what the database holds of the browser's session, its user,
and a second user whom an update is about; `cache` is Redis.

* `Send` is the request with the guards that need nobody else (`CsrfGuard`,
  `RefreshTokenGuard`, the first check of `AccessTokenGuard`); `ReadCache`, `Verify`
  and `Store` are the rest of `AccessTokenGuard` over `verifyToken`, `PassGuards` is `RolesGuard`.
* `Serve` is the end of a call of the auth-service, with the answer the handler makes of its
  outcome; `AuthService` says which outcomes are possible and what they change. Most calls
  are this one step; what happens inside them is `Sessions` and `Accounts`.
* `updateUser` is three: it awaits the user behind the token (`auth.service.ts:81`), the target (`:85`)
  and the write (`:128`). `Check` takes a request over the first two (`Passes`), and the user or the
  target may be promoted, demoted, deactivated or deleted before the next; `UpdateUser` is the refusal of
  either check, or the write, which asks nothing any more.
* `GiveUp` is the HTTP client's time-out of 5 s: the request is answered and the call goes to
  `late` at the stage it had reached, from which `CheckLate` and `ServeLate` may carry it to its end, or never.
  `late` is a set: two late calls that agree in kind, stage, token and the moment they were asked for are one.
* `Deliver` is the browser taking an answer with its cookies, in any order.
* `ChangeClaims`, `Deactivate`, `Revoke` and `ChangeTarget` are what others do to the user and the target
  meanwhile; `changes` keeps both rows as they were before each change, for `UpdatesAreEntitled`.
* `Errors.tla` has the table of error codes and the filters: a refusal becomes a
  text, from which the gateway's filter infers a code again (`InferErrorCode`). A text is the set of those
  phrases it holds that a rule looks for.

### Properties and runs

| Run | Instance | Checks | Shows |
|---|---|---|---|
| `gateway_cookies` | 2 tabs, 4 requests: sign-in, refresh, logout, register, verify e-mail; no clock | `CookiesFollowTheSession`, `LoggedOutMeansGone`, `RefusalsKeepTheirStatus`, `EveryRequestAnswered` | the browser keeps the one live refresh token however its tabs overlap; logout ends the session even if a refresh is in flight |
| `gateway_cache` | 2 tabs, 3 requests: sign-in, profile, update; access tokens of 2 ticks, buffer 1, clock to 2, 1 change of either account | `TypeOK`, `CacheDiesWithToken`, `UpdatesAreEntitled` | a stale payload passes the guards, but an update needs rights that the database confirmed after the request was sent |

Two tabs make every race of two requests. Four requests are a sign-in, two that
race, and one that meets the result. In the second run one change of
either account falls before, between or after the calls of three requests and the three awaits of an update, and a token of two
ticks is cached with a rest of one. Register, profile and verify e-mail are made so that their refusals are relayed.
`CHECK_DEADLOCK FALSE`: the requests are used up.

`CookiesFollowTheSession` excuses what the browser cannot know: an answer lost to the
time-out, a sign-in that overlaps another session call, a revocation by somebody
else, the end of the token's own life. Fairness is that of the gateway alone: Redis
answers or fails, and the HTTP client gives up; nothing is assumed of the auth-service.

`UpdatesAreEntitled` says what the three awaits leave of "only an administrator changes another user, who is
none": since the request was sent there was a moment at which the user was an active administrator, and from
then on one at which the target was an active user and no administrator. Neither need hold when the row is written: an
administrator who is demoted after the first await still finishes his update, a target that is promoted after the
second is still changed, and TLC finds both when asked. With a time-out in between, the write may come
arbitrarily late.

`RefusalsKeepTheirStatus` says nothing of `TOKEN_EXPIRED`: `auth.controller.ts:153-156` documents 401 "Invalid or expired
refresh token" for the refresh, and the browser gets 500 (see below).

Worth knowing, all in the model:

* After a time-out of a refresh the browser holds a token that was rotated away; its next refresh is refused.
* Two tabs that refresh at once: the loser's page gets a 401 although the jar holds a good token by then.
* Logging out with a token that was rotated meanwhile is a 500 (P2025), and the cookies stay.
* `TOKEN_EXPIRED` of a refresh reaches the browser as 500, where the route documents 401: no rule knows its text.
  As 500 too end P2002 of a register that lost a race, and every time-out but those of update and verify.
* `updateUser` turns every refusal into 400 `USER_UPDATE_FAILED`; the route documents 403 and 404 (`auth.controller.ts:330`).
* `getUserProfile` relays a refusal as 200 with the error as body (`auth.service.ts:286`).
* A time-out of the token's verification is a 401, as if the token were bad.

### Proofs

`GatewayProofs.tla` proves `TypeOK`, `CacheDiesWithToken`, `LoggedOutMeansGone`, `CookiesFollowTheSession` and
the action property `UpdatesAreEntitled` for any tabs, requests, life times and buffers. A call changes
the session in one of five ways (`AuthCases`: opened, rotated, closed, outlived, kept), a step moves one request. The
inductive invariant adds what a request on its way relies on (`RequestOK`: a payload waiting for `setex`
has at most the rest of its token's life less the buffer), that a served logout has ended its session before its answer arrives
(`LogoutOK`), and `CookiesOK`: at most one answer that changes the cookies is on its way, it
carries what the database has, and no call waiting to be served presents that token. The last is why
`CookiesFollowTheSession` holds: a second rotation would need the new token, which no tab has seen yet.
`UpdatesEntitled` is `UpdatesAreEntitled`. Its invariant `UpdatesOK` says what each await has behind it, for requests and late
calls alike (`ChecksOK`): at `target`, a moment at which the user was active with the claims of his token; at `write`, that moment
and a later one for the target. The sequence of moments only grows (`MomentsMove`), so what was found stays found (`ChecksKept`), and a check that is passed was
passed at the last moment (`ChecksPassed`).

`RefusalsKeepStatus` is `RefusalsKeepTheirStatus`. The rules of `InferErrorCode` are ordered and overlap, so each
refusal is followed through the first rule that its text meets (`RuleTable`, `FirstRuleWins`, `NoRuleHits`) to the status of the code
inferred (`TranslationKeepsStatus`); `AnswersOK` keeps that answer until it is delivered.

`LedgerKept` shows that `Spec` implements `SessionLedger`: `Rooted` says that the session of
every grant began with one, and each of the five ways is a step of the ledger or a stutter.

`RequestsAdvanced` is the half of `EveryRequestAnswered` that needs no fairness: a request in flight moves only
to a later stage, as the same request, until its one answer is delivered, and no other tab, late call or tick moves it.

## 7. E-mail delivery

### State and actions

`EmailDelivery.tla` follows a registration's event: `buffer` (the memory of
auth-service until there is a connection), `queue` (RabbitMQ), a consumer's hand, `acked`,
or `lost`. Messages are numbered in order; one that returns takes its old place.
`env` is the configuration, chosen once: the mode (send, file, both), the missing settings, and the
recipients the SMTP server always rejects.

* `Emit` and `Publish` are `EmailServiceClient`; `Deliver` the `EventPattern`
  at prefetch 1; `Send`, `SendFails`, `Save`, `SaveFails` are `sendVerificationEmail`; `Ack` and
  `Nack` the two ends of the handler, which do nothing on a channel that has closed.
* Faults: `PublisherCrash`, `BrokerRestart` (the queue is durable, the messages are not), `Disconnect`
  and `Crash` of a consumer, a send or save that fails, or a send whose answer is lost.

### Properties and runs

| Run | Instance | Checks | Shows |
|---|---|---|---|
| `email_delivery` | 2 registrations, 2 consumers, 2 faults, every configuration | `TypeOK`, `AckedMeansMailed`, `NothingVanishes`, `MailedOncePerFault`, `RegistrationsAreMailed` | at least once, at most once per fault; loss only with a process that kept the message in memory |

Two consumers are the blue and the green instance, which share the queue; two
messages let one wait behind the other; two faults let a redelivered message be hit again.
The registrations end, hence `CHECK_DEADLOCK FALSE`. Fairness: the broker comes back,
a container that is down is restarted (its restart policy), every await ends.

`RegistrationsAreMailed` assumes that no setting is missing and no recipient is always
rejected. Otherwise the message is requeued for ever, at once, ahead of those behind it: the
handler has no limit of retries. `README.md:27` promises "proper message persistence":
the messages are not persistent, so a restart of the broker loses the queue (`lost`).

### Proofs

`EmailDeliveryProofs.tla` proves the four invariants for any numbers of registrations, consumers and
faults. The inductive invariant adds `HandlersOK` (a handler at `ack` has mailed and saved
what the mode asks for), `PlaceOK` (the sets are disjoint, at most
one consumer holds a message, and each message is somewhere) and `CountOK`: the mails of a message and the
handlers that are still to send one although the message was taken from them are together at most the faults
so far, plus one once the message's own mail is spent. `NothingVanishes` counts places with `Cardinality`, and
follows from `PlaceOK` by counting singletons.

### The abstract specification

`DeliveryPromise.tla` has no queue and no consumer: a registration that was accepted is owed what the mode
wants until it is settled, once and after that was done, or lost with a process that had it in memory; both are final.
A mail may go out at any time after the acceptance, for a consumer whose connection broke goes on with a message that
is no longer its own. `PromiseKept` proves that `EmailDelivery` implements it: a
message is owed while it is in the buffer, the queue or a consumer's hand (`WherePending`), and `Ack` settles it only when
the handler has done its part (`HandlersOK`).

## 8. Deployment

### State and actions

`BlueGreen.tla` is the production host. A command of `blue-green-deploy.sh` that
changes it is one action, in the order of the script: `Start` (the workflow resets the sources; the
symlink names the environment in use), `EnsureProxy`, `CopySources`, `BuildBase`, `Build`, `Up`,
the health polls, the final check, the shift of traffic (`SetWeight`: five steps of two
weights, `haproxy-shift-traffic.sh`), `RemoveLink` and `SetLink`, `StopOld`,
`Finish`. `RollBack` ends a deployment whose health checks time out or whose final check fails.

* The environments are not isolated. Both join `demo-t3-network`, where each container goes by the name of its
  service (`docker-compose.production.yml:1-4`). nginx looks `server-nest` up when it starts and when it is reloaded
  (`ClearCache`, before and after the shift) and divides its API calls among all it found: `knows[c]` are the
  environments whose `server-nest` the nginx of `c` calls. `Up` gives a new nginx what runs at that moment; a new `server-nest` has a new
  address, which an old nginx does not know; `Down` takes an environment's out of every nginx.
* `Die` ends the script between any two commands: `set -e`, or the SSH session breaks.
* `WeightIgnored` and `ShiftFails` are a shift that fails; its caller only warns.
* Beside the script, at any moment: `RenewCerts` (HAProxy rereads its configuration
  and with it the weights 100/0) and `CleanUp` (`docker system prune -a`).
* `faults` is history: which of these happened. `Unharmed` says that none did that the scripts do not cope
  with: a shift whose commands fail, death within the shift or the change of the symlink, a reload of HAProxy, an nginx that was not reloaded.

### Properties and runs

| Run | Instance | Checks | Shows |
|---|---|---|---|
| `deploy` | `client-mx` and `server-nest`, 2 health polls, 3 deployments, 2 faults | `TypeOK`, `AWayThrough`, `LinkFollowsTraffic`, `PagesAreNeverCut`, `DeploysTheCommit`, `DeployEnds` | always one way through that is healthy, no page cut short and the right commit, through failing builds, roll-backs, dying scripts and clean-ups |
| `deploy_names` | the same services, 1 health poll, 2 deployments, no fault | `CallsAreNeverCut` violated | finding 3 |

Three deployments go to blue, green and blue again; two services make a selective build leave one image old;
two faults let a second meet the state the first left. Deployments end, hence
`CHECK_DEADLOCK FALSE`. Fairness: every command ends, one way or the other. The script sets no time-out on
its `curl` (`blue-green-deploy.sh:285`), so for that one it is an assumption about the container.

What is promised, and what is not. `AWayThrough`: HAProxy sends users to the nginx of a healthy environment, and that
nginx knows the `server-nest` of a healthy one. `PagesAreNeverCut`: no container of an environment that HAProxy sends users to is
recreated or stopped. Neither says that every API call is answered: nginx may pick the other `server-nest`, which is
starting, unhealthy or about to stop. For GET and the like nginx tries the next address; a POST that was sent is lost.

### Findings

3. `README.md:31` says that HAProxy "allows live traffic shifting without service interruption". The nginx of the
   new environment, reloaded while both run (`:297`, `:315`), divides the API calls of all users between the two
   `server-nest`; `down` at `:332` then takes the old one away with the calls it is serving (`CallsAreNeverCut`), and until its
   next reload nginx goes on trying the address. The services do not wait for their calls when they are
   stopped (no `enableShutdownHooks`).

Outside the model: `server-nest` finds `auth-service` by name too, so a call may be served by
an `auth-service` of the other environment that is not healthy yet; an address that Docker gives to another container later; requests
in flight at the moment an environment's weight becomes 0; and the cache that the script means to clear, whose
pattern `/var/cache/nginx/*` is expanded by the host's shell and not in the container.

Worth knowing, all in the model and outside `Unharmed`:

* After a failed shift the script moves the symlink and stops the old environment, which may still have all the traffic (`blue-green-deploy.sh:306`).
* A script that dies between the first weight and the symlink leaves them in
  disagreement, and the next deployment destroys the environment in use.
* A renewal of certificates sends the traffic back to blue, running or not (`dev/README.md:43`: "zero downtime").
* `"$SERVICES"` is quoted, so two affected apps reach `docker compose build` as one
  unknown service and the deployment ends there (`Buildable`).
* No lock keeps two deployments apart; the model has one at a time.

### Proofs

`BlueGreenProofs.tla` proves all but `DeployEnds` for any services and any numbers of polls,
deployments and faults. `ScriptOK`: the target is the environment the symlink did not
name. `TrafficOK`: while `Unharmed`, what symlink, health and weights are at each phase
(in the shift, as a function of the step), and that the nginx in use knows the `server-nest` beside it (`Whole`); it is what `AWayThrough` and
`LinkFollowsTraffic` need to be inductive. `RunsOK`: the environment under deployment runs when its nginx is reloaded, so the
reload finds it. `CommitOK`: the commit moves from sources to images to
containers, phase by phase; the clean-up may remove an image, never age it. `WayThrough` shows a way that stays
within one environment (`Open`), so it does not depend on the shared names; what they break is the finding.

`ScriptsAdvance` is the half of `DeployEnds` that needs no fairness: each step of a deployment ends it, goes to a
later phase, or counts within the health polls or the shift up to their bound (`Later`, `Rest`), with the same
environments and apps throughout.

## 9. Storefront

### State and actions

`Storefront.tla` is the shop as the page shows it. As in `ClientSession` one callback is one action.

* `AddProductToCart`, `RemoveProductFromCart`, `UpdateCartItemQuantity` are
  `CartManager`; `CreateOrder`, `OrderAnswered`, `OrderFails` the two sides of the `await` in
  `handleCreateOrder`, `TakeOrder` is `OrderService`. `form` is the order that the mounted
  form awaits; leaving the cart forgets it, not the order.
* `Focus`, `ScrollToLoader`, `LoaderLeavesView`, `PageArrives`, `FetchFails` are the query
  of `useProductsInfiniteQuery` with its loader: a refetch replaces all pages
  one by one, scrolling abandons it. `PageAt` is the server's `getProducts`.
* `Show`, `Close` and `Reset` are the toast and the modal, whose content goes 300 ms after closing;
  `Submit`, `SubmitAccepted`, `SubmitRefused` use both.

`visit` bounds a behaviour to the cart, the list or the dialogs: they share only the page
and the toast. At most one request per dialog is under way. Prices are left out.

### Properties and runs

| Run | Instance | Checks | Shows |
|---|---|---|---|
| `storefront` | 2 products, quantities 0 and 1, 2 orders; pages of 2, shops of 0 to 5 products; 2 reset timers | `TypeOK`, `PagesInOrder`, `NothingShownBlank`, `CartLeavesWithItsOrder` | what an answer clears was ordered or touched since; the list is a prefix and complete when it says so; only a hasty dialog is blanked |

Two orders overlap; the shops end before, at and after the end of a page; two timers overlap. All states go on (`GoTo`),
so deadlock is checked. Nothing here must happen, so no fairness.

Worth knowing, all in the model:

* A success of sign-in or sign-up closes whatever dialog is open by then.
* Closing and reopening a dialog or toast within 300 ms blanks it (`hasty`).
* A failed background refetch blanks the whole list (`home.tsx:21`).
* Leaving the cart and coming back enables the order button while an order is under way:
  the same cart can be ordered twice. An answer takes the user to the success page from anywhere, and
  clears what was added meanwhile (`touched`).
* One server with one fixed list of products is assumed: the products are in memory, one copy per process, and during a
  deployment nginx may divide the pages of one list between two.
* The client sends no limit: its `ENTITIES_LIMIT` must equal the server's `LIMIT_ITEMS`.

### Proofs

`StorefrontProofs.tla` proves all four properties for any products, quantities,
page size, totals and numbers of orders and timers. Cart, list and overlays are three machines
that share the page and the toast (`Parts`); each has its invariant. `ShopOK`: what an order under way
would clear is covered, that is, was ordered with the quantity it has now or was touched since
(`Covered`). `ListOK`: loaded pages are a prefix of the products, whole pages unless they are all
(`Good`), and a fetch goes on only behind pages that are not the last; the page number the client asks
for is computed from the length alone, so this rests on a little arithmetic of multiples
(`Division`, `OnePageMore`, `Joined`). `OverlayOK`: nothing shown without haste has a reset due.

## 10. What is only model-checked

All liveness (`OnlyTimersStrandRequests`, `EveryRequestAnswered`, `RegistrationsAreMailed`,
`DeployEnds`): the prover does no fairness, and no ENABLED. For each the safety it rests on is proved: `QueueIsReleased` and
`OnlyTimersStrand`, `RequestsAdvanced`, `NoneVanishes` and `PromiseKept`, `ScriptsAdvance`. `SessionLimitUpToRaces` is
false with refreshes, so it is proved, and checked, without them. Every other invariant and action
property of a passing run is proved.

## 11. Not modelled

* React rendering, logging and metrics, DTO validation, throttling, and the backup
  script: none keeps state that the program reads back.
* The gateway's plain pass-through routes and the rows of the permission table that only allow to view.
* A user's own update, and the contents of names, passwords, e-mails and prices.
* Of the deployment: monitoring and data stacks, two scripts at once, `detect-affected.sh`.
