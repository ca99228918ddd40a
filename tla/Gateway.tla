------------------------------- MODULE Gateway -------------------------------
(***************************************************************************)
(* Authentication at the gateway: apps/server-nest (auth.controller.ts,    *)
(* auth.service.ts, the guards) between a browser, whose tabs share one    *)
(* cookie jar, and the auth-service, with the verified access tokens       *)
(* cached in Redis.                                                        *)
(*                                                                         *)
(* A call of the auth-service is one action here, but for updateUser,      *)
(* whose two checks and write are three; module Sessions looks inside the  *)
(* others. What matters here is what may happen between the steps: other   *)
(* requests of the browser, changes of the accounts, the 5 s after which   *)
(* the gateway stops to wait although the auth-service goes on.            *)
(***************************************************************************)
EXTENDS Errors

CONSTANTS
  Tabs,         \* requests that may be in flight at once
  Kinds,        \* bound: the requests that are made
  AccessLife,   \* lifetime of an access token, in ticks of the clock
  Buffer,       \* cacheBufferSeconds
  MinTtl,       \* minCacheTtlSeconds
  MaxRequests,  \* bound: requests sent
  MaxChanges,   \* bound: changes of the two accounts by others
  MaxTime       \* bound: the clock stops here

Calls == {"sign_in", "refresh", "logout", "me", "update", "register", "verify_email"}

ASSUME GatewayAssumption ==
  /\ Kinds \subseteq Calls
  /\ AccessLife \in Nat \ {0}
  /\ Buffer \in Nat
  /\ MinTtl \in Nat
  /\ MaxRequests \in Nat
  /\ MaxChanges \in Nat
  /\ MaxTime \in Nat

VARIABLES
  jar,      \* the browser's cookies: the grants its two tokens belong to
  req,      \* the requests, with what their handlers hold
  late,     \* calls the gateway no longer waits for, which may still be served
  cache,    \* Redis: payloads of verified access tokens
  grants,   \* the token pairs issued so far: claims of the access token, ...
  row,      \* the browser's refresh token in the database, 0: none
  account,  \* the user's row in the database
  target,   \* a second user, whom an update is about
  now,      \* the clock
  sent,     \* number of requests sent
  changes,  \* the accounts as they were before each change made by others
  excused,  \* history: cookies and database may disagree
  ended     \* history: the sessions whose logout was answered with 200

vars == <<jar, req, late, cache, grants, row, account, target, now, sent, changes, excused, ended>>
database == <<grants, row, account, target>>
history == <<excused, ended>>

Claims == [role : {"ADMIN", "CLIENT"}, email : {"first", "second"}]
Grant == [claims : Claims, exp : Nat, session : Nat]
GrantIds == 0..Len(grants)

Ok == [status |-> 200, code |-> NoCode, phrases |-> {}]
Unauthorized == ErrorResponse(TextException(401, {}))
NoAnswer == [status |-> 0, code |-> NoCode, phrases |-> {}]

Request == [kind |-> "none", stage |-> "idle", token |-> 0, asked |-> 0, ttl |-> 0, since |-> 0, up |-> NoAnswer, answer |-> NoAnswer]

\* Calls that end or replace the browser's session.
SessionCalls == {"sign_in", "refresh", "logout"}

InFlight(t) == req[t].stage # "idle"
Underway(K) == \E t \in Tabs : InFlight(t) /\ req[t].kind \in K

Init ==
  /\ jar = [access |-> 0, refresh |-> 0, csrf |-> FALSE]
  /\ req = [t \in Tabs |-> Request]
  /\ late = {}
  /\ cache = <<>>
  /\ grants = <<>>
  /\ row = 0
  /\ account = [exists |-> TRUE, active |-> TRUE, claims |-> [role |-> "ADMIN", email |-> "first"]]
  /\ target \in [role : {"ADMIN", "CLIENT"}, active : {TRUE}, verified : {FALSE}]
  /\ now = 0
  /\ sent = 0
  /\ changes = <<>>
  /\ excused = FALSE
  /\ ended = {}

-----------------------------------------------------------------------------
(* The auth-service, one call at a time.                                   *)

Forbidden == ErrorResponse(TextException(403, {"insufficient permission"}))

Refuse(status, code) == ErrorResponse(HttpException(status, code))

\* An exception that is no HttpException, a Prisma error for instance.
Broken == ErrorResponse(PlainError({}))

\* What each call may be refused with.
Refusals(kind) ==
  CASE kind = "sign_in" -> {Refuse(404, "USER_NOT_FOUND"), Refuse(403, "EMAIL_NOT_VERIFIED"), Refuse(401, "INVALID_CREDENTIALS")}
    [] kind = "refresh" -> {Refuse(401, c) : c \in {"REFRESH_TOKEN_NOT_FOUND", "REFRESH_TOKEN_INVALID", "TOKEN_EXPIRED"}}
    [] kind = "me" -> {Refuse(404, "USER_NOT_FOUND"), Broken}
    [] kind = "update" -> {Refuse(401, c) : c \in {"INVALID_TOKEN", "USER_NO_LONGER_EXISTS", "USER_NOT_ACTIVE",
                                                  "TOKEN_PAYLOAD_MISMATCH"}} \cup {Forbidden, Refuse(404, "USER_NOT_FOUND"), Broken}
    [] kind = "register" -> {Refuse(409, "EMAIL_ALREADY_EXISTS"), Refuse(409, "UNVERIFIED_ACCOUNT_EXISTS"), Broken}
    [] kind = "verify_email" -> {Refuse(400, "VERIFICATION_TOKEN_INVALID"), Refuse(404, "USER_NOT_FOUND"), Broken}
    [] kind = "logout" -> {Refuse(401, "REFRESH_TOKEN_INVALID"), Broken}

Expired(n) == now >= grants[n].exp

\* verifyToken: the signature, the expiry, and that the user exists
IsValid(n) == ~Expired(n) /\ account.exists

\* Variant: a deactivated user still passes.
ExtractUserInactive(n) ==
  IF Expired(n) THEN Refuse(401, "INVALID_TOKEN")
  ELSE IF ~account.exists THEN Refuse(401, "USER_NO_LONGER_EXISTS")
  ELSE IF account.claims # grants[n].claims THEN Refuse(401, "TOKEN_PAYLOAD_MISMATCH")
  ELSE Ok

\* extractUserFromAccessToken
ExtractUser(n) ==
  IF Expired(n) THEN Refuse(401, "INVALID_TOKEN")
  ELSE IF ~account.exists THEN Refuse(401, "USER_NO_LONGER_EXISTS")
  ELSE IF ~account.active THEN Refuse(401, "USER_NOT_ACTIVE")
  ELSE IF account.claims # grants[n].claims THEN Refuse(401, "TOKEN_PAYLOAD_MISMATCH")
  ELSE Ok

\* Variant: the row gets an id of its own.
IssueNext(session) ==
  /\ grants' = Append(grants, [claims |-> account.claims, exp |-> now + AccessLife, session |-> session])
  /\ row' = Len(grants) + 2

Issue(session) ==
  /\ grants' = Append(grants, [claims |-> account.claims, exp |-> now + AccessLife, session |-> session])
  /\ row' = Len(grants) + 1

\* generateTokenPair replaces the session of the device. Whether the address
\* is verified and the password is right is left open.
SignIn(up) ==
  \/ /\ up = Ok
     /\ account.exists /\ account.active
     /\ Issue(Len(grants) + 1)
     /\ UNCHANGED target
  \/ /\ \/ up = Refuse(404, "USER_NOT_FOUND") /\ ~(account.exists /\ account.active)
        \/ up.code \in {"EMAIL_NOT_VERIFIED", "INVALID_CREDENTIALS"} /\ account.exists /\ account.active
     /\ UNCHANGED <<grants, row, target>>

\* Any token may turn out to be at the end of its life: the JWT's, or, a
\* moment later, the row's, which is then deleted.
Refresh(n, up) ==
  \/ /\ up = Ok
     /\ row = n
     /\ Issue(grants[n].session)
     /\ UNCHANGED target
  \/ /\ \/ up = Refuse(401, "REFRESH_TOKEN_NOT_FOUND") /\ row # n
        \/ up = Refuse(401, "REFRESH_TOKEN_INVALID")
     /\ UNCHANGED <<grants, row, target>>
  \/ /\ up = Refuse(401, "TOKEN_EXPIRED")
     /\ row = n
     /\ row' = 0
     /\ UNCHANGED <<grants, target>>

\* Variant: deleteMany, content with a row that is not there.
LogoutDeleteMany(n, up) ==
  /\ up = Ok
  /\ row' = IF row = n THEN 0 ELSE row
  /\ UNCHANGED <<grants, target>>

\* The delete of a row that is not there fails.
Logout(n, up) ==
  /\ up \in {IF row = n THEN Ok ELSE Broken, Refuse(401, "REFRESH_TOKEN_INVALID")}
  /\ row' = IF up = Ok THEN 0 ELSE row
  /\ UNCHANGED <<grants, target>>

\* getMe does not ask isValid and trips over the missing payload.
GetMe(n, up) ==
  /\ up = IF ~IsValid(n) THEN Broken
          ELSE IF account.active THEN Ok ELSE Refuse(404, "USER_NOT_FOUND")
  /\ UNCHANGED <<grants, row, target>>

\* The user behind the token acts as the one he was when he was extracted.
MayUpdate(n) == grants[n].claims.role = "ADMIN" /\ target.role # "ADMIN"

CheckTarget(n) ==
  IF ~target.active THEN Refuse(404, "USER_NOT_FOUND") ELSE IF MayUpdate(n) THEN Ok ELSE Forbidden

\* updateUser awaits the user behind the token, then the target, then the
\* update; `call` goes on to `stage` when a check is passed. Both accounts
\* may change before the next step.
Passes(call, stage) ==
  /\ call.kind = "update"
  /\ \/ call.stage = "call" /\ stage = "target" /\ ExtractUser(call.token) = Ok
     \/ call.stage = "target" /\ stage = "write" /\ CheckTarget(call.token) = Ok

\* The step that ends it. The update fails if the row has gone, or if the
\* address is taken; whether it is so is left open.
UpdateUser(call, up) ==
  /\ \/ call.stage = "call" /\ up = ExtractUser(call.token) /\ up # Ok
     \/ call.stage = "target" /\ up = CheckTarget(call.token) /\ up # Ok
     \/ call.stage = "write" /\ up \in {Ok, Broken}
  /\ target' = IF up = Ok THEN [target EXCEPT !.verified = TRUE] ELSE target
  /\ UNCHANGED <<grants, row>>

\* What these two do to the account is the business of module Accounts.
Register(up) ==
  /\ up \in {Ok} \cup Refusals("register")
  /\ UNCHANGED <<grants, row, target>>

VerifyEmail(up) ==
  /\ up \in {Ok} \cup Refusals("verify_email")
  /\ UNCHANGED <<grants, row, target>>

AuthService(call, up) ==
  /\ \/ call.kind = "sign_in" /\ SignIn(up)
     \/ call.kind = "refresh" /\ Refresh(call.token, up)
     \/ call.kind = "logout" /\ Logout(call.token, up)
     \/ call.kind = "me" /\ GetMe(call.token, up)
     \/ call.kind = "update" /\ UpdateUser(call, up)
     \/ call.kind = "register" /\ Register(up)
     \/ call.kind = "verify_email" /\ VerifyEmail(up)
  /\ UNCHANGED account

-----------------------------------------------------------------------------
(* The gateway's answers.                                                  *)

\* What the service method throws when the auth-service answered `up`.
Thrown(kind, up) ==
  CASE kind \in SessionCalls -> PlainError(up.phrases)
    [] kind = "register" -> IF up.code # NoCode THEN HttpException(up.status, up.code) ELSE PlainError(up.phrases)
    [] kind = "verify_email" -> TextException(400, up.phrases)
    [] kind = "update" -> HttpException(400, "USER_UPDATE_FAILED")

\* getUserProfile returns the body whatever its status.
AnswerTo(kind, up) ==
  IF up.status = 200 THEN Ok
  ELSE IF kind = "me" THEN [up EXCEPT !.status = 200]
  ELSE GatewayResponse(Thrown(kind, up))

\* The HTTP client gave up: its error has no phrase that a rule knows.
TimedOut(kind) ==
  GatewayResponse(IF kind \in {"update", "verify_email"} THEN TextException(400, {}) ELSE PlainError({}))

Answer(t, a) == req' = [req EXCEPT ![t] = [Request EXCEPT !.kind = req[t].kind, !.stage = "reply", !.answer = a]]
Advance(t, stage) == req' = [req EXCEPT ![t].stage = stage]

-----------------------------------------------------------------------------
(* A request: the guards that need nobody else, then the token's           *)
(* verification, then the call.                                            *)

\* The access token's cookie lives as long as the token.
AccessCookie == IF jar.access # 0 /\ ~Expired(jar.access) THEN jar.access ELSE 0

Token(kind) ==
  CASE kind \in {"refresh", "logout"} -> jar.refresh
    [] kind \in {"me", "update"} -> AccessCookie
    [] OTHER -> 0

\* The page repeats the cookie csrfToken, which outlives a logout.
CsrfHeader == jar.csrf

\* CsrfGuard, on the routes that do not skip it.
CsrfRefuses(kind) == kind \in {"refresh", "logout", "update"} /\ ~CsrfHeader

\* RefreshTokenGuard and the first check of AccessTokenGuard
NoTokenFound(kind) == kind \in {"refresh", "logout", "me", "update"} /\ Token(kind) = 0

FirstStage(kind) == IF kind \in {"me", "update"} THEN "cache" ELSE "call"

Overlaps(kind) ==
  \/ kind = "sign_in" /\ Underway(SessionCalls)
  \/ kind \in SessionCalls /\ Underway({"sign_in"})

Send(t, kind) ==
  /\ ~InFlight(t)
  /\ sent < MaxRequests
  /\ sent' = sent + 1
  /\ req' = [req EXCEPT ![t] =
       IF CsrfRefuses(kind)
       THEN [Request EXCEPT !.kind = kind, !.stage = "reply", !.answer = Refuse(403, "CSRF_TOKEN_MISSING")]
       ELSE IF NoTokenFound(kind)
       THEN [Request EXCEPT !.kind = kind, !.stage = "reply", !.answer = Unauthorized]
       ELSE [Request EXCEPT !.kind = kind, !.stage = FirstStage(kind), !.token = Token(kind), !.asked = Len(changes)]]
  /\ excused' = (excused \/ Overlaps(kind))
  /\ UNCHANGED <<jar, late, cache, database, now, changes, ended>>

\* RolesGuard asks the payload, not the database.
PassGuards(t) ==
  IF req[t].kind = "update" /\ grants[req[t].token].claims.role # "ADMIN"
  THEN Answer(t, Forbidden)
  ELSE Advance(t, "call")

Cached(n) == n \in DOMAIN cache /\ now < cache[n].until

\* getCachedTokenPayload; a failing Redis counts as a miss.
ReadCache(t) ==
  /\ req[t].stage = "cache"
  /\ \/ Cached(req[t].token) /\ PassGuards(t)
     \/ Advance(t, "verify")
  /\ UNCHANGED <<jar, late, cache, database, now, sent, changes, history>>

\* Variant: without the buffer.
CacheTtlToTheEnd(n) == Max({0, grants[n].exp - now})

CacheTtl(n) == Max({0, grants[n].exp - now - Buffer})

\* verifyTokenWithAuthService
Verify(t) ==
  /\ req[t].stage = "verify"
  /\ LET n == req[t].token
     IN  IF ~IsValid(n)
         THEN Answer(t, Unauthorized)
         ELSE IF CacheTtl(n) <= MinTtl
         THEN PassGuards(t)
         ELSE req' = [req EXCEPT ![t].stage = "store", ![t].ttl = CacheTtl(n), ![t].since = now]
  /\ UNCHANGED <<jar, late, cache, database, now, sent, changes, history>>

\* setex runs when Redis gets to it, or fails, which is only logged.
Store(t) ==
  /\ req[t].stage = "store"
  /\ \/ cache' = [n \in DOMAIN cache \cup {req[t].token} |->
                    IF n = req[t].token THEN [until |-> now + req[t].ttl, delay |-> now - req[t].since] ELSE cache[n]]
     \/ UNCHANGED cache
  /\ PassGuards(t)
  /\ UNCHANGED <<jar, late, database, now, sent, changes, history>>

Issues(kind, up) == kind \in {"sign_in", "refresh"} /\ up = Ok

\* Stages at which the auth-service holds the call.
InService == {"call", "target", "write"}

Check(t) ==
  /\ \E stage \in InService : Passes(req[t], stage) /\ Advance(t, stage)
  /\ UNCHANGED <<jar, late, cache, database, now, sent, changes, history>>

\* The call is served and the handler makes its answer; an answer with
\* tokens carries the grant just issued.
Serve(t) ==
  /\ req[t].stage \in InService
  /\ \E up \in Refusals(req[t].kind) \cup {Ok} :
       /\ AuthService(req[t], up)
       /\ req' = [req EXCEPT ![t].stage = "reply", ![t].up = up, ![t].answer = AnswerTo(req[t].kind, up),
                             ![t].token = IF Issues(req[t].kind, up) THEN row' ELSE @]
  /\ excused' = (excused \/ req'[t].up.code = "TOKEN_EXPIRED")
  /\ UNCHANGED <<jar, late, cache, now, sent, changes, ended>>

\* Variant: a refresh only sets the access token.
CookiesAfterAccess(kind, n, up) ==
  IF Issues(kind, up) THEN [access |-> n, refresh |-> IF kind = "refresh" THEN jar.refresh ELSE n, csrf |-> TRUE]
  ELSE IF kind = "logout" /\ up = Ok THEN [jar EXCEPT !.access = 0, !.refresh = 0]
  ELSE jar

\* setCookiesFromTokens; logout clears both tokens and leaves csrfToken.
CookiesAfter(kind, n, up) ==
  IF Issues(kind, up) THEN [access |-> n, refresh |-> n, csrf |-> TRUE]
  ELSE IF kind = "logout" /\ up = Ok THEN [jar EXCEPT !.access = 0, !.refresh = 0]
  ELSE jar

\* The browser takes the answer, in whatever order the answers arrive.
Deliver(t) ==
  /\ req[t].stage = "reply"
  /\ req' = [req EXCEPT ![t] = Request]
  /\ jar' = CookiesAfter(req[t].kind, req[t].token, req[t].up)
  /\ ended' = IF req[t].kind = "logout" /\ req[t].up = Ok THEN ended \cup {grants[req[t].token].session} ELSE ended
  /\ UNCHANGED <<late, cache, database, now, sent, changes, excused>>

\* Variant: only the verification has a time-out.
GiveUpVerification(t) ==
  /\ req[t].stage = "verify"
  /\ Answer(t, Unauthorized)
  /\ UNCHANGED <<jar, late, cache, database, now, sent, changes, history>>

LateCall(t) == [kind |-> req[t].kind, stage |-> req[t].stage, token |-> req[t].token, asked |-> req[t].asked]

\* 5 s have passed, or the connection broke: the guard answers 401, a
\* handler as TimedOut says. A call that was sent may still be served to its end.
GiveUp(t) ==
  /\ req[t].stage \in InService \cup {"verify"}
  /\ Answer(t, IF req[t].stage = "verify" THEN Unauthorized ELSE TimedOut(req[t].kind))
  /\ late' = IF req[t].stage = "verify" THEN late ELSE late \cup {LateCall(t)}
  /\ excused' = (excused \/ req[t].kind \in SessionCalls)
  /\ UNCHANGED <<jar, cache, database, now, sent, changes, ended>>

CheckLate(call) ==
  /\ \E stage \in InService : Passes(call, stage) /\ late' = (late \ {call}) \cup {[call EXCEPT !.stage = stage]}
  /\ UNCHANGED <<jar, req, cache, database, now, sent, changes, history>>

ServeLate(call) ==
  /\ late' = late \ {call}
  /\ \E up \in Refusals(call.kind) \cup {Ok} : AuthService(call, up)
  /\ UNCHANGED <<jar, req, cache, now, sent, changes, history>>

-----------------------------------------------------------------------------
(* Everybody else.                                                         *)

Present == [account |-> account, role |-> target.role, active |-> target.active]

OthersChange ==
  /\ Len(changes) < MaxChanges
  /\ changes' = Append(changes, Present)
  /\ UNCHANGED <<jar, req, late, cache, grants, now, sent, ended>>

\* updateUser by an administrator, or a change of role in the database
ChangeClaims(claims) ==
  /\ OthersChange
  /\ account.exists /\ account.claims # claims
  /\ account' = [account EXCEPT !.claims = claims]
  /\ UNCHANGED <<row, target, excused>>

\* The target gets another role, or is deleted.
ChangeTarget(role, active) ==
  /\ OthersChange
  /\ target.active /\ <<role, active>> # <<target.role, TRUE>>
  /\ target' = [target EXCEPT !.role = role, !.active = active]
  /\ UNCHANGED <<account, row, excused>>

\* softDeleteUser and hardDeleteUser
Deactivate ==
  /\ OthersChange
  /\ account.active
  /\ account' \in {[account EXCEPT !.active = FALSE], [account EXCEPT !.active = FALSE, !.exists = FALSE]}
  /\ row' = 0
  /\ excused' = TRUE
  /\ UNCHANGED target

\* logoutAllDevices, an eviction or a clean-up
Revoke ==
  /\ OthersChange
  /\ row # 0
  /\ row' = 0
  /\ excused' = TRUE
  /\ UNCHANGED <<account, target>>

Tick ==
  /\ now < MaxTime
  /\ now' = now + 1
  /\ UNCHANGED <<jar, req, late, cache, database, sent, changes, history>>

Step(t) == ReadCache(t) \/ Verify(t) \/ Store(t) \/ Check(t) \/ Serve(t) \/ Deliver(t) \/ GiveUp(t)

Next ==
  \/ \E t \in Tabs : Step(t) \/ \E kind \in Kinds : Send(t, kind)
  \/ \E call \in late : CheckLate(call) \/ ServeLate(call)
  \/ \E claims \in Claims : ChangeClaims(claims)
  \/ \E role \in {"ADMIN", "CLIENT"}, active \in BOOLEAN : ChangeTarget(role, active)
  \/ Deactivate
  \/ Revoke
  \/ Tick

Spec == Init /\ [][Next]_vars

\* Redis answers or fails, and the HTTP client gives up in time; nothing is
\* assumed of the auth-service.
FairSpec == Spec /\ \A t \in Tabs : WF_vars(ReadCache(t)) /\ WF_vars(Store(t)) /\ WF_vars(GiveUp(t)) /\ WF_vars(Deliver(t))

-----------------------------------------------------------------------------
(* Properties.                                                             *)

TypeOK ==
  /\ jar \in [access : GrantIds, refresh : GrantIds, csrf : BOOLEAN]
  /\ \A t \in Tabs :
       /\ req[t].kind \in Calls \cup {"none"}
       /\ req[t].stage \in {"idle", "cache", "verify", "store", "call", "target", "write", "reply"}
       /\ req[t].token \in GrantIds
       /\ req[t].asked \in 0..Len(changes)
       /\ req[t].stage = "store" => req[t].ttl \in Nat /\ req[t].since \in Nat
  /\ \A call \in late : call.kind \in Calls /\ call.stage \in InService /\ call.token \in GrantIds
  /\ DOMAIN cache \subseteq 1..Len(grants)
  /\ grants \in Seq(Grant)
  /\ row \in GrantIds
  /\ now \in Nat

\* The refresh cookie is the token in the database: however the refreshes
\* and logouts of several tabs overlap and in whatever order their answers
\* arrive, the browser neither keeps a token that was rotated away nor loses
\* the one that lives. The excuses are an answer that was lost, a sign-in at
\* the same time, a revocation by somebody else, and the end of the token's life.
CookiesFollowTheSession ==
  ~excused /\ ~Underway(SessionCalls) => jar.refresh = row

\* A logout that was answered with 200 has ended the session: no refresh that
\* was in flight has carried it on.
LoggedOutMeansGone ==
  row # 0 => grants[row].session \notin ended

\* The two accounts at every moment so far.
Moments == Append(changes, Present)

IsActiveAdmin(account1) == account1.exists /\ account1.active /\ account1.claims.role = "ADMIN"

\* Since the call was asked for there was a moment at which the user was an
\* active administrator, and from then on one at which the target was an
\* active user and no administrator.
Entitled(call) ==
  \E i \in call.asked + 1..Len(Moments) :
    /\ IsActiveAdmin(Moments[i].account)
    /\ \E j \in i..Len(Moments) : Moments[j].active /\ Moments[j].role # "ADMIN"

\* However long ago a payload was cached, and however late a call is served,
\* an update is only made for a user who was an active administrator after
\* the request was sent, of a target that he might update after that. It is
\* not promised that both still hold: updateUser does not look again.
UpdatesAreEntitled ==
  [][/\ \A t \in Tabs : req[t].stage = "write" /\ req'[t].up = Ok => Entitled(req[t])
     /\ \A call \in late \ late' : call.stage = "write" => Entitled(call)]_vars

\* A payload stays in Redis no longer than its token lives, unless setex was
\* late by more than the buffer of calculateCacheTtl.
CacheDiesWithToken ==
  \A n \in DOMAIN cache : cache[n].delay <= Buffer => cache[n].until <= grants[n].exp

\* What the auth-service refuses to sign-in, refresh, logout and register
\* reaches the browser with the status it had, although it passes through a
\* text from which the gateway infers it again. Nothing is said of
\* TOKEN_EXPIRED, whose text no rule knows.
RefusalsKeepTheirStatus ==
  \A t \in Tabs : req[t].stage = "reply" /\ req[t].kind \in SessionCalls \cup {"register"} /\ req[t].up # NoAnswer
             /\ req[t].up.code # "TOKEN_EXPIRED"
     => req[t].answer.status = req[t].up.status

\* Every request is answered, even if the auth-service never does.
EveryRequestAnswered == \A t \in Tabs : InFlight(t) ~> ~InFlight(t)
=============================================================================
