---------------------------- MODULE GatewayProofs ----------------------------
(***************************************************************************)
(* What module Gateway promises, for any tabs, requests and life times.    *)
(*                                                                         *)
(* Every step moves the request of at most one tab (the lemmas ...Moves)   *)
(* and changes the session in the database in one of a few ways            *)
(* (AuthCases). The invariants follow from these two.                      *)
(***************************************************************************)
EXTENDS Gateway, TLAPS

-----------------------------------------------------------------------------
(* The inductive invariant                                                 *)

Stages == {"idle", "cache", "verify", "store", "call", "target", "write", "reply"}

\* Calls that present a token.
Presenting == {"refresh", "logout", "me", "update"}

IsRequest(r) == r = [kind |-> r.kind, stage |-> r.stage, token |-> r.token, asked |-> r.asked, ttl |-> r.ttl,
                     since |-> r.since, up |-> r.up, answer |-> r.answer]

\* A request with the grants g: its token is there as long as it is needed,
\* an answer of the auth-service only once it was called, and a payload is
\* stored for the rest of its token's life without the buffer.
RequestOK(r, g) ==
  /\ IsRequest(r)
  /\ r.kind \in Calls \cup {"none"}
  /\ r.stage \in Stages
  /\ r.token \in 0..Len(g)
  /\ r.stage \in {"cache", "verify", "store"} => r.kind \in {"me", "update"}
  /\ r.stage \in {"target", "write"} => r.kind = "update"
  /\ r.stage \in {"cache", "verify", "store"} \cup InService => r.kind # "none" /\ (r.kind \in Presenting => r.token # 0)
  /\ r.stage = "store" => r.ttl \in Nat /\ r.since \in Nat /\ r.ttl + r.since + Buffer <= g[r.token].exp
  /\ r.stage # "reply" => r.up = NoAnswer
  /\ r.kind \in SessionCalls /\ r.up = Ok => r.token # 0

RequestsOK ==
  /\ req = [t \in Tabs |-> req[t]]
  /\ \A t \in Tabs : RequestOK(req[t], grants)

LateOK ==
  \A call \in late :
    /\ call = [kind |-> call.kind, stage |-> call.stage, token |-> call.token, asked |-> call.asked]
    /\ call.kind \in Calls /\ call.stage \in InService
    /\ call.stage \in {"target", "write"} => call.kind = "update"
    /\ call.token \in GrantIds /\ (call.kind \in Presenting => call.token # 0)

AccountOK ==
  /\ account \in [exists : BOOLEAN, active : BOOLEAN, claims : Claims]
  /\ target \in [role : {"ADMIN", "CLIENT"}, active : BOOLEAN, verified : BOOLEAN]

TablesOK ==
  /\ jar \in [access : GrantIds, refresh : GrantIds, csrf : BOOLEAN]
  /\ DOMAIN cache \subseteq 1..Len(grants)
  /\ grants \in Seq(Grant)
  /\ row \in GrantIds
  /\ now \in Nat

TypeInv == RequestsOK /\ LateOK /\ AccountOK /\ TablesOK

\* A logout that was served has ended its session, before and after its answer.
LoggedOut(t) == req[t].kind = "logout" /\ req[t].up = Ok

LogoutOK ==
  /\ \A i \in 1..Len(grants) : grants[i].session \in 1..Len(grants)
  /\ ended \subseteq 1..Len(grants)
  /\ LoggedOutMeansGone
  /\ \A t \in Tabs : LoggedOut(t) /\ row # 0 => grants[row].session # grants[req[t].token].session

\* An answer on its way that changes the cookies, and what it makes of them.
Effective(t) == req[t].kind \in SessionCalls /\ req[t].up = Ok
Carried(t) == IF req[t].kind = "logout" THEN 0 ELSE req[t].token

CookiesOK ==
  ~excused =>
    /\ \A call \in late : call.kind \notin SessionCalls
    /\ \A t, u \in Tabs : t # u /\ InFlight(t) /\ InFlight(u) /\ req[t].kind = "sign_in" => req[u].kind \notin SessionCalls
    /\ \A t, u \in Tabs : Effective(t) /\ Effective(u) => t = u
    /\ (\A t \in Tabs : ~Effective(t)) => jar.refresh = row
    /\ \A t \in Tabs : Effective(t) =>
         /\ row = Carried(t)
         /\ row = jar.refresh => row = 0
         /\ \A u \in Tabs : req[u].stage = "call" /\ req[u].kind \in {"refresh", "logout"} => req[u].token # row

\* An answer of the auth-service is one it gives to that call, and the
\* handler's answer is made from it.
AnswersOK ==
  \A t \in Tabs : req[t].up # NoAnswer =>
    req[t].up \in Refusals(req[t].kind) \cup {Ok} /\ req[t].answer = AnswerTo(req[t].kind, req[t].up)

\* The two accounts at one moment.
Moment == [account : [exists : BOOLEAN, active : BOOLEAN, claims : Claims], role : {"ADMIN", "CLIENT"}, active : BOOLEAN]

\* With the moments m and the grants g: since the call was asked for, its
\* token named an active user as he then was. EntitledIn is Entitled, of m.
ExtractedIn(call, m, g) ==
  \E i \in call.asked + 1..Len(m) :
    m[i].account.exists /\ m[i].account.active /\ m[i].account.claims = g[call.token].claims

EntitledIn(call, m) ==
  \E i \in call.asked + 1..Len(m) :
    /\ IsActiveAdmin(m[i].account)
    /\ \E j \in i..Len(m) : m[j].active /\ m[j].role # "ADMIN"

\* A call has its checks behind it, whatever the accounts are now.
ChecksOK(call, m, g) ==
  /\ call.asked \in Nat /\ call.asked < Len(m)
  /\ call.stage = "target" => ExtractedIn(call, m, g)
  /\ call.stage = "write" => EntitledIn(call, m)

UpdatesOK ==
  /\ changes \in Seq(Moment)
  /\ \A t \in Tabs : ChecksOK(req[t], Moments, grants)
  /\ \A call \in late : ChecksOK(call, Moments, grants)

IInv == TypeInv /\ UpdatesOK /\ CacheDiesWithToken /\ LogoutOK /\ CookiesOK /\ AnswersOK

-----------------------------------------------------------------------------
(* What is known of the answers                                            *)

\* The auth-service succeeds with 200 only.
LEMMA RefusalsAreNotOk ==
  /\ \A s, c : Refuse(s, c).status = s
  /\ Forbidden.status = 403
  /\ Broken.status = 500
  /\ Ok.status = 200 /\ Ok.code = "none"
  /\ NoAnswer # Ok
<1>1. \A s, c : Refuse(s, c).status = s
  BY DEF Refuse, ErrorResponse, HttpException
<1>2. Forbidden.status = 403
  BY DEF Forbidden, ErrorResponse, TextException
<1>3. Broken.status = 500
  BY DEF Broken, ErrorResponse, PlainError
<1>4. Ok.status = 200 /\ Ok.code = "none" /\ NoAnswer # Ok
  BY DEF Ok, NoAnswer, NoCode
<1> QED
  BY <1>1, <1>2, <1>3, <1>4

\* The rules up to the one for unknown users: their codes and their phrases.
LEMMA RuleTable ==
  /\ DOMAIN Rules = 1..14
  /\ Rules[1][1] = "INVALID_CREDENTIALS" /\ Rules[1][2] = {"invalid credentials", "invalid email or password"}
  /\ Rules[2][2] = {"invalid token", "token expired", "session expired"}
  /\ Rules[3][1] = "REFRESH_TOKEN_INVALID" /\ Rules[3][2] = {"invalid refresh token", "refresh token not found"}
  /\ Rules[4][2] = {"authentication failed", "unauthorized"}
  /\ Rules[5][2] = {"access denied", "permission denied", "insufficient permission"}
  /\ Rules[6][2] = {"forbidden"}
  /\ Rules[7][1] = "EMAIL_NOT_VERIFIED" /\ Rules[7][2] = {"verify your email", "email not verified"}
  /\ Rules[8][1] = "USER_NOT_FOUND" /\ Rules[8][2] = {"user not found"}
<1>1. DOMAIN Rules = 1..14
  BY DEF Rules
<1>2. Rules[1][1] = "INVALID_CREDENTIALS" /\ Rules[1][2] = {"invalid credentials", "invalid email or password"}
  BY DEF Rules
<1>3. Rules[2][2] = {"invalid token", "token expired", "session expired"}
  BY DEF Rules
<1>4. Rules[3][1] = "REFRESH_TOKEN_INVALID" /\ Rules[3][2] = {"invalid refresh token", "refresh token not found"}
  BY DEF Rules
<1>5. Rules[4][2] = {"authentication failed", "unauthorized"}
  BY DEF Rules
<1>6. Rules[5][2] = {"access denied", "permission denied", "insufficient permission"}
  BY DEF Rules
<1>7. Rules[6][2] = {"forbidden"}
  BY DEF Rules
<1>8. Rules[7][1] = "EMAIL_NOT_VERIFIED" /\ Rules[7][2] = {"verify your email", "email not verified"}
  BY DEF Rules
<1>9. Rules[8][1] = "USER_NOT_FOUND" /\ Rules[8][2] = {"user not found"}
  BY DEF Rules
<1> QED
  BY <1>1, <1>2, <1>3, <1>4, <1>5, <1>6, <1>7, <1>8, <1>9

\* The first rule that hits decides.
LEMMA FirstRuleWins ==
  ASSUME NEW phrases, NEW i \in 1..14, Rules[i][2] \cap phrases # {},
         \A j \in 1..14 : j < i => Rules[j][2] \cap phrases = {}
  PROVE  InferErrorCode(phrases) = Rules[i][1]
<1> DEFINE hits == {j \in DOMAIN Rules : Rules[j][2] \cap phrases # {}}
<1>1. DOMAIN Rules = 1..14
  BY RuleTable
<1>2. i \in hits
  BY <1>1
<1>3. \A j \in hits : j \in 1..14 /\ ~(j < i)
  BY <1>1
<1>4. \A j \in hits : i <= j /\ j \in 1..14
  BY <1>3
<1> HIDE DEF hits
<1>5. ASSUME NEW k \in hits, \A j \in hits : k <= j PROVE k = i
  <2>1. k <= i /\ i <= k /\ k \in Int /\ i \in Int
    BY <1>2, <1>4, <1>5
  <2> QED
    BY <2>1
<1>6. Min(hits) = i
  BY <1>2, <1>4, <1>5 DEF Min
<1>7. hits # {}
  BY <1>2
<1> QED
  BY <1>6, <1>7 DEF InferErrorCode, hits

\* A text without a phrase is no code.
LEMMA NoRuleHits == InferErrorCode({}) = NoCode
BY DEF InferErrorCode

\* What the gateway makes of the texts of the codes that sign-in and refresh refuse with.
LEMMA InferredCodes ==
  /\ InferErrorCode(PhrasesOf("USER_NOT_FOUND")) = "USER_NOT_FOUND"
  /\ InferErrorCode(PhrasesOf("EMAIL_NOT_VERIFIED")) = "EMAIL_NOT_VERIFIED"
  /\ InferErrorCode(PhrasesOf("INVALID_CREDENTIALS")) = "INVALID_CREDENTIALS"
  /\ InferErrorCode(PhrasesOf("REFRESH_TOKEN_INVALID")) = "REFRESH_TOKEN_INVALID"
  /\ InferErrorCode(PhrasesOf("REFRESH_TOKEN_NOT_FOUND")) = "REFRESH_TOKEN_INVALID"
<1>1. /\ PhrasesOf("USER_NOT_FOUND") = {"user not found", "not found"}
      /\ PhrasesOf("EMAIL_NOT_VERIFIED") = {"verify your email"}
      /\ PhrasesOf("INVALID_CREDENTIALS") = {"invalid email or password"}
      /\ PhrasesOf("REFRESH_TOKEN_INVALID") = {"invalid refresh token"}
      /\ PhrasesOf("REFRESH_TOKEN_NOT_FOUND") = {"refresh token not found", "not found"}
  BY DEF PhrasesOf
<1>2. \A n \in 1..14 : n < 8 => n \in {1, 2, 3, 4, 5, 6, 7}
  OBVIOUS
<1>3. ASSUME NEW phrases, "user not found" \in phrases, phrases \subseteq {"user not found", "not found"}
      PROVE  InferErrorCode(phrases) = "USER_NOT_FOUND"
  <2>1. \A j \in {1, 2, 3, 4, 5, 6, 7} : Rules[j][2] \cap phrases = {}
    BY <1>3, RuleTable
  <2>2. Rules[8][2] \cap phrases # {} /\ Rules[8][1] = "USER_NOT_FOUND"
    BY <1>3, RuleTable
  <2> QED
    BY <1>2, <2>1, <2>2, FirstRuleWins
<1>4. ASSUME NEW phrases, phrases = {"verify your email"} PROVE InferErrorCode(phrases) = "EMAIL_NOT_VERIFIED"
  <2>1. \A j \in {1, 2, 3, 4, 5, 6} : Rules[j][2] \cap phrases = {}
    BY <1>4, RuleTable
  <2>2. Rules[7][2] \cap phrases # {} /\ Rules[7][1] = "EMAIL_NOT_VERIFIED"
    BY <1>4, RuleTable
  <2>3. \A n \in 1..14 : n < 7 => n \in {1, 2, 3, 4, 5, 6}
    OBVIOUS
  <2> QED
    BY <2>1, <2>2, <2>3, FirstRuleWins
<1>5. ASSUME NEW phrases, phrases = {"invalid email or password"} PROVE InferErrorCode(phrases) = "INVALID_CREDENTIALS"
  <2>1. Rules[1][2] \cap phrases # {} /\ Rules[1][1] = "INVALID_CREDENTIALS"
    BY <1>5, RuleTable
  <2>2. \A n \in 1..14 : ~(n < 1)
    OBVIOUS
  <2> QED
    BY <2>1, <2>2, FirstRuleWins
<1>6. ASSUME NEW phrases, phrases = {"invalid refresh token"} \/ phrases = {"refresh token not found", "not found"}
      PROVE  InferErrorCode(phrases) = "REFRESH_TOKEN_INVALID"
  <2>1. \A j \in {1, 2} : Rules[j][2] \cap phrases = {}
    BY <1>6, RuleTable
  <2>2. Rules[3][2] \cap phrases # {} /\ Rules[3][1] = "REFRESH_TOKEN_INVALID"
    BY <1>6, RuleTable
  <2>3. \A n \in 1..14 : n < 3 => n \in {1, 2}
    OBVIOUS
  <2> QED
    BY <2>1, <2>2, <2>3, FirstRuleWins
<1>7. InferErrorCode(PhrasesOf("USER_NOT_FOUND")) = "USER_NOT_FOUND"
  BY <1>1, <1>3
<1>8. InferErrorCode(PhrasesOf("REFRESH_TOKEN_INVALID")) = "REFRESH_TOKEN_INVALID"
  BY <1>1, <1>6
<1>9. InferErrorCode(PhrasesOf("REFRESH_TOKEN_NOT_FOUND")) = "REFRESH_TOKEN_INVALID"
  BY <1>1, <1>6
<1> QED
  BY <1>1, <1>4, <1>5, <1>7, <1>8, <1>9

\* The status of a code is the one set of the table that holds it.
LEMMA CodeStatus ==
  /\ StatusOf("USER_NOT_FOUND") = 404
  /\ StatusOf("EMAIL_NOT_VERIFIED") = 403
  /\ StatusOf("INVALID_CREDENTIALS") = 401
  /\ StatusOf("REFRESH_TOKEN_INVALID") = 401
<1>1. DOMAIN CodesOf = {400, 401, 403, 404, 409, 429, 500, 502, 503}
  BY DEF CodesOf
<1>2. \A s \in DOMAIN CodesOf : "USER_NOT_FOUND" \in CodesOf[s] <=> s = 404
  BY <1>1 DEF CodesOf
<1>3. \A s \in DOMAIN CodesOf : "EMAIL_NOT_VERIFIED" \in CodesOf[s] <=> s = 403
  BY <1>1 DEF CodesOf
<1>4. \A s \in DOMAIN CodesOf : "INVALID_CREDENTIALS" \in CodesOf[s] <=> s = 401
  BY <1>1 DEF CodesOf
<1>5. \A s \in DOMAIN CodesOf : "REFRESH_TOKEN_INVALID" \in CodesOf[s] <=> s = 401
  BY <1>1 DEF CodesOf
<1> QED
  BY <1>1, <1>2, <1>3, <1>4, <1>5 DEF StatusOf

\* The answer to an error whose text the gateway reads, by the code it infers.
LEMMA InferredAnswer ==
  ASSUME NEW phrases
  PROVE  GatewayResponse(PlainError(phrases)).status =
           IF InferErrorCode(phrases) # NoCode THEN StatusOf(InferErrorCode(phrases)) ELSE 500
BY DEF GatewayResponse, ErrorResponse, PlainError, HttpException

\* A refusal with a code: its status, its code and the phrases of its text.
LEMMA Refused ==
  ASSUME NEW status, NEW code, code # NoCode
  PROVE  LET up == Refuse(status, code) IN up.status = status /\ up.code = code /\ up.phrases = PhrasesOf(code)
BY DEF Refuse, ErrorResponse, HttpException

\* The gateway's translation of each refusal keeps its status.
LEMMA TranslationKeepsStatus ==
  ASSUME NEW kind \in SessionCalls \cup {"register"}, NEW up \in Refusals(kind) \cup {Ok}
  PROVE  up.code # "TOKEN_EXPIRED" => AnswerTo(kind, up).status = up.status
<1>1. CASE up.status = 200
  <2>1. AnswerTo(kind, up) = Ok
    BY <1>1 DEF AnswerTo
  <2> QED
    BY <1>1, <2>1, RefusalsAreNotOk
<1>2. up.status # 200 => up \in Refusals(kind)
  BY RefusalsAreNotOk
<1>3. ASSUME kind \in SessionCalls, up.status # 200
      PROVE  AnswerTo(kind, up).status =
               IF InferErrorCode(up.phrases) # NoCode THEN StatusOf(InferErrorCode(up.phrases)) ELSE 500
  <2>1. AnswerTo(kind, up) = GatewayResponse(PlainError(up.phrases))
    BY <1>3 DEF AnswerTo, Thrown, SessionCalls
  <2> QED
    BY <2>1, InferredAnswer
\* What the answer to a refusal with a code comes to.
<1>4. ASSUME kind \in SessionCalls, NEW status \in {401, 403, 404}, NEW code, code # NoCode, up = Refuse(status, code)
      PROVE  AnswerTo(kind, up).status =
               IF InferErrorCode(PhrasesOf(code)) # NoCode THEN StatusOf(InferErrorCode(PhrasesOf(code))) ELSE 500
  <2>1. up.status = status /\ up.phrases = PhrasesOf(code)
    BY <1>4, Refused
  <2> QED
    BY <1>3, <1>4, <2>1
<1>5. CASE kind = "sign_in" /\ up.status # 200
  <2>1. \/ up = Refuse(404, "USER_NOT_FOUND") \/ up = Refuse(403, "EMAIL_NOT_VERIFIED")
        \/ up = Refuse(401, "INVALID_CREDENTIALS")
    BY <1>2, <1>5 DEF Refusals
  <2>2. kind \in SessionCalls
    BY <1>5 DEF SessionCalls
  <2>3. CASE up = Refuse(404, "USER_NOT_FOUND")
    BY <1>4, <2>2, <2>3, InferredCodes, CodeStatus, Refused DEF NoCode
  <2>4. CASE up = Refuse(403, "EMAIL_NOT_VERIFIED")
    BY <1>4, <2>2, <2>4, InferredCodes, CodeStatus, Refused DEF NoCode
  <2>5. CASE up = Refuse(401, "INVALID_CREDENTIALS")
    BY <1>4, <2>2, <2>5, InferredCodes, CodeStatus, Refused DEF NoCode
  <2> QED
    BY <2>1, <2>3, <2>4, <2>5
<1>6. CASE kind = "refresh" /\ up.status # 200
  <2>1. \/ up = Refuse(401, "REFRESH_TOKEN_NOT_FOUND") \/ up = Refuse(401, "REFRESH_TOKEN_INVALID")
        \/ up = Refuse(401, "TOKEN_EXPIRED")
    BY <1>2, <1>6 DEF Refusals
  <2>2. kind \in SessionCalls
    BY <1>6 DEF SessionCalls
  <2>3. CASE up = Refuse(401, "REFRESH_TOKEN_NOT_FOUND")
    BY <1>4, <2>2, <2>3, InferredCodes, CodeStatus, Refused DEF NoCode
  <2>4. CASE up = Refuse(401, "REFRESH_TOKEN_INVALID")
    BY <1>4, <2>2, <2>4, InferredCodes, CodeStatus, Refused DEF NoCode
  <2>5. CASE up = Refuse(401, "TOKEN_EXPIRED")
    BY <2>5, Refused DEF NoCode
  <2> QED
    BY <2>1, <2>3, <2>4, <2>5
<1>7. ASSUME up = Broken PROVE up.status = 500 /\ up.code = NoCode /\ up.phrases = {}
  BY <1>7 DEF Broken, ErrorResponse, PlainError
<1>8. CASE kind = "logout" /\ up.status # 200
  <2>1. up = Refuse(401, "REFRESH_TOKEN_INVALID") \/ up = Broken
    BY <1>2, <1>8 DEF Refusals
  <2>2. kind \in SessionCalls
    BY <1>8 DEF SessionCalls
  <2>3. CASE up = Refuse(401, "REFRESH_TOKEN_INVALID")
    BY <1>4, <2>2, <2>3, InferredCodes, CodeStatus, Refused DEF NoCode
  <2>4. CASE up = Broken
    BY <1>3, <1>7, <1>8, <2>2, <2>4, NoRuleHits DEF NoCode
  <2> QED
    BY <2>1, <2>3, <2>4
<1>9. CASE kind = "register" /\ up.status # 200
  <2>1. up \in {Refuse(409, "EMAIL_ALREADY_EXISTS"), Refuse(409, "UNVERIFIED_ACCOUNT_EXISTS"), Broken}
    BY <1>2, <1>9 DEF Refusals
  <2>2. AnswerTo(kind, up) = GatewayResponse(IF up.code # NoCode THEN HttpException(up.status, up.code) ELSE PlainError(up.phrases))
    BY <1>9 DEF AnswerTo, Thrown, SessionCalls
  <2>3. ASSUME NEW code, code # NoCode, code # "TOKEN_EXPIRED", up = Refuse(409, code)
        PROVE  AnswerTo(kind, up).status = up.status /\ up.code # "TOKEN_EXPIRED"
    <3>1. up.status = 409 /\ up.code = code
      BY <2>3, Refused
    <3>2. GatewayResponse(HttpException(409, code)).status = 409
      BY DEF GatewayResponse, ErrorResponse, HttpException
    <3> QED
      BY <2>2, <2>3, <3>1, <3>2
  <2>4. CASE up = Broken
    <3>1. AnswerTo(kind, up) = GatewayResponse(PlainError({}))
      BY <1>7, <2>2, <2>4
    <3> QED
      BY <1>7, <2>4, <3>1, InferredAnswer, NoRuleHits DEF NoCode
  <2> QED
    BY <2>1, <2>3, <2>4 DEF NoCode
<1> QED
  BY <1>1, <1>5, <1>6, <1>8, <1>9 DEF SessionCalls

\* The greater of 0 and x.
LEMMA MaxOfTwo == ASSUME NEW x \in Int PROVE Max({0, x}) = IF x > 0 THEN x ELSE 0
<1> DEFINE S == {0, x}
<1>1. \E m \in S : \A y \in S : m >= y
  OBVIOUS
<1> QED
  BY <1>1 DEF Max

-----------------------------------------------------------------------------
(* What a call does to the session                                         *)

Opened(kind, up) == kind = "sign_in" /\ up = Ok /\ Issue(Len(grants) + 1)
Rotated(kind, n, up) == kind = "refresh" /\ up = Ok /\ row = n /\ Issue(grants[n].session)
Closed(kind, n, up) == kind = "logout" /\ up = Ok /\ row = n /\ row' = 0 /\ grants' = grants
Outlived(kind, up) == kind = "refresh" /\ up # Ok /\ up.code = "TOKEN_EXPIRED" /\ row' = 0 /\ grants' = grants
Kept(kind, up) == ~(kind \in SessionCalls /\ up = Ok) /\ row' = row /\ grants' = grants

AuthCase(kind, n, up) ==
  \/ Opened(kind, up) \/ Rotated(kind, n, up) \/ Closed(kind, n, up) \/ Outlived(kind, up) \/ Kept(kind, up)

LEMMA AuthCases ==
  ASSUME NEW call, NEW up, AuthService(call, up)
  PROVE  AuthCase(call.kind, call.token, up)
<1> USE RefusalsAreNotOk
<1>1. CASE call.kind = "sign_in" /\ SignIn(up)
  BY <1>1 DEF SignIn, AuthCase, Opened, Kept
<1>2. CASE call.kind = "refresh" /\ Refresh(call.token, up)
  BY <1>2 DEF Refresh, AuthCase, Rotated, Outlived, Kept, Refuse, ErrorResponse, HttpException
<1>3. CASE call.kind = "logout" /\ Logout(call.token, up)
  BY <1>3 DEF Logout, AuthCase, Closed, Kept
<1>4. CASE call.kind = "me" /\ GetMe(call.token, up)
  BY <1>4 DEF GetMe, AuthCase, Kept, SessionCalls
<1>5. CASE call.kind = "update" /\ UpdateUser(call, up)
  BY <1>5 DEF UpdateUser, AuthCase, Kept, SessionCalls
<1>6. CASE call.kind = "register" /\ Register(up)
  BY <1>6 DEF Register, AuthCase, Kept, SessionCalls
<1>7. CASE call.kind = "verify_email" /\ VerifyEmail(up)
  BY <1>7 DEF VerifyEmail, AuthCase, Kept, SessionCalls
<1> QED
  BY <1>1, <1>2, <1>3, <1>4, <1>5, <1>6, <1>7 DEF AuthService

\* An update is written at its last stage only, and leaves the rest of the row.
LEMMA WhoWrites ==
  ASSUME TypeInv, NEW call, NEW up, AuthService(call, up)
  PROVE  /\ target'.role = target.role /\ target'.active = target.active
         /\ target' \in [role : {"ADMIN", "CLIENT"}, active : BOOLEAN, verified : BOOLEAN]
         /\ (call.stage = "write" /\ up = Ok) \/ target' = target
<1>1. target' = target \/ (call.kind = "update" /\ UpdateUser(call, up))
  BY DEF AuthService, SignIn, Refresh, Logout, GetMe, Register, VerifyEmail
<1>2. target \in [role : {"ADMIN", "CLIENT"}, active : BOOLEAN, verified : BOOLEAN]
  BY DEF TypeInv, AccountOK
<1>3. target' = target \/ (call.stage = "write" /\ up = Ok /\ target' = [target EXCEPT !.verified = TRUE])
  BY <1>1 DEF UpdateUser
<1> QED
  BY <1>2, <1>3

-----------------------------------------------------------------------------
(* How the grants grow                                                     *)

GrantsKept ==
  /\ grants' \in Seq(Grant)
  /\ Len(grants) \in Nat /\ Len(grants') \in Nat
  /\ Len(grants) <= Len(grants')
  /\ \A i \in 1..Len(grants) : grants'[i] = grants[i]

\* A call whose token is one of the grants adds at most one grant.
LEMMA GrantsGrow ==
  ASSUME TypeInv, NEW call, call.token \in GrantIds, NEW up, AuthService(call, up), call.kind = "refresh" => call.token # 0
  PROVE  GrantsKept /\ row' \in 0..Len(grants')
<1>1. grants \in Seq(Grant) /\ Len(grants) \in Nat /\ row \in 0..Len(grants) /\ call.token \in 0..Len(grants)
  BY DEF TypeInv, TablesOK, GrantIds
<1>2. ASSUME NEW s \in Nat, Issue(s)
      PROVE  GrantsKept /\ row' \in 0..Len(grants')
  <2> DEFINE g == [claims |-> account.claims, exp |-> now + AccessLife, session |-> s]
  <2>1. now + AccessLife \in Nat
    BY GatewayAssumption DEF TypeInv, TablesOK
  <2>2. account.claims \in Claims
    BY DEF TypeInv, AccountOK
  <2>3. g \in Grant
    BY <2>1, <2>2 DEF Grant
  <2>4. grants' = Append(grants, g) /\ row' = Len(grants) + 1
    BY <1>2 DEF Issue
  <2> HIDE DEF g
  <2> QED
    BY <1>1, <2>3, <2>4 DEF GrantsKept
<1>3. CASE row' \in 0..Len(grants) /\ grants' = grants
  BY <1>1, <1>3 DEF GrantsKept
<1>4. CASE Opened(call.kind, up)
  BY <1>1, <1>2, <1>4 DEF Opened
<1>5. CASE Rotated(call.kind, call.token, up)
  <2>1. call.token \in 1..Len(grants)
    BY <1>1, <1>5 DEF Rotated
  <2>2. grants[call.token] \in Grant
    BY <1>1, <2>1
  <2>3. grants[call.token].session \in Nat
    BY <2>2 DEF Grant
  <2> QED
    BY <1>2, <1>5, <2>3 DEF Rotated
<1>6. CASE Closed(call.kind, call.token, up) \/ Outlived(call.kind, up) \/ Kept(call.kind, up)
  BY <1>1, <1>3, <1>6 DEF Closed, Outlived, Kept
<1> QED
  BY <1>4, <1>5, <1>6, AuthCases DEF AuthCase

\* Steps that leave the database alone.
LEMMA GrantsSame == ASSUME TypeInv, UNCHANGED grants PROVE GrantsKept
BY DEF TypeInv, TablesOK, GrantsKept

-----------------------------------------------------------------------------
(* How a request moves                                                     *)

Becomes(t, r) == req' = [u \in Tabs |-> IF u = t THEN r ELSE req[u]]

\* The request goes on without an answer of the auth-service.
Quietly(t) ==
  \E r : /\ Becomes(t, r) /\ RequestOK(r, grants)
         /\ r.stage # "idle" /\ r.up = NoAnswer /\ r.kind = req[t].kind
         /\ r.stage = "call" => r.token = req[t].token
         /\ r.asked \in {0, req[t].asked}
         /\ r.stage \in {"target", "write"} =>
              Passes(req[t], r.stage) /\ r.token = req[t].token /\ r.asked = req[t].asked

LEMMA RequestsMove ==
  ASSUME TypeInv, GrantsKept, NEW t \in Tabs, NEW r, Becomes(t, r), RequestOK(r, grants')
  PROVE  RequestsOK'
<1>1. req' = [u \in Tabs |-> req'[u]]
  BY DEF Becomes
<1>2. ASSUME NEW u \in Tabs PROVE RequestOK(req'[u], grants')
  <2>1. CASE u = t
    BY <2>1 DEF Becomes
  <2>2. CASE u # t
    <3>1. req'[u] = req[u] /\ RequestOK(req[u], grants)
      BY <2>2 DEF Becomes, TypeInv, RequestsOK
    <3>2. req[u].token \in 0..Len(grants')
      BY <3>1 DEF RequestOK, GrantsKept
    <3>3. req[u].stage = "store" => grants'[req[u].token] = grants[req[u].token]
      BY <3>1 DEF RequestOK, GrantsKept, Presenting
    <3> QED
      BY <3>1, <3>2, <3>3 DEF RequestOK
  <2> QED
    BY <2>1, <2>2
<1> QED
  BY <1>1, <1>2 DEF RequestsOK

LEMMA Fields ==
  ASSUME TypeInv, NEW t \in Tabs
  PROVE  /\ RequestOK(req[t], grants)
         /\ \A r : req' = [req EXCEPT ![t] = r] => Becomes(t, r)
BY DEF TypeInv, RequestsOK, Becomes

\* A request field by field, and what the updates of the module make of it.
Record(k, s, n, q, l, c, p, a) ==
  [kind |-> k, stage |-> s, token |-> n, asked |-> q, ttl |-> l, since |-> c, up |-> p, answer |-> a]

LEMMA Answered ==
  ASSUME NEW k, NEW a
  PROVE  [Request EXCEPT !.kind = k, !.stage = "reply", !.answer = a] = Record(k, "reply", 0, 0, 0, 0, NoAnswer, a)
<1>1. [Request EXCEPT !.kind = k] = Record(k, "idle", 0, 0, 0, 0, NoAnswer, NoAnswer)
  BY DEF Request, Record
<1>2. [Record(k, "idle", 0, 0, 0, 0, NoAnswer, NoAnswer) EXCEPT !.stage = "reply"] = Record(k, "reply", 0, 0, 0, 0, NoAnswer, NoAnswer)
  BY DEF Record
<1>3. [Record(k, "reply", 0, 0, 0, 0, NoAnswer, NoAnswer) EXCEPT !.answer = a] = Record(k, "reply", 0, 0, 0, 0, NoAnswer, a)
  BY DEF Record
<1> QED
  BY <1>1, <1>2, <1>3

LEMMA SentRecord ==
  ASSUME NEW k, NEW s, NEW n, NEW q
  PROVE  [Request EXCEPT !.kind = k, !.stage = s, !.token = n, !.asked = q] = Record(k, s, n, q, 0, 0, NoAnswer, NoAnswer)
<1>1. [Request EXCEPT !.kind = k] = Record(k, "idle", 0, 0, 0, 0, NoAnswer, NoAnswer)
  BY DEF Request, Record
<1>2. [Record(k, "idle", 0, 0, 0, 0, NoAnswer, NoAnswer) EXCEPT !.stage = s] = Record(k, s, 0, 0, 0, 0, NoAnswer, NoAnswer)
  BY DEF Record
<1>3. [Record(k, s, 0, 0, 0, 0, NoAnswer, NoAnswer) EXCEPT !.token = n] = Record(k, s, n, 0, 0, 0, NoAnswer, NoAnswer)
  BY DEF Record
<1>4. [Record(k, s, n, 0, 0, 0, NoAnswer, NoAnswer) EXCEPT !.asked = q] = Record(k, s, n, q, 0, 0, NoAnswer, NoAnswer)
  BY DEF Record
<1> QED
  BY <1>1, <1>2, <1>3, <1>4

\* An answer that the gateway makes by itself.
LEMMA AnswerMoves ==
  ASSUME TypeInv, NEW t \in Tabs, NEW a, Answer(t, a)
  PROVE  Quietly(t)
<1> DEFINE r == [kind |-> req[t].kind, stage |-> "reply", token |-> 0, asked |-> 0, ttl |-> 0, since |-> 0,
                 up |-> NoAnswer, answer |-> a]
<1>1. RequestOK(req[t], grants)
  BY Fields
<1>2. Becomes(t, r)
  <2>1. [Request EXCEPT !.kind = req[t].kind, !.stage = "reply", !.answer = a] = r
    BY Answered DEF Record
  <2>2. req' = [req EXCEPT ![t] = r]
    BY <2>1 DEF Answer
  <2> HIDE DEF r
  <2> QED
    BY <2>2, Fields
<1>3. RequestOK(r, grants)
  <2>1. 0 \in 0..Len(grants)
    BY DEF TypeInv, TablesOK
  <2> QED
    BY <1>1, <2>1, RefusalsAreNotOk DEF RequestOK, IsRequest, Stages, InService
<1> QED
  BY <1>2, <1>3 DEF Quietly

\* A request that advances with its token.
LEMMA AdvanceMoves ==
  ASSUME TypeInv, NEW t \in Tabs, NEW stage, Advance(t, stage),
         \/ stage \in {"verify", "call"} /\ req[t].stage \in {"cache", "verify", "store"}
         \/ stage \in InService /\ Passes(req[t], stage)
  PROVE  Quietly(t)
<1> DEFINE r == [kind |-> req[t].kind, stage |-> stage, token |-> req[t].token, asked |-> req[t].asked, ttl |-> req[t].ttl,
                 since |-> req[t].since, up |-> req[t].up, answer |-> req[t].answer]
<1>1. RequestOK(req[t], grants)
  BY Fields
<1>2. [req[t] EXCEPT !.stage = stage] = r
  BY <1>1 DEF RequestOK, IsRequest
<1>3. req' = [req EXCEPT ![t] = r]
  BY <1>2 DEF Advance
<1>4. Becomes(t, r)
  BY <1>3, Fields
<1>5. RequestOK(r, grants)
  <2>1. IsRequest(r)
    BY DEF IsRequest
  <2>2. req[t].stage \in {"cache", "verify", "store", "call", "target"}
    BY DEF Passes
  <2>3. \/ stage \in {"verify", "call"} /\ req[t].stage \in {"cache", "verify", "store"}
        \/ stage \in {"target", "write"} /\ req[t].kind = "update"
    BY DEF Passes
  <2> HIDE DEF r
  <2>4. r.kind = req[t].kind /\ r.stage = stage /\ r.token = req[t].token /\ r.up = req[t].up /\ r.ttl = req[t].ttl /\ r.since = req[t].since
    BY DEF r
  <2> QED
    BY <1>1, <2>1, <2>2, <2>3, <2>4 DEF RequestOK, Stages, InService, SessionCalls
<1>6. r.up = NoAnswer /\ r.stage # "idle"
  BY <1>1 DEF RequestOK, Passes, InService
<1>7. stage \in {"target", "write"} => Passes(req[t], stage)
  OBVIOUS
<1> QED
  BY <1>4, <1>5, <1>6, <1>7 DEF Quietly

\* A request whose payload is to be stored.
LEMMA Stored ==
  ASSUME TypeInv, NEW t \in Tabs, NEW ttl, NEW since,
         req' = [req EXCEPT ![t].stage = "store", ![t].ttl = ttl, ![t].since = since]
  PROVE  Becomes(t, Record(req[t].kind, "store", req[t].token, req[t].asked, ttl, since, req[t].up, req[t].answer))
<1> DEFINE R(stage, l, c) == Record(req[t].kind, stage, req[t].token, req[t].asked, l, c, req[t].up, req[t].answer)
<1>1. [[[req[t] EXCEPT !.stage = "store"] EXCEPT !.ttl = ttl] EXCEPT !.since = since] = R("store", ttl, since)
  <2>1. RequestOK(req[t], grants)
    BY Fields
  <2>2. req[t] = R(req[t].stage, req[t].ttl, req[t].since)
    BY <2>1 DEF RequestOK, IsRequest, Record
  <2>3. [req[t] EXCEPT !.stage = "store"] = R("store", req[t].ttl, req[t].since)
    BY <2>2 DEF Record
  <2>4. [R("store", req[t].ttl, req[t].since) EXCEPT !.ttl = ttl] = R("store", ttl, req[t].since)
    BY DEF Record
  <2>5. [R("store", ttl, req[t].since) EXCEPT !.since = since] = R("store", ttl, since)
    BY DEF Record
  <2> HIDE DEF R
  <2> QED
    BY <2>3, <2>4, <2>5
<1> QED
  BY <1>1 DEF TypeInv, RequestsOK, Becomes

LEMMA PassGuardsMoves ==
  ASSUME TypeInv, NEW t \in Tabs, PassGuards(t), req[t].stage \in {"cache", "verify", "store"}
  PROVE  Quietly(t)
<1>1. (\E a : Answer(t, a)) \/ Advance(t, "call")
  BY DEF PassGuards
<1> QED
  BY <1>1, AnswerMoves, AdvanceMoves

\* Cache and verification, the guard of the access token; and the checks of an update.
LEMMA GuardMoves ==
  ASSUME TypeInv, NEW t \in Tabs, ReadCache(t) \/ Verify(t) \/ Store(t) \/ Check(t)
  PROVE  Quietly(t) /\ req[t].kind \notin SessionCalls
<1>1. RequestOK(req[t], grants)
  BY Fields
<1>2. req[t].stage \in {"cache", "verify", "store"} \/ Check(t)
  BY DEF ReadCache, Verify, Store
<1>3. req[t].kind \notin SessionCalls
  BY <1>1, <1>2 DEF RequestOK, SessionCalls, Check, Passes
<1>7. CASE Check(t)
  BY <1>3, <1>7, AdvanceMoves DEF Check
<1>4. CASE ReadCache(t)
  <2>1. req[t].stage = "cache" /\ (PassGuards(t) \/ Advance(t, "verify"))
    BY <1>4 DEF ReadCache
  <2>2. CASE PassGuards(t)
    BY <1>3, <2>1, <2>2, PassGuardsMoves
  <2>3. CASE Advance(t, "verify")
    BY <1>3, <2>1, <2>3, AdvanceMoves
  <2> QED
    BY <2>1, <2>2, <2>3
<1>5. CASE Store(t)
  <2>1. PassGuards(t) /\ req[t].stage = "store"
    BY <1>5 DEF Store
  <2> QED
    BY <1>3, <2>1, PassGuardsMoves
<1>6. CASE Verify(t)
  <2> DEFINE n == req[t].token
  <2>1. CASE Answer(t, Unauthorized)
    BY <1>3, <2>1, AnswerMoves
  <2>3. CASE PassGuards(t)
    BY <1>3, <1>6, <2>3, PassGuardsMoves DEF Verify
  <2>2. CASE /\ IsValid(n) /\ ~(CacheTtl(n) <= MinTtl)
             /\ req' = [req EXCEPT ![t].stage = "store", ![t].ttl = CacheTtl(n), ![t].since = now]
    <3> DEFINE r == [kind |-> req[t].kind, stage |-> "store", token |-> n, asked |-> req[t].asked, ttl |-> CacheTtl(n),
                     since |-> now, up |-> req[t].up, answer |-> req[t].answer]
    <3>0. req[t].stage = "verify" /\ Len(grants) \in Nat
      BY <1>6 DEF Verify, TypeInv, TablesOK
    <3>1. n \in 1..Len(grants) /\ req[t].kind \in {"me", "update"} /\ req[t].up = NoAnswer
      BY <1>1, <3>0 DEF RequestOK, Presenting
    <3>9. grants[n] \in Grant /\ now \in Nat
      BY <3>1 DEF TypeInv, TablesOK
    <3>2. grants[n].exp \in Nat /\ now \in Nat
      BY <3>9 DEF Grant
    <3>3. CacheTtl(n) = IF grants[n].exp - now - Buffer > 0 THEN grants[n].exp - now - Buffer ELSE 0
      BY <3>2, MaxOfTwo, GatewayAssumption DEF CacheTtl
    <3>10. ~(CacheTtl(n) <= MinTtl)
      BY <2>2
    <3> DEFINE rest == grants[n].exp - now - Buffer
    <3>12. rest \in Int /\ MinTtl \in Nat
      BY <3>2, GatewayAssumption
    <3>13. CacheTtl(n) = IF rest > 0 THEN rest ELSE 0
      BY <3>3
    <3>14. rest > 0
      <4>1. CASE ~(rest > 0)
        <5>1. CacheTtl(n) = 0 /\ 0 <= MinTtl
          BY <3>12, <3>13, <4>1
        <5> QED
          BY <3>10, <5>1
      <4> QED
        BY <4>1
    <3>4. CacheTtl(n) \in Nat /\ CacheTtl(n) = rest
      BY <3>12, <3>13, <3>14
    <3>5. r = Record(req[t].kind, "store", n, req[t].asked, CacheTtl(n), now, req[t].up, req[t].answer)
      BY DEF Record
    <3>6. Becomes(t, r)
      BY <2>2, <3>5, Stored
    <3>7. r.ttl + r.since + Buffer <= grants[r.token].exp
      BY <3>2, <3>4, GatewayAssumption
    <3>11. IsRequest(r)
      BY DEF IsRequest
    <3>8. RequestOK(r, grants)
      <4>1. r.kind = req[t].kind /\ r.token = n /\ r.stage = "store" /\ r.up = NoAnswer /\ r.ttl \in Nat /\ r.since \in Nat
        BY <3>1, <3>2, <3>4
      <4>2. req[t].kind \in Calls \cup {"none"} /\ n \in 0..Len(grants) /\ n # 0
        BY <1>1, <3>1 DEF RequestOK
      <4> HIDE DEF r, n
      <4> QED
        BY <3>1, <3>7, <3>11, <4>1, <4>2 DEF RequestOK, Stages, SessionCalls, Presenting
    <3> QED
      BY <1>3, <3>1, <3>6, <3>8 DEF Quietly
  <2> QED
    BY <1>6, <2>1, <2>2, <2>3 DEF Verify
<1> QED
  BY <1>4, <1>5, <1>6, <1>7

\* A request that is sent.
LEMMA SendMoves ==
  ASSUME TypeInv, NEW t \in Tabs, NEW kind \in Kinds, Send(t, kind)
  PROVE  \E r : /\ Becomes(t, r) /\ RequestOK(r, grants)
                /\ r.stage # "idle" /\ r.up = NoAnswer /\ r.kind = kind
                /\ r.asked \in {0, Len(changes)} /\ r.stage \notin {"target", "write"}
                /\ r.stage = "call" /\ kind \in {"refresh", "logout"} => r.token = jar.refresh
<1>1. kind \in Calls /\ kind # "none" /\ 0 \in 0..Len(grants)
  BY GatewayAssumption DEF Calls, TypeInv, TablesOK
<1>2. ASSUME NEW a, req' = [req EXCEPT ![t] = [Request EXCEPT !.kind = kind, !.stage = "reply", !.answer = a]]
      PROVE  \E r : /\ Becomes(t, r) /\ RequestOK(r, grants) /\ r.stage = "reply" /\ r.up = NoAnswer /\ r.kind = kind /\ r.asked = 0
  <2> DEFINE r == [kind |-> kind, stage |-> "reply", token |-> 0, asked |-> 0, ttl |-> 0, since |-> 0, up |-> NoAnswer, answer |-> a]
  <2>1. Becomes(t, r)
    <3>1. req' = [req EXCEPT ![t] = r]
      BY <1>2, Answered DEF Record
    <3> HIDE DEF r
    <3> QED
      BY <3>1, Fields
  <2>2. RequestOK(r, grants)
    BY <1>1, RefusalsAreNotOk DEF RequestOK, IsRequest, Stages, InService
  <2> QED
    BY <2>1, <2>2
<1>3. ASSUME req' = [req EXCEPT ![t] = [Request EXCEPT !.kind = kind, !.stage = FirstStage(kind), !.token = Token(kind), !.asked = Len(changes)]],
             ~NoTokenFound(kind)
      PROVE  \E r : /\ Becomes(t, r) /\ RequestOK(r, grants)
                    /\ r.stage \in {"cache", "call"} /\ r.up = NoAnswer /\ r.kind = kind
                    /\ r.token = Token(kind) /\ r.asked = Len(changes)
  <2> DEFINE r == [kind |-> kind, stage |-> FirstStage(kind), token |-> Token(kind), asked |-> Len(changes), ttl |-> 0, since |-> 0,
                   up |-> NoAnswer, answer |-> NoAnswer]
  <2>1. [Request EXCEPT !.kind = kind, !.stage = FirstStage(kind), !.token = Token(kind), !.asked = Len(changes)] = r
    <3>1. [Request EXCEPT !.kind = kind, !.stage = FirstStage(kind), !.token = Token(kind), !.asked = Len(changes)]
            = Record(kind, FirstStage(kind), Token(kind), Len(changes), 0, 0, NoAnswer, NoAnswer)
      BY ONLY SentRecord
    <3>2. r = Record(kind, FirstStage(kind), Token(kind), Len(changes), 0, 0, NoAnswer, NoAnswer)
      BY DEF Record
    <3> QED
      BY <3>1, <3>2
  <2>2. Becomes(t, r)
    <3>1. req' = [req EXCEPT ![t] = r]
      BY <1>3, <2>1
    <3> HIDE DEF r
    <3> QED
      BY <3>1, Fields
  <2>3. Token(kind) \in 0..Len(grants)
    <3>1. jar.refresh \in 0..Len(grants) /\ jar.access \in 0..Len(grants)
      BY DEF TypeInv, TablesOK, GrantIds
    <3>2. AccessCookie \in 0..Len(grants)
      BY <1>1, <3>1 DEF AccessCookie
    <3>3. Token(kind) \in {jar.refresh, AccessCookie, 0}
      BY DEF Token
    <3> QED
      BY <1>1, <3>1, <3>2, <3>3
  <2>4. kind \in Presenting => Token(kind) # 0
    BY <1>3 DEF NoTokenFound, Presenting
  <2>5. FirstStage(kind) \in {"cache", "call"} /\ (FirstStage(kind) = "cache" => kind \in {"me", "update"})
    BY DEF FirstStage
  <2>6. RequestOK(r, grants)
    <3>1. IsRequest(r)
      BY DEF IsRequest
    <3>2. r.kind = kind /\ r.stage = FirstStage(kind) /\ r.token = Token(kind) /\ r.up = NoAnswer
      OBVIOUS
    <3> HIDE DEF r
    <3> QED
      BY <1>1, <2>3, <2>4, <2>5, <3>1, <3>2, RefusalsAreNotOk DEF RequestOK, Stages, InService
  <2>7. r.stage \in {"cache", "call"}
    BY <2>5
  <2> HIDE DEF r
  <2>8. r.up = NoAnswer /\ r.kind = kind /\ r.token = Token(kind) /\ r.asked = Len(changes)
    BY DEF r
  <2> QED
    BY <2>2, <2>6, <2>7, <2>8
<1>4. kind \in {"refresh", "logout"} => Token(kind) = jar.refresh
  BY DEF Token
<1>5. \/ \E a : req' = [req EXCEPT ![t] = [Request EXCEPT !.kind = kind, !.stage = "reply", !.answer = a]]
      \/ /\ req' = [req EXCEPT ![t] = [Request EXCEPT !.kind = kind, !.stage = FirstStage(kind), !.token = Token(kind), !.asked = Len(changes)]]
         /\ ~NoTokenFound(kind)
  BY DEF Send
<1>6. CASE \E a : req' = [req EXCEPT ![t] = [Request EXCEPT !.kind = kind, !.stage = "reply", !.answer = a]]
  <2>1. PICK r : Becomes(t, r) /\ RequestOK(r, grants) /\ r.stage = "reply" /\ r.up = NoAnswer /\ r.kind = kind /\ r.asked = 0
    BY <1>2, <1>6
  <2> QED
    BY <2>1
<1>7. CASE /\ req' = [req EXCEPT ![t] = [Request EXCEPT !.kind = kind, !.stage = FirstStage(kind), !.token = Token(kind), !.asked = Len(changes)]]
           /\ ~NoTokenFound(kind)
  <2>1. PICK r : /\ Becomes(t, r) /\ RequestOK(r, grants)
                 /\ r.stage \in {"cache", "call"} /\ r.up = NoAnswer /\ r.kind = kind
                 /\ r.token = Token(kind) /\ r.asked = Len(changes)
    BY <1>3, <1>7
  <2> QED
    BY <1>4, <2>1
<1> QED
  BY <1>5, <1>6, <1>7

\* A call that is served.
Served(t, up) ==
  /\ up \in Refusals(req[t].kind) \cup {Ok}
  /\ AuthService(req[t], up)
  /\ excused' = (excused \/ up.code = "TOKEN_EXPIRED")
  /\ \E r : /\ Becomes(t, r) /\ RequestOK(r, grants')
            /\ r.stage = "reply" /\ r.up = up /\ r.kind = req[t].kind /\ r.answer = AnswerTo(req[t].kind, up)
            /\ r.token = IF Issues(req[t].kind, up) THEN row' ELSE req[t].token
            /\ r.asked = req[t].asked

LEMMA ServeMoves ==
  ASSUME TypeInv, NEW t \in Tabs, Serve(t)
  PROVE  /\ req[t].stage \in InService
         /\ req[t].kind # "update" => req[t].stage = "call"
         /\ GrantsKept /\ row' \in 0..Len(grants')
         /\ \E up : Served(t, up)
<1>1. /\ RequestOK(req[t], grants) /\ req[t].stage \in InService
      /\ req[t].kind # "update" => req[t].stage = "call"
  BY Fields DEF Serve, RequestOK, InService
<1>2. PICK up \in Refusals(req[t].kind) \cup {Ok} :
                /\ AuthService(req[t], up)
                /\ req' = [req EXCEPT ![t].stage = "reply", ![t].up = up, ![t].answer = AnswerTo(req[t].kind, up),
                                      ![t].token = IF Issues(req[t].kind, up) THEN row' ELSE @]
  BY DEF Serve
<1>3. req[t].token \in GrantIds /\ (req[t].kind \in Presenting => req[t].token # 0) /\ req[t].kind \in Calls
  BY <1>1 DEF RequestOK, GrantIds
<1>4. GrantsKept /\ row' \in 0..Len(grants')
  BY <1>2, <1>3, GrantsGrow DEF Presenting
<1> DEFINE n == IF Issues(req[t].kind, up) THEN row' ELSE req[t].token
           r == [kind |-> req[t].kind, stage |-> "reply", token |-> n, asked |-> req[t].asked, ttl |-> req[t].ttl, since |-> req[t].since,
                 up |-> up, answer |-> AnswerTo(req[t].kind, up)]
<1>5. Becomes(t, r)
  <2>1. [[[[req[t] EXCEPT !.stage = "reply"] EXCEPT !.up = up] EXCEPT !.answer = AnswerTo(req[t].kind, up)]
          EXCEPT !.token = n] = r
    <3>1. req[t] = Record(req[t].kind, req[t].stage, req[t].token, req[t].asked, req[t].ttl, req[t].since, req[t].up, req[t].answer)
      BY <1>1 DEF RequestOK, IsRequest, Record
    <3>2. r = Record(req[t].kind, "reply", n, req[t].asked, req[t].ttl, req[t].since, up, AnswerTo(req[t].kind, up))
      BY DEF Record
    <3> HIDE DEF r, n
    <3> DEFINE R(stage, token, up1, a) == Record(req[t].kind, stage, token, req[t].asked, req[t].ttl, req[t].since, up1, a)
               answer == AnswerTo(req[t].kind, up)
    <3> HIDE DEF answer
    <3>3. [req[t] EXCEPT !.stage = "reply"] = R("reply", req[t].token, req[t].up, req[t].answer)
      BY <3>1 DEF Record
    <3>4. [R("reply", req[t].token, req[t].up, req[t].answer) EXCEPT !.up = up] = R("reply", req[t].token, up, req[t].answer)
      BY DEF Record
    <3>5. [R("reply", req[t].token, up, req[t].answer) EXCEPT !.answer = answer] = R("reply", req[t].token, up, answer)
      BY DEF Record
    <3>6. [R("reply", req[t].token, up, answer) EXCEPT !.token = n] = R("reply", n, up, answer)
      BY DEF Record
    <3>7. r = R("reply", n, up, answer)
      BY <3>2 DEF answer
    <3> HIDE DEF R
    <3>8. [[[[req[t] EXCEPT !.stage = "reply"] EXCEPT !.up = up] EXCEPT !.answer = answer] EXCEPT !.token = n] = r
      BY <3>3, <3>4, <3>5, <3>6, <3>7
    <3> QED
      BY <3>8 DEF answer
  <2>2. req' = [req EXCEPT ![t] = [[[[req[t] EXCEPT !.stage = "reply"] EXCEPT !.up = up]
                                    EXCEPT !.answer = AnswerTo(req[t].kind, up)] EXCEPT !.token = n]]
    BY <1>2 DEF TypeInv, RequestsOK
  <2>3. req' = [req EXCEPT ![t] = r]
    BY <2>1, <2>2
  <2> HIDE DEF r
  <2> QED
    BY <2>3, Fields
<1>6. n \in 0..Len(grants')
  BY <1>1, <1>4 DEF RequestOK, GrantsKept
<1>7. up = Ok /\ req[t].kind \in SessionCalls => n # 0
  <2>1. ASSUME Issues(req[t].kind, up) PROVE row' # 0
    <3>1. PICK s : Issue(s)
      BY <1>2, <2>1, AuthCases, RefusalsAreNotOk DEF AuthCase, Opened, Rotated, Closed, Outlived, Kept, Issues, SessionCalls
    <3> QED
      BY <3>1 DEF Issue, TypeInv, TablesOK
  <2>2. up = Ok /\ req[t].kind \in SessionCalls /\ ~Issues(req[t].kind, up) => req[t].kind = "logout"
    BY DEF SessionCalls, Issues
  <2> QED
    BY <1>3, <2>1, <2>2 DEF Presenting
<1>8. RequestOK(r, grants')
  <2>1. IsRequest(r)
    BY DEF IsRequest
  <2>2. r.kind = req[t].kind /\ r.stage = "reply" /\ r.token = n /\ r.up = up
    OBVIOUS
  <2> HIDE DEF r, n
  <2> QED
    BY <1>3, <1>6, <1>7, <2>1, <2>2 DEF RequestOK, Stages, InService
<1>9. r.stage = "reply" /\ r.up = up /\ r.kind = req[t].kind /\ r.token = n /\ r.asked = req[t].asked
      /\ r.answer = AnswerTo(req[t].kind, up)
  OBVIOUS
<1>10. req'[t] = r
  BY <1>5 DEF Becomes
<1>11. excused' = (excused \/ up.code = "TOKEN_EXPIRED")
  <2>1. excused' = (excused \/ req'[t].up.code = "TOKEN_EXPIRED")
    BY DEF Serve
  <2>2. req'[t].up = up
    BY <1>9, <1>10
  <2> QED
    BY <2>1, <2>2
<1>12. \E q : /\ Becomes(t, q) /\ RequestOK(q, grants') /\ q.stage = "reply" /\ q.up = up /\ q.kind = req[t].kind
              /\ q.answer = AnswerTo(req[t].kind, up) /\ q.token = n /\ q.asked = req[t].asked
  <2> HIDE DEF r, n
  <2> QED
    BY <1>5, <1>8, <1>9
<1> QED
  BY <1>1, <1>2, <1>4, <1>11, <1>12 DEF Served

LEMMA DeliverMoves ==
  ASSUME TypeInv, NEW t \in Tabs, Deliver(t)
  PROVE  Becomes(t, Request) /\ RequestOK(Request, grants)
<1>1. req' = [req EXCEPT ![t] = Request]
  BY DEF Deliver
<1>2. 0 \in 0..Len(grants)
  BY DEF TypeInv, TablesOK
<1>3. RequestOK(Request, grants)
  BY <1>2, RefusalsAreNotOk DEF Request, RequestOK, IsRequest, Stages, SessionCalls, InService
<1> QED
  BY <1>1, <1>3, Fields

LEMMA GiveUpMoves ==
  ASSUME TypeInv, NEW t \in Tabs, GiveUp(t)
  PROVE  Quietly(t)
<1>1. PICK a : Answer(t, a)
  BY DEF GiveUp
<1> QED
  BY <1>1, AnswerMoves

\* Steps that only a target or a call that outlived its request takes.
OtherSteps ==
  \/ \E role \in {"ADMIN", "CLIENT"}, active \in BOOLEAN : ChangeTarget(role, active)
  \/ \E call \in late : CheckLate(call)

\* Its checks are behind it, or they are not about it.
LEMMA CheckedLate ==
  ASSUME TypeInv, NEW call \in late, CheckLate(call)
  PROVE  \E stage \in InService :
           /\ Passes(call, stage)
           /\ late' = (late \ {call}) \cup {[kind |-> call.kind, stage |-> stage, token |-> call.token, asked |-> call.asked]}
<1>1. PICK stage \in InService : Passes(call, stage) /\ late' = (late \ {call}) \cup {[call EXCEPT !.stage = stage]}
  BY DEF CheckLate
<1>2. call = [kind |-> call.kind, stage |-> call.stage, token |-> call.token, asked |-> call.asked]
  BY DEF TypeInv, LateOK
<1>3. [call EXCEPT !.stage = stage] = [kind |-> call.kind, stage |-> stage, token |-> call.token, asked |-> call.asked]
  BY <1>2
<1> QED
  BY <1>1, <1>3

\* A call that outlived its request.
LEMMA LateMoves ==
  ASSUME TypeInv, NEW call \in late, ServeLate(call)
  PROVE  /\ GrantsKept /\ row' \in 0..Len(grants')
         /\ \E up : AuthService(call, up)
<1>1. PICK up : AuthService(call, up)
  BY DEF ServeLate
<1>2. call.token \in GrantIds /\ (call.kind = "refresh" => call.token # 0)
  BY DEF TypeInv, LateOK, Presenting
<1> QED
  BY <1>1, <1>2, GrantsGrow

-----------------------------------------------------------------------------
(* Types                                                                   *)

\* A request that moves quietly is still well-formed.
LEMMA QuietlyOK ==
  ASSUME TypeInv, NEW t \in Tabs, Quietly(t), UNCHANGED grants
  PROVE  RequestsOK'
<1>1. PICK r : Becomes(t, r) /\ RequestOK(r, grants)
  BY DEF Quietly
<1> QED
  BY <1>1, GrantsSame, RequestsMove

LEMMA RequestsStep == ASSUME TypeInv, Next PROVE RequestsOK'
<1>1. ASSUME NEW t \in Tabs, ReadCache(t) \/ Verify(t) \/ Store(t) \/ Check(t) PROVE RequestsOK'
  BY <1>1, GuardMoves, QuietlyOK DEF ReadCache, Verify, Store, Check, database
<1>2. ASSUME NEW t \in Tabs, Serve(t) PROVE RequestsOK'
  <2>1. PICK up : Served(t, up)
    BY <1>2, ServeMoves
  <2>2. PICK r : Becomes(t, r) /\ RequestOK(r, grants')
    BY <2>1 DEF Served
  <2> QED
    BY <1>2, <2>2, ServeMoves, RequestsMove
<1>3. ASSUME NEW t \in Tabs, Deliver(t) PROVE RequestsOK'
  <2>1. UNCHANGED grants
    BY <1>3 DEF Deliver, database
  <2> QED
    BY <1>3, <2>1, DeliverMoves, GrantsSame, RequestsMove
<1>4. ASSUME NEW t \in Tabs, GiveUp(t) PROVE RequestsOK'
  BY <1>4, GiveUpMoves, QuietlyOK DEF GiveUp, database
<1>5. ASSUME NEW t \in Tabs, NEW kind \in Kinds, Send(t, kind) PROVE RequestsOK'
  <2>1. UNCHANGED grants
    BY <1>5 DEF Send, database
  <2>2. PICK r : Becomes(t, r) /\ RequestOK(r, grants)
    BY <1>5, SendMoves
  <2> QED
    BY <2>1, <2>2, GrantsSame, RequestsMove
<1>6. ASSUME UNCHANGED req, GrantsKept PROVE RequestsOK'
  <2>1. ASSUME NEW t \in Tabs PROVE RequestOK(req[t], grants')
    <3>1. RequestOK(req[t], grants)
      BY Fields
    <3>2. req[t].token \in 0..Len(grants')
      BY <1>6, <3>1 DEF RequestOK, GrantsKept
    <3>3. req[t].stage = "store" => grants'[req[t].token] = grants[req[t].token]
      BY <1>6, <3>1 DEF RequestOK, GrantsKept, Presenting
    <3> QED
      BY <3>1, <3>2, <3>3 DEF RequestOK
  <2> QED
    BY <1>6, <2>1 DEF TypeInv, RequestsOK
<1>7. ASSUME NEW call \in late, ServeLate(call) PROVE RequestsOK'
  BY <1>6, <1>7, LateMoves DEF ServeLate
<1>8. ASSUME \/ \E claims \in Claims : ChangeClaims(claims)
             \/ Deactivate \/ Revoke \/ Tick \/ OtherSteps
      PROVE  RequestsOK'
  <2>1. UNCHANGED <<req, grants>>
    BY <1>8 DEF ChangeClaims, OtherSteps, ChangeTarget, CheckLate, Deactivate, Revoke, OthersChange, Tick, database
  <2> QED
    BY <1>6, <2>1, GrantsSame
<1> QED
  BY <1>1, <1>2, <1>3, <1>4, <1>5, <1>7, <1>8 DEF Next, Step, OtherSteps

\* What the steps do to everything but the requests.
LEMMA TablesStep == ASSUME TypeInv, Next PROVE LateOK' /\ AccountOK' /\ TablesOK'
<1> USE DEF GrantIds
<1>1. ASSUME GrantsKept, row' \in 0..Len(grants'), UNCHANGED <<jar, cache, now>> PROVE TablesOK'
  BY <1>1 DEF TypeInv, TablesOK, GrantsKept
<1>2. ASSUME GrantsKept, UNCHANGED late PROVE LateOK'
  BY <1>2 DEF TypeInv, LateOK, GrantsKept
<1>3. ASSUME NEW t \in Tabs, ReadCache(t) \/ Verify(t) \/ Check(t) PROVE LateOK' /\ AccountOK' /\ TablesOK'
  BY <1>3 DEF ReadCache, Verify, Check, database, TypeInv, LateOK, AccountOK, TablesOK
<1>4. ASSUME NEW t \in Tabs, Store(t) PROVE LateOK' /\ AccountOK' /\ TablesOK'
  <2>1. UNCHANGED <<jar, late, grants, row, account, target, now>>
    BY <1>4 DEF Store, database
  <2>2. req[t].token \in 1..Len(grants)
    <3>1. RequestOK(req[t], grants) /\ req[t].stage = "store"
      BY <1>4, Fields DEF Store
    <3> QED
      BY <3>1 DEF RequestOK, Presenting, TypeInv, TablesOK
  <2>3. DOMAIN cache' \subseteq DOMAIN cache \cup {req[t].token}
    BY <1>4 DEF Store
  <2> QED
    BY <2>1, <2>2, <2>3 DEF TypeInv, LateOK, AccountOK, TablesOK
<1>5. ASSUME NEW t \in Tabs, Serve(t) PROVE LateOK' /\ AccountOK' /\ TablesOK'
  <2>1. UNCHANGED <<jar, late, cache, now>>
    BY <1>5 DEF Serve
  <2>2. UNCHANGED account /\ \E up : AuthService(req[t], up)
    BY <1>5 DEF Serve, AuthService
  <2>3. AccountOK'
    BY <2>2, WhoWrites DEF TypeInv, AccountOK
  <2> QED
    BY <1>1, <1>2, <1>5, <2>1, <2>3, ServeMoves
<1>6. ASSUME NEW t \in Tabs, Deliver(t) PROVE LateOK' /\ AccountOK' /\ TablesOK'
  <2>1. UNCHANGED <<late, cache, grants, row, account, target, now>>
    BY <1>6 DEF Deliver, database
  <2>2. req[t].token \in 0..Len(grants) /\ 0 \in 0..Len(grants)
    BY Fields DEF RequestOK, TypeInv, TablesOK
  <2>3. jar' = CookiesAfter(req[t].kind, req[t].token, req[t].up)
    BY <1>6 DEF Deliver
  <2>4. jar \in [access : 0..Len(grants), refresh : 0..Len(grants), csrf : BOOLEAN]
    BY DEF TypeInv, TablesOK
  <2>5. jar' \in [access : 0..Len(grants), refresh : 0..Len(grants), csrf : BOOLEAN]
    BY <2>2, <2>3, <2>4 DEF CookiesAfter
  <2> QED
    BY <2>1, <2>5 DEF TypeInv, LateOK, AccountOK, TablesOK
<1>7. ASSUME NEW t \in Tabs, GiveUp(t) PROVE LateOK' /\ AccountOK' /\ TablesOK'
  <2>1. UNCHANGED <<jar, cache, grants, row, account, target, now>>
    BY <1>7 DEF GiveUp, database
  <2>2. late' = late \/ (req[t].stage \in InService /\ late' = late \cup {LateCall(t)})
    BY <1>7 DEF GiveUp
  <2>5. LateCall(t) = [kind |-> req[t].kind, stage |-> req[t].stage, token |-> req[t].token, asked |-> req[t].asked]
    BY DEF LateCall
  <2>3. ASSUME req[t].stage \in InService
        PROVE  /\ req[t].kind \in Calls /\ req[t].token \in 0..Len(grants)
               /\ req[t].kind \in Presenting => req[t].token # 0
               /\ req[t].stage \in {"target", "write"} => req[t].kind = "update"
    BY <2>3, Fields DEF RequestOK
  <2>6. ASSUME NEW call \in late', call \notin late
        PROVE  /\ call = [kind |-> call.kind, stage |-> call.stage, token |-> call.token, asked |-> call.asked]
               /\ call.kind \in Calls /\ call.stage \in InService /\ call.token \in 0..Len(grants)
               /\ call.stage \in {"target", "write"} => call.kind = "update"
               /\ call.kind \in Presenting => call.token # 0
    <3>1. call = LateCall(t) /\ req[t].stage \in InService
      BY <2>2, <2>6
    <3>2. /\ call.kind = req[t].kind /\ call.stage = req[t].stage /\ call.token = req[t].token
          /\ call.asked = req[t].asked
      BY <2>5, <3>1
    <3>3. call = [kind |-> call.kind, stage |-> call.stage, token |-> call.token, asked |-> call.asked]
      BY <2>5, <3>1, <3>2
    <3> QED
      BY <2>3, <3>1, <3>2, <3>3
  <2>4. LateOK'
    BY <2>1, <2>6 DEF TypeInv, LateOK
  <2> QED
    BY <2>1, <2>4 DEF TypeInv, AccountOK, TablesOK
<1>8. ASSUME NEW t \in Tabs, NEW kind \in Kinds, Send(t, kind) PROVE LateOK' /\ AccountOK' /\ TablesOK'
  <2>1. UNCHANGED <<jar, late, cache, grants, row, account, target, now>>
    BY <1>8 DEF Send, database
  <2> QED
    BY <2>1 DEF TypeInv, LateOK, AccountOK, TablesOK
<1>9. ASSUME NEW call \in late, ServeLate(call) PROVE LateOK' /\ AccountOK' /\ TablesOK'
  <2>1. UNCHANGED <<jar, cache, now>> /\ late' \subseteq late /\ UNCHANGED account /\ \E up : AuthService(call, up)
    BY <1>9 DEF ServeLate, AuthService
  <2>4. AccountOK'
    BY <2>1, WhoWrites DEF TypeInv, AccountOK
  <2>2. GrantsKept /\ row' \in 0..Len(grants')
    BY <1>9, LateMoves
  <2>3. LateOK'
    BY <2>1, <2>2 DEF TypeInv, LateOK, GrantsKept
  <2> QED
    BY <1>1, <2>1, <2>2, <2>3, <2>4
<1>10. ASSUME NEW claims \in Claims, ChangeClaims(claims) PROVE LateOK' /\ AccountOK' /\ TablesOK'
  <2>1. UNCHANGED <<jar, late, cache, grants, row, now, target>> /\ account' = [account EXCEPT !.claims = claims]
    BY <1>10 DEF ChangeClaims, OthersChange
  <2>2. account \in [exists : BOOLEAN, active : BOOLEAN, claims : Claims]
    BY DEF TypeInv, AccountOK
  <2>3. account' \in [exists : BOOLEAN, active : BOOLEAN, claims : Claims]
    BY <2>1, <2>2
  <2> QED
    BY <2>1, <2>3 DEF TypeInv, LateOK, AccountOK, TablesOK
<1>11. ASSUME Deactivate PROVE LateOK' /\ AccountOK' /\ TablesOK'
  <2>1. UNCHANGED <<jar, late, cache, grants, now, target>> /\ row' = 0 /\ 0 \in 0..Len(grants)
    BY <1>11 DEF Deactivate, OthersChange, TypeInv, TablesOK
  <2>2. account \in [exists : BOOLEAN, active : BOOLEAN, claims : Claims]
    BY DEF TypeInv, AccountOK
  <2>3. [account EXCEPT !.active = FALSE] \in [exists : BOOLEAN, active : BOOLEAN, claims : Claims]
    BY <2>2
  <2>4. [[account EXCEPT !.active = FALSE] EXCEPT !.exists = FALSE] \in [exists : BOOLEAN, active : BOOLEAN, claims : Claims]
    BY <2>3
  <2>5. account' = [account EXCEPT !.active = FALSE] \/ account' = [[account EXCEPT !.active = FALSE] EXCEPT !.exists = FALSE]
    BY <1>11, <2>2 DEF Deactivate
  <2>6. account' \in [exists : BOOLEAN, active : BOOLEAN, claims : Claims]
    BY <2>3, <2>4, <2>5
  <2> QED
    BY <2>1, <2>6 DEF TypeInv, LateOK, AccountOK, TablesOK
<1>12. ASSUME Revoke \/ Tick PROVE LateOK' /\ AccountOK' /\ TablesOK'
  BY <1>12 DEF Revoke, OthersChange, Tick, database, TypeInv, LateOK, AccountOK, TablesOK
<1>13. ASSUME NEW role \in {"ADMIN", "CLIENT"}, NEW active \in BOOLEAN, ChangeTarget(role, active)
       PROVE  LateOK' /\ AccountOK' /\ TablesOK'
  <2>1. UNCHANGED <<jar, late, cache, grants, row, account, now>> /\ target' = [target EXCEPT !.role = role, !.active = active]
    BY <1>13 DEF ChangeTarget, OthersChange
  <2>2. target \in [role : {"ADMIN", "CLIENT"}, active : BOOLEAN, verified : BOOLEAN]
    BY DEF TypeInv, AccountOK
  <2>3. target' \in [role : {"ADMIN", "CLIENT"}, active : BOOLEAN, verified : BOOLEAN]
    BY <2>1, <2>2
  <2> QED
    BY <2>1, <2>3 DEF TypeInv, LateOK, AccountOK, TablesOK
<1>14. ASSUME NEW call \in late, CheckLate(call) PROVE LateOK' /\ AccountOK' /\ TablesOK'
  <2>1. UNCHANGED <<jar, cache, grants, row, account, target, now>>
    BY <1>14 DEF CheckLate, database
  <2>2. PICK stage \in InService :
          /\ call.kind = "update"
          /\ late' = (late \ {call}) \cup {[kind |-> call.kind, stage |-> stage, token |-> call.token, asked |-> call.asked]}
    BY <1>14, CheckedLate DEF Passes
  <2>3. LateOK'
    BY <2>1, <2>2 DEF TypeInv, LateOK
  <2> QED
    BY <2>1, <2>3 DEF TypeInv, AccountOK, TablesOK
<1> QED
  BY <1>3, <1>4, <1>5, <1>6, <1>7, <1>8, <1>9, <1>10, <1>11, <1>12, <1>13, <1>14 DEF Next, Step

-----------------------------------------------------------------------------
(* The cache                                                               *)

\* The payload that is stored leaves Redis before its token ends.
LEMMA CacheStep == ASSUME TypeInv, CacheDiesWithToken, Next PROVE CacheDiesWithToken'
<1>1. ASSUME UNCHANGED cache, GrantsKept PROVE CacheDiesWithToken'
  BY <1>1 DEF CacheDiesWithToken, GrantsKept, TypeInv, TablesOK
<1>2. ASSUME NEW t \in Tabs, Store(t) PROVE CacheDiesWithToken'
  <2> DEFINE k == req[t].token
  <2>1. RequestOK(req[t], grants) /\ req[t].stage = "store" /\ UNCHANGED grants
    BY <1>2, Fields DEF Store, database
  <2>2. k \in 1..Len(grants)
    BY <2>1 DEF RequestOK, Presenting, TypeInv, TablesOK
  <2>3. grants[k] \in Grant
    BY <2>2 DEF TypeInv, TablesOK
  <2>4. req[t].ttl \in Nat /\ req[t].since \in Nat /\ req[t].ttl + req[t].since + Buffer <= grants[k].exp
    BY <2>1 DEF RequestOK
  <2>5. now \in Nat /\ Buffer \in Nat /\ grants[k].exp \in Nat
    BY <2>3, GatewayAssumption DEF TypeInv, TablesOK, Grant
  <2>6. now - req[t].since <= Buffer => now + req[t].ttl <= grants[k].exp
    <3> DEFINE ttl == req[t].ttl
               since == req[t].since
               exp == grants[k].exp
    <3>1. ttl \in Nat /\ since \in Nat /\ exp \in Nat /\ ttl + since + Buffer <= exp
      BY <2>4, <2>5
    <3>2. now - since <= Buffer => now + ttl <= exp
      <4> HIDE DEF ttl, since, exp
      <4> QED
        BY <2>5, <3>1
    <3> QED
      BY <3>2
  <2>7. CASE UNCHANGED cache
    BY <1>1, <2>1, <2>7, GrantsSame
  <2>8. CASE cache' = [n \in DOMAIN cache \cup {k} |->
                         IF n = k THEN [until |-> now + req[t].ttl, delay |-> now - req[t].since] ELSE cache[n]]
    <3>1. ASSUME NEW n \in DOMAIN cache', cache'[n].delay <= Buffer PROVE cache'[n].until <= grants'[n].exp
      <4>1. CASE n = k
        <5>1. cache'[n] = [until |-> now + req[t].ttl, delay |-> now - req[t].since]
          BY <2>8, <4>1
        <5>2. now - req[t].since <= Buffer
          BY <3>1, <5>1
        <5> QED
          BY <2>1, <2>6, <4>1, <5>1, <5>2
      <4>2. CASE n # k
        <5>1. n \in DOMAIN cache /\ cache'[n] = cache[n]
          BY <2>8, <4>2
        <5> QED
          BY <2>1, <3>1, <5>1 DEF CacheDiesWithToken
      <4> QED
        BY <4>1, <4>2
    <3> QED
      BY <3>1 DEF CacheDiesWithToken
  <2> QED
    BY <1>2, <2>7, <2>8 DEF Store
<1>3. ASSUME NEW t \in Tabs, Serve(t) PROVE CacheDiesWithToken'
  BY <1>1, <1>3, ServeMoves DEF Serve
<1>4. ASSUME NEW call \in late, ServeLate(call) PROVE CacheDiesWithToken'
  BY <1>1, <1>4, LateMoves DEF ServeLate
<1>5. ASSUME UNCHANGED <<cache, grants>> PROVE CacheDiesWithToken'
  BY <1>1, <1>5, GrantsSame
<1>6. ASSUME NEW t \in Tabs, ReadCache(t) \/ Verify(t) \/ Check(t) \/ Deliver(t) \/ GiveUp(t) PROVE CacheDiesWithToken'
  BY <1>5, <1>6 DEF ReadCache, Verify, Check, Deliver, GiveUp, database
<1>7. ASSUME NEW t \in Tabs, NEW kind \in Kinds, Send(t, kind) PROVE CacheDiesWithToken'
  BY <1>5, <1>7 DEF Send, database
<1>8. ASSUME \/ \E claims \in Claims : ChangeClaims(claims)
             \/ Deactivate \/ Revoke \/ Tick \/ OtherSteps
      PROVE  CacheDiesWithToken'
  BY <1>5, <1>8 DEF ChangeClaims, OtherSteps, ChangeTarget, CheckLate, Deactivate, Revoke, OthersChange, Tick, database
<1> QED
  BY <1>2, <1>3, <1>4, <1>6, <1>7, <1>8 DEF Next, Step, OtherSteps

-----------------------------------------------------------------------------
(* Sessions that were logged out                                           *)

\* A call neither reopens a session that is over nor hands out its number.
LEMMA SessionsMove ==
  ASSUME TypeInv, LogoutOK, NEW call, call.token \in GrantIds, NEW up, AuthService(call, up),
         call.kind = "refresh" => call.token # 0, GrantsKept
  PROVE  /\ \A i \in 1..Len(grants') : grants'[i].session \in 1..Len(grants')
         /\ \A s \in 1..Len(grants) : (row # 0 => grants[row].session # s) => (row' # 0 => grants'[row'].session # s)
         /\ call.kind = "logout" /\ up = Ok => row' = 0
<1>1. grants \in Seq(Grant) /\ Len(grants) \in Nat /\ row \in 0..Len(grants) /\ call.token \in 0..Len(grants)
  BY DEF TypeInv, TablesOK, GrantIds
<1>2. \A i \in 1..Len(grants) : grants[i].session \in 1..Len(grants)
  BY DEF LogoutOK
<1>3. ASSUME NEW s \in 1..Len(grants) + 1, Issue(s)
      PROVE  /\ \A i \in 1..Len(grants') : grants'[i].session \in 1..Len(grants')
             /\ row' # 0 /\ grants'[row'].session = s
  <2> DEFINE g == [claims |-> account.claims, exp |-> now + AccessLife, session |-> s]
  <2>1. grants' = Append(grants, g) /\ row' = Len(grants) + 1
    BY <1>3 DEF Issue
  <2>2. g.session = s
    OBVIOUS
  <2> HIDE DEF g
  <2>3. /\ Len(grants') = Len(grants) + 1
        /\ \A i \in 1..Len(grants) : grants'[i] = grants[i]
        /\ grants'[Len(grants) + 1] = g
    BY <1>1, <2>1
  <2>4. ASSUME NEW i \in 1..Len(grants') PROVE grants'[i].session \in 1..Len(grants')
    <3>1. CASE i = Len(grants) + 1
      BY <1>1, <1>3, <2>2, <2>3, <3>1
    <3>2. CASE i \in 1..Len(grants)
      BY <1>1, <1>2, <2>3, <3>2
    <3> QED
      BY <1>1, <2>3, <3>1, <3>2
  <2> QED
    BY <1>1, <2>1, <2>2, <2>3, <2>4
<1>4. CASE Opened(call.kind, up)
  <2>1. Len(grants) + 1 \in 1..Len(grants) + 1
    BY <1>1
  <2> QED
    BY <1>1, <1>3, <1>4, <2>1 DEF Opened
<1>5. CASE Rotated(call.kind, call.token, up)
  <2>1. row \in 1..Len(grants) /\ row = call.token
    BY <1>1, <1>5 DEF Rotated
  <2>2. grants[call.token].session \in 1..Len(grants) + 1
    BY <1>1, <1>2, <2>1
  <2> QED
    BY <1>3, <1>5, <2>1, <2>2 DEF Rotated
<1>6. CASE Closed(call.kind, call.token, up) \/ Outlived(call.kind, up)
  BY <1>2, <1>6 DEF Closed, Outlived
<1>7. CASE Kept(call.kind, up)
  BY <1>2, <1>7 DEF Kept, SessionCalls
<1> QED
  BY <1>4, <1>5, <1>6, <1>7, AuthCases DEF AuthCase

LEMMA LogoutStep == ASSUME TypeInv, LogoutOK, Next PROVE LogoutOK'
<1>1. /\ \A i \in 1..Len(grants) : grants[i].session \in 1..Len(grants)
      /\ ended \subseteq 1..Len(grants)
      /\ row # 0 => grants[row].session \notin ended
      /\ \A t \in Tabs : LoggedOut(t) /\ row # 0 => grants[row].session # grants[req[t].token].session
  BY DEF LogoutOK, LoggedOutMeansGone
<1>2. ASSUME NEW t \in Tabs, LoggedOut(t) PROVE req[t].token \in 1..Len(grants)
  BY <1>2, Fields DEF LoggedOut, RequestOK, SessionCalls, TypeInv, TablesOK
\* Sessions that are over stay over, and only served logouts are new.
<1>3. ASSUME GrantsKept, UNCHANGED ended,
             \A i \in 1..Len(grants') : grants'[i].session \in 1..Len(grants'),
             \A s \in 1..Len(grants) : (row # 0 => grants[row].session # s) => (row' # 0 => grants'[row'].session # s),
             \A t \in Tabs : LoggedOut(t)' => row' = 0 \/ (LoggedOut(t) /\ req'[t].token = req[t].token)
      PROVE  LogoutOK'
  <2>1. ended' \subseteq 1..Len(grants')
    BY <1>1, <1>3 DEF GrantsKept
  <2>2. LoggedOutMeansGone'
    BY <1>1, <1>3 DEF LoggedOutMeansGone
  <2>3. ASSUME NEW t \in Tabs, LoggedOut(t)', row' # 0 PROVE grants'[row'].session # grants'[req'[t].token].session
    <3>1. LoggedOut(t) /\ req'[t].token = req[t].token
      BY <1>3, <2>3
    <3>2. req[t].token \in 1..Len(grants)
      BY <1>2, <3>1
    <3>3. grants[req[t].token].session \in 1..Len(grants)
      BY <1>1, <3>2
    <3>4. row # 0 => grants[row].session # grants[req[t].token].session
      BY <1>1, <3>1
    <3>5. grants'[row'].session # grants[req[t].token].session
      BY <1>3, <2>3, <3>3, <3>4
    <3>6. grants'[req[t].token] = grants[req[t].token]
      BY <1>3, <3>2 DEF GrantsKept
    <3> QED
      BY <3>1, <3>5, <3>6
  <2> QED
    BY <1>3, <2>1, <2>2, <2>3 DEF LogoutOK
\* The database of the session stays, or its row goes.
<1>4. ASSUME UNCHANGED <<grants, ended>>, row' = row \/ row' = 0,
             \A t \in Tabs : LoggedOut(t)' => LoggedOut(t) /\ req'[t].token = req[t].token
      PROVE  LogoutOK'
  BY <1>1, <1>3, <1>4, GrantsSame
<1>5. ASSUME NEW t \in Tabs, NEW r, Becomes(t, r), r.up = NoAnswer, UNCHANGED <<grants, row, ended>> PROVE LogoutOK'
  <2>1. \A u \in Tabs : LoggedOut(u)' => LoggedOut(u) /\ req'[u].token = req[u].token
    BY <1>5, RefusalsAreNotOk DEF Becomes, LoggedOut
  <2> QED
    BY <1>4, <1>5, <2>1
<1>6. ASSUME NEW t \in Tabs, ReadCache(t) \/ Verify(t) \/ Store(t) \/ Check(t) \/ GiveUp(t) PROVE LogoutOK'
  <2>1. Quietly(t)
    BY <1>6, GuardMoves, GiveUpMoves
  <2>2. UNCHANGED <<grants, row, ended>>
    BY <1>6 DEF ReadCache, Verify, Store, Check, GiveUp, database, history
  <2> QED
    BY <1>5, <2>1, <2>2 DEF Quietly
<1>7. ASSUME NEW t \in Tabs, NEW kind \in Kinds, Send(t, kind) PROVE LogoutOK'
  <2>1. UNCHANGED <<grants, row, ended>>
    BY <1>7 DEF Send, database
  <2>2. PICK r : Becomes(t, r) /\ r.up = NoAnswer
    BY <1>7, SendMoves
  <2> QED
    BY <1>5, <2>1, <2>2
<1>8. ASSUME NEW t \in Tabs, Serve(t) PROVE LogoutOK'
  <2>1. PICK up : Served(t, up)
    BY <1>8, ServeMoves
  <2>2. PICK r : /\ Becomes(t, r) /\ r.up = up /\ r.kind = req[t].kind
                 /\ r.token = IF Issues(req[t].kind, up) THEN row' ELSE req[t].token
    BY <2>1 DEF Served
  <2>3. GrantsKept /\ req[t].stage \in InService /\ UNCHANGED ended
    BY <1>8, ServeMoves DEF Serve
  <2>4. AuthService(req[t], up) /\ req[t].token \in GrantIds /\ (req[t].kind = "refresh" => req[t].token # 0)
    BY <2>1, <2>3, Fields DEF Served, RequestOK, GrantIds, Presenting
  <2>5. /\ \A i \in 1..Len(grants') : grants'[i].session \in 1..Len(grants')
        /\ \A s \in 1..Len(grants) : (row # 0 => grants[row].session # s) => (row' # 0 => grants'[row'].session # s)
        /\ req[t].kind = "logout" /\ up = Ok => row' = 0
    BY <2>3, <2>4, SessionsMove
  <2>6. \A u \in Tabs : LoggedOut(u)' => row' = 0 \/ (LoggedOut(u) /\ req'[u].token = req[u].token)
    BY <2>2, <2>5 DEF Becomes, LoggedOut
  <2> QED
    BY <1>3, <2>3, <2>5, <2>6
<1>9. ASSUME NEW call \in late, ServeLate(call) PROVE LogoutOK'
  <2>1. PICK up : AuthService(call, up)
    BY <1>9, LateMoves
  <2>2. call.token \in GrantIds /\ (call.kind = "refresh" => call.token # 0)
    BY <1>9 DEF TypeInv, LateOK, Presenting
  <2>3. GrantsKept /\ UNCHANGED <<req, ended>>
    BY <1>9, LateMoves DEF ServeLate, history
  <2>4. /\ \A i \in 1..Len(grants') : grants'[i].session \in 1..Len(grants')
        /\ \A s \in 1..Len(grants) : (row # 0 => grants[row].session # s) => (row' # 0 => grants'[row'].session # s)
    BY <2>1, <2>2, <2>3, SessionsMove
  <2>5. \A u \in Tabs : LoggedOut(u)' => LoggedOut(u) /\ req'[u].token = req[u].token
    BY <2>3 DEF LoggedOut
  <2> QED
    BY <1>3, <2>3, <2>4, <2>5
<1>10. ASSUME NEW t \in Tabs, Deliver(t) PROVE LogoutOK'
  <2>1. Becomes(t, Request) /\ UNCHANGED <<grants, row>>
    BY <1>10, DeliverMoves DEF Deliver, database
  <2>2. Request.up = NoAnswer
    BY DEF Request
  <2>3. CASE UNCHANGED ended
    BY <1>5, <2>1, <2>2, <2>3
  <2>4. CASE LoggedOut(t) /\ ended' = ended \cup {grants[req[t].token].session}
    <3>1. req[t].token \in 1..Len(grants)
      BY <1>2, <2>4
    <3>2. grants[req[t].token].session \in 1..Len(grants)
      BY <1>1, <3>1
    <3>3. row # 0 => grants[row].session # grants[req[t].token].session
      BY <1>1, <2>4
    <3>4. ended' \subseteq 1..Len(grants') /\ LoggedOutMeansGone'
      BY <1>1, <2>1, <2>4, <3>2, <3>3 DEF LoggedOutMeansGone
    <3>5. \A u \in Tabs : LoggedOut(u)' => LoggedOut(u) /\ req'[u].token = req[u].token
      BY <2>1, <2>2, RefusalsAreNotOk DEF Becomes, LoggedOut
    <3> QED
      BY <1>1, <2>1, <3>4, <3>5 DEF LogoutOK
  <2> QED
    BY <1>10, <2>3, <2>4 DEF Deliver, LoggedOut
<1>11. ASSUME \/ \E claims \in Claims : ChangeClaims(claims)
              \/ Deactivate \/ Revoke \/ Tick \/ OtherSteps
       PROVE  LogoutOK'
  <2>1. UNCHANGED <<req, grants, ended>> /\ (row' = row \/ row' = 0)
    BY <1>11 DEF ChangeClaims, OtherSteps, ChangeTarget, CheckLate, Deactivate, Revoke, OthersChange, Tick, database, history
  <2>2. \A u \in Tabs : LoggedOut(u)' => LoggedOut(u) /\ req'[u].token = req[u].token
    BY <2>1 DEF LoggedOut
  <2> QED
    BY <1>4, <2>1, <2>2
<1> QED
  BY <1>6, <1>7, <1>8, <1>9, <1>10, <1>11 DEF Next, Step, OtherSteps

-----------------------------------------------------------------------------
(* Updates                                                                 *)

\* The moments m go on as n.
GoesOn(m, n) == Len(m) \in Nat /\ Len(n) \in Nat /\ Len(m) <= Len(n) /\ \A i \in 1..Len(m) : n[i] = m[i]

LEMMA LastMoment ==
  ASSUME TypeInv, UpdatesOK
  PROVE  /\ changes \in Seq(Moment) /\ Present \in Moment
         /\ Len(changes) \in Nat /\ Len(Moments) = Len(changes) + 1 /\ Moments[Len(Moments)] = Present
<1>1. changes \in Seq(Moment)
  BY DEF UpdatesOK
<1>2. Present \in Moment
  BY DEF Present, Moment, TypeInv, AccountOK
<1> QED
  BY <1>1, <1>2 DEF Moments

\* Nothing that was is forgotten.
LEMMA MomentsMove ==
  ASSUME TypeInv, UpdatesOK, AccountOK', UNCHANGED <<changes, Present>> \/ changes' = Append(changes, Present)
  PROVE  GoesOn(Moments, Moments') /\ changes' \in Seq(Moment)
<1>1. Present' \in Moment
  BY DEF Present, Moment, AccountOK
<1>2. Moments \in Seq(Moment)
  BY LastMoment DEF Moments
<1>3. CASE UNCHANGED <<changes, Present>>
  BY <1>2, <1>3, LastMoment DEF Moments, GoesOn
<1>4. CASE changes' = Append(changes, Present)
  <2>1. changes' = Moments /\ Moments' = Append(Moments, Present')
    BY <1>4 DEF Moments
  <2> QED
    BY <1>1, <1>2, <2>1 DEF GoesOn
<1> QED
  BY <1>3, <1>4

\* Checks that were passed stay passed.
LEMMA ChecksKept ==
  ASSUME NEW m, NEW n, NEW g, NEW h, GoesOn(m, n), NEW call, NEW next, ChecksOK(call, m, g),
         call.stage = "target" => h[call.token] = g[call.token],
         next.stage \in {"target", "write"} => next.stage = call.stage /\ next.token = call.token,
         next.asked = call.asked
  PROVE  ChecksOK(next, n, h)
<1>1. next.asked \in Nat /\ next.asked < Len(n)
  BY DEF ChecksOK, GoesOn
<1>2. ASSUME next.stage = "target" PROVE ExtractedIn(next, n, h)
  <2>1. PICK i \in call.asked + 1..Len(m) :
          m[i].account.exists /\ m[i].account.active /\ m[i].account.claims = g[call.token].claims
    BY <1>2 DEF ChecksOK, ExtractedIn
  <2>2. i \in 1..Len(m) /\ i \in next.asked + 1..Len(n)
    BY <2>1 DEF ChecksOK, GoesOn
  <2>3. n[i] = m[i] /\ h[next.token] = g[call.token]
    BY <1>2, <2>2 DEF GoesOn
  <2> QED
    BY <2>1, <2>2, <2>3 DEF ExtractedIn
<1>3. ASSUME next.stage = "write" PROVE EntitledIn(next, n)
  <2>1. PICK i \in call.asked + 1..Len(m) :
          IsActiveAdmin(m[i].account) /\ \E j \in i..Len(m) : m[j].active /\ m[j].role # "ADMIN"
    BY <1>3 DEF ChecksOK, EntitledIn
  <2>2. PICK j \in i..Len(m) : m[j].active /\ m[j].role # "ADMIN"
    BY <2>1
  <2>3. i \in 1..Len(m) /\ i \in next.asked + 1..Len(n) /\ j \in 1..Len(m) /\ j \in i..Len(n)
    BY <2>1, <2>2 DEF ChecksOK, GoesOn
  <2>4. n[i] = m[i] /\ n[j] = m[j]
    BY <2>3 DEF GoesOn
  <2> QED
    BY <2>1, <2>2, <2>3, <2>4 DEF EntitledIn
<1> QED
  BY <1>1, <1>2, <1>3 DEF ChecksOK

\* A check that is passed now was passed at the last of the moments.
LEMMA ChecksPassed ==
  ASSUME TypeInv, UpdatesOK, NEW call, NEW next, ChecksOK(call, Moments, grants), Passes(call, next.stage),
         next.token = call.token, next.asked = call.asked
  PROVE  ChecksOK(next, Moments, grants)
<1> DEFINE last == Len(Moments)
<1>1. /\ last \in Nat /\ call.asked \in Nat /\ call.asked < last
      /\ Moments[last].account = account /\ Moments[last].role = target.role /\ Moments[last].active = target.active
  BY LastMoment DEF ChecksOK, Present
<1>2. last \in call.asked + 1..Len(Moments) /\ \A i \in call.asked + 1..Len(Moments) : last \in i..Len(Moments)
  BY <1>1
<1> HIDE DEF last
<1>3. ASSUME next.stage = "target" PROVE ExtractedIn(next, Moments, grants)
  <2>1. ExtractUser(call.token) = Ok
    BY <1>3 DEF Passes
  <2>2. account.exists /\ account.active /\ account.claims = grants[call.token].claims
    BY <2>1, RefusalsAreNotOk DEF ExtractUser
  <2> QED
    BY <1>1, <1>2, <2>2 DEF ExtractedIn
<1>4. ASSUME next.stage = "write" PROVE EntitledIn(next, Moments)
  <2>1. CheckTarget(call.token) = Ok /\ call.stage = "target"
    BY <1>4 DEF Passes
  <2>2. target.active /\ target.role # "ADMIN" /\ grants[call.token].claims.role = "ADMIN"
    BY <2>1, RefusalsAreNotOk DEF CheckTarget, MayUpdate
  <2>3. PICK i \in call.asked + 1..Len(Moments) :
          /\ Moments[i].account.exists /\ Moments[i].account.active
          /\ Moments[i].account.claims = grants[call.token].claims
    BY <2>1 DEF ChecksOK, ExtractedIn
  <2>4. IsActiveAdmin(Moments[i].account)
    BY <2>2, <2>3 DEF IsActiveAdmin
  <2> QED
    BY <1>1, <1>2, <2>2, <2>3, <2>4 DEF EntitledIn
<1> QED
  BY <1>1, <1>3, <1>4 DEF ChecksOK

\* A request that was just sent, or is over, has no check behind it.
LEMMA NothingChecked ==
  ASSUME TypeInv, UpdatesOK, NEW next, next.asked \in {0, Len(changes)}, next.stage \notin {"target", "write"}
  PROVE  ChecksOK(next, Moments, grants)
BY LastMoment DEF ChecksOK

LEMMA UpdatesStep == ASSUME TypeInv, UpdatesOK, AccountOK', Next PROVE UpdatesOK'
<1>1. /\ \A t \in Tabs : ChecksOK(req[t], Moments, grants) /\ (req[t].stage = "target" => req[t].token \in 1..Len(grants))
      /\ \A call \in late : ChecksOK(call, Moments, grants) /\ (call.stage = "target" => call.token \in 1..Len(grants))
  <2>1. ASSUME NEW t \in Tabs, req[t].stage = "target" PROVE req[t].token \in 1..Len(grants)
    BY <2>1, Fields DEF RequestOK, InService, Presenting, TypeInv, TablesOK
  <2>2. ASSUME NEW call \in late, call.stage = "target" PROVE call.token \in 1..Len(grants)
    BY <2>2 DEF TypeInv, LateOK, InService, Presenting, TablesOK, GrantIds
  <2> QED
    BY <2>1, <2>2 DEF UpdatesOK
\* Steps of others leave the calls as they are.
<1>2. ASSUME GoesOn(Moments, Moments'), GrantsKept
      PROVE  /\ \A t \in Tabs : ChecksOK(req[t], Moments', grants')
             /\ \A call \in late : ChecksOK(call, Moments', grants')
  <2>1. ASSUME NEW call, ChecksOK(call, Moments, grants), call.stage = "target" => call.token \in 1..Len(grants)
        PROVE  ChecksOK(call, Moments', grants')
    <3>1. call.stage = "target" => grants'[call.token] = grants[call.token]
      BY <1>2, <2>1 DEF GrantsKept
    <3> QED
      BY <1>2, <2>1, <3>1, ChecksKept
  <2> QED
    BY <1>1, <2>1
<1>3. ASSUME UNCHANGED <<req, late>>, GrantsKept, UNCHANGED <<changes, Present>> \/ changes' = Append(changes, Present)
      PROVE  UpdatesOK'
  <2>1. GoesOn(Moments, Moments') /\ changes' \in Seq(Moment)
    BY <1>3, MomentsMove
  <2> QED
    BY <1>2, <1>3, <2>1 DEF UpdatesOK
\* The request of one tab moves while the accounts stay.
<1>4. ASSUME NEW t \in Tabs, NEW r, Becomes(t, r), ChecksOK(r, Moments', grants'), GrantsKept, UNCHANGED <<changes, Present>>,
             \A call \in late' : call \in late \/ ChecksOK(call, Moments', grants')
      PROVE  UpdatesOK'
  <2>1. GoesOn(Moments, Moments') /\ changes' \in Seq(Moment)
    BY <1>4, MomentsMove
  <2>2. \A u \in Tabs : ChecksOK(req'[u], Moments', grants')
    BY <1>2, <1>4, <2>1 DEF Becomes
  <2> QED
    BY <1>2, <1>4, <2>1, <2>2 DEF UpdatesOK
<1>5. ASSUME NEW t \in Tabs, ReadCache(t) \/ Verify(t) \/ Store(t) \/ Check(t) \/ GiveUp(t) PROVE UpdatesOK'
  <2>1. UNCHANGED <<grants, changes, account, target>>
    BY <1>5 DEF ReadCache, Verify, Store, Check, GiveUp, database
  <2>2. Moments' = Moments /\ UNCHANGED <<changes, Present>> /\ GrantsKept
    BY <2>1, GrantsSame DEF Moments, Present
  <2>3. PICK r : /\ Becomes(t, r) /\ r.asked \in {0, req[t].asked}
                 /\ r.stage \in {"target", "write"} => Passes(req[t], r.stage) /\ r.token = req[t].token /\ r.asked = req[t].asked
    BY <1>5, GuardMoves, GiveUpMoves DEF Quietly
  <2>4. ChecksOK(r, Moments, grants)
    <3>1. CASE r.stage \in {"target", "write"}
      BY <1>1, <2>3, <3>1, ChecksPassed
    <3>2. CASE r.stage \notin {"target", "write"}
      BY <1>1, <2>3, <3>2, LastMoment DEF ChecksOK
    <3> QED
      BY <3>1, <3>2
  <2>5. ASSUME NEW call \in late', call \notin late PROVE ChecksOK(call, Moments, grants)
    <3>1. GiveUp(t) /\ call = LateCall(t)
      BY <1>5, <2>5 DEF ReadCache, Verify, Store, Check, GiveUp
    <3>2. call.stage = req[t].stage /\ call.token = req[t].token /\ call.asked = req[t].asked
      BY <3>1 DEF LateCall
    <3>3. GoesOn(Moments, Moments)
      BY LastMoment DEF GoesOn
    <3> QED
      BY <1>1, <3>2, <3>3, ChecksKept
  <2> QED
    BY <1>4, <2>1, <2>2, <2>3, <2>4, <2>5
<1>6. ASSUME NEW t \in Tabs, NEW kind \in Kinds, Send(t, kind) PROVE UpdatesOK'
  <2>1. UNCHANGED <<grants, changes, account, target, late>>
    BY <1>6 DEF Send, database
  <2>2. Moments' = Moments /\ UNCHANGED <<changes, Present>> /\ GrantsKept
    BY <2>1, GrantsSame DEF Moments, Present
  <2>3. PICK r : Becomes(t, r) /\ r.asked \in {0, Len(changes)} /\ r.stage \notin {"target", "write"}
    BY <1>6, SendMoves
  <2> QED
    BY <1>4, <2>1, <2>2, <2>3, NothingChecked
<1>7. ASSUME NEW t \in Tabs, Deliver(t) PROVE UpdatesOK'
  <2>1. UNCHANGED <<grants, changes, account, target, late>> /\ Becomes(t, Request)
    BY <1>7, DeliverMoves DEF Deliver, database
  <2>2. Moments' = Moments /\ UNCHANGED <<changes, Present>> /\ GrantsKept
    BY <2>1, GrantsSame DEF Moments, Present
  <2>3. Request.asked = 0 /\ Request.stage = "idle"
    BY DEF Request
  <2> QED
    BY <1>4, <2>1, <2>2, <2>3, NothingChecked
<1>8. ASSUME NEW t \in Tabs, Serve(t) PROVE UpdatesOK'
  <2>1. PICK up : Served(t, up)
    BY <1>8, ServeMoves
  <2>2. PICK r : Becomes(t, r) /\ r.stage = "reply" /\ r.asked = req[t].asked
    BY <2>1 DEF Served
  <2>3. UNCHANGED <<changes, account, late>> /\ GrantsKept
    BY <1>8, ServeMoves DEF Serve, AuthService
  <2>4. UNCHANGED Present
    BY <2>1, <2>3, WhoWrites DEF Served, Present
  <2>5. GoesOn(Moments, Moments')
    BY <2>3, <2>4, MomentsMove
  <2>6. ChecksOK(r, Moments', grants')
    BY <1>1, <2>2, <2>5 DEF ChecksOK, GoesOn
  <2> QED
    BY <1>4, <2>2, <2>3, <2>4, <2>6
<1>9. ASSUME NEW call \in late, ServeLate(call) PROVE UpdatesOK'
  <2>1. UNCHANGED <<req, changes, account>> /\ GrantsKept /\ late' \subseteq late
    BY <1>9, LateMoves DEF ServeLate, AuthService
  <2>2. UNCHANGED Present
    BY <1>9, <2>1, LateMoves, WhoWrites DEF Present
  <2>3. GoesOn(Moments, Moments') /\ changes' \in Seq(Moment)
    BY <2>1, <2>2, MomentsMove
  <2> QED
    BY <1>2, <2>1, <2>3 DEF UpdatesOK
<1>10. ASSUME NEW call \in late, CheckLate(call) PROVE UpdatesOK'
  <2>1. UNCHANGED <<req, grants, changes, account, target>>
    BY <1>10 DEF CheckLate, database
  <2>2. Moments' = Moments /\ changes' \in Seq(Moment)
    BY <2>1, LastMoment DEF Moments, Present
  <2>3. PICK stage \in InService :
          /\ Passes(call, stage)
          /\ late' = (late \ {call}) \cup {[kind |-> call.kind, stage |-> stage, token |-> call.token, asked |-> call.asked]}
    BY <1>10, CheckedLate
  <2> DEFINE next == [kind |-> call.kind, stage |-> stage, token |-> call.token, asked |-> call.asked]
  <2>4. next.stage = stage /\ next.token = call.token /\ next.asked = call.asked /\ late' = (late \ {call}) \cup {next}
    BY <2>3
  <2> HIDE DEF next
  <2>5. ChecksOK(next, Moments, grants)
    BY <1>1, <2>3, <2>4, ChecksPassed
  <2>6. /\ \A t \in Tabs : ChecksOK(req'[t], Moments', grants')
        /\ \A c \in late' : ChecksOK(c, Moments', grants')
    BY <1>1, <2>1, <2>2, <2>4, <2>5
  <2> QED
    BY <2>2, <2>6 DEF UpdatesOK
<1>11. ASSUME \/ \E claims \in Claims : ChangeClaims(claims)
              \/ \E role \in {"ADMIN", "CLIENT"}, active \in BOOLEAN : ChangeTarget(role, active)
              \/ Deactivate \/ Revoke
       PROVE  UpdatesOK'
  <2>1. UNCHANGED <<req, late, grants>> /\ changes' = Append(changes, Present)
    BY <1>11 DEF ChangeClaims, ChangeTarget, Deactivate, Revoke, OthersChange
  <2> QED
    BY <1>3, <2>1, GrantsSame
<1>12. ASSUME Tick PROVE UpdatesOK'
  <2>1. UNCHANGED <<req, late, grants, changes, account, target>>
    BY <1>12 DEF Tick, database
  <2>2. UNCHANGED Present
    BY <2>1 DEF Present
  <2> QED
    BY <1>3, <2>1, <2>2, GrantsSame
<1> QED
  BY <1>5, <1>6, <1>7, <1>8, <1>9, <1>10, <1>11, <1>12 DEF Next, Step

-----------------------------------------------------------------------------
(* Cookies and session                                                     *)

\* Answers with a session are on their way, not in the making.
LEMMA EffectiveInFlight ==
  ASSUME TypeInv, NEW t \in Tabs, Effective(t)
  PROVE  InFlight(t) /\ req[t].stage = "reply"
BY Fields, RefusalsAreNotOk DEF Effective, RequestOK, InFlight

\* Requests that are not about the session.
LEMMA CookiesQuiet ==
  ASSUME CookiesOK, NEW t \in Tabs, NEW r, Becomes(t, r), r.kind \notin SessionCalls, req[t].kind \notin SessionCalls,
         UNCHANGED <<jar, row>>, ~excused, \A call \in late' : call.kind \notin SessionCalls
  PROVE  CookiesOK'
<1>1. \A u \in Tabs : u # t => req'[u] = req[u]
  BY DEF Becomes
<1>2. req'[t].kind \notin SessionCalls
  BY DEF Becomes
<1>3. \A u \in Tabs : Effective(u)' <=> Effective(u)
  BY <1>1, <1>2 DEF Effective
<1>4. \A u \in Tabs : Effective(u) => u # t /\ Carried(u)' = Carried(u)
  BY <1>1 DEF Effective, Carried
<1>5. \A u, v \in Tabs : u # v /\ InFlight(u)' /\ InFlight(v)' /\ req'[u].kind = "sign_in" => req'[v].kind \notin SessionCalls
  BY <1>1, <1>2 DEF CookiesOK, InFlight, SessionCalls
<1>6. \A u \in Tabs : req'[u].stage = "call" /\ req'[u].kind \in {"refresh", "logout"} => req'[u] = req[u]
  BY <1>1, <1>2 DEF SessionCalls
<1> QED
  BY <1>3, <1>4, <1>5, <1>6 DEF CookiesOK

LEMMA CookiesSend ==
  ASSUME TypeInv, CookiesOK, NEW t \in Tabs, NEW kind \in Kinds, Send(t, kind), ~excused'
  PROVE  CookiesOK'
<1>1. ~InFlight(t) /\ ~excused /\ ~Overlaps(kind) /\ UNCHANGED <<jar, late, row>>
  BY DEF Send, database
<1>2. PICK r : /\ Becomes(t, r) /\ RequestOK(r, grants) /\ r.up = NoAnswer /\ r.kind = kind
               /\ r.stage = "call" /\ kind \in {"refresh", "logout"} => r.token = jar.refresh
  BY SendMoves
<1>3. \A u \in Tabs : u # t => req'[u] = req[u]
  BY <1>2 DEF Becomes
<1>4. req'[t] = r
  BY <1>2 DEF Becomes
<1>5. ~Effective(t) /\ ~Effective(t)'
  BY <1>1, <1>2, <1>4, EffectiveInFlight, RefusalsAreNotOk DEF Effective
<1>6. \A u \in Tabs : (Effective(u)' <=> Effective(u)) /\ (Effective(u) => Carried(u)' = Carried(u))
  BY <1>3, <1>5 DEF Effective, Carried
<1>7. ASSUME NEW u \in Tabs, NEW v \in Tabs, u # v, InFlight(u)', InFlight(v)', req'[u].kind = "sign_in"
      PROVE  req'[v].kind \notin SessionCalls
  <2>1. CASE u = t
    BY <1>1, <1>2, <1>3, <1>4, <1>7, <2>1 DEF Overlaps, Underway, InFlight
  <2>2. CASE v = t
    BY <1>1, <1>2, <1>3, <1>4, <1>7, <2>2 DEF Overlaps, Underway, InFlight
  <2>3. CASE u # t /\ v # t
    BY <1>1, <1>3, <1>7, <2>3 DEF CookiesOK, InFlight
  <2> QED
    BY <2>1, <2>2, <2>3
<1>8. ASSUME NEW w \in Tabs, Effective(w), NEW u \in Tabs, req'[u].stage = "call", req'[u].kind \in {"refresh", "logout"}
      PROVE  req'[u].token # row
  <2>1. CASE u # t
    BY <1>1, <1>3, <1>8, <2>1 DEF CookiesOK
  <2>2. CASE u = t
    <3>1. req'[u].token = jar.refresh /\ req'[u].token # 0
      BY <1>2, <1>4, <1>8, <2>2 DEF RequestOK, Presenting, InService
    <3>2. row = jar.refresh => row = 0
      BY <1>1, <1>8 DEF CookiesOK
    <3> QED
      BY <3>1, <3>2
  <2> QED
    BY <2>1, <2>2
<1> QED
  BY <1>1, <1>6, <1>7, <1>8 DEF CookiesOK

LEMMA CookiesServe ==
  ASSUME TypeInv, CookiesOK, NEW t \in Tabs, Serve(t), ~excused'
  PROVE  CookiesOK'
<1>1. PICK up : Served(t, up)
  BY ServeMoves
<1>2. PICK r : /\ Becomes(t, r) /\ r.stage = "reply" /\ r.up = up /\ r.kind = req[t].kind
               /\ r.token = IF Issues(req[t].kind, up) THEN row' ELSE req[t].token
  BY <1>1 DEF Served
<1>3. /\ req[t].stage \in InService /\ (req[t].kind # "update" => req[t].stage = "call")
      /\ ~excused /\ up.code # "TOKEN_EXPIRED" /\ UNCHANGED <<jar, late>>
  BY <1>1, ServeMoves DEF Served, Serve
<1>4. \A u \in Tabs : u # t => req'[u] = req[u]
  BY <1>2 DEF Becomes
<1>5. req'[t] = r
  BY <1>2 DEF Becomes
<1>6. ~Effective(t) /\ InFlight(t)
  BY <1>3, EffectiveInFlight DEF InFlight, InService
<1>7. \A u, v \in Tabs : u # v /\ InFlight(u)' /\ InFlight(v)' /\ req'[u].kind = "sign_in" => req'[v].kind \notin SessionCalls
  BY <1>2, <1>3, <1>4, <1>5, <1>6 DEF CookiesOK, InFlight
<1>8. \A u \in Tabs : u # t => (Effective(u)' <=> Effective(u)) /\ (Effective(u) => Carried(u)' = Carried(u))
  BY <1>4 DEF Effective, Carried
<1>9. /\ Len(grants) \in Nat /\ jar.refresh \in 0..Len(grants)
      /\ \A u \in Tabs : req[u].token \in 0..Len(grants)
      /\ \A u \in Tabs : req[u].stage = "call" /\ req[u].kind \in {"refresh", "logout"} => req[u].token # 0
  BY Fields DEF TypeInv, TablesOK, GrantIds, RequestOK, Presenting, InService
\* The call made or ended the session, and nobody else had done so before.
<1>10. ASSUME Effective(t)', row' = Carried(t)', row' = jar.refresh => row' = 0, \A u \in Tabs : u # t => ~Effective(u),
              \A u \in Tabs : u # t /\ req[u].stage = "call" /\ req[u].kind \in {"refresh", "logout"} => req[u].token # row'
       PROVE  CookiesOK'
  BY <1>2, <1>3, <1>4, <1>5, <1>7, <1>8, <1>10 DEF CookiesOK
<1>11. CASE Opened(req[t].kind, up)
  <2>1. req[t].kind = "sign_in" /\ up = Ok /\ row' = Len(grants) + 1
    BY <1>11 DEF Opened, Issue
  <2>2. \A u \in Tabs : u # t /\ InFlight(u) => req[u].kind \notin SessionCalls
    BY <1>3, <1>6, <2>1 DEF CookiesOK
  <2>3. Effective(t)' /\ row' = Carried(t)'
    BY <1>2, <1>5, <2>1 DEF Effective, Carried, Issues, SessionCalls
  <2>4. \A u \in Tabs : u # t => ~Effective(u)
    BY <2>2, EffectiveInFlight DEF Effective
  <2>5. row' # jar.refresh /\ \A u \in Tabs : req[u].token # row'
    BY <1>9, <2>1
  <2> QED
    BY <1>10, <2>3, <2>4, <2>5
\* A call with a living token is only served when no answer with a session is on its way.
<1>12. ASSUME req[t].kind \in {"refresh", "logout"}, row = req[t].token PROVE \A u \in Tabs : u # t => ~Effective(u)
  BY <1>3, <1>12 DEF CookiesOK
<1>13. CASE Rotated(req[t].kind, req[t].token, up)
  <2>1. req[t].kind = "refresh" /\ up = Ok /\ row = req[t].token /\ row' = Len(grants) + 1
    BY <1>13 DEF Rotated, Issue
  <2>2. Effective(t)' /\ row' = Carried(t)'
    BY <1>2, <1>5, <2>1 DEF Effective, Carried, Issues, SessionCalls
  <2>3. row' # jar.refresh /\ \A u \in Tabs : req[u].token # row'
    BY <1>9, <2>1
  <2> QED
    BY <1>10, <1>12, <2>1, <2>2, <2>3
<1>14. CASE Closed(req[t].kind, req[t].token, up)
  <2>1. req[t].kind = "logout" /\ up = Ok /\ row = req[t].token /\ row' = 0
    BY <1>14 DEF Closed
  <2>2. Effective(t)' /\ row' = Carried(t)'
    BY <1>2, <1>5, <2>1 DEF Effective, Carried, SessionCalls
  <2> QED
    BY <1>9, <1>10, <1>12, <2>1, <2>2
<1>15. CASE Kept(req[t].kind, up)
  <2>1. ~Effective(t)' /\ row' = row
    BY <1>2, <1>5, <1>15 DEF Kept, Effective
  <2>2. \A u \in Tabs : req'[u].stage = "call" => u # t
    BY <1>2, <1>5
  <2> QED
    BY <1>3, <1>4, <1>6, <1>7, <1>8, <2>1, <2>2 DEF CookiesOK
<1>16. ~Outlived(req[t].kind, up)
  BY <1>3 DEF Outlived
<1> QED
  BY <1>1, <1>11, <1>13, <1>14, <1>15, <1>16, AuthCases DEF Served, AuthCase

LEMMA CookiesDeliver ==
  ASSUME TypeInv, CookiesOK, NEW t \in Tabs, Deliver(t), ~excused'
  PROVE  CookiesOK'
<1>1. Becomes(t, Request) /\ ~excused /\ UNCHANGED <<late, row>> /\ jar' = CookiesAfter(req[t].kind, req[t].token, req[t].up)
  BY DeliverMoves DEF Deliver, database
<1>2. \A u \in Tabs : u # t => req'[u] = req[u]
  BY <1>1 DEF Becomes
<1>3. req'[t] = Request
  BY <1>1 DEF Becomes
<1>4. req'[t].kind = "none" /\ req'[t].stage = "idle"
  BY <1>3 DEF Request
<1>5. ~Effective(t)' /\ ~InFlight(t)'
  BY <1>4 DEF Effective, InFlight, SessionCalls
<1>6. \A u \in Tabs : u # t => (Effective(u)' <=> Effective(u)) /\ (Effective(u) => Carried(u)' = Carried(u))
  BY <1>2 DEF Effective, Carried
<1>7. \A u, v \in Tabs : u # v /\ InFlight(u)' /\ InFlight(v)' /\ req'[u].kind = "sign_in" => req'[v].kind \notin SessionCalls
  BY <1>1, <1>2, <1>5 DEF CookiesOK, InFlight
<1>8. CASE Effective(t)
  <2>1. row = Carried(t) /\ \A u \in Tabs : u # t => ~Effective(u)
    BY <1>1, <1>8 DEF CookiesOK
  <2>2. jar'.refresh = Carried(t)
    <3>1. CASE req[t].kind = "logout"
      <4>1. jar' = [jar EXCEPT !.access = 0, !.refresh = 0]
        BY <1>1, <1>8, <3>1 DEF CookiesAfter, Effective, Issues
      <4>2. jar \in [access : GrantIds, refresh : GrantIds, csrf : BOOLEAN]
        BY DEF TypeInv, TablesOK
      <4> QED
        BY <3>1, <4>1, <4>2 DEF Carried
    <3>2. CASE req[t].kind # "logout"
      BY <1>1, <1>8, <3>2 DEF CookiesAfter, Effective, Issues, SessionCalls, Carried
    <3> QED
      BY <3>1, <3>2
  <2> QED
    BY <1>1, <1>5, <1>6, <1>7, <2>1, <2>2 DEF CookiesOK
<1>9. CASE ~Effective(t)
  <2>1. jar' = jar
    BY <1>1, <1>9 DEF CookiesAfter, Effective, Issues, SessionCalls
  <2>2. \A u \in Tabs : req'[u].stage = "call" => req'[u] = req[u]
    BY <1>2, <1>4
  <2> QED
    BY <1>1, <1>5, <1>6, <1>7, <1>9, <2>1, <2>2 DEF CookiesOK
<1> QED
  BY <1>8, <1>9

LEMMA CookiesStep == ASSUME TypeInv, CookiesOK, Next PROVE CookiesOK'
<1> SUFFICES ASSUME ~excused' PROVE CookiesOK'
  BY DEF CookiesOK
<1>1. ASSUME NEW t \in Tabs, ReadCache(t) \/ Verify(t) \/ Store(t) \/ Check(t) PROVE CookiesOK'
  <2>1. PICK r : Becomes(t, r) /\ r.kind = req[t].kind
    BY <1>1, GuardMoves DEF Quietly
  <2>2. req[t].kind \notin SessionCalls /\ UNCHANGED <<jar, row, late, excused>>
    BY <1>1, GuardMoves DEF ReadCache, Verify, Store, Check, database, history
  <2>3. \A call \in late' : call.kind \notin SessionCalls
    BY <2>2 DEF CookiesOK
  <2> QED
    BY <2>1, <2>2, <2>3, CookiesQuiet
<1>2. ASSUME NEW t \in Tabs, GiveUp(t) PROVE CookiesOK'
  <2>1. PICK r : Becomes(t, r) /\ r.kind = req[t].kind
    BY <1>2, GiveUpMoves DEF Quietly
  <2>2. ~excused /\ req[t].kind \notin SessionCalls /\ UNCHANGED <<jar, row>>
    BY <1>2 DEF GiveUp, database
  <2>3. \A call \in late' : call.kind \notin SessionCalls
    BY <1>2, <2>2 DEF CookiesOK, GiveUp, LateCall
  <2> QED
    BY <2>1, <2>2, <2>3, CookiesQuiet
<1>3. ASSUME NEW call \in late, ServeLate(call) PROVE CookiesOK'
  <2>1. UNCHANGED <<jar, req, excused>> /\ late' \subseteq late
    BY <1>3 DEF ServeLate, history
  <2>2. call.kind \notin SessionCalls
    BY <2>1 DEF CookiesOK
  <2>3. PICK up : AuthCase(call.kind, call.token, up)
    BY <1>3, LateMoves, AuthCases
  <2>4. row' = row
    BY <2>2, <2>3 DEF AuthCase, Opened, Rotated, Closed, Outlived, Kept, SessionCalls
  <2> QED
    BY <2>1, <2>4 DEF CookiesOK, Effective, Carried, InFlight
<1>4. ASSUME (\E claims \in Claims : ChangeClaims(claims)) \/ Tick \/ (\E role \in {"ADMIN", "CLIENT"}, active \in BOOLEAN : ChangeTarget(role, active)) PROVE CookiesOK'
  <2>1. UNCHANGED <<jar, req, late, row, excused>>
    BY <1>4 DEF ChangeClaims, ChangeTarget, OthersChange, Tick, database, history
  <2> QED
    BY <2>1 DEF CookiesOK, Effective, Carried, InFlight
<1>6. ASSUME NEW call \in late, CheckLate(call) PROVE CookiesOK'
  <2>1. UNCHANGED <<jar, req, row, excused>>
    BY <1>6 DEF CheckLate, database, history
  <2>2. \A c \in late' : c.kind \notin SessionCalls
    BY <1>6, <2>1, CheckedLate DEF CookiesOK
  <2> QED
    BY <2>1, <2>2 DEF CookiesOK, Effective, Carried, InFlight
<1>5. ~Deactivate /\ ~Revoke
  BY DEF Deactivate, Revoke
<1> QED
  BY <1>1, <1>2, <1>3, <1>4, <1>5, <1>6, CookiesSend, CookiesServe, CookiesDeliver DEF Next, Step

-----------------------------------------------------------------------------
(* Answers                                                                 *)

\* Only Serve brings an answer of the auth-service.
LEMMA AnswersStep == ASSUME TypeInv, AnswersOK, Next PROVE AnswersOK'
<1>1. ASSUME NEW t \in Tabs, NEW r, Becomes(t, r),
             r.up # NoAnswer => r.up \in Refusals(r.kind) \cup {Ok} /\ r.answer = AnswerTo(r.kind, r.up)
      PROVE  AnswersOK'
  <2>1. \A u \in Tabs : req'[u] = IF u = t THEN r ELSE req[u]
    BY <1>1 DEF Becomes
  <2> QED
    BY <1>1, <2>1 DEF AnswersOK
<1>2. ASSUME NEW t \in Tabs, ReadCache(t) \/ Verify(t) \/ Store(t) \/ Check(t) \/ GiveUp(t) PROVE AnswersOK'
  <2>1. Quietly(t)
    BY <1>2, GuardMoves, GiveUpMoves
  <2> QED
    BY <1>1, <2>1 DEF Quietly
<1>3. ASSUME NEW t \in Tabs, NEW kind \in Kinds, Send(t, kind) PROVE AnswersOK'
  BY <1>1, <1>3, SendMoves
<1>4. ASSUME NEW t \in Tabs, Deliver(t) PROVE AnswersOK'
  <2>1. Request.up = NoAnswer
    BY DEF Request
  <2> QED
    BY <1>1, <1>4, <2>1, DeliverMoves
<1>5. ASSUME NEW t \in Tabs, Serve(t) PROVE AnswersOK'
  <2>1. PICK up : Served(t, up)
    BY <1>5, ServeMoves
  <2>2. PICK r : Becomes(t, r) /\ r.up = up /\ r.kind = req[t].kind /\ r.answer = AnswerTo(req[t].kind, up)
    BY <2>1 DEF Served
  <2>3. up \in Refusals(req[t].kind) \cup {Ok}
    BY <2>1 DEF Served
  <2> QED
    BY <1>1, <2>2, <2>3
<1>6. ASSUME UNCHANGED req PROVE AnswersOK'
  BY <1>6 DEF AnswersOK
<1>7. ASSUME \/ \E call \in late : ServeLate(call)
             \/ \E claims \in Claims : ChangeClaims(claims)
             \/ Deactivate \/ Revoke \/ Tick \/ OtherSteps
      PROVE  AnswersOK'
  BY <1>6, <1>7 DEF ServeLate, CheckLate, OtherSteps, ChangeTarget, ChangeClaims, Deactivate, Revoke, OthersChange, Tick
<1> QED
  BY <1>2, <1>3, <1>4, <1>5, <1>7 DEF Next, Step, OtherSteps

-----------------------------------------------------------------------------
(* The theorems                                                            *)

LEMMA InitIInv == ASSUME Init PROVE IInv
<1>1. grants = <<>> /\ Len(grants) = 0 /\ changes = <<>> /\ Len(changes) = 0 /\ row = 0 /\ jar = [access |-> 0, refresh |-> 0, csrf |-> FALSE] /\ ended = {} /\ late = {}
  BY DEF Init
<1>2. \A t \in Tabs : req[t] = Request
  BY DEF Init
<1>3. RequestOK(Request, grants)
  BY <1>1, RefusalsAreNotOk DEF Request, RequestOK, IsRequest, Stages, SessionCalls, InService
<1>4. RequestsOK
  BY <1>2, <1>3 DEF RequestsOK, Init
<1>11. AnswersOK
  BY <1>2 DEF AnswersOK, Request
<1>5. LateOK /\ TablesOK
  BY <1>1 DEF LateOK, TablesOK, GrantIds, Init
<1>6. AccountOK
  BY DEF AccountOK, Claims, Init
<1>12. UpdatesOK
  <2>1. Len(Moments) = 1 /\ changes \in Seq(Moment)
    BY <1>1 DEF Moments
  <2>2. \A t \in Tabs : req[t].asked = 0 /\ req[t].stage = "idle"
    BY <1>2 DEF Request
  <2> QED
    BY <1>1, <2>1, <2>2 DEF UpdatesOK, ChecksOK
<1>7. CacheDiesWithToken
  BY DEF CacheDiesWithToken, Init
<1>8. LogoutOK
  BY <1>1 DEF LogoutOK, LoggedOutMeansGone
<1>9. \A t \in Tabs : ~Effective(t) /\ ~InFlight(t)
  BY <1>2 DEF Effective, InFlight, SessionCalls, Request
<1>10. CookiesOK
  BY <1>1, <1>9 DEF CookiesOK
<1> QED
  BY <1>4, <1>5, <1>6, <1>7, <1>8, <1>10, <1>11, <1>12 DEF IInv, TypeInv

LEMMA NextIInv == ASSUME IInv, [Next]_vars PROVE IInv'
<1>1. CASE Next
  BY <1>1, RequestsStep, TablesStep, UpdatesStep, CacheStep, LogoutStep, CookiesStep, AnswersStep DEF IInv, TypeInv
<1>2. CASE UNCHANGED vars
  <2>1. UNCHANGED <<jar, req, late, cache, grants, row, account, target, now, changes, excused, ended>>
    BY <1>2 DEF vars
  <2>2. RequestsOK' /\ LateOK' /\ AccountOK' /\ TablesOK' /\ CacheDiesWithToken'
    BY <2>1 DEF IInv, TypeInv, RequestsOK, LateOK, AccountOK, TablesOK, CacheDiesWithToken, GrantIds
  <2>4. UpdatesOK'
    <3>1. Moments' = Moments
      BY <2>1 DEF Moments, Present
    <3> QED
      BY <2>1, <3>1 DEF IInv, UpdatesOK
  <2>3. LogoutOK' /\ CookiesOK' /\ AnswersOK'
    BY <2>1 DEF IInv, LogoutOK, LoggedOut, LoggedOutMeansGone, AnswersOK, CookiesOK, Effective, Carried, InFlight
  <2> QED
    BY <2>2, <2>3, <2>4 DEF IInv, TypeInv
<1> QED
  BY <1>1, <1>2

THEOREM Invariance == Spec => []IInv
BY InitIInv, NextIInv, PTL DEF Spec

\* The tokens that cookies, requests and cache hold are tokens that were
\* issued, at every step of auth.controller.ts and the guards.
THEOREM TypeCorrect == Spec => []TypeOK
<1>1. ASSUME IInv PROVE TypeOK
  <2>1. TypeInv
    BY <1>1 DEF IInv
  <2>2. ASSUME NEW t \in Tabs
        PROVE  /\ req[t].kind \in Calls \cup {"none"}
               /\ req[t].stage \in {"idle", "cache", "verify", "store", "call", "target", "write", "reply"}
               /\ req[t].token \in GrantIds
               /\ req[t].asked \in 0..Len(changes)
               /\ req[t].stage = "store" => req[t].ttl \in Nat /\ req[t].since \in Nat
    <3>1. req[t].asked \in 0..Len(changes)
      BY <1>1, LastMoment DEF IInv, UpdatesOK, ChecksOK
    <3> QED
      BY <2>1, <3>1, Fields DEF RequestOK, Stages, GrantIds
  <2> QED
    BY <2>1, <2>2 DEF TypeInv, LateOK, TablesOK, TypeOK
<1> QED
  BY <1>1, Invariance, PTL

\* calculateCacheTtl: a cached payload leaves Redis before its token ends,
\* unless setex ran later than the buffer allows for.
THEOREM CacheIsBounded == Spec => []CacheDiesWithToken
<1>1. IInv => CacheDiesWithToken
  BY DEF IInv
<1> QED
  BY <1>1, Invariance, PTL

\* A session whose logout was answered with 200 stays ended, whatever
\* refreshes were in flight and however late they are served.
THEOREM LogoutIsFinal == Spec => []LoggedOutMeansGone
<1>1. IInv => LoggedOutMeansGone
  BY DEF IInv, LogoutOK
<1> QED
  BY <1>1, Invariance, PTL

\* The browser's refresh cookie is the token in the database when no call
\* about the session is under way, for any number of tabs.
THEOREM CookiesAreTheSession == Spec => []CookiesFollowTheSession
<1>1. ASSUME IInv PROVE CookiesFollowTheSession
  <2>1. \A t \in Tabs : Effective(t) => Underway(SessionCalls)
    BY <1>1, EffectiveInFlight DEF IInv, Effective, Underway
  <2> QED
    BY <1>1, <2>1 DEF IInv, CookiesOK, CookiesFollowTheSession
<1> QED
  BY <1>1, Invariance, PTL

\* inferErrorCodeFromMessage gives back the status with which the auth-service
\* refused, although only the text of the error travels; TOKEN_EXPIRED apart.
THEOREM RefusalsKeepStatus == Spec => []RefusalsKeepTheirStatus
<1>1. ASSUME IInv PROVE RefusalsKeepTheirStatus
  <2>1. ASSUME NEW t \in Tabs, req[t].kind \in SessionCalls \cup {"register"}, req[t].up # NoAnswer, req[t].up.code # "TOKEN_EXPIRED"
        PROVE  req[t].answer.status = req[t].up.status
    <3>1. req[t].up \in Refusals(req[t].kind) \cup {Ok} /\ req[t].answer = AnswerTo(req[t].kind, req[t].up)
      BY <1>1, <2>1 DEF IInv, AnswersOK
    <3> QED
      BY <2>1, <3>1, TranslationKeepsStatus
  <2> QED
    BY <2>1 DEF RefusalsKeepTheirStatus
<1> QED
  BY <1>1, Invariance, PTL

\* updateUser: however old the payload in the cache and however late the call,
\* the user was an active administrator, and the target one whom he may
\* update, after the request was sent, although both may change between the
\* two checks and the write.
THEOREM UpdatesEntitled == Spec => UpdatesAreEntitled
<1> DEFINE Rightly == /\ \A t \in Tabs : req[t].stage = "write" /\ req'[t].up = Ok => Entitled(req[t])
                      /\ \A call \in late \ late' : call.stage = "write" => Entitled(call)
<1>1. IInv => Rightly
  BY DEF IInv, UpdatesOK, ChecksOK, EntitledIn, Entitled
<1>2. IInv => [Rightly]_vars
  BY <1>1
<1> QED
  BY <1>2, Invariance, PTL DEF UpdatesAreEntitled

-----------------------------------------------------------------------------
(* The ledger of sessions                                                  *)
(*                                                                         *)
(* SessionLedger is what module Sessions proves of the auth-service's      *)
(* tokens. The one-step calls above keep the same promise, so the gateway  *)
(* is not modelled against an auth-service that Sessions would not be.     *)

\* The sign-ins that took place: a session has the number of its first grant.
IsSession(s) == s \in 1..Len(grants) /\ grants[s].session = s

SessionStatus == [s \in Nat \ {0} |->
  IF ~IsSession(s) THEN "new" ELSE IF row # 0 /\ grants[row].session = s THEN "open" ELSE "ended"]
SessionOwner == [s \in Nat \ {0} |-> IF IsSession(s) THEN "user" ELSE "nobody"]

Ledger == INSTANCE SessionLedger WITH
  SessionIds <- Nat \ {0}, UserIds <- {"user"}, Null <- "nobody",
  accounts <- IF account.exists THEN {"user"} ELSE {}, status <- SessionStatus, owner <- SessionOwner

\* Every grant continues a sign-in.
Rooted == \A i \in 1..Len(grants) : IsSession(grants[i].session)

\* A row that goes ends the session it stood for.
LEMMA RowGoes ==
  ASSUME TypeInv, Rooted, UNCHANGED <<grants, account>>, row' = row \/ row' = 0
  PROVE  [Ledger!Next]_(Ledger!ledger) /\ Rooted'
<1>1. Rooted' /\ \A s : IsSession(s)' <=> IsSession(s)
  BY DEF Rooted, IsSession
<1>2. SessionOwner' = SessionOwner
  BY <1>1 DEF SessionOwner
<1>3. CASE row' = row
  <2>1. SessionStatus' = SessionStatus
    BY <1>1, <1>3 DEF SessionStatus
  <2> QED
    BY <1>1, <1>2, <2>1 DEF Ledger!ledger
<1>4. CASE row # 0 /\ row' = 0
  <2> DEFINE S == Ledger!OpenSessions
  <2>1. \A s \in Nat \ {0} : s \in S <=> IsSession(s) /\ grants[row].session = s
    BY <1>4 DEF Ledger!OpenSessions, SessionStatus
  <2>2. SessionStatus' = Ledger!Ended(S)
    BY <1>1, <1>4, <2>1 DEF SessionStatus, Ledger!Ended
  <2>3. Ledger!End(S)
    BY <1>2, <2>2 DEF Ledger!End
  <2>4. S \in SUBSET Ledger!OpenSessions
    OBVIOUS
  <2> QED
    BY <1>1, <2>3, <2>4 DEF Ledger!Next
<1> QED
  BY <1>3, <1>4

\* What a new grant does to the sessions.
LEMMA IssuedGrant ==
  ASSUME TypeInv, NEW s \in Nat \ {0}, Issue(s), NEW new, new = Len(grants) + 1
  PROVE  /\ row' = new /\ row' # 0 /\ Len(grants') = new /\ new \in Nat \ {0}
         /\ grants'[new].session = s
         /\ \A i \in 1..Len(grants) : grants'[i] = grants[i] /\ i # new
         /\ \A i \in 1..Len(grants') : i = new \/ i \in 1..Len(grants)
         /\ \A i \in Nat \ {0} : i # new => (IsSession(i)' <=> IsSession(i))
         /\ IsSession(new)' <=> s = new
         /\ ~IsSession(new)
<1> DEFINE g == [claims |-> account.claims, exp |-> now + AccessLife, session |-> s]
<1>1. grants' = Append(grants, g) /\ row' = new
  BY DEF Issue
<1>2. g.session = s
  OBVIOUS
<1>3. grants \in Seq(Grant) /\ Len(grants) \in Nat
  BY DEF TypeInv, TablesOK
<1> HIDE DEF g
<1>4. /\ Len(grants') = new
      /\ \A i \in 1..Len(grants) : grants'[i] = grants[i]
      /\ grants'[new] = g
  BY <1>1, <1>3
<1>5. /\ new \in Nat \ {0} /\ new \in 1..Len(grants') /\ new \notin 1..Len(grants)
      /\ \A i : i # new => (i \in 1..Len(grants') <=> i \in 1..Len(grants))
  BY <1>3, <1>4
<1>6. ASSUME NEW i \in Nat \ {0}, i # new PROVE IsSession(i)' <=> IsSession(i)
  BY <1>4, <1>5, <1>6 DEF IsSession
<1>7. (IsSession(new)' <=> s = new) /\ ~IsSession(new)
  BY <1>2, <1>4, <1>5 DEF IsSession
<1> QED
  BY <1>1, <1>2, <1>4, <1>5, <1>6, <1>7

\* A sign-in opens a session in the place of the one before.
LEMMA OpenedInLedger ==
  ASSUME TypeInv, Rooted, Issue(Len(grants) + 1), account.exists, UNCHANGED account
  PROVE  Ledger!Next /\ Rooted'
<1> SUFFICES ASSUME NEW new, new = Len(grants) + 1 PROVE Ledger!Next /\ Rooted'
  OBVIOUS
<1> DEFINE S == Ledger!OpenSessions
<1>1. Len(grants) \in Nat /\ new \in Nat \ {0} /\ Issue(new)
  BY DEF TypeInv, TablesOK
<1>2. /\ row' = new /\ row' # 0 /\ Len(grants') = new /\ grants'[new].session = new
      /\ \A i \in 1..Len(grants) : grants'[i] = grants[i] /\ i # new
      /\ \A i \in 1..Len(grants') : i = new \/ i \in 1..Len(grants)
      /\ \A i \in Nat \ {0} : i # new => (IsSession(i)' <=> IsSession(i))
      /\ IsSession(new)' /\ ~IsSession(new)
  BY <1>1, IssuedGrant
<1>3. Rooted'
  <2>1. ASSUME NEW i \in 1..Len(grants') PROVE IsSession(grants[i].session)'
    <3>1. CASE i = new
      BY <1>2, <3>1
    <3>2. CASE i \in 1..Len(grants)
      <4>1. IsSession(grants[i].session)
        BY <3>2 DEF Rooted
      <4>2. grants[i].session \in Nat \ {0} /\ grants[i].session # new
        BY <1>1, <1>2, <4>1 DEF IsSession
      <4>3. grants'[i].session = grants[i].session
        BY <1>2, <3>2
      <4>4. ASSUME NEW k, k = grants[i].session PROVE IsSession(k)'
        BY <1>2, <4>1, <4>2, <4>4
      <4> QED
        BY <4>3, <4>4
    <3> QED
      BY <1>1, <1>2, <3>1, <3>2
  <2> QED
    BY <2>1 DEF Rooted
<1>4. SessionStatus' = [Ledger!Ended(S) EXCEPT ![new] = "open"]
  <2>1. ASSUME NEW s \in Nat \ {0}
        PROVE  SessionStatus'[s] = IF s = new THEN "open" ELSE IF s \in S THEN "ended" ELSE SessionStatus[s]
    <3>1. SessionStatus'[s] = IF ~IsSession(s)' THEN "new" ELSE IF s = new THEN "open" ELSE "ended"
      BY <1>2 DEF SessionStatus
    <3>2. s \in S => IsSession(s)
      BY DEF SessionStatus, Ledger!OpenSessions
    <3>3. s \notin S => SessionStatus[s] # "open"
      BY DEF SessionStatus, Ledger!OpenSessions
    <3> QED
      BY <1>2, <3>1, <3>2, <3>3 DEF SessionStatus
  <2>2. SessionStatus' = [s \in Nat \ {0} |-> IF s = new THEN "open" ELSE IF s \in S THEN "ended" ELSE SessionStatus[s]]
    BY <2>1 DEF SessionStatus
  <2> QED
    BY <2>2 DEF Ledger!Ended
<1>5. SessionOwner' = [SessionOwner EXCEPT ![new] = "user"]
  <2>1. ASSUME NEW s \in Nat \ {0}
        PROVE  SessionOwner'[s] = IF s = new THEN "user" ELSE SessionOwner[s]
    BY <1>2 DEF SessionOwner
  <2> QED
    BY <2>1 DEF SessionOwner
<1>6. SessionStatus[new] = "new"
  BY <1>1, <1>2 DEF SessionStatus
<1>7. Ledger!Open(new, "user", S)
  BY <1>4, <1>5, <1>6 DEF Ledger!Open
<1>8. S \in SUBSET Ledger!OpenSessions /\ "user" \in {"user"}
  OBVIOUS
<1> QED
  BY <1>1, <1>3, <1>7, <1>8 DEF Ledger!Next

\* A rotation is invisible to the ledger.
LEMMA RotatedInLedger ==
  ASSUME TypeInv, Rooted, row # 0, Issue(grants[row].session), UNCHANGED account
  PROVE  UNCHANGED Ledger!ledger /\ Rooted'
<1> SUFFICES ASSUME NEW new, new = Len(grants) + 1, NEW old, old = grants[row].session
             PROVE  UNCHANGED Ledger!ledger /\ Rooted'
  OBVIOUS
<1>1. Len(grants) \in Nat /\ row \in 1..Len(grants)
  BY DEF TypeInv, TablesOK, GrantIds
<1>2. IsSession(old) /\ old \in 1..Len(grants)
  BY <1>1 DEF Rooted, IsSession
<1>3. old \in Nat \ {0} /\ old # new /\ Issue(old)
  BY <1>1, <1>2
<1>4. /\ row' = new /\ row' # 0 /\ Len(grants') = new /\ grants'[new].session = old
      /\ \A i \in 1..Len(grants) : grants'[i] = grants[i] /\ i # new
      /\ \A i \in 1..Len(grants') : i = new \/ i \in 1..Len(grants)
      /\ \A i \in Nat \ {0} : i # new => (IsSession(i)' <=> IsSession(i))
      /\ ~IsSession(new)' /\ ~IsSession(new)
  BY <1>3, IssuedGrant
<1>5. \A i \in Nat \ {0} : IsSession(i)' <=> IsSession(i)
  BY <1>4
<1>6. Rooted'
  <2>1. ASSUME NEW i \in 1..Len(grants') PROVE IsSession(grants[i].session)'
    <3>1. IsSession(old)'
      BY <1>2, <1>3, <1>5
    <3>2. CASE i = new
      BY <1>4, <3>1, <3>2
    <3>3. CASE i \in 1..Len(grants)
      <4>1. IsSession(grants[i].session)
        BY <3>3 DEF Rooted
      <4>2. grants[i].session \in Nat \ {0}
        BY <1>1, <4>1 DEF IsSession
      <4>3. grants'[i].session = grants[i].session
        BY <1>4, <3>3
      <4>4. ASSUME NEW k, k = grants[i].session PROVE IsSession(k)'
        BY <1>5, <4>1, <4>2, <4>4
      <4> QED
        BY <4>3, <4>4
    <3> QED
      BY <1>4, <3>2, <3>3
  <2> QED
    BY <2>1 DEF Rooted
<1>7. SessionStatus' = SessionStatus
  BY <1>4, <1>5 DEF SessionStatus
<1>8. SessionOwner' = SessionOwner
  BY <1>5 DEF SessionOwner
<1> QED
  BY <1>6, <1>7, <1>8 DEF Ledger!ledger

\* Every call is a step of the ledger or leaves it alone.
LEMMA CallInLedger ==
  ASSUME TypeInv, Rooted, NEW call, NEW up, AuthService(call, up), call.kind = "refresh" => call.token # 0
  PROVE  [Ledger!Next]_(Ledger!ledger) /\ Rooted'
<1>1. UNCHANGED account
  BY DEF AuthService
<1>2. CASE Opened(call.kind, up)
  <2>1. account.exists
    BY <1>2, RefusalsAreNotOk DEF Opened, AuthService, SignIn, Refuse, ErrorResponse, HttpException
  <2> QED
    BY <1>1, <1>2, <2>1, OpenedInLedger DEF Opened
<1>3. CASE Rotated(call.kind, call.token, up)
  BY <1>1, <1>3, RotatedInLedger DEF Rotated
<1>4. CASE Closed(call.kind, call.token, up) \/ Outlived(call.kind, up) \/ Kept(call.kind, up)
  BY <1>1, <1>4, RowGoes DEF Closed, Outlived, Kept
<1> QED
  BY <1>2, <1>3, <1>4, AuthCases DEF AuthCase

\* An account that is deleted takes its session along.
LEMMA DeactivatedInLedger ==
  ASSUME TypeInv, Rooted, Deactivate
  PROVE  [Ledger!Next]_(Ledger!ledger) /\ Rooted'
<1>1. UNCHANGED grants /\ row' = 0
  BY DEF Deactivate, OthersChange
<1>2. account \in [exists : BOOLEAN, active : BOOLEAN, claims : Claims]
  BY DEF TypeInv, AccountOK
<1>3. Rooted' /\ \A s : IsSession(s)' <=> IsSession(s)
  BY <1>1 DEF Rooted, IsSession
<1>4. SessionOwner' = SessionOwner
  BY <1>3 DEF SessionOwner
<1>5. SessionStatus' = Ledger!Ended(Ledger!OpenSessions)
  BY <1>1, <1>3 DEF SessionStatus, Ledger!Ended, Ledger!OpenSessions
<1>6. CASE account' = [account EXCEPT !.active = FALSE]
  <2>1. account'.exists = account.exists
    BY <1>2, <1>6
  <2>2. Ledger!End(Ledger!OpenSessions)
    BY <1>4, <1>5, <2>1 DEF Ledger!End
  <2> QED
    BY <1>3, <2>2 DEF Ledger!Next
<1>7. CASE account' = [[account EXCEPT !.active = FALSE] EXCEPT !.exists = FALSE]
  <2>1. ~account'.exists
    BY <1>2, <1>7
  <2>2. {s \in Ledger!OpenSessions : SessionOwner[s] \in {"user"}} = Ledger!OpenSessions
    BY DEF Ledger!OpenSessions, SessionOwner, SessionStatus
  <2>3. Ledger!CloseAccounts({"user"})
    BY <1>4, <1>5, <2>1, <2>2 DEF Ledger!CloseAccounts
  <2>4. {"user"} \in SUBSET {"user"}
    OBVIOUS
  <2> QED
    BY <1>3, <2>3, <2>4 DEF Ledger!Next
<1> QED
  BY <1>2, <1>6, <1>7 DEF Deactivate

LEMMA LedgerStep == ASSUME TypeInv, Rooted, Next PROVE [Ledger!Next]_(Ledger!ledger) /\ Rooted'
<1>1. ASSUME NEW t \in Tabs, Serve(t) PROVE [Ledger!Next]_(Ledger!ledger) /\ Rooted'
  <2>1. PICK up : AuthService(req[t], up)
    BY <1>1 DEF Serve
  <2>2. req[t].kind = "refresh" => req[t].token # 0
    BY <1>1, Fields DEF Serve, RequestOK, Presenting
  <2> QED
    BY <2>1, <2>2, CallInLedger
<1>2. ASSUME NEW call \in late, ServeLate(call) PROVE [Ledger!Next]_(Ledger!ledger) /\ Rooted'
  <2>1. PICK up : AuthService(call, up)
    BY <1>2 DEF ServeLate
  <2>2. call.kind = "refresh" => call.token # 0
    BY DEF TypeInv, LateOK, Presenting
  <2> QED
    BY <2>1, <2>2, CallInLedger
<1>3. ASSUME NEW t \in Tabs, \/ ReadCache(t) \/ Verify(t) \/ Store(t) \/ Check(t) \/ Deliver(t) \/ GiveUp(t)
                             \/ \E kind \in Kinds : Send(t, kind)
      PROVE  [Ledger!Next]_(Ledger!ledger) /\ Rooted'
  <2>1. UNCHANGED <<grants, row, account>>
    BY <1>3 DEF ReadCache, Verify, Store, Check, Deliver, GiveUp, Send, database
  <2> QED
    BY <2>1, RowGoes
<1>4. ASSUME Revoke \/ Tick \/ OtherSteps PROVE [Ledger!Next]_(Ledger!ledger) /\ Rooted'
  <2>1. UNCHANGED <<grants, account>> /\ (row' = row \/ row' = 0)
    BY <1>4 DEF Revoke, Tick, OtherSteps, ChangeTarget, CheckLate, OthersChange, database
  <2> QED
    BY <2>1, RowGoes
<1>5. ASSUME NEW claims \in Claims, ChangeClaims(claims) PROVE [Ledger!Next]_(Ledger!ledger) /\ Rooted'
  <2>1. UNCHANGED <<grants, row>> /\ account' = [account EXCEPT !.claims = claims]
    BY <1>5 DEF ChangeClaims, OthersChange
  <2>2. account'.exists = account.exists
    BY <2>1 DEF TypeInv, AccountOK
  <2>3. UNCHANGED <<SessionStatus, SessionOwner>> /\ Rooted'
    BY <2>1 DEF SessionStatus, SessionOwner, IsSession, Rooted
  <2> QED
    BY <2>2, <2>3 DEF Ledger!ledger
<1> QED
  BY <1>1, <1>2, <1>3, <1>4, <1>5, DeactivatedInLedger DEF Next, Step, OtherSteps

\* Seen from the gateway the auth-service keeps the same ledger as in module
\* Sessions: sign-in, refresh, logout and the changes by others, served in
\* time or after the gateway stopped to wait, open each session once and
\* never again.
THEOREM LedgerKept == Spec => Ledger!Spec
<1>1. Init => Rooted /\ Ledger!Init
  <2> SUFFICES ASSUME Init PROVE Rooted /\ Ledger!Init
    OBVIOUS
  <2>1. grants = <<>> /\ row = 0 /\ account.exists
    BY DEF Init
  <2>2. \A s : ~IsSession(s)
    BY <2>1 DEF IsSession
  <2> QED
    BY <2>1, <2>2 DEF Rooted, Ledger!Init, SessionStatus, SessionOwner
<1>2. IInv /\ Rooted /\ [Next]_vars => Rooted' /\ [Ledger!Next]_(Ledger!ledger)
  <2> SUFFICES ASSUME IInv, Rooted, [Next]_vars PROVE Rooted' /\ [Ledger!Next]_(Ledger!ledger)
    OBVIOUS
  <2>1. CASE Next
    BY <2>1, LedgerStep DEF IInv
  <2>2. CASE UNCHANGED vars
    BY <2>2 DEF vars, Rooted, IsSession, Ledger!ledger, SessionStatus, SessionOwner
  <2> QED
    BY <2>1, <2>2
<1> QED
  BY <1>1, <1>2, Invariance, PTL DEF Spec, Ledger!Spec

-----------------------------------------------------------------------------
(* Why every request is answered.                                          *)

\* The stages that may follow a stage before the answer is delivered.
Later(stage) ==
  CASE stage = "cache"  -> {"verify", "store", "call", "reply"}
    [] stage = "verify" -> {"store", "call", "reply"}
    [] stage = "store"  -> {"call", "reply"}
    [] stage = "call"   -> {"target", "reply"}
    [] stage = "target" -> {"write", "reply"}
    [] stage = "write"  -> {"reply"}
    [] OTHER            -> {}

\* A request in flight moves on to a later stage, as the same kind of
\* request, until its one answer is delivered; nothing that other tabs, late
\* calls or the clock do moves it at all.
RequestsAdvance ==
  [][\A t \in Tabs : InFlight(t) /\ req'[t] # req[t] =>
       \/ req[t].stage = "reply" /\ req'[t] = Request
       \/ req'[t].stage \in Later(req[t].stage) /\ req'[t].kind = req[t].kind]_vars

\* Only the request t moves, and onward.
Onward(t) ==
  /\ \A u \in Tabs : u # t => req'[u] = req[u]
  /\ \/ req[t].stage = "reply" /\ req'[t] = Request
     \/ req'[t].stage \in Later(req[t].stage) /\ req'[t].kind = req[t].kind

LEMMA BecomesOnward ==
  ASSUME NEW t \in Tabs, NEW r, Becomes(t, r), r.stage \in Later(req[t].stage), r.kind = req[t].kind
  PROVE  Onward(t)
BY DEF Becomes, Onward

LEMMA AnswerOnward ==
  ASSUME TypeInv, NEW t \in Tabs, NEW a, Answer(t, a), req[t].stage \in InService \cup {"cache", "verify", "store"}
  PROVE  Onward(t)
<1> DEFINE r == Record(req[t].kind, "reply", 0, 0, 0, 0, NoAnswer, a)
<1>1. Becomes(t, r)
  <2>1. req' = [req EXCEPT ![t] = r]
    BY Answered DEF Answer
  <2> HIDE DEF r
  <2> QED
    BY <2>1, Fields
<1>2. r.stage = "reply" /\ r.kind = req[t].kind
  BY DEF Record
<1> HIDE DEF r
<1> QED
  BY <1>1, <1>2, BecomesOnward DEF Later, InService

LEMMA AdvanceOnward ==
  ASSUME TypeInv, NEW t \in Tabs, NEW stage \in Later(req[t].stage), Advance(t, stage)
  PROVE  Onward(t)
<1>1. [req[t] EXCEPT !.stage = stage].stage = stage /\ [req[t] EXCEPT !.stage = stage].kind = req[t].kind
  BY Fields DEF RequestOK, IsRequest
<1>2. req' = [req EXCEPT ![t] = [req[t] EXCEPT !.stage = stage]]
  BY DEF Advance
<1>3. Becomes(t, [req[t] EXCEPT !.stage = stage])
  BY <1>2, Fields
<1> QED
  BY <1>1, <1>3, BecomesOnward

LEMMA PassGuardsOnward ==
  ASSUME TypeInv, NEW t \in Tabs, PassGuards(t), req[t].stage \in {"cache", "verify", "store"}
  PROVE  Onward(t)
<1>1. (\E a : Answer(t, a)) \/ Advance(t, "call")
  BY DEF PassGuards
<1>2. "call" \in Later(req[t].stage)
  BY DEF Later
<1> QED
  BY <1>1, <1>2, AnswerOnward, AdvanceOnward

LEMMA StepOnward == ASSUME TypeInv, NEW t \in Tabs, Step(t) PROVE Onward(t)
<1>1. CASE ReadCache(t)
  <2>1. req[t].stage = "cache" /\ (PassGuards(t) \/ Advance(t, "verify"))
    BY <1>1 DEF ReadCache
  <2>2. "verify" \in Later(req[t].stage)
    BY <2>1 DEF Later
  <2> QED
    BY <2>1, <2>2, PassGuardsOnward, AdvanceOnward
<1>2. CASE Verify(t)
  <2>1. req[t].stage = "verify"
    BY <1>2 DEF Verify
  <2>2. \/ Answer(t, Unauthorized)
        \/ PassGuards(t)
        \/ req' = [req EXCEPT ![t].stage = "store", ![t].ttl = CacheTtl(req[t].token), ![t].since = now]
    BY <1>2 DEF Verify
  <2>3. ASSUME NEW ttl, req' = [req EXCEPT ![t].stage = "store", ![t].ttl = ttl, ![t].since = now]
        PROVE  Onward(t)
    <3> DEFINE r == Record(req[t].kind, "store", req[t].token, req[t].asked, ttl, now, req[t].up, req[t].answer)
    <3>1. Becomes(t, r)
      BY <2>3, Stored
    <3>2. r.stage = "store" /\ r.kind = req[t].kind
      BY DEF Record
    <3> HIDE DEF r
    <3> QED
      BY <2>1, <3>1, <3>2, BecomesOnward DEF Later
  <2> QED
    BY <2>1, <2>2, <2>3, AnswerOnward, PassGuardsOnward
<1>3. CASE Store(t)
  BY <1>3, PassGuardsOnward DEF Store
<1>4. CASE Serve(t)
  <2>1. PICK up : Served(t, up)
    BY <1>4, ServeMoves
  <2>2. PICK r : Becomes(t, r) /\ r.stage = "reply" /\ r.kind = req[t].kind
    BY <2>1 DEF Served
  <2>3. req[t].stage \in InService
    BY <1>4 DEF Serve
  <2> QED
    BY <2>2, <2>3, BecomesOnward DEF Later, InService
<1>5. CASE Deliver(t)
  BY <1>5, DeliverMoves DEF Becomes, Onward, Deliver
<1>6. CASE GiveUp(t)
  BY <1>6, AnswerOnward DEF GiveUp
<1>7. CASE Check(t)
  <2>1. PICK stage \in InService : Passes(req[t], stage) /\ Advance(t, stage)
    BY <1>7 DEF Check
  <2>2. stage \in Later(req[t].stage)
    BY <2>1 DEF Passes, Later
  <2> QED
    BY <2>1, <2>2, AdvanceOnward
<1> QED
  BY <1>1, <1>2, <1>3, <1>4, <1>5, <1>6, <1>7 DEF Step

\* A request only moves onward: tabs, late calls and the clock may come
\* between its steps, but they neither undo nor repeat one, and at most six
\* of them separate it from its one answer. With the fairness of FairSpec
\* this is why every request is answered.
THEOREM RequestsAdvanced == Spec => RequestsAdvance
<1>1. ASSUME TypeInv, [Next]_vars
      PROVE  \A t \in Tabs : InFlight(t) /\ req'[t] # req[t] =>
               \/ req[t].stage = "reply" /\ req'[t] = Request
               \/ req'[t].stage \in Later(req[t].stage) /\ req'[t].kind = req[t].kind
  <2> SUFFICES ASSUME NEW t \in Tabs, InFlight(t), req'[t] # req[t]
               PROVE  Onward(t)
    BY DEF Onward
  <2>1. ASSUME NEW u \in Tabs, Step(u) PROVE Onward(t)
    <3>1. Onward(u)
      BY <1>1, <2>1, StepOnward
    <3>2. u = t
      BY <3>1 DEF Onward
    <3> QED
      BY <3>1, <3>2
  <2>2. ASSUME NEW u \in Tabs, NEW kind \in Kinds, Send(u, kind) PROVE FALSE
    <3>1. ~InFlight(u)
      BY <2>2 DEF Send
    <3>2. PICK r : Becomes(u, r)
      BY <1>1, <2>2, SendMoves
    <3> QED
      BY <3>1, <3>2 DEF Becomes
  <2>3. \/ \E u \in Tabs : Step(u) \/ \E kind \in Kinds : Send(u, kind)
        \/ UNCHANGED req
    BY <1>1 DEF Next, CheckLate, ServeLate, ChangeClaims, ChangeTarget, Deactivate, Revoke, OthersChange, Tick, vars
  <2> QED
    BY <2>1, <2>2, <2>3
<1>2. IInv => TypeInv
  BY DEF IInv
<1> QED
  BY <1>1, <1>2, Invariance, PTL DEF Spec, RequestsAdvance
=============================================================================
