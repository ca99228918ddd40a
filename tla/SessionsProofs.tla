--------------------------- MODULE SessionsProofs ---------------------------
(***************************************************************************)
(* Theorems about Sessions, for any number of accounts, devices, handlers  *)
(* and tokens, any session limit and any token lifetime.                   *)
(*                                                                         *)
(* The argument has two halves.  HandlersOK says what a handler may rely   *)
(* on after each await: what it holds in req[p] is well-formed and the JWT *)
(* it presents is signed.  TablesOK says what the tables keep.  Whatever   *)
(* its place in a handler, a step changes the tables in one of six ways    *)
(* (TableStep); TablesOK and the refinement are proved once per way.       *)
(***************************************************************************)
EXTENDS Sessions, FiniteSetTheorems, TLAPS

-----------------------------------------------------------------------------
(* The inductive invariant.                                                *)

SignInSteps == {"find_device", "delete_device", "find_active", "delete_evicted", "create"}
RefreshSteps == {"find_token", "delete_expired", "touch", "rotate"}

RequestOK(r, signed) ==
    /\ r \in Request
    /\ r.step \in SignInSteps => r.user \in UserIds /\ r.device \in Devices
    /\ r.step \in RefreshSteps => r.id \in signed /\ r.device \in Devices
    /\ r.step = "touch" => r.id \in r.read

HandlersOK ==
    /\ req \in [Procs -> Request]
    /\ \A p \in Procs : RequestOK(req[p], DOMAIN jwt)

\* A row and the JWT of the same id belong together; a row was used, or
\* created, no earlier than one lifetime before it expires, which is at most one from now.
RowOK(t) ==
    LET row == refresh_tokens[t]
    IN  /\ row \in TokenRow
        /\ row.token = t
        /\ t \in DOMAIN jwt
        /\ row.user_id = jwt[t].userId
        /\ row.user_id \in DOMAIN users
        /\ row.expires_at <= now + Lifetime
        /\ row.last_used_at = Null => row.expires_at <= row.created_at + Lifetime
        /\ row.last_used_at # Null => row.expires_at <= row.last_used_at + Lifetime

\* A session is rooted in the JWT of its sign-in, which is the same user's.
ClaimsOK(t) ==
    /\ jwt[t] \in Claims
    /\ jwt[t].session \in DOMAIN jwt
    /\ jwt[jwt[t].session].session = jwt[t].session
    /\ jwt[jwt[t].session].userId = jwt[t].userId

TablesOK ==
    /\ DOMAIN users \subseteq UserIds
    /\ \A u \in DOMAIN users : users[u] \in UserRow
    /\ DOMAIN refresh_tokens \subseteq TokenIds
    /\ \A t \in DOMAIN refresh_tokens : RowOK(t)
    /\ DOMAIN jwt \subseteq TokenIds
    /\ \A t \in DOMAIN jwt : ClaimsOK(t)
    /\ OneTokenPerSession
    /\ now \in Nat

IInv == HandlersOK /\ TablesOK

-----------------------------------------------------------------------------
(* The ways a step changes the tables.                                     *)

KeepsTokens ==
    /\ DOMAIN users' = DOMAIN users
    /\ \A u \in DOMAIN users : users'[u] \in UserRow
    /\ UNCHANGED <<refresh_tokens, jwt>>

RemovesTokens(S) ==
    /\ DOMAIN users' = DOMAIN users
    /\ \A u \in DOMAIN users : users'[u] \in UserRow
    /\ DeleteTokens(S)
    /\ UNCHANGED jwt

CreatesToken(u, d, t) ==
    /\ u \in DOMAIN users
    /\ d \in Devices
    /\ t \in TokenIds \ DOMAIN jwt
    /\ PutToken({}, t, NewRow(u, d, t),
                [userId |-> u, exp |-> now + Lifetime, session |-> t])
    /\ UNCHANGED users

TouchesToken(t, d) ==
    /\ t \in DOMAIN refresh_tokens
    /\ d \in Devices
    /\ refresh_tokens' = [refresh_tokens EXCEPT ![t].last_used_at = now, ![t].device = d]
    /\ UNCHANGED <<users, jwt>>

RotatesToken(old, new, d) ==
    /\ old \in DOMAIN refresh_tokens
    /\ d \in Devices
    /\ new \in TokenIds \ DOMAIN jwt
    /\ PutToken({old}, new, RotatedRow(old, new, d), [jwt[old] EXCEPT !.exp = now + Lifetime])
    /\ UNCHANGED users

RemovesUsers(U) == DeleteUsers(U) /\ UNCHANGED jwt

TableStep ==
    \/ KeepsTokens
    \/ \E S : RemovesTokens(S)
    \/ \E u, d, t : CreatesToken(u, d, t)
    \/ \E t, d : TouchesToken(t, d)
    \/ \E old, new, d : RotatesToken(old, new, d)
    \/ \E U : RemovesUsers(U)

-----------------------------------------------------------------------------

\* The invariant says what the model-checked properties say.
LEMMA IInvSuffices ==
    IInv => /\ TypeOK /\ OneTokenPerSession
            /\ NeverTakenForTheft /\ UnusedCleanupSparesLiveSessions
<1> SUFFICES ASSUME IInv
             PROVE  /\ TypeOK /\ OneTokenPerSession
                    /\ NeverTakenForTheft /\ UnusedCleanupSparesLiveSessions
  OBVIOUS
<1>1. TypeOK
  BY DEF IInv, HandlersOK, TablesOK, RequestOK, RowOK, ClaimsOK, TypeOK
<1>2. OneTokenPerSession
  BY DEF IInv, TablesOK
<1>3. NeverTakenForTheft
  BY DEF IInv, HandlersOK, RequestOK, NeverTakenForTheft, At
<1>4. UnusedCleanupSparesLiveSessions
  <2> SUFFICES ASSUME NEW t \in DOMAIN refresh_tokens, Unused(t)
               PROVE  refresh_tokens[t].expires_at <= now
    BY DEF UnusedCleanupSparesLiveSessions
  <2>1. RowOK(t) /\ now \in Nat
    BY DEF IInv, TablesOK
  <2> QED
    BY <2>1, SessionsAssumption DEF RowOK, Unused, TokenRow
<1> QED
  BY <1>1, <1>2, <1>3, <1>4

\* Nothing is stored and nobody is served at the start.
LEMMA InitEstablishes == Init => IInv
<1> SUFFICES ASSUME Init PROVE IInv
  OBVIOUS
<1>1. HandlersOK
  BY DEF Init, HandlersOK, RequestOK, Idle, Request, Steps, SignInSteps, RefreshSteps
<1>2. TablesOK
  BY DEF Init, TablesOK, UserRow, OneTokenPerSession
<1> QED
  BY <1>1, <1>2 DEF IInv

\* What is at most one lifetime away stays so while the clock runs.
LEMMA AddBoth ==
    ASSUME NEW a \in Nat, NEW b \in Nat, NEW c \in Nat, a <= b
    PROVE  a + c \in Nat /\ a + c <= b + c
OBVIOUS

\* A row that is not touched stays consistent while its account exists.
LEMMA UntouchedRow ==
    ASSUME NEW i, RowOK(i), now \in Nat, now' \in Nat, now <= now',
           refresh_tokens'[i] = refresh_tokens[i],
           i \in DOMAIN jwt', jwt'[i] = jwt[i],
           refresh_tokens[i].user_id \in DOMAIN users'
    PROVE  RowOK(i)'
<1>1. refresh_tokens[i].expires_at \in Nat /\ Lifetime \in Nat
  BY SessionsAssumption DEF RowOK, TokenRow
<1>2. refresh_tokens[i].expires_at <= now' + Lifetime
  BY <1>1 DEF RowOK
<1> QED
  BY <1>2 DEF RowOK

\* Every way of changing the tables keeps them consistent.
LEMMA TableStepKeepsTables ==
    ASSUME TablesOK, TableStep, now' \in Nat, now <= now' PROVE TablesOK'
<1>0. /\ now \in Nat /\ Lifetime \in Nat
      /\ now + Lifetime \in Nat /\ now + Lifetime <= now' + Lifetime
  <2>1. now \in Nat /\ Lifetime \in Nat
    BY SessionsAssumption DEF TablesOK
  <2> QED
    BY <2>1, AddBoth
<1>1. CASE KeepsTokens
  <2>1. \A i \in DOMAIN refresh_tokens : RowOK(i)'
    BY <1>1, UntouchedRow DEF KeepsTokens, TablesOK, RowOK
  <2> QED
    BY <1>1, <2>1 DEF KeepsTokens, TablesOK, ClaimsOK, OneTokenPerSession
<1>2. ASSUME NEW S, RemovesTokens(S) PROVE TablesOK'
  <2>1. \A i \in DOMAIN refresh_tokens' :
           i \in DOMAIN refresh_tokens /\ refresh_tokens'[i] = refresh_tokens[i]
    BY <1>2 DEF RemovesTokens, DeleteTokens, Restrict
  <2>2. \A i \in DOMAIN refresh_tokens' : RowOK(i)'
    BY <1>2, <2>1, UntouchedRow DEF RemovesTokens, TablesOK, RowOK
  <2> QED
    BY <1>2, <2>2 DEF RemovesTokens, DeleteTokens, Restrict, TablesOK, ClaimsOK,
                      OneTokenPerSession
<1>3. ASSUME NEW u, NEW d, NEW t, CreatesToken(u, d, t) PROVE TablesOK'
  <2>0. /\ u \in DOMAIN users /\ d \in Devices /\ t \in TokenIds \ DOMAIN jwt
        /\ PutToken({}, t, NewRow(u, d, t),
                    [userId |-> u, exp |-> now + Lifetime, session |-> t])
        /\ users' = users
    BY <1>3 DEF CreatesToken
  <2>1. DOMAIN refresh_tokens' = DOMAIN refresh_tokens \cup {t}
    BY <2>0 DEF PutToken
  <2>2. DOMAIN jwt' = DOMAIN jwt \cup {t}
    BY <2>0 DEF PutToken
  <2>3. \A i \in DOMAIN jwt : jwt'[i] = jwt[i]
    BY <2>0 DEF PutToken
  <2>4. jwt'[t] = [userId |-> u, exp |-> now + Lifetime, session |-> t]
    BY <2>0 DEF PutToken
  <2>5. \A i \in DOMAIN refresh_tokens : refresh_tokens'[i] = refresh_tokens[i]
    BY <2>0 DEF PutToken, TablesOK, RowOK
  <2>6. refresh_tokens'[t] = NewRow(u, d, t)
    BY <2>0 DEF PutToken
  <2>7. u \in UserIds /\ t \in TokenIds
    BY <2>0 DEF TablesOK
  <2>8. \A i \in DOMAIN jwt' : ClaimsOK(i)'
    BY <1>0, <2>0, <2>2, <2>3, <2>4, <2>7 DEF TablesOK, ClaimsOK, Claims
  <2>9. \A i \in DOMAIN refresh_tokens' : RowOK(i)'
    <3>1. RowOK(t)'
      <4>1. refresh_tokens'[t] \in TokenRow
        BY <1>0, <2>0, <2>6, <2>7, SessionsAssumption DEF NewRow, TokenRow
      <4>2. /\ refresh_tokens'[t].last_used_at = Null
            /\ refresh_tokens'[t].created_at = now
            /\ refresh_tokens'[t].expires_at = now + Lifetime
            /\ refresh_tokens'[t].user_id = u
            /\ refresh_tokens'[t].token = t
        BY <2>6 DEF NewRow
      <4>3. /\ refresh_tokens'[t].expires_at <= now' + Lifetime
            /\ refresh_tokens'[t].expires_at <= refresh_tokens'[t].created_at + Lifetime
        <5> DEFINE row == refresh_tokens'[t]
        <5>1. /\ row.expires_at = now + Lifetime /\ row.created_at = now
              /\ now + Lifetime \in Nat /\ now + Lifetime <= now' + Lifetime
          BY <1>0, <4>2
        <5> HIDE DEF row
        <5>2. row.expires_at <= now' + Lifetime /\ row.expires_at <= row.created_at + Lifetime
          BY <5>1
        <5> QED
          BY <5>2 DEF row
      <4>4. /\ t \in DOMAIN jwt'
            /\ refresh_tokens'[t].user_id = jwt'[t].userId
            /\ refresh_tokens'[t].user_id \in DOMAIN users'
        BY <2>0, <2>2, <2>4, <4>2
      <4> QED
        BY <4>1, <4>2, <4>3, <4>4 DEF RowOK
    <3>2. \A i \in DOMAIN refresh_tokens : RowOK(i)'
      BY <2>0, <2>2, <2>3, <2>5, UntouchedRow DEF RowOK, TablesOK
    <3> QED
      BY <2>1, <3>1, <3>2
  <2>10. OneTokenPerSession'
    BY <2>0, <2>1, <2>3, <2>4 DEF OneTokenPerSession, TablesOK, RowOK, ClaimsOK
  <2> QED
    BY <2>0, <2>1, <2>2, <2>7, <2>8, <2>9, <2>10 DEF TablesOK
<1>4. ASSUME NEW t, NEW d, TouchesToken(t, d) PROVE TablesOK'
  <2>0. /\ t \in DOMAIN refresh_tokens /\ d \in Devices
        /\ refresh_tokens' = [refresh_tokens EXCEPT ![t].last_used_at = now, ![t].device = d]
        /\ users' = users /\ jwt' = jwt
    BY <1>4 DEF TouchesToken
  <2>1. RowOK(t) /\ refresh_tokens[t] \in TokenRow
    BY <2>0 DEF TablesOK, RowOK
  <2>2. refresh_tokens'[t] = [refresh_tokens[t] EXCEPT !.last_used_at = now, !.device = d]
    BY <2>0
  <2>3. RowOK(t)'
    <3>1. refresh_tokens'[t] \in TokenRow
      BY <1>0, <2>0, <2>1, <2>2 DEF TokenRow
    <3>2. /\ refresh_tokens'[t].last_used_at = now
          /\ refresh_tokens'[t].expires_at = refresh_tokens[t].expires_at
          /\ refresh_tokens'[t].user_id = refresh_tokens[t].user_id
          /\ refresh_tokens'[t].token = refresh_tokens[t].token
      BY <2>1, <2>2 DEF TokenRow
    <3>3. /\ refresh_tokens'[t].expires_at <= now + Lifetime
          /\ refresh_tokens'[t].expires_at <= now' + Lifetime
      BY <1>0, <2>1, <3>2 DEF RowOK, TokenRow
    <3>4. now # Null
      BY <1>0, SessionsAssumption
    <3> QED
      BY <2>0, <2>1, <3>1, <3>2, <3>3, <3>4 DEF RowOK
  <2>4. \A i \in DOMAIN refresh_tokens \ {t} : RowOK(i)'
    BY <1>0, <2>0, UntouchedRow DEF TablesOK, RowOK
  <2> QED
    BY <2>0, <2>3, <2>4 DEF TablesOK, ClaimsOK, OneTokenPerSession
<1>5. ASSUME NEW old, NEW new, NEW d, RotatesToken(old, new, d) PROVE TablesOK'
  <2>0. /\ old \in DOMAIN refresh_tokens /\ d \in Devices /\ new \in TokenIds \ DOMAIN jwt
        /\ PutToken({old}, new, RotatedRow(old, new, d),
                    [jwt[old] EXCEPT !.exp = now + Lifetime])
        /\ users' = users
    BY <1>5 DEF RotatesToken
  <2>1. DOMAIN refresh_tokens' = (DOMAIN refresh_tokens \ {old}) \cup {new}
    BY <2>0 DEF PutToken
  <2>2. DOMAIN jwt' = DOMAIN jwt \cup {new}
    BY <2>0 DEF PutToken
  <2>3. \A i \in DOMAIN jwt : jwt'[i] = jwt[i]
    BY <2>0 DEF PutToken
  <2>4. /\ RowOK(old) /\ refresh_tokens[old] \in TokenRow
        /\ old \in DOMAIN jwt /\ ClaimsOK(old) /\ jwt[old] \in Claims
    BY <2>0 DEF TablesOK, RowOK, ClaimsOK
  <2>5. /\ jwt'[new] \in Claims
        /\ jwt'[new].userId = jwt[old].userId
        /\ jwt'[new].session = jwt[old].session
    <3>1. jwt'[new] = [jwt[old] EXCEPT !.exp = now + Lifetime]
      BY <2>0 DEF PutToken
    <3> QED
      BY <1>0, <2>4, <3>1 DEF Claims
  <2>6. \A i \in DOMAIN refresh_tokens \ {old} : refresh_tokens'[i] = refresh_tokens[i]
    BY <2>0 DEF PutToken, TablesOK, RowOK
  <2>7. refresh_tokens'[new] = RotatedRow(old, new, d)
    BY <2>0 DEF PutToken
  <2>8. \A i \in DOMAIN jwt' : ClaimsOK(i)'
    BY <2>0, <2>2, <2>3, <2>4, <2>5 DEF TablesOK, ClaimsOK
  <2>9. \A i \in DOMAIN refresh_tokens' : RowOK(i)'
    <3>1. RowOK(new)'
      <4>1. refresh_tokens'[new] \in TokenRow
        BY <1>0, <2>0, <2>4, <2>7 DEF RotatedRow, TokenRow
      <4>2. /\ refresh_tokens'[new].last_used_at = now
            /\ refresh_tokens'[new].expires_at = now + Lifetime
            /\ refresh_tokens'[new].user_id = refresh_tokens[old].user_id
            /\ refresh_tokens'[new].token = new
        BY <2>4, <2>7 DEF RotatedRow, TokenRow
      <4>3. now # Null /\ now + Lifetime <= now + Lifetime
        BY <1>0, SessionsAssumption
      <4>4. /\ new \in DOMAIN jwt'
            /\ refresh_tokens[old].user_id = jwt'[new].userId
            /\ refresh_tokens[old].user_id \in DOMAIN users'
        BY <2>0, <2>2, <2>4, <2>5 DEF RowOK
      <4> QED
        BY <1>0, <4>1, <4>2, <4>3, <4>4 DEF RowOK
    <3>2. \A i \in DOMAIN refresh_tokens \ {old} : RowOK(i)'
      BY <1>0, <2>0, <2>2, <2>3, <2>6, UntouchedRow DEF RowOK, TablesOK
    <3> QED
      BY <2>1, <3>1, <3>2
  <2>10. OneTokenPerSession'
    BY <2>0, <2>1, <2>3, <2>5 DEF OneTokenPerSession, TablesOK, RowOK
  <2> QED
    BY <2>0, <2>1, <2>2, <2>8, <2>9, <2>10 DEF TablesOK
<1>6. ASSUME NEW U, RemovesUsers(U) PROVE TablesOK'
  <2>1. /\ users' = [u \in DOMAIN users \ U |-> users[u]]
        /\ jwt' = jwt
    BY <1>6 DEF RemovesUsers, DeleteUsers, Restrict
  <2>2. \A i \in DOMAIN refresh_tokens' :
           /\ i \in DOMAIN refresh_tokens /\ refresh_tokens'[i] = refresh_tokens[i]
           /\ refresh_tokens[i].user_id \notin U
    BY <1>6 DEF RemovesUsers, DeleteUsers, DeleteTokens, Restrict, TokensOf
  <2>3. \A i \in DOMAIN refresh_tokens' : RowOK(i)'
    <3> TAKE i \in DOMAIN refresh_tokens'
    <3>1. RowOK(i) /\ now \in Nat
      BY <2>2 DEF TablesOK
    <3>2. /\ refresh_tokens'[i] = refresh_tokens[i]
          /\ i \in DOMAIN jwt' /\ jwt'[i] = jwt[i]
          /\ refresh_tokens[i].user_id \in DOMAIN users'
      BY <2>1, <2>2, <3>1 DEF RowOK
    <3> QED
      BY <3>1, <3>2, UntouchedRow
  <2> QED
    BY <2>1, <2>2, <2>3 DEF TablesOK, ClaimsOK, OneTokenPerSession
<1> QED
  BY <1>1, <1>2, <1>3, <1>4, <1>5, <1>6 DEF TableStep

-----------------------------------------------------------------------------
(* The handlers.                                                           *)

\* A step of handler p leaves the other handlers with what they hold.
LEMMA HandlerMoves ==
    ASSUME HandlersOK, NEW p \in Procs, NEW r, req' = [req EXCEPT ![p] = r],
           RequestOK(r, DOMAIN jwt'), DOMAIN jwt \subseteq DOMAIN jwt'
    PROVE  HandlersOK'
<1>1. r \in Request
  BY DEF RequestOK
<1>2. req' \in [Procs -> Request]
  BY <1>1 DEF HandlersOK
<1>3. \A q \in Procs \ {p} : RequestOK(req'[q], DOMAIN jwt')
  BY DEF HandlersOK, RequestOK
<1> QED
  BY <1>2, <1>3 DEF HandlersOK

\* A step of no handler, a cron job's or the clock's, leaves them all as they are.
LEMMA Elsewhere ==
    ASSUME HandlersOK, req' = req, DOMAIN jwt \subseteq DOMAIN jwt'
    PROVE  HandlersOK'
BY DEF HandlersOK, RequestOK

\* JWTs are only ever added.
LEMMA JwtsStay == TableStep => DOMAIN jwt \subseteq DOMAIN jwt'
BY DEF TableStep, KeepsTokens, RemovesTokens, CreatesToken, TouchesToken, RotatesToken,
       RemovesUsers, PutToken

\* A request that begins with a user, device or signed JWT where its steps need one.
LEMMA BeginsOK ==
    ASSUME HandlersOK, NEW p \in Procs, NEW kind, NEW step \in Steps \ {"touch"},
           NEW u \in UserIds \cup {Null}, NEW d \in Devices \cup {Null},
           NEW t \in TokenIds \cup {Null}, Begin(p, kind, step, u, d, t),
           step \in SignInSteps => u \in UserIds /\ d \in Devices,
           step \in RefreshSteps => t \in DOMAIN jwt /\ d \in Devices,
           DOMAIN jwt \subseteq DOMAIN jwt'
    PROVE  HandlersOK'
<1> DEFINE r == [step |-> step, user |-> u, device |-> d, id |-> t, read |-> {}]
<1>1. RequestOK(r, DOMAIN jwt')
  BY DEF RequestOK, Request
<1>2. req' = [req EXCEPT ![p] = r]
  BY DEF Begin
<1> HIDE DEF r
<1> QED
  BY <1>1, <1>2, HandlerMoves

\* A handler that has answered holds nothing.
LEMMA ReturnsOK ==
    ASSUME HandlersOK, NEW p \in Procs, Return(p), DOMAIN jwt \subseteq DOMAIN jwt'
    PROVE  HandlersOK'
<1>1. RequestOK(Idle, DOMAIN jwt')
  BY DEF RequestOK, Request, Idle, Steps, SignInSteps, RefreshSteps
<1> QED
  BY <1>1, HandlerMoves DEF Return

\* Within a sign-in, or within a refresh, a handler keeps what it was given.
LEMMA GoesOnOK ==
    ASSUME HandlersOK, NEW p \in Procs, NEW step \in Steps, NEW S \in SUBSET TokenIds,
           NEW u \in UserIds \cup {Null},
           req' = [req EXCEPT ![p].step = step, ![p].user = u, ![p].read = S],
           step \in SignInSteps => req[p].step \in SignInSteps /\ u = req[p].user,
           step \in RefreshSteps => req[p].step \in RefreshSteps,
           step = "touch" => req[p].id \in S,
           DOMAIN jwt \subseteq DOMAIN jwt'
    PROVE  HandlersOK'
<1> DEFINE r == [req[p] EXCEPT !.step = step, !.user = u, !.read = S]
<1>1. RequestOK(req[p], DOMAIN jwt) /\ req[p] \in Request
  BY DEF HandlersOK
<1>2. /\ r \in Request
      /\ r.step = step /\ r.user = u /\ r.read = S
      /\ r.device = req[p].device /\ r.id = req[p].id
  BY <1>1 DEF Request
<1>3. req' = [req EXCEPT ![p] = r]
  BY DEF HandlersOK
<1> HIDE DEF r
<1>4. RequestOK(r, DOMAIN jwt')
  BY <1>1, <1>2 DEF RequestOK
<1> QED
  BY <1>3, <1>4, HandlerMoves

\* GoesOnOK for a handler that keeps its user.
LEMMA GoToWithOK ==
    ASSUME HandlersOK, NEW p \in Procs, NEW step \in Steps \ {"touch"},
           NEW S \in SUBSET TokenIds, GoToWith(p, step, S),
           step \in SignInSteps => req[p].step \in SignInSteps,
           step \in RefreshSteps => req[p].step \in RefreshSteps,
           DOMAIN jwt \subseteq DOMAIN jwt'
    PROVE  HandlersOK'
<1> DEFINE u == req[p].user
<1>1. req[p] \in Request /\ u \in UserIds \cup {Null}
  BY DEF HandlersOK, Request
<1>2. req' = [req EXCEPT ![p].step = step, ![p].user = u, ![p].read = S]
  BY <1>1 DEF GoToWith, HandlersOK, Request
<1> QED
  BY <1>1, <1>2, GoesOnOK

\* GoesOnOK for a handler that keeps all it holds.
LEMMA GoToOK ==
    ASSUME HandlersOK, NEW p \in Procs, NEW step \in Steps \ {"touch"}, GoTo(p, step),
           step \in SignInSteps => req[p].step \in SignInSteps,
           step \in RefreshSteps => req[p].step \in RefreshSteps,
           DOMAIN jwt \subseteq DOMAIN jwt'
    PROVE  HandlersOK'
<1> DEFINE S == req[p].read
<1>1. req[p] \in Request /\ S \in SUBSET TokenIds
  BY DEF HandlersOK, Request
<1>2. GoToWith(p, step, S)
  BY <1>1 DEF GoTo, GoToWith, HandlersOK, Request
<1> QED
  BY <1>1, <1>2, GoToWithOK

-----------------------------------------------------------------------------
(* Every action changes the tables in one of the six ways and leaves the   *)
(* handlers well-formed.                                                   *)

GoodStep == TableStep /\ HandlersOK' /\ now' \in Nat /\ now <= now'

\* Every await of signIn and generateTokenPair.
LEMMA SignInStepIsGood ==
    ASSUME IInv, NEW p \in Procs, SignInStep(p) PROVE GoodStep
<1> USE DEF IInv
<1>0. now \in Nat /\ DOMAIN refresh_tokens \subseteq TokenIds
      /\ \A u \in DOMAIN users : users[u] \in UserRow
  BY DEF TablesOK
<1>1. ASSUME NEW u \in UserIds, NEW d \in Devices, SignIn(p, u, d) PROVE GoodStep
  <2>1. TableStep
    BY <1>0, <1>1 DEF SignIn, TableStep, KeepsTokens
  <2>2. HandlersOK'
    BY <1>1, BeginsOK DEF SignIn, Steps, SignInSteps, RefreshSteps
  <2> QED
    BY <1>0, <1>1, <2>1, <2>2 DEF GoodStep, SignIn
<1>2. CASE FindDeviceTokens(p)
  <2>1. TableStep
    BY <1>0, <1>2 DEF FindDeviceTokens, TableStep, KeepsTokens
  <2>2. HandlersOK'
    BY <1>0, <1>2, GoToWithOK
       DEF FindDeviceTokens, At, TokensOf, Steps, SignInSteps, RefreshSteps
  <2> QED
    BY <1>0, <1>2, <2>1, <2>2 DEF GoodStep, FindDeviceTokens
<1>3. CASE DeleteDeviceTokens(p)
  <2>1. TableStep
    BY <1>0, <1>3 DEF DeleteDeviceTokens, TableStep, RemovesTokens
  <2>2. HandlersOK'
    BY <1>3, GoToWithOK DEF DeleteDeviceTokens, At, Steps, SignInSteps, RefreshSteps
  <2> QED
    BY <1>0, <1>3, <2>1, <2>2 DEF GoodStep, DeleteDeviceTokens
<1>4. CASE DeviceCleanupFails(p)
  <2>1. TableStep
    BY <1>0, <1>4 DEF DeviceCleanupFails, TableStep, KeepsTokens
  <2>2. HandlersOK'
    BY <1>4, GoToWithOK DEF DeviceCleanupFails, Steps, SignInSteps, RefreshSteps
  <2> QED
    BY <1>0, <1>4, <2>1, <2>2 DEF GoodStep, DeviceCleanupFails
<1>5. CASE FindActiveTokens(p)
  <2>1. TableStep
    BY <1>0, <1>5 DEF FindActiveTokens, TableStep, KeepsTokens
  <2>2. /\ req[p].step = "find_active" /\ jwt' = jwt /\ now' = now
        /\ \/ GoTo(p, "create")
           \/ \E S \in SUBSET ActiveTokens(req[p].user) : GoToWith(p, "delete_evicted", S)
    BY <1>5 DEF FindActiveTokens, At
  <2>3. ASSUME GoTo(p, "create") PROVE HandlersOK'
    BY <2>2, <2>3, GoToOK DEF Steps, SignInSteps, RefreshSteps
  <2>4. ASSUME NEW S \in SUBSET ActiveTokens(req[p].user), GoToWith(p, "delete_evicted", S)
        PROVE  HandlersOK'
    <3>1. S \in SUBSET TokenIds
      BY <1>0 DEF ActiveTokens, TokensOf
    <3> QED
      BY <2>2, <2>4, <3>1, GoToWithOK DEF Steps, SignInSteps, RefreshSteps
  <2>5. HandlersOK'
    BY <2>2, <2>3, <2>4
  <2> QED
    BY <1>0, <2>1, <2>2, <2>5 DEF GoodStep
<1>6. CASE DeleteEvictedTokens(p)
  <2>1. TableStep
    BY <1>0, <1>6 DEF DeleteEvictedTokens, TableStep, RemovesTokens
  <2>2. HandlersOK'
    BY <1>6, GoToWithOK DEF DeleteEvictedTokens, At, Steps, SignInSteps, RefreshSteps
  <2> QED
    BY <1>0, <1>6, <2>1, <2>2 DEF GoodStep, DeleteEvictedTokens
<1>7. CASE CreateToken(p)
  <2>1. req[p].device \in Devices
    BY <1>7 DEF CreateToken, At, HandlersOK, RequestOK, SignInSteps
  <2>2. TableStep
    BY <1>0, <1>7, <2>1 DEF CreateToken, TableStep, KeepsTokens, CreatesToken
  <2>3. HandlersOK'
    BY <1>7, <2>2, JwtsStay, ReturnsOK DEF CreateToken
  <2> QED
    BY <1>0, <1>7, <2>2, <2>3 DEF GoodStep, CreateToken
<1> QED
  BY <1>1, <1>2, <1>3, <1>4, <1>5, <1>6, <1>7 DEF SignInStep

\* Every await of refreshToken, updateTokenUsage and rotateTokens.
LEMMA RefreshStepIsGood ==
    ASSUME IInv, NEW p \in Procs, RefreshStep(p) PROVE GoodStep
<1> USE DEF IInv
<1>0. now \in Nat /\ DOMAIN refresh_tokens \subseteq TokenIds /\ DOMAIN jwt \subseteq TokenIds
      /\ \A u \in DOMAIN users : users[u] \in UserRow
  BY DEF TablesOK
<1>1. ASSUME NEW t \in TokenIds, NEW d \in Devices, Refresh(p, t, d) PROVE GoodStep
  <2>1. TableStep
    BY <1>0, <1>1 DEF Refresh, TableStep, KeepsTokens
  <2>2. HandlersOK'
    BY <1>1, BeginsOK DEF Refresh, ValidJwt, Steps, SignInSteps, RefreshSteps
  <2> QED
    BY <1>0, <1>1, <2>1, <2>2 DEF GoodStep, Refresh
<1>2. CASE FindToken(p)
  <2> DEFINE t == req[p].id
  <2>1. TableStep
    BY <1>0, <1>2 DEF FindToken, TableStep, KeepsTokens
  <2>2. req[p].step = "find_token" /\ jwt' = jwt /\ now' = now
    BY <1>2 DEF FindToken, At
  <2>3. \/ Return(p)
        \/ GoTo(p, "delete_expired")
        \/ /\ t \in DOMAIN refresh_tokens
           /\ req' = [req EXCEPT ![p].step = "touch",
                                 ![p].user = refresh_tokens[t].user_id,
                                 ![p].read = {refresh_tokens[t].token}]
    BY <1>2 DEF FindToken
  <2>4. ASSUME Return(p) PROVE HandlersOK'
    BY <2>2, <2>4, ReturnsOK
  <2>5. ASSUME GoTo(p, "delete_expired") PROVE HandlersOK'
    BY <2>2, <2>5, GoToOK DEF Steps, SignInSteps, RefreshSteps
  <2>6. ASSUME t \in DOMAIN refresh_tokens,
               req' = [req EXCEPT ![p].step = "touch",
                                  ![p].user = refresh_tokens[t].user_id,
                                  ![p].read = {refresh_tokens[t].token}]
        PROVE  HandlersOK'
    <3>1. RowOK(t)
      BY <2>6 DEF TablesOK
    <3>2. refresh_tokens[t].user_id \in UserIds /\ refresh_tokens[t].token = t
      BY <3>1 DEF RowOK, TokenRow
    <3> DEFINE u == refresh_tokens[t].user_id
               S == {refresh_tokens[t].token}
    <3>3. S \in SUBSET TokenIds /\ u \in UserIds \cup {Null} /\ t \in S
      BY <1>0, <2>6, <3>2
    <3>4. req' = [req EXCEPT ![p].step = "touch", ![p].user = u, ![p].read = S]
      BY <2>6
    <3>5. "touch" \in Steps \ SignInSteps /\ req[p].step \in RefreshSteps
      BY <2>2 DEF Steps, SignInSteps, RefreshSteps
    <3> HIDE DEF u, S
    <3> QED
      BY <2>2, <3>3, <3>4, <3>5, GoesOnOK
  <2>7. HandlersOK'
    BY <2>3, <2>4, <2>5, <2>6
  <2> QED
    BY <1>0, <2>1, <2>2, <2>7 DEF GoodStep
<1>3. CASE DeleteExpiredToken(p)
  <2>1. TableStep
    BY <1>0, <1>3 DEF DeleteExpiredToken, TableStep, RemovesTokens
  <2>2. HandlersOK'
    BY <1>3, ReturnsOK DEF DeleteExpiredToken
  <2> QED
    BY <1>0, <1>3, <2>1, <2>2 DEF GoodStep, DeleteExpiredToken
<1>4. CASE TouchToken(p)
  <2> DEFINE t == req[p].id
  <2>1. t \in req[p].read /\ req[p].device \in Devices
    BY <1>4 DEF TouchToken, At, HandlersOK, RequestOK, RefreshSteps
  <2>2. CASE t \in DOMAIN refresh_tokens
    <3>1. TouchesToken(t, req[p].device) /\ GoToWith(p, "rotate", {})
      BY <1>4, <2>1, <2>2 DEF TouchToken, TouchesToken
    <3>2. HandlersOK'
      BY <1>4, <3>1, GoToWithOK DEF TouchToken, At, Steps, SignInSteps, RefreshSteps
    <3> QED
      BY <1>0, <1>4, <3>1, <3>2 DEF GoodStep, TouchToken, TableStep
  <2>3. CASE t \notin DOMAIN refresh_tokens
    <3>1. Return(p) /\ UNCHANGED <<users, refresh_tokens, jwt>>
      BY <1>4, <2>1, <2>3 DEF TouchToken
    <3>2. HandlersOK'
      BY <3>1, ReturnsOK
    <3> QED
      BY <1>0, <1>4, <3>1, <3>2 DEF GoodStep, TouchToken, TableStep, KeepsTokens
  <2> QED
    BY <2>2, <2>3
<1>5. CASE RotateToken(p)
  <2>1. req[p].device \in Devices
    BY <1>5 DEF RotateToken, At, HandlersOK, RequestOK, RefreshSteps
  <2>2. TableStep
    BY <1>0, <1>5, <2>1 DEF RotateToken, TableStep, KeepsTokens, RotatesToken
  <2>3. HandlersOK'
    BY <1>5, <2>2, JwtsStay, ReturnsOK DEF RotateToken
  <2> QED
    BY <1>0, <1>5, <2>2, <2>3 DEF GoodStep, RotateToken
<1> QED
  BY <1>1, <1>2, <1>3, <1>4, <1>5 DEF RefreshStep

\* Every await of revokeRefreshToken and logoutAllDevices.
LEMMA EndStepIsGood ==
    ASSUME IInv, NEW p \in Procs, EndStep(p) PROVE GoodStep
<1> USE DEF IInv
<1>0. now \in Nat /\ \A u \in DOMAIN users : users[u] \in UserRow
  BY DEF TablesOK
<1>1. ASSUME NEW t \in TokenIds, Logout(p, t) PROVE GoodStep
  <2>1. TableStep
    BY <1>0, <1>1 DEF Logout, TableStep, KeepsTokens
  <2>2. HandlersOK'
    BY <1>1, BeginsOK DEF Logout, Steps, SignInSteps, RefreshSteps
  <2> QED
    BY <1>0, <1>1, <2>1, <2>2 DEF GoodStep, Logout
<1>2. CASE DeleteToken(p)
  <2>1. TableStep
    BY <1>0, <1>2 DEF DeleteToken, TableStep, RemovesTokens
  <2>2. HandlersOK'
    BY <1>2, ReturnsOK DEF DeleteToken
  <2> QED
    BY <1>0, <1>2, <2>1, <2>2 DEF GoodStep, DeleteToken
<1>3. ASSUME NEW u \in UserIds, LogoutAll(p, u) PROVE GoodStep
  <2>1. TableStep
    BY <1>0, <1>3 DEF LogoutAll, TableStep, KeepsTokens
  <2>2. HandlersOK'
    BY <1>3, BeginsOK DEF LogoutAll, Steps, SignInSteps, RefreshSteps
  <2> QED
    BY <1>0, <1>3, <2>1, <2>2 DEF GoodStep, LogoutAll
<1>4. CASE RevokeAll(p)
  <2>1. TableStep
    BY <1>0, <1>4 DEF RevokeAll, TableStep, RemovesTokens
  <2>2. HandlersOK'
    BY <1>4, ReturnsOK DEF RevokeAll
  <2> QED
    BY <1>0, <1>4, <2>1, <2>2 DEF GoodStep, RevokeAll
<1> QED
  BY <1>1, <1>2, <1>3, <1>4 DEF EndStep

\* Every await of softDeleteUser, hardDeleteUser and updateUser.
LEMMA AccountStepIsGood ==
    ASSUME IInv, NEW p \in Procs, AccountStep(p) PROVE GoodStep
<1> USE DEF IInv
<1>0. now \in Nat /\ \A u \in DOMAIN users : users[u] \in UserRow
  BY DEF TablesOK
<1>1. ASSUME NEW u \in UserIds, SoftDelete(p, u) PROVE GoodStep
  <2>1. TableStep
    BY <1>0, <1>1 DEF SoftDelete, TableStep, KeepsTokens
  <2>2. HandlersOK'
    BY <1>1, BeginsOK DEF SoftDelete, Steps, SignInSteps, RefreshSteps
  <2> QED
    BY <1>0, <1>1, <2>1, <2>2 DEF GoodStep, SoftDelete
<1>2. CASE Deactivate(p)
  <2>1. CASE req[p].user \in DOMAIN users
    <3>1. users' = [users EXCEPT ![req[p].user].is_active = FALSE]
      BY <1>2, <2>1 DEF Deactivate
    <3>2. DOMAIN users' = DOMAIN users /\ \A u \in DOMAIN users : users'[u] \in UserRow
      BY <1>0, <2>1, <3>1 DEF UserRow
    <3>3. DeleteTokens(TokensOf(req[p].user)) /\ jwt' = jwt
      BY <1>2, <2>1 DEF Deactivate
    <3> QED
      BY <3>2, <3>3, <1>2, <1>0, ReturnsOK DEF GoodStep, TableStep, RemovesTokens, Deactivate
  <2>2. CASE req[p].user \notin DOMAIN users
    BY <1>0, <1>2, <2>2, ReturnsOK DEF GoodStep, TableStep, KeepsTokens, Deactivate
  <2> QED
    BY <2>1, <2>2
<1>3. ASSUME NEW u \in UserIds, HardDelete(p, u) PROVE GoodStep
  <2>1. TableStep
    BY <1>0, <1>3 DEF HardDelete, TableStep, KeepsTokens
  <2>2. HandlersOK'
    BY <1>3, BeginsOK DEF HardDelete, Steps, SignInSteps, RefreshSteps
  <2> QED
    BY <1>0, <1>3, <2>1, <2>2 DEF GoodStep, HardDelete
<1>4. CASE DeleteUser(p)
  <2>1. TableStep
    BY <1>4 DEF DeleteUser, TableStep, RemovesUsers
  <2>2. HandlersOK'
    BY <1>4, ReturnsOK DEF DeleteUser
  <2> QED
    BY <1>0, <1>4, <2>1, <2>2 DEF GoodStep, DeleteUser
<1>5. ASSUME NEW u \in UserIds, UpdateUser(p, u) PROVE GoodStep
  <2>1. TableStep
    BY <1>0, <1>5 DEF UpdateUser, TableStep, KeepsTokens
  <2>2. HandlersOK'
    BY <1>5, BeginsOK DEF UpdateUser, Steps, SignInSteps, RefreshSteps
  <2> QED
    BY <1>0, <1>5, <2>1, <2>2 DEF GoodStep, UpdateUser
<1>6. CASE WriteUser(p)
  <2>1. DOMAIN users' = DOMAIN users /\ \A u \in DOMAIN users : users'[u] \in UserRow
    BY <1>0, <1>6 DEF WriteUser, UserRow
  <2>2. HandlersOK'
    BY <1>6, ReturnsOK DEF WriteUser
  <2> QED
    BY <1>0, <1>6, <2>1, <2>2 DEF GoodStep, TableStep, KeepsTokens, WriteUser
<1> QED
  BY <1>1, <1>2, <1>3, <1>4, <1>5, <1>6 DEF AccountStep

\* The cron jobs of token-cleanup.service.ts and auth.service.ts.
LEMMA CronStepIsGood ==
    ASSUME IInv, CronStep PROVE GoodStep
<1> USE DEF IInv
<1>0. now \in Nat /\ \A u \in DOMAIN users : users[u] \in UserRow
  BY DEF TablesOK
<1>1. CASE DailyCleanup
  BY <1>0, <1>1, Elsewhere DEF DailyCleanup, GoodStep, TableStep, RemovesTokens
<1>2. ASSUME NEW p \in Procs, WeeklyCleanup(p) PROVE GoodStep
  <2>1. TableStep
    BY <1>0, <1>2 DEF WeeklyCleanup, TableStep, RemovesTokens
  <2>2. HandlersOK'
    BY <1>2, BeginsOK DEF WeeklyCleanup, Steps, SignInSteps, RefreshSteps
  <2> QED
    BY <1>0, <1>2, <2>1, <2>2 DEF GoodStep, WeeklyCleanup
<1>3. ASSUME NEW p \in Procs, CleanupUnused(p) PROVE GoodStep
  <2>1. TableStep
    BY <1>0, <1>3 DEF CleanupUnused, TableStep, RemovesTokens
  <2>2. HandlersOK'
    BY <1>3, ReturnsOK DEF CleanupUnused
  <2> QED
    BY <1>0, <1>3, <2>1, <2>2 DEF GoodStep, CleanupUnused
<1>4. CASE CleanupUnverifiedUsers
  BY <1>0, <1>4, Elsewhere DEF CleanupUnverifiedUsers, GoodStep, TableStep, RemovesUsers
<1> QED
  BY <1>1, <1>2, <1>3, <1>4 DEF CronStep

\* So is every other step: a handler that dies, and the clock.
LEMMA EveryStepIsGood ==
    ASSUME IInv, [Next]_vars PROVE GoodStep
<1> USE DEF IInv
<1>0. now \in Nat /\ \A u \in DOMAIN users : users[u] \in UserRow
  BY DEF TablesOK
<1>1. ASSUME NEW p \in Procs, Fail(p) PROVE GoodStep
  BY <1>0, <1>1, ReturnsOK DEF Fail, GoodStep, TableStep, KeepsTokens
<1>2. CASE Tick
  BY <1>0, <1>2, Elsewhere DEF Tick, GoodStep, TableStep, KeepsTokens
<1>3. CASE UNCHANGED vars
  BY <1>0, <1>3, Elsewhere DEF vars, GoodStep, TableStep, KeepsTokens
<1> QED
  BY <1>1, <1>2, <1>3, SignInStepIsGood, RefreshStepIsGood, EndStepIsGood,
     AccountStepIsGood, CronStepIsGood DEF Next

-----------------------------------------------------------------------------

\* The invariant holds in every reachable state.
THEOREM Invariance == Spec => []IInv
<1>1. Init => IInv
  BY InitEstablishes
<1>2. IInv /\ [Next]_vars => IInv'
  <2> SUFFICES ASSUME IInv, [Next]_vars PROVE IInv'
    OBVIOUS
  <2>1. GoodStep
    BY EveryStepIsGood
  <2> QED
    BY <2>1, TableStepKeepsTables DEF GoodStep, IInv
<1> QED
  BY <1>1, <1>2, PTL DEF Spec

\* Whatever handlers run, in any order, the tables and the requests are well-formed.
THEOREM TypeCorrect == Spec => []TypeOK
BY Invariance, IInvSuffices, PTL

\* Racing refreshes never fork a session: one refresh chain has at most one row.
THEOREM SessionsNeverFork == Spec => []OneTokenPerSession
BY Invariance, IInvSuffices, PTL

\* A token the service signed never trips the theft branch of refreshToken.
THEOREM NoFalseTheft == Spec => []NeverTakenForTheft
BY Invariance, IInvSuffices, PTL

\* The weekly job of cleanupUnusedTokens never ends a live session.
THEOREM UnusedCleanupIsHarmless == Spec => []UnusedCleanupSparesLiveSessions
BY Invariance, IInvSuffices, PTL

-----------------------------------------------------------------------------
(* Accounts that were deactivated.                                         *)
(*                                                                         *)
(* A sign-in that is past its is_active check has room for the token it    *)
(* will create: deactivation leaves no token, and fewer such sign-ins than *)
(* there are handlers, because the one that deactivates is none.           *)

Inactive(u) == u \in DOMAIN users /\ ~users[u].is_active

SigningIn(u) == {p \in Procs : req[p].step \in SignInSteps /\ req[p].user = u}

Room(u) ==
    /\ IsFiniteSet(TokensOf(u))
    /\ Cardinality(TokensOf(u)) + Cardinality(SigningIn(u)) < Cardinality(Procs)

RoomOK == \A u \in UserIds : Inactive(u) => Room(u)

\* The tokens of an account, and those who sign in to it, become no more.
CalmTables ==
    \A u \in UserIds : TokensOf(u)' \subseteq TokensOf(u) /\ (Inactive(u)' => Inactive(u))

CalmHandlers == \A u \in UserIds : Inactive(u) => SigningIn(u)' \subseteq SigningIn(u)

LEMMA CalmKeepsRoom == ASSUME RoomOK, CalmTables, CalmHandlers PROVE RoomOK'
<1> SUFFICES ASSUME NEW u \in UserIds, Inactive(u)' PROVE Room(u)'
  BY DEF RoomOK
<1>1. /\ IsFiniteSet(TokensOf(u))
      /\ Cardinality(TokensOf(u)) + Cardinality(SigningIn(u)) < Cardinality(Procs)
      /\ TokensOf(u)' \subseteq TokensOf(u)
      /\ SigningIn(u)' \subseteq SigningIn(u)
  BY DEF RoomOK, Room, CalmTables, CalmHandlers
<1>2. IsFiniteSet(SigningIn(u)) /\ IsFiniteSet(Procs)
  BY FS_Subset, SessionsAssumption DEF SigningIn
<1>3. IsFiniteSet(TokensOf(u)') /\ Cardinality(TokensOf(u)') <= Cardinality(TokensOf(u))
  BY <1>1, FS_Subset
<1>4. IsFiniteSet(SigningIn(u)') /\ Cardinality(SigningIn(u)') <= Cardinality(SigningIn(u))
  BY <1>1, <1>2, FS_Subset
<1>5. /\ Cardinality(TokensOf(u)) \in Nat /\ Cardinality(SigningIn(u)) \in Nat /\ Cardinality(Procs) \in Nat
      /\ Cardinality(TokensOf(u)') \in Nat /\ Cardinality(SigningIn(u)') \in Nat
  BY <1>1, <1>2, <1>3, <1>4, FS_CardinalityType
<1>6. Cardinality(TokensOf(u)') + Cardinality(SigningIn(u)') < Cardinality(Procs)
  BY <1>1, <1>3, <1>4, <1>5
<1> QED
  BY <1>3, <1>6 DEF Room

\* What leaves the tables calm.
LEMMA CalmChanges ==
    /\ UNCHANGED <<users, refresh_tokens>> => CalmTables
    /\ \A S : UNCHANGED users /\ DeleteTokens(S) => CalmTables
    /\ \A U : DeleteUsers(U) => CalmTables
<1>1. ASSUME UNCHANGED <<users, refresh_tokens>> PROVE CalmTables
  BY <1>1 DEF CalmTables, TokensOf, Inactive
<1>2. ASSUME NEW S, DeleteTokens(S) PROVE \A u \in UserIds : TokensOf(u)' \subseteq TokensOf(u)
  BY <1>2 DEF DeleteTokens, Restrict, TokensOf
<1>3. ASSUME NEW S, UNCHANGED users, DeleteTokens(S) PROVE CalmTables
  BY <1>2, <1>3 DEF CalmTables, Inactive
<1>4. ASSUME NEW U, DeleteUsers(U) PROVE CalmTables
  BY <1>2, <1>4 DEF DeleteUsers, Restrict, CalmTables, Inactive
<1> QED
  BY <1>1, <1>3, <1>4

\* What leaves the handlers calm: a step of p that does not begin a sign-in.
LEMMA CalmMoves ==
    ASSUME HandlersOK, NEW p \in Procs
    PROVE  /\ req' = req => CalmHandlers
           /\ Return(p) => CalmHandlers
           /\ \A kind, step, u, d, t : Begin(p, kind, step, u, d, t) /\ step \notin SignInSteps => CalmHandlers
           /\ \A step : GoTo(p, step) /\ (step \in SignInSteps => req[p].step \in SignInSteps) => CalmHandlers
           /\ \A step, S : GoToWith(p, step, S) /\ (step \in SignInSteps => req[p].step \in SignInSteps) => CalmHandlers
<1>1. ASSUME NEW r, req' = [req EXCEPT ![p] = r],
             r.step \in SignInSteps => req[p].step \in SignInSteps /\ r.user = req[p].user
      PROVE  CalmHandlers
  BY <1>1 DEF HandlersOK, CalmHandlers, SigningIn
<1>2. ASSUME req' = req PROVE CalmHandlers
  BY <1>2 DEF CalmHandlers, SigningIn
<1>3. ASSUME Return(p) PROVE CalmHandlers
  BY <1>1, <1>3 DEF Return, Idle, SignInSteps
<1>4. ASSUME NEW kind, NEW step, NEW u, NEW d, NEW t, Begin(p, kind, step, u, d, t), step \notin SignInSteps
      PROVE  CalmHandlers
  <2> DEFINE r == [step |-> step, user |-> u, device |-> d, id |-> t, read |-> {}]
  <2>1. req' = [req EXCEPT ![p] = r] /\ r.step = step
    BY <1>4 DEF Begin
  <2> HIDE DEF r
  <2> QED
    BY <1>1, <1>4, <2>1
<1>5. ASSUME NEW step, GoTo(p, step), step \in SignInSteps => req[p].step \in SignInSteps PROVE CalmHandlers
  <2> DEFINE r == [req[p] EXCEPT !.step = step]
  <2>1. req' = [req EXCEPT ![p] = r] /\ r.step = step /\ r.user = req[p].user
    BY <1>5 DEF GoTo, HandlersOK, Request
  <2> HIDE DEF r
  <2> QED
    BY <1>1, <1>5, <2>1
<1>6. ASSUME NEW step, NEW S, GoToWith(p, step, S), step \in SignInSteps => req[p].step \in SignInSteps
      PROVE  CalmHandlers
  <2> DEFINE r == [[req[p] EXCEPT !.step = step] EXCEPT !.read = S]
  <2>1. req' = [req EXCEPT ![p] = r] /\ r.step = step /\ r.user = req[p].user
    BY <1>6 DEF GoToWith, HandlersOK, Request
  <2> HIDE DEF r
  <2> QED
    BY <1>1, <1>6, <2>1
<1> QED
  BY <1>2, <1>3, <1>4, <1>5, <1>6

\* signIn and generateTokenPair: only an active account is signed in to, and
\* the token that is created takes the place of its sign-in.
LEMMA SignInKeepsRoom ==
    ASSUME IInv, RoomOK, NEW p \in Procs, SignInStep(p) PROVE RoomOK'
<1> USE DEF IInv
<1>1. ASSUME NEW u \in UserIds, NEW d \in Devices, SignIn(p, u, d) PROVE RoomOK'
  <2>1. CalmTables
    BY <1>1, CalmChanges DEF SignIn
  <2>2. users[u].is_active
    BY <1>1 DEF SignIn, MaySignIn
  <2>3. \A q \in Procs : req'[q] = req[q] \/ req'[q].user = u
    BY <1>1 DEF SignIn, Begin, HandlersOK
  <2>4. CalmHandlers
    BY <2>2, <2>3 DEF CalmHandlers, SigningIn, Inactive
  <2> QED
    BY <2>1, <2>4, CalmKeepsRoom
<1>2. CASE FindDeviceTokens(p) \/ DeleteDeviceTokens(p) \/ DeviceCleanupFails(p) \/ FindActiveTokens(p)
           \/ DeleteEvictedTokens(p)
  <2>1. CalmTables
    BY <1>2, CalmChanges DEF FindDeviceTokens, DeleteDeviceTokens, DeviceCleanupFails, FindActiveTokens,
                             DeleteEvictedTokens
  <2>2. /\ req[p].step \in SignInSteps
        /\ (\E step : GoTo(p, step)) \/ (\E step, S : GoToWith(p, step, S))
    BY <1>2 DEF FindDeviceTokens, DeleteDeviceTokens, DeviceCleanupFails, FindActiveTokens,
                DeleteEvictedTokens, At, SignInSteps
  <2>3. CalmHandlers
    BY <2>2, CalmMoves
  <2> QED
    BY <2>1, <2>3, CalmKeepsRoom
<1>3. CASE CreateToken(p)
  <2> DEFINE v == req[p].user
  <2>1. /\ req[p].step = "create" /\ Return(p) /\ UNCHANGED users
        /\ \/ UNCHANGED refresh_tokens
           \/ \E t \in TokenIds \ DOMAIN jwt : refresh_tokens' =
                 [i \in DOMAIN refresh_tokens \cup {t} |->
                     IF i = t THEN NewRow(v, req[p].device, t) ELSE refresh_tokens[i]]
    BY <1>3 DEF CreateToken, At, PutToken
  <2>2. CASE UNCHANGED refresh_tokens
    BY <2>1, <2>2, CalmChanges, CalmMoves, CalmKeepsRoom
  <2>3. ASSUME NEW t \in TokenIds \ DOMAIN jwt,
               refresh_tokens' = [i \in DOMAIN refresh_tokens \cup {t} |->
                                     IF i = t THEN NewRow(v, req[p].device, t) ELSE refresh_tokens[i]]
        PROVE  RoomOK'
    <3>1. t \notin DOMAIN refresh_tokens
      BY DEF TablesOK, RowOK
    <3>2. \A u : TokensOf(u)' = IF u = v THEN TokensOf(u) \cup {t} ELSE TokensOf(u)
      BY <2>3, <3>1 DEF TokensOf, NewRow
    <3>3. req'[p].step = "idle" /\ \A q \in Procs \ {p} : req'[q] = req[q]
      BY <2>1 DEF Return, Idle, HandlersOK
    <3>4. \A u : SigningIn(u)' = IF u = v THEN SigningIn(u) \ {p} ELSE SigningIn(u)
      BY <2>1, <3>3 DEF SigningIn, SignInSteps
    <3>5. p \in SigningIn(v)
      BY <2>1 DEF SigningIn, SignInSteps
    <3> SUFFICES ASSUME NEW u \in UserIds, Inactive(u)' PROVE Room(u)'
      BY DEF RoomOK
    <3>6. Room(u)
      BY <2>1 DEF RoomOK, Inactive
    <3>7. CASE u # v
      BY <3>2, <3>4, <3>6, <3>7 DEF Room
    <3>8. CASE u = v
      <4> DEFINE T == TokensOf(u)
                 G == SigningIn(u)
      <4>1. IsFiniteSet(T) /\ IsFiniteSet(G) /\ IsFiniteSet(Procs)
        BY <3>6, FS_Subset, SessionsAssumption DEF Room, SigningIn
      <4>2. p \in G /\ Cardinality(T) + Cardinality(G) < Cardinality(Procs)
        BY <3>5, <3>6, <3>8 DEF Room
      <4>3. TokensOf(u)' = T \cup {t} /\ SigningIn(u)' = G \ {p}
        BY <3>2, <3>4, <3>8
      <4> HIDE DEF T, G
      <4>4. IsFiniteSet(T \cup {t}) /\ Cardinality(T \cup {t}) <= Cardinality(T) + 1
        <5>1. Cardinality(T) \in Nat
          BY <4>1, FS_CardinalityType
        <5>2. /\ IsFiniteSet(T \cup {t})
              /\ Cardinality(T \cup {t}) = IF t \in T THEN Cardinality(T) ELSE Cardinality(T) + 1
          BY <4>1, FS_AddElement
        <5> QED
          BY <5>1, <5>2
      <4>5. Cardinality(G \ {p}) = Cardinality(G) - 1
        BY <4>1, <4>2, FS_RemoveElement
      <4>6. Cardinality(T) \in Nat /\ Cardinality(G) \in Nat /\ Cardinality(Procs) \in Nat
            /\ Cardinality(T \cup {t}) \in Nat
        BY <4>1, <4>4, FS_CardinalityType
      <4>7. Cardinality(T \cup {t}) + Cardinality(G \ {p}) < Cardinality(Procs)
        BY <4>2, <4>4, <4>5, <4>6
      <4> QED
        BY <4>3, <4>4, <4>7 DEF Room
    <3> QED
      BY <3>7, <3>8
  <2> QED
    BY <2>1, <2>2, <2>3
<1> QED
  BY <1>1, <1>2, <1>3 DEF SignInStep

\* refreshToken: a rotation puts one token in the place of another.
LEMMA RefreshKeepsRoom ==
    ASSUME IInv, RoomOK, NEW p \in Procs, RefreshStep(p) PROVE RoomOK'
<1> USE DEF IInv
<1>1. ASSUME NEW t \in TokenIds, NEW d \in Devices, Refresh(p, t, d) PROVE RoomOK'
  <2>1. CalmTables
    BY <1>1, CalmChanges DEF Refresh
  <2>2. CalmHandlers
    BY <1>1, CalmMoves DEF Refresh, SignInSteps
  <2> QED
    BY <2>1, <2>2, CalmKeepsRoom
<1>2. CASE FindToken(p)
  <2>1. CalmTables
    BY <1>2, CalmChanges DEF FindToken
  <2>2. Return(p) \/ GoTo(p, "delete_expired") \/ \A q \in Procs : req'[q] = req[q] \/ req'[q].step = "touch"
    <3> DEFINE t == req[p].id
    <3>1. \/ Return(p) \/ GoTo(p, "delete_expired")
          \/ req' = [req EXCEPT ![p].step = "touch", ![p].user = refresh_tokens[t].user_id,
                                ![p].read = {refresh_tokens[t].token}]
      BY <1>2 DEF FindToken
    <3>2. ASSUME req' = [req EXCEPT ![p].step = "touch", ![p].user = refresh_tokens[t].user_id,
                                    ![p].read = {refresh_tokens[t].token}]
          PROVE  \A q \in Procs : req'[q] = req[q] \/ req'[q].step = "touch"
      BY <3>2 DEF HandlersOK, Request
    <3> QED
      BY <3>1, <3>2
  <2>3. CalmHandlers
    <3>1. CASE Return(p) \/ GoTo(p, "delete_expired")
      BY <3>1, CalmMoves DEF SignInSteps
    <3>2. CASE \A q \in Procs : req'[q] = req[q] \/ req'[q].step = "touch"
      BY <3>2 DEF CalmHandlers, SigningIn, SignInSteps
    <3> QED
      BY <2>2, <3>1, <3>2
  <2> QED
    BY <2>1, <2>3, CalmKeepsRoom
<1>3. CASE DeleteExpiredToken(p)
  BY <1>3, CalmChanges, CalmMoves, CalmKeepsRoom DEF DeleteExpiredToken
<1>4. CASE TouchToken(p)
  <2> DEFINE t == req[p].id
  <2>1. /\ UNCHANGED users
        /\ Return(p) \/ GoToWith(p, "rotate", {})
        /\ \/ \E S : DeleteTokens(S)
           \/ UNCHANGED refresh_tokens
           \/ t \in DOMAIN refresh_tokens /\
              refresh_tokens' = [refresh_tokens EXCEPT ![t].last_used_at = now, ![t].device = req[p].device]
    BY <1>4 DEF TouchToken
  <2>2. CalmHandlers
    BY <2>1, CalmMoves DEF SignInSteps
  <2>3. ASSUME t \in DOMAIN refresh_tokens,
               refresh_tokens' = [refresh_tokens EXCEPT ![t].last_used_at = now, ![t].device = req[p].device]
        PROVE  CalmTables
    <3>1. refresh_tokens[t] \in TokenRow
      BY <2>3 DEF TablesOK, RowOK
    <3>2. DOMAIN refresh_tokens' = DOMAIN refresh_tokens
      BY <2>3
    <3>3. \A i \in DOMAIN refresh_tokens : refresh_tokens'[i].user_id = refresh_tokens[i].user_id
      BY <2>3, <3>1 DEF TokenRow
    <3> QED
      BY <2>1, <3>2, <3>3 DEF CalmTables, TokensOf, Inactive
  <2>4. CalmTables
    BY <2>1, <2>3, CalmChanges
  <2> QED
    BY <2>2, <2>4, CalmKeepsRoom
<1>5. CASE RotateToken(p)
  <2> DEFINE old == req[p].id
  <2>1. /\ Return(p) /\ UNCHANGED users
        /\ \/ UNCHANGED refresh_tokens
           \/ /\ old \in DOMAIN refresh_tokens
              /\ \E new \in TokenIds \ DOMAIN jwt : refresh_tokens' =
                    [i \in (DOMAIN refresh_tokens \ {old}) \cup {new} |->
                        IF i = new THEN RotatedRow(old, new, req[p].device) ELSE refresh_tokens[i]]
    BY <1>5 DEF RotateToken, PutToken
  <2>2. CalmHandlers
    BY <2>1, CalmMoves
  <2>3. CASE UNCHANGED refresh_tokens
    BY <2>1, <2>2, <2>3, CalmChanges, CalmKeepsRoom
  <2>4. ASSUME old \in DOMAIN refresh_tokens, NEW new \in TokenIds \ DOMAIN jwt,
               refresh_tokens' = [i \in (DOMAIN refresh_tokens \ {old}) \cup {new} |->
                                     IF i = new THEN RotatedRow(old, new, req[p].device) ELSE refresh_tokens[i]]
        PROVE  RoomOK'
    <3>1. new \notin DOMAIN refresh_tokens
      BY DEF TablesOK, RowOK
    <3>2. RotatedRow(old, new, req[p].device).user_id = refresh_tokens[old].user_id
      <4>1. refresh_tokens[old] \in TokenRow
        BY <2>4 DEF TablesOK, RowOK
      <4> QED
        BY <4>1 DEF RotatedRow, TokenRow
    <3>3. \A u : TokensOf(u)' = IF old \in TokensOf(u) THEN (TokensOf(u) \ {old}) \cup {new} ELSE TokensOf(u)
      BY <2>4, <3>1, <3>2 DEF TokensOf
    <3> SUFFICES ASSUME NEW u \in UserIds, Inactive(u)' PROVE Room(u)'
      BY DEF RoomOK
    <3>4. Room(u) /\ SigningIn(u)' \subseteq SigningIn(u)
      BY <2>1, <2>2 DEF RoomOK, Inactive, CalmHandlers
    <3> DEFINE T == TokensOf(u)
               G == SigningIn(u)
               H == SigningIn(u)'
               S == TokensOf(u)'
    <3>5. IsFiniteSet(T) /\ IsFiniteSet(G) /\ IsFiniteSet(Procs)
      BY <3>4, FS_Subset, SessionsAssumption DEF Room, SigningIn
    <3>6. Cardinality(T) + Cardinality(G) < Cardinality(Procs) /\ H \subseteq G
      BY <3>4 DEF Room
    <3>7. S = T \/ (old \in T /\ S = (T \ {old}) \cup {new})
      BY <3>3
    <3> HIDE DEF T, G, H, S
    <3>8. IsFiniteSet(H) /\ Cardinality(H) <= Cardinality(G)
      BY <3>5, <3>6, FS_Subset
    <3>9. old \in T => IsFiniteSet((T \ {old}) \cup {new}) /\ Cardinality((T \ {old}) \cup {new}) <= Cardinality(T)
      <4>1. ASSUME old \in T
            PROVE  IsFiniteSet((T \ {old}) \cup {new}) /\ Cardinality((T \ {old}) \cup {new}) <= Cardinality(T)
        <5>1. IsFiniteSet(T \ {old}) /\ Cardinality(T \ {old}) = Cardinality(T) - 1 /\ Cardinality(T) \in Nat
          BY <3>5, <4>1, FS_RemoveElement, FS_CardinalityType
        <5>2. /\ IsFiniteSet((T \ {old}) \cup {new})
              /\ Cardinality((T \ {old}) \cup {new}) = IF new \in T \ {old} THEN Cardinality(T \ {old})
                                                       ELSE Cardinality(T \ {old}) + 1
          BY <5>1, FS_AddElement
        <5> QED
          BY <5>1, <5>2
      <4> QED
        BY <4>1
    <3>10. IsFiniteSet(S) /\ Cardinality(S) <= Cardinality(T)
      <4>1. Cardinality(T) \in Nat
        BY <3>5, FS_CardinalityType
      <4> QED
        BY <3>5, <3>7, <3>9, <4>1
    <3>11. /\ Cardinality(T) \in Nat /\ Cardinality(G) \in Nat /\ Cardinality(H) \in Nat
           /\ Cardinality(Procs) \in Nat /\ Cardinality(S) \in Nat
      BY <3>5, <3>8, <3>10, FS_CardinalityType
    <3>12. Cardinality(S) + Cardinality(H) < Cardinality(Procs)
      BY <3>6, <3>8, <3>10, <3>11
    <3> QED
      BY <3>10, <3>12 DEF Room, H, S
  <2> QED
    BY <2>1, <2>3, <2>4
<1> QED
  BY <1>1, <1>2, <1>3, <1>4, <1>5 DEF RefreshStep

\* softDeleteUser: no token is left, and the handler itself signs nobody in.
LEMMA DeactivationLeavesRoom ==
    ASSUME IInv, RoomOK, NEW p \in Procs, Deactivate(p) PROVE RoomOK'
<1> USE DEF IInv
<1> DEFINE v == req[p].user
<1>1. req[p].step = "deactivate" /\ Return(p)
  BY DEF Deactivate, At
<1>2. CalmHandlers
  BY <1>1, CalmMoves
<1>3. CASE UNCHANGED <<users, refresh_tokens>>
  BY <1>2, <1>3, CalmChanges, CalmKeepsRoom
<1>4. CASE /\ v \in DOMAIN users /\ DeleteTokens(TokensOf(v))
           /\ users' = [users EXCEPT ![v].is_active = FALSE]
  <2>1. \A u : TokensOf(u)' \subseteq TokensOf(u)
    BY <1>4 DEF DeleteTokens, Restrict, TokensOf
  <2>2. \A u : u = v => TokensOf(u)' = {}
    BY <1>4 DEF DeleteTokens, Restrict, TokensOf
  <2>3. \A u : u # v /\ Inactive(u)' => Inactive(u)
    BY <1>4 DEF Inactive
  <2>4. \A u : SigningIn(u)' \subseteq Procs \ {p}
    BY <1>1 DEF SigningIn, Return, Idle, SignInSteps, HandlersOK
  <2> SUFFICES ASSUME NEW u \in UserIds, Inactive(u)' PROVE Room(u)'
    BY DEF RoomOK
  <2>5. CASE u = v
    <3> DEFINE H == SigningIn(u)'
    <3>1. IsFiniteSet(Procs) /\ IsFiniteSet(Procs \ {p}) /\ Cardinality(Procs \ {p}) = Cardinality(Procs) - 1
          /\ Cardinality(Procs) \in Nat
      BY SessionsAssumption, FS_RemoveElement, FS_CardinalityType
    <3>2. H \subseteq Procs \ {p}
      BY <2>4
    <3> HIDE DEF H
    <3>3. Cardinality(H) <= Cardinality(Procs) - 1 /\ Cardinality(H) \in Nat
      BY <3>1, <3>2, FS_Subset, FS_CardinalityType
    <3>4. IsFiniteSet({}) /\ Cardinality({}) = 0
      BY FS_EmptySet
    <3>5. 0 + Cardinality(H) < Cardinality(Procs)
      BY <3>1, <3>3
    <3> QED
      BY <2>2, <2>5, <3>4, <3>5 DEF Room, H
  <2>6. CASE u # v
    <3>1. Room(u) /\ SigningIn(u)' \subseteq SigningIn(u) /\ TokensOf(u)' \subseteq TokensOf(u)
      BY <1>2, <2>1, <2>3, <2>6 DEF RoomOK, CalmHandlers
    <3> DEFINE T == TokensOf(u)
               G == SigningIn(u)
               S == TokensOf(u)'
               H == SigningIn(u)'
    <3>2. /\ IsFiniteSet(T) /\ IsFiniteSet(G) /\ IsFiniteSet(Procs) /\ S \subseteq T /\ H \subseteq G
          /\ Cardinality(T) + Cardinality(G) < Cardinality(Procs)
      BY <3>1, FS_Subset, SessionsAssumption DEF Room, SigningIn
    <3> HIDE DEF T, G, S, H
    <3>3. IsFiniteSet(S) /\ IsFiniteSet(H) /\ Cardinality(S) <= Cardinality(T) /\ Cardinality(H) <= Cardinality(G)
      BY <3>2, FS_Subset
    <3>4. /\ Cardinality(T) \in Nat /\ Cardinality(G) \in Nat /\ Cardinality(Procs) \in Nat
          /\ Cardinality(S) \in Nat /\ Cardinality(H) \in Nat
      BY <3>2, <3>3, FS_CardinalityType
    <3>5. Cardinality(S) + Cardinality(H) < Cardinality(Procs)
      BY <3>2, <3>3, <3>4
    <3> QED
      BY <3>3, <3>5 DEF Room, S, H
  <2> QED
    BY <2>5, <2>6
<1> QED
  BY <1>3, <1>4 DEF Deactivate

LEMMA EveryStepKeepsRoom ==
    ASSUME IInv, RoomOK, [Next]_vars PROVE RoomOK'
<1> USE DEF IInv
<1>1. ASSUME NEW p \in Procs, EndStep(p) PROVE RoomOK'
  <2>1. CalmTables
    BY <1>1, CalmChanges DEF EndStep, Logout, DeleteToken, LogoutAll, RevokeAll
  <2>2. CalmHandlers
    BY <1>1, CalmMoves DEF EndStep, Logout, DeleteToken, LogoutAll, RevokeAll, SignInSteps
  <2> QED
    BY <2>1, <2>2, CalmKeepsRoom
<1>2. ASSUME NEW p \in Procs, AccountStep(p) PROVE RoomOK'
  <2>1. CASE Deactivate(p)
    BY <2>1, DeactivationLeavesRoom
  <2>2. CASE ~Deactivate(p)
    <3>1. ASSUME WriteUser(p) PROVE CalmTables
      <4>1. \A u \in DOMAIN users : users[u] \in UserRow
        BY DEF TablesOK
      <4>2. UNCHANGED refresh_tokens /\ \A u : Inactive(u)' => Inactive(u)
        BY <3>1, <4>1 DEF WriteUser, Inactive, UserRow
      <4> QED
        BY <4>2 DEF CalmTables, TokensOf
    <3>2. CalmTables
      BY <1>2, <2>2, <3>1, CalmChanges DEF AccountStep, SoftDelete, HardDelete, DeleteUser, UpdateUser
    <3>3. CalmHandlers
      BY <1>2, <2>2, CalmMoves DEF AccountStep, SoftDelete, HardDelete, DeleteUser, UpdateUser, WriteUser, SignInSteps
    <3> QED
      BY <3>2, <3>3, CalmKeepsRoom
  <2> QED
    BY <2>1, <2>2
<1>3. CASE CronStep
  <2>1. CalmTables
    BY <1>3, CalmChanges DEF CronStep, DailyCleanup, WeeklyCleanup, CleanupUnused, CleanupUnverifiedUsers
  <2>2. CASE UNCHANGED req
    BY <2>1, <2>2, CalmKeepsRoom DEF CalmHandlers, SigningIn
  <2>3. ASSUME NEW p \in Procs, WeeklyCleanup(p) \/ CleanupUnused(p) PROVE CalmHandlers
    BY <2>3, CalmMoves DEF WeeklyCleanup, CleanupUnused, SignInSteps
  <2> QED
    BY <1>3, <2>1, <2>2, <2>3, CalmKeepsRoom DEF CronStep, DailyCleanup, CleanupUnverifiedUsers
<1>4. ASSUME NEW p \in Procs, Fail(p) PROVE RoomOK'
  BY <1>4, CalmChanges, CalmMoves, CalmKeepsRoom DEF Fail
<1>5. CASE Tick \/ UNCHANGED vars
  <2>1. UNCHANGED <<users, refresh_tokens, req>>
    BY <1>5 DEF Tick, vars
  <2> QED
    BY <2>1, CalmChanges, CalmKeepsRoom DEF CalmHandlers, SigningIn
<1> QED
  BY <1>1, <1>2, <1>3, <1>4, <1>5, SignInKeepsRoom, RefreshKeepsRoom DEF Next

\* softDeleteUser and signIn: a deactivated account keeps no more sessions than
\* sign-ins could be past their is_active check when it was deactivated.
THEOREM DeactivationHolds == Spec => []DeactivatedOnlyKeepsRacingSignIns
<1>1. Init => RoomOK
  BY DEF Init, RoomOK, Inactive
<1>2. IInv /\ RoomOK /\ [Next]_vars => RoomOK'
  BY EveryStepKeepsRoom
<1>3. ASSUME IInv, RoomOK PROVE DeactivatedOnlyKeepsRacingSignIns
  <2> SUFFICES ASSUME NEW u \in DOMAIN users, ~users[u].is_active
               PROVE  Cardinality(TokensOf(u)) < Cardinality(Procs)
    BY DEF DeactivatedOnlyKeepsRacingSignIns
  <2>1. Room(u)
    BY <1>3 DEF IInv, TablesOK, RoomOK, Inactive
  <2>2. /\ IsFiniteSet(SigningIn(u)) /\ IsFiniteSet(Procs) /\ IsFiniteSet(TokensOf(u))
        /\ Cardinality(TokensOf(u)) + Cardinality(SigningIn(u)) < Cardinality(Procs)
    BY <2>1, FS_Subset, SessionsAssumption DEF Room, SigningIn
  <2>3. Cardinality(SigningIn(u)) \in Nat /\ Cardinality(Procs) \in Nat /\ Cardinality(TokensOf(u)) \in Nat
    BY <2>2, FS_CardinalityType
  <2> QED
    BY <2>2, <2>3
<1> QED
  BY <1>1, <1>2, <1>3, Invariance, PTL DEF Spec

-----------------------------------------------------------------------------
(* The session limit without refreshes.  A handler past enforceTokenLimit  *)
(* is good for one more session; one that has yet to delete its victims    *)
(* makes the room first.  Limit counts, for every choice F of those that   *)
(* delete next, what is left then and who is still to create.              *)

Creating(u) == {q \in Procs : req[q].step = "create" /\ req[q].user = u}

Evicting(u) == {q \in Procs : req[q].step = "delete_evicted" /\ req[q].user = u}

Chosen(F) == UNION {req[q].read : q \in F}

Fits(A, C, F) ==
    Cardinality(A) + Cardinality(C) + Cardinality(F) < MaxTokens + Cardinality(Procs)

Limit(u) ==
    /\ IsFiniteSet(ActiveTokens(u))
    /\ \A F \in SUBSET Evicting(u) : Fits(ActiveTokens(u) \ Chosen(F), Creating(u), F)

NoRefresh == \A q \in Procs : req[q].step \notin RefreshSteps

LimitOK == NoRefresh /\ \A u \in UserIds : Limit(u)

\* Counting: fewer tokens and fewer handlers that create fit as well.
LEMMA FitsLess ==
    ASSUME NEW A, NEW B, NEW C, NEW D, NEW F, IsFiniteSet(A), B \subseteq A,
           C \subseteq Procs, D \subseteq C, F \subseteq Procs, Fits(A, C, F)
    PROVE  IsFiniteSet(B) /\ Fits(B, D, F)
<1>1. IsFiniteSet(Procs) /\ MaxTokens \in Nat
  BY SessionsAssumption
<1>2. IsFiniteSet(C) /\ IsFiniteSet(F)
  BY <1>1, FS_Subset
<1>3. IsFiniteSet(B) /\ Cardinality(B) <= Cardinality(A)
  BY FS_Subset
<1>4. IsFiniteSet(D) /\ Cardinality(D) <= Cardinality(C)
  BY <1>2, FS_Subset
<1>5. /\ Cardinality(A) \in Nat /\ Cardinality(B) \in Nat /\ Cardinality(C) \in Nat
      /\ Cardinality(D) \in Nat /\ Cardinality(F) \in Nat /\ Cardinality(Procs) \in Nat
  BY <1>1, <1>2, <1>3, <1>4, FS_CardinalityType
<1>6. Cardinality(A) + Cardinality(C) + Cardinality(F) < MaxTokens + Cardinality(Procs)
  BY DEF Fits
<1>7. Cardinality(B) + Cardinality(D) + Cardinality(F) < MaxTokens + Cardinality(Procs)
  BY <1>1, <1>3, <1>4, <1>5, <1>6
<1> QED
  BY <1>3, <1>7 DEF Fits

\* Counting: below the limit every handler may create one.
LEMMA FitsBelow ==
    ASSUME NEW A, NEW C, NEW F, IsFiniteSet(A), Cardinality(A) < MaxTokens,
           C \subseteq Procs, F \subseteq Procs, C \cap F = {}
    PROVE  Fits(A, C, F)
<1>1. IsFiniteSet(Procs) /\ MaxTokens \in Nat
  BY SessionsAssumption
<1>2. IsFiniteSet(C) /\ IsFiniteSet(F)
  BY <1>1, FS_Subset
<1>3. Cardinality(C \cup F) = Cardinality(C) + Cardinality(F) - Cardinality({})
  BY <1>2, FS_Union
<1>4. Cardinality({}) = 0
  BY FS_EmptySet
<1>5. C \cup F \subseteq Procs
  OBVIOUS
<1>6. Cardinality(C \cup F) <= Cardinality(Procs)
  BY <1>1, <1>5, FS_Subset
<1>7. /\ Cardinality(A) \in Nat /\ Cardinality(C) \in Nat /\ Cardinality(F) \in Nat
      /\ Cardinality(Procs) \in Nat
  BY <1>1, <1>2, FS_CardinalityType
<1>8. Cardinality(A) + Cardinality(C) + Cardinality(F) < MaxTokens + Cardinality(Procs)
  BY <1>1, <1>3, <1>4, <1>6, <1>7
<1> QED
  BY <1>8 DEF Fits

\* Counting: a handler that has deleted its victims creates instead.
LEMMA FitsTurn ==
    ASSUME NEW A, NEW C, NEW F, NEW p \in Procs, C \subseteq Procs, F \subseteq Procs, p \notin C,
           IsFiniteSet(A), p \notin F, Fits(A, C, F \cup {p})
    PROVE  Fits(A, C \cup {p}, F)
<1>1. IsFiniteSet(Procs) /\ MaxTokens \in Nat
  BY SessionsAssumption
<1>2. IsFiniteSet(C) /\ IsFiniteSet(F)
  BY <1>1, FS_Subset
<1>3. Cardinality(C \cup {p}) = Cardinality(C) + 1 /\ Cardinality(F \cup {p}) = Cardinality(F) + 1
  BY <1>2, FS_AddElement
<1>4. /\ Cardinality(A) \in Nat /\ Cardinality(C) \in Nat /\ Cardinality(F) \in Nat
      /\ Cardinality(Procs) \in Nat
  BY <1>1, <1>2, FS_CardinalityType
<1>5. Cardinality(A) + Cardinality(C) + Cardinality(F \cup {p}) < MaxTokens + Cardinality(Procs)
  BY DEF Fits
<1>6. Cardinality(A) + Cardinality(C \cup {p}) + Cardinality(F) < MaxTokens + Cardinality(Procs)
  BY <1>1, <1>3, <1>4, <1>5
<1> QED
  BY <1>6 DEF Fits

\* Counting: a token takes the place of the handler that created it.
LEMMA FitsToken ==
    ASSUME NEW A, NEW C, NEW F, NEW t, NEW p \in C, C \subseteq Procs, F \subseteq Procs,
           IsFiniteSet(A), Fits(A, C, F)
    PROVE  IsFiniteSet(A \cup {t}) /\ Fits(A \cup {t}, C \ {p}, F)
<1>1. IsFiniteSet(Procs) /\ MaxTokens \in Nat
  BY SessionsAssumption
<1>2. IsFiniteSet(C) /\ IsFiniteSet(F)
  BY <1>1, FS_Subset
<1>3. /\ Cardinality(A) \in Nat /\ Cardinality(C) \in Nat /\ Cardinality(F) \in Nat
      /\ Cardinality(Procs) \in Nat
  BY <1>1, <1>2, FS_CardinalityType
<1>4. Cardinality(C \ {p}) = Cardinality(C) - 1
  BY <1>2, FS_RemoveElement
<1>5. /\ IsFiniteSet(A \cup {t})
      /\ Cardinality(A \cup {t}) = IF t \in A THEN Cardinality(A) ELSE Cardinality(A) + 1
  BY FS_AddElement
<1>6. Cardinality(A \cup {t}) \in Nat /\ Cardinality(A \cup {t}) <= Cardinality(A) + 1
  BY <1>3, <1>5
<1>7. Cardinality(A) + Cardinality(C) + Cardinality(F) < MaxTokens + Cardinality(Procs)
  BY DEF Fits
<1>8. Cardinality(A \cup {t}) + Cardinality(C \ {p}) + Cardinality(F) < MaxTokens + Cardinality(Procs)
  BY <1>1, <1>3, <1>4, <1>6, <1>7
<1> QED
  BY <1>5, <1>8 DEF Fits

\* A user's active tokens, and the handlers that will delete or create, become no more.
FewerActive == \A u \in UserIds : ActiveTokens(u)' \subseteq ActiveTokens(u)

Settles ==
    \A q \in Procs : \/ req'[q] = req[q]
                     \/ req'[q].step \notin {"delete_evicted", "create"} \cup RefreshSteps

LEMMA SettlingKeepsLimit == ASSUME LimitOK, FewerActive, Settles PROVE LimitOK'
<1>1. NoRefresh'
  BY DEF LimitOK, NoRefresh, Settles
<1>2. ASSUME NEW u \in UserIds PROVE Limit(u)'
  <2>1. ActiveTokens(u)' \subseteq ActiveTokens(u) /\ Limit(u) /\ IsFiniteSet(ActiveTokens(u))
    BY DEF LimitOK, FewerActive, Limit
  <2>2. Creating(u) \subseteq Procs /\ Creating(u)' \subseteq Creating(u)
    BY DEF Settles, Creating
  <2>3. IsFiniteSet(ActiveTokens(u)')
    BY <2>1, FS_Subset
  <2>4. ASSUME NEW F \in SUBSET Evicting(u)'
        PROVE  Fits(ActiveTokens(u)' \ Chosen(F)', Creating(u)', F)
    <3>1. F \subseteq Procs /\ F \in SUBSET Evicting(u) /\ \A q \in F : req'[q] = req[q]
      BY <2>4 DEF Settles, Evicting
    <3>2. Chosen(F)' = Chosen(F)
      BY <3>1 DEF Chosen
    <3>3. Fits(ActiveTokens(u) \ Chosen(F), Creating(u), F)
      BY <2>1, <3>1 DEF Limit
    <3>4. IsFiniteSet(ActiveTokens(u) \ Chosen(F))
      BY <2>1, FS_Difference
    <3>5. ActiveTokens(u)' \ Chosen(F)' \subseteq ActiveTokens(u) \ Chosen(F)
      BY <2>1, <3>2
    <3> QED
      BY <2>2, <3>1, <3>3, <3>4, <3>5, FitsLess
  <2> QED
    BY <2>3, <2>4 DEF Limit, Fits
<1> QED
  BY <1>1, <1>2 DEF LimitOK


\* What makes the active tokens of every user no more: deletions, and time.
LEMMA FewerActiveAfter ==
    ASSUME IInv
    PROVE  /\ UNCHANGED <<refresh_tokens, now>> => FewerActive
           /\ \A S : DeleteTokens(S) /\ UNCHANGED now => FewerActive
           /\ UNCHANGED refresh_tokens /\ now' = now + 1 => FewerActive
<1>1. ASSUME UNCHANGED <<refresh_tokens, now>> PROVE FewerActive
  BY <1>1 DEF FewerActive, ActiveTokens, TokensOf
<1>2. ASSUME NEW S, DeleteTokens(S), UNCHANGED now PROVE FewerActive
  BY <1>2 DEF FewerActive, ActiveTokens, TokensOf, DeleteTokens, Restrict
<1>3. ASSUME UNCHANGED refresh_tokens, now' = now + 1 PROVE FewerActive
  <2>1. now \in Nat /\ \A t \in DOMAIN refresh_tokens : refresh_tokens[t].expires_at \in Nat
    BY DEF IInv, TablesOK, RowOK, TokenRow
  <2>2. \A t \in DOMAIN refresh_tokens :
           refresh_tokens[t].expires_at > now' => refresh_tokens[t].expires_at > now
    BY <1>3, <2>1
  <2> QED
    BY <1>3, <2>2 DEF FewerActive, ActiveTokens, TokensOf
<1> QED
  BY <1>1, <1>2, <1>3

\* What settles the handlers: p returns, or begins or goes on with anything
\* but a refresh, a deletion of victims or a creation.
LEMMA SettlingMoves ==
    ASSUME HandlersOK, NEW p \in Procs
    PROVE  /\ req' = req => Settles
           /\ Return(p) => Settles
           /\ \A kind, u, d, t : \A step \in Steps \ ({"delete_evicted", "create"} \cup RefreshSteps) :
                 Begin(p, kind, step, u, d, t) => Settles
           /\ \A S : \A step \in Steps \ ({"delete_evicted", "create"} \cup RefreshSteps) :
                 GoToWith(p, step, S) => Settles
<1> DEFINE Calm == Steps \ ({"delete_evicted", "create"} \cup RefreshSteps)
<1>1. ASSUME NEW r, req' = [req EXCEPT ![p] = r], r.step \in Calm PROVE Settles
  BY <1>1 DEF HandlersOK, Settles
<1>2. ASSUME req' = req PROVE Settles
  BY <1>2 DEF Settles
<1>3. ASSUME Return(p) PROVE Settles
  BY <1>1, <1>3 DEF Return, Idle, Steps, RefreshSteps
<1>4. ASSUME NEW kind, NEW u, NEW d, NEW t, NEW step \in Calm, Begin(p, kind, step, u, d, t)
      PROVE  Settles
  <2> DEFINE r == [step |-> step, user |-> u, device |-> d, id |-> t, read |-> {}]
  <2>1. req' = [req EXCEPT ![p] = r] /\ r.step \in Calm
    BY <1>4 DEF Begin
  <2> HIDE DEF r, Calm
  <2> QED
    BY <1>1, <2>1
<1>5. ASSUME NEW S, NEW step \in Calm, GoToWith(p, step, S) PROVE Settles
  <2> DEFINE r == [[req[p] EXCEPT !.step = step] EXCEPT !.read = S]
  <2>1. req' = [req EXCEPT ![p] = r] /\ r.step = step
    BY <1>5 DEF GoToWith, HandlersOK, Request
  <2> HIDE DEF r, Calm
  <2> QED
    BY <1>1, <1>5, <2>1
<1> QED
  BY <1>2, <1>3, <1>4, <1>5

\* enforceTokenLimit finds room for one, or chooses victims that make it.
LEMMA FindActiveKeepsLimit ==
    ASSUME IInv, LimitOK, NEW p \in Procs, FindActiveTokens(p) PROVE LimitOK'
<1> USE DEF IInv
<1>1. PICK v : v = req[p].user
  OBVIOUS
<1>2. /\ req[p].step = "find_active" /\ v \in UserIds /\ UNCHANGED <<refresh_tokens, now>>
      /\ req \in [Procs -> Request]
  BY <1>1 DEF FindActiveTokens, At, HandlersOK, RequestOK, SignInSteps
<1>3. \A u : ActiveTokens(u)' = ActiveTokens(u)
  BY <1>2 DEF ActiveTokens, TokensOf
<1>4. /\ NoRefresh
      /\ \A q \in Procs \ {p} : req'[q] = req[q]
      /\ req'[p].step \in {"create", "delete_evicted"} /\ req'[p].user = v
  BY <1>1, <1>2 DEF FindActiveTokens, GoTo, GoToWith, LimitOK, Request
<1>5. NoRefresh'
  BY <1>4 DEF NoRefresh, RefreshSteps
<1>6. IsFiniteSet(ActiveTokens(v)) /\ Cardinality(ActiveTokens(v)) \in Nat /\ MaxTokens \in Nat \ {0}
  BY <1>2, FS_CardinalityType, SessionsAssumption DEF LimitOK, Limit
<1>7. ASSUME NEW u \in UserIds, NEW F \in SUBSET Evicting(u)', p \notin F, Creating(u)' = Creating(u)
      PROVE  Fits(ActiveTokens(u)' \ Chosen(F)', Creating(u)', F)
  <2>1. F \in SUBSET Evicting(u) /\ Chosen(F)' = Chosen(F)
    BY <1>4, <1>7 DEF Evicting, Chosen
  <2> QED
    BY <1>3, <1>7, <2>1 DEF LimitOK, Limit
<1>8. ASSUME NEW F \in SUBSET Evicting(v)', NEW B, IsFiniteSet(B), Cardinality(B) < MaxTokens,
             ActiveTokens(v)' \ Chosen(F)' \subseteq B
      PROVE  Fits(ActiveTokens(v)' \ Chosen(F)', Creating(v)', F)
  <2>1. F \subseteq Procs /\ Creating(v)' \subseteq Procs /\ Creating(v)' \cap F = {}
    BY DEF Evicting, Creating
  <2>2. Fits(B, Creating(v)', F)
    BY <1>8, <2>1, FitsBelow
  <2> QED
    BY <1>8, <2>1, <2>2, FitsLess
<1>9. ASSUME NEW u \in UserIds, u # v PROVE Limit(u)'
  <2>1. Creating(u)' = Creating(u) /\ p \notin Evicting(u)'
    BY <1>1, <1>2, <1>4, <1>9 DEF Creating, Evicting
  <2>2. IsFiniteSet(ActiveTokens(u)')
    BY <1>3 DEF LimitOK, Limit
  <2> QED
    BY <1>7, <2>1, <2>2 DEF Limit, Fits
<1>10. Limit(v)'
  <2>1. IsFiniteSet(ActiveTokens(v)')
    BY <1>3, <1>6
  <2>2. CASE Cardinality(ActiveTokens(v)) < MaxTokens
    <3>1. ASSUME NEW F \in SUBSET Evicting(v)'
          PROVE  Fits(ActiveTokens(v)' \ Chosen(F)', Creating(v)', F)
      <4>1. ActiveTokens(v)' \ Chosen(F)' \subseteq ActiveTokens(v)
        BY <1>3
      <4> QED
        BY <1>6, <1>8, <2>2, <4>1
    <3> QED
      BY <2>1, <3>1 DEF Limit, Fits
  <2>3. CASE Cardinality(ActiveTokens(v)) >= MaxTokens
    <3>1. PICK S \in SUBSET ActiveTokens(v) :
             IsEvicted(S, ActiveTokens(v)) /\ GoToWith(p, "delete_evicted", S)
      BY <1>1, <2>3 DEF FindActiveTokens
    <3>2. /\ Cardinality(S) = (Cardinality(ActiveTokens(v)) - MaxTokens) + 1
          /\ req'[p].step = "delete_evicted" /\ req'[p].read = S
      BY <1>2, <3>1 DEF IsEvicted, GoToWith, Request
    <3>3. IsFiniteSet(ActiveTokens(v) \ S) /\ Cardinality(ActiveTokens(v) \ S) < MaxTokens
      <4>1. /\ IsFiniteSet(ActiveTokens(v) \ S)
            /\ Cardinality(ActiveTokens(v) \ S)
                  = Cardinality(ActiveTokens(v)) - Cardinality(ActiveTokens(v) \cap S)
        BY <1>6, FS_Difference
      <4>2. ActiveTokens(v) \cap S = S
        OBVIOUS
      <4> QED
        BY <1>6, <3>2, <4>1, <4>2
    <3>4. ASSUME NEW F \in SUBSET Evicting(v)'
          PROVE  Fits(ActiveTokens(v)' \ Chosen(F)', Creating(v)', F)
      <4>1. CASE p \in F
        <5>1. ActiveTokens(v)' \ Chosen(F)' \subseteq ActiveTokens(v) \ S
          BY <1>3, <3>2, <4>1 DEF Chosen
        <5> QED
          BY <1>8, <3>3, <5>1
      <4>2. CASE p \notin F
        <5>1. Creating(v)' = Creating(v)
          BY <1>2, <1>4, <3>2 DEF Creating
        <5> QED
          BY <1>2, <1>7, <4>2, <5>1
      <4> QED
        BY <4>1, <4>2
    <3> QED
      BY <2>1, <3>4 DEF Limit, Fits
  <2> QED
    BY <1>6, <2>2, <2>3
<1> QED
  BY <1>5, <1>9, <1>10 DEF LimitOK


\* Once its victims are gone, a handler is one of those that create.
LEMMA DeleteEvictedKeepsLimit ==
    ASSUME IInv, LimitOK, NEW p \in Procs, DeleteEvictedTokens(p) PROVE LimitOK'
<1> USE DEF IInv
<1>1. PICK v, S : v = req[p].user /\ S = req[p].read
  OBVIOUS
<1>2. /\ req[p].step = "delete_evicted" /\ UNCHANGED now /\ DeleteTokens(S)
      /\ v \in UserIds /\ req \in [Procs -> Request]
  BY <1>1 DEF DeleteEvictedTokens, At, HandlersOK, RequestOK, SignInSteps
<1>3. \A u : ActiveTokens(u)' \subseteq ActiveTokens(u) \ S
  BY <1>2 DEF DeleteTokens, Restrict, ActiveTokens, TokensOf
<1>4. /\ \A q \in Procs \ {p} : req'[q] = req[q]
      /\ req'[p].step = "create" /\ req'[p].user = v
  BY <1>1, <1>2 DEF DeleteEvictedTokens, GoToWith, Request
<1>5. NoRefresh'
  BY <1>4 DEF LimitOK, NoRefresh, RefreshSteps
<1>6. ASSUME NEW u \in UserIds PROVE Limit(u)'
  <2>1. IsFiniteSet(ActiveTokens(u)) /\ IsFiniteSet(ActiveTokens(u)')
    BY <1>3, FS_Subset DEF LimitOK, Limit
  <2>2. ASSUME NEW F \in SUBSET Evicting(u)'
        PROVE  Fits(ActiveTokens(u)' \ Chosen(F)', Creating(u)', F)
    <3>1. /\ F \subseteq Procs /\ p \notin F /\ F \in SUBSET Evicting(u)
          /\ Chosen(F)' = Chosen(F)
      BY <1>4, <2>2 DEF Evicting, Chosen
    <3>2. CASE u # v
      <4>1. Creating(u)' = Creating(u)
        BY <1>1, <1>4, <3>2 DEF Creating
      <4>2. Fits(ActiveTokens(u) \ Chosen(F), Creating(u), F) /\ Creating(u) \subseteq Procs
        BY <3>1 DEF LimitOK, Limit, Creating
      <4>3. /\ IsFiniteSet(ActiveTokens(u) \ Chosen(F))
            /\ ActiveTokens(u)' \ Chosen(F)' \subseteq ActiveTokens(u) \ Chosen(F)
        BY <1>3, <2>1, <3>1, FS_Difference
      <4>4. Fits(ActiveTokens(u)' \ Chosen(F)', Creating(u), F)
        BY <3>1, <4>2, <4>3, FitsLess
      <4> QED
        BY <4>1, <4>4
    <3>3. CASE u = v
      <4> DEFINE G == F \cup {p}
                 A == ActiveTokens(u) \ Chosen(G)
      <4>1. /\ G \in SUBSET Evicting(u) /\ p \notin Creating(u)
            /\ Creating(u) \subseteq Procs /\ Creating(u)' = Creating(u) \cup {p}
        BY <1>1, <1>2, <1>4, <3>1, <3>3 DEF Evicting, Creating
      <4>2. Fits(A, Creating(u), G) /\ IsFiniteSet(A)
        BY <2>1, <4>1, FS_Difference DEF LimitOK, Limit
      <4>3. ActiveTokens(u)' \ Chosen(F)' \subseteq A
        BY <1>1, <1>3, <3>1 DEF Chosen
      <4> HIDE DEF A
      <4>4. Fits(A, Creating(u) \cup {p}, F)
        BY <3>1, <4>1, <4>2, FitsTurn
      <4>5. Creating(u) \cup {p} \subseteq Procs
        BY <4>1
      <4>6. Fits(ActiveTokens(u)' \ Chosen(F)', Creating(u) \cup {p}, F)
        BY <3>1, <4>2, <4>3, <4>4, <4>5, FitsLess
      <4> QED
        BY <4>1, <4>6
    <3> QED
      BY <3>2, <3>3
  <2> QED
    BY <2>1, <2>2 DEF Limit, Fits
<1> QED
  BY <1>5, <1>6 DEF LimitOK

\* generateTokenPair: the token that is created takes the place of its handler.
LEMMA CreateKeepsLimit ==
    ASSUME IInv, LimitOK, NEW p \in Procs, CreateToken(p) PROVE LimitOK'
<1> USE DEF IInv
<1>1. PICK v : v = req[p].user
  OBVIOUS
<1>2. /\ req[p].step = "create" /\ Return(p) /\ UNCHANGED now /\ req \in [Procs -> Request]
      /\ \/ UNCHANGED refresh_tokens
         \/ \E t \in TokenIds \ DOMAIN jwt : refresh_tokens' =
               [i \in DOMAIN refresh_tokens \cup {t} |->
                   IF i = t THEN NewRow(v, req[p].device, t) ELSE refresh_tokens[i]]
  <2>1. /\ req[p].step = "create" /\ Return(p) /\ UNCHANGED now
        /\ \/ UNCHANGED refresh_tokens
           \/ \E t \in TokenIds \ DOMAIN jwt : refresh_tokens' =
                 [i \in DOMAIN refresh_tokens \cup {t} |->
                     IF i = t THEN NewRow(req[p].user, req[p].device, t) ELSE refresh_tokens[i]]
    BY DEF CreateToken, At, PutToken
  <2>2. req \in [Procs -> Request]
    BY DEF HandlersOK
  <2> QED
    BY <1>1, <2>1, <2>2
<1>3. CASE UNCHANGED refresh_tokens
  BY <1>2, <1>3, FewerActiveAfter, SettlingMoves, SettlingKeepsLimit
<1>4. ASSUME NEW t \in TokenIds \ DOMAIN jwt,
             refresh_tokens' = [i \in DOMAIN refresh_tokens \cup {t} |->
                                   IF i = t THEN NewRow(v, req[p].device, t) ELSE refresh_tokens[i]]
      PROVE  LimitOK'
  <2>1. t \notin DOMAIN refresh_tokens
    BY DEF TablesOK, RowOK
  <2>2. \A u : ActiveTokens(u)' \subseteq IF u = v THEN ActiveTokens(u) \cup {t} ELSE ActiveTokens(u)
    BY <1>2, <1>4, <2>1 DEF ActiveTokens, TokensOf, NewRow
  <2>3. req'[p].step = "idle" /\ \A q \in Procs \ {p} : req'[q] = req[q]
    BY <1>2 DEF Return, Idle
  <2>4. NoRefresh'
    BY <2>3 DEF LimitOK, NoRefresh, RefreshSteps
  <2>5. ASSUME NEW u \in UserIds PROVE Limit(u)'
    <3>1. /\ IsFiniteSet(ActiveTokens(u)) /\ Creating(u) \subseteq Procs
          /\ Creating(u)' = IF u = v THEN Creating(u) \ {p} ELSE Creating(u)
          /\ u = v => p \in Creating(u)
      BY <1>1, <1>2, <2>3 DEF LimitOK, Limit, Creating
    <3>2. IsFiniteSet(ActiveTokens(u)')
      <4>1. IsFiniteSet(ActiveTokens(u) \cup {t})
        BY <3>1, FS_AddElement
      <4>2. ActiveTokens(u)' \subseteq ActiveTokens(u) \cup {t}
        BY <2>2
      <4> QED
        BY <4>1, <4>2, FS_Subset
    <3>3. ASSUME NEW F \in SUBSET Evicting(u)'
          PROVE  Fits(ActiveTokens(u)' \ Chosen(F)', Creating(u)', F)
      <4> DEFINE A == ActiveTokens(u) \ Chosen(F)
      <4>1. F \subseteq Procs /\ F \in SUBSET Evicting(u) /\ Chosen(F)' = Chosen(F)
        BY <2>3, <3>3 DEF Evicting, Chosen
      <4>2. Fits(A, Creating(u), F) /\ IsFiniteSet(A)
        BY <3>1, <4>1, FS_Difference DEF LimitOK, Limit
      <4>3. ActiveTokens(u)' \ Chosen(F)' \subseteq IF u = v THEN A \cup {t} ELSE A
        BY <2>2, <4>1
      <4> HIDE DEF A
      <4>4. CASE u # v
        <5>1. Fits(ActiveTokens(u)' \ Chosen(F)', Creating(u), F)
          BY <3>1, <4>1, <4>2, <4>3, <4>4, FitsLess
        <5> QED
          BY <3>1, <4>4, <5>1
      <4>5. CASE u = v
        <5>1. IsFiniteSet(A \cup {t}) /\ Fits(A \cup {t}, Creating(u) \ {p}, F)
          BY <3>1, <4>1, <4>2, <4>5, FitsToken
        <5>2. Creating(u) \ {p} \subseteq Procs
          BY <3>1
        <5>3. Fits(ActiveTokens(u)' \ Chosen(F)', Creating(u) \ {p}, F)
          BY <4>1, <4>3, <4>5, <5>1, <5>2, FitsLess
        <5> QED
          BY <3>1, <4>5, <5>3
      <4> QED
        BY <4>4, <4>5
    <3> QED
      BY <3>2, <3>3 DEF Limit, Fits
  <2> QED
    BY <2>4, <2>5 DEF LimitOK
<1> QED
  BY <1>2, <1>3, <1>4

\* Every other step lets the handlers settle and deletes at most.
LEMMA EveryStepKeepsLimit ==
    ASSUME "refresh" \notin Workload, IInv, LimitOK, [Next]_vars PROVE LimitOK'
<1> USE DEF IInv
<1>1. ASSUME NEW p \in Procs, SignInStep(p) PROVE LimitOK'
  <2>1. CASE FindActiveTokens(p) \/ DeleteEvictedTokens(p) \/ CreateToken(p)
    BY <2>1, FindActiveKeepsLimit, DeleteEvictedKeepsLimit, CreateKeepsLimit
  <2>2. CASE \/ \E u \in UserIds, d \in Devices : SignIn(p, u, d)
             \/ FindDeviceTokens(p) \/ DeleteDeviceTokens(p) \/ DeviceCleanupFails(p)
    <3>1. FewerActive
      BY <2>2, FewerActiveAfter
         DEF SignIn, FindDeviceTokens, DeleteDeviceTokens, DeviceCleanupFails
    <3>2. Settles
      BY <2>2, SettlingMoves
         DEF SignIn, FindDeviceTokens, DeleteDeviceTokens, DeviceCleanupFails, Steps, RefreshSteps
    <3> QED
      BY <3>1, <3>2, SettlingKeepsLimit
  <2> QED
    BY <1>1, <2>1, <2>2 DEF SignInStep
<1>2. ASSUME NEW p \in Procs PROVE ~RefreshStep(p)
  <2>1. req[p].step \notin RefreshSteps
    BY DEF LimitOK, NoRefresh
  <2> QED
    BY <2>1 DEF RefreshStep, Refresh, Begin, FindToken, DeleteExpiredToken, TouchToken, RotateToken,
                At, RefreshSteps
<1>3. ASSUME NEW p \in Procs, EndStep(p) PROVE LimitOK'
  <2>1. FewerActive
    BY <1>3, FewerActiveAfter DEF EndStep, Logout, DeleteToken, LogoutAll, RevokeAll
  <2>2. Settles
    BY <1>3, SettlingMoves DEF EndStep, Logout, DeleteToken, LogoutAll, RevokeAll, Steps, RefreshSteps
  <2> QED
    BY <2>1, <2>2, SettlingKeepsLimit
<1>4. ASSUME NEW p \in Procs, AccountStep(p) PROVE LimitOK'
  <2>1. FewerActive
    BY <1>4, FewerActiveAfter
       DEF AccountStep, SoftDelete, Deactivate, HardDelete, DeleteUser, DeleteUsers, UpdateUser, WriteUser
  <2>2. Settles
    BY <1>4, SettlingMoves
       DEF AccountStep, SoftDelete, Deactivate, HardDelete, DeleteUser, UpdateUser, WriteUser, Steps,
           RefreshSteps
  <2> QED
    BY <2>1, <2>2, SettlingKeepsLimit
<1>5. CASE CronStep
  <2>1. FewerActive
    BY <1>5, FewerActiveAfter
       DEF CronStep, DailyCleanup, WeeklyCleanup, CleanupUnused, CleanupUnverifiedUsers, DeleteUsers
  <2>2. ASSUME UNCHANGED req PROVE Settles
    BY <2>2 DEF Settles
  <2>3. ASSUME NEW p \in Procs, WeeklyCleanup(p) \/ CleanupUnused(p) PROVE Settles
    BY <2>3, SettlingMoves DEF WeeklyCleanup, CleanupUnused, Steps, RefreshSteps
  <2>4. Settles
    BY <1>5, <2>2, <2>3 DEF CronStep, DailyCleanup, CleanupUnverifiedUsers
  <2> QED
    BY <2>1, <2>4, SettlingKeepsLimit
<1>6. ASSUME NEW p \in Procs, Fail(p) PROVE LimitOK'
  BY <1>6, FewerActiveAfter, SettlingMoves, SettlingKeepsLimit DEF Fail
<1>7. CASE Tick \/ UNCHANGED vars
  <2>1. FewerActive
    BY <1>7, FewerActiveAfter DEF Tick, vars
  <2>2. Settles
    BY <1>7 DEF Tick, vars, Settles
  <2> QED
    BY <2>1, <2>2, SettlingKeepsLimit
<1> QED
  BY <1>1, <1>2, <1>3, <1>4, <1>5, <1>6, <1>7 DEF Next

\* enforceTokenLimit and generateTokenPair: where nothing is refreshed, sign-ins
\* that race with each other and with all that ends sessions exceed the limit by
\* less than the number of handlers, for any limit and any number of handlers.
THEOREM SessionLimit ==
    ASSUME "refresh" \notin Workload PROVE Spec => []SessionLimitUpToRaces
<1>1. Init => LimitOK
  <2> SUFFICES ASSUME Init PROVE LimitOK
    OBVIOUS
  <2>1. NoRefresh
    BY DEF Init, NoRefresh, Idle, RefreshSteps
  <2>2. ASSUME NEW u \in UserIds PROVE Limit(u)
    <3>1. ActiveTokens(u) = {} /\ Creating(u) = {} /\ Evicting(u) = {}
      BY DEF Init, Idle, ActiveTokens, TokensOf, Creating, Evicting
    <3>2. IsFiniteSet({}) /\ Cardinality({}) = 0 /\ MaxTokens \in Nat \ {0}
      BY FS_EmptySet, SessionsAssumption
    <3>3. Fits({}, {}, {})
      BY <3>2, FitsBelow
    <3>4. \A F \in SUBSET Evicting(u) : F = {} /\ ActiveTokens(u) \ Chosen(F) = {}
      BY <3>1
    <3> QED
      BY <3>1, <3>2, <3>3, <3>4 DEF Limit
  <2> QED
    BY <2>1, <2>2 DEF LimitOK
<1>2. IInv /\ LimitOK /\ [Next]_vars => LimitOK'
  BY EveryStepKeepsLimit
<1>3. ASSUME LimitOK PROVE SessionLimitUpToRaces
  <2> SUFFICES ASSUME NEW u \in UserIds
               PROVE  Cardinality(ActiveTokens(u)) < MaxTokens + Cardinality(Procs)
    BY DEF SessionLimitUpToRaces
  <2>1. /\ {} \in SUBSET Evicting(u) /\ ActiveTokens(u) \ Chosen({}) = ActiveTokens(u)
        /\ Creating(u) \subseteq Procs
    BY DEF Chosen, Creating
  <2>2. Fits(ActiveTokens(u), Creating(u), {}) /\ IsFiniteSet(ActiveTokens(u))
    BY <1>3, <2>1 DEF LimitOK, Limit
  <2>3. Fits(ActiveTokens(u), {}, {})
    BY <2>1, <2>2, FitsLess
  <2>4. /\ Cardinality({}) = 0 /\ Cardinality(ActiveTokens(u)) \in Nat
        /\ MaxTokens \in Nat /\ Cardinality(Procs) \in Nat
    BY <2>2, FS_EmptySet, FS_CardinalityType, SessionsAssumption
  <2> QED
    BY <2>3, <2>4 DEF Fits
<1> QED
  BY <1>1, <1>2, <1>3, Invariance, PTL DEF Spec
=============================================================================
