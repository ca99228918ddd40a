--------------------------- MODULE AccountsProofs ---------------------------
(***************************************************************************)
(* Invariants of Accounts, for any sets of addresses, tokens and handlers, *)
(* any lifetime and any bounds.                                            *)
(*                                                                         *)
(* A step either keeps the accounts and tokens that exist, adds one, or    *)
(* removes some (Moves).  What a handler relies on survives every such     *)
(* move; what its own step makes of it is one lemma per action.            *)
(***************************************************************************)
EXTENDS Accounts, TLAPS

(***************************************************************************)
(* What a handler that holds r has read and may still rely on, when us,    *)
(* id, iss and time are the table, the sequence, the tokens and the clock. *)
(***************************************************************************)
HandlerOK(r, us, id, iss, time) ==
    /\ r \in Request
    /\ r.user < id
    /\ r.step \in {"delete", "create"} => r.email \in Emails
    /\ r.step = "write" /\ r.change = "email" => r.email \in Emails
    /\ r.step = "write" => r.change \in Changes
    /\ r.step = "setex" => r.user \in Ids
    /\ r.step \in {"emit", "find", "update", "del"} => r.token \in DOMAIN iss
    /\ r.step \in {"find", "update", "del"} => iss[r.token] = r.user
    /\ r.step = "delete" /\ r.user \in DOMAIN us => us[r.user].created_at + TTL < time
    /\ r.step = "del" /\ r.user \in DOMAIN us => us[r.user].verified_at

HandlersOK ==
    /\ req \in [Handlers -> Request]
    /\ \A p \in Handlers : HandlerOK(req[p], users, nextId, issuedTo, now)

(***************************************************************************)
(* Ids are not reused and nothing was created in the future.               *)
(***************************************************************************)
UsersOK ==
    /\ DOMAIN users \subseteq Ids
    /\ \A u \in DOMAIN users :
          users[u] \in UserRow /\ u < nextId /\ users[u].created_at <= now
    /\ nextId \in 1 .. MaxUsers + 1
    /\ now \in 0 .. MaxTime

(***************************************************************************)
(* A token outlives the verification period of its account, and goes only  *)
(* after the account was verified.                                         *)
(***************************************************************************)
KeyLasts(t) ==
    issuedTo[t] \in DOMAIN users =>
        \/ users[issuedTo[t]].verified_at
        \/ /\ t \in DOMAIN redis
           /\ users[issuedTo[t]].created_at + TTL <= redis[t].expires_at

TokensOK ==
    /\ DOMAIN issuedTo \subseteq Tokens
    /\ \A t \in DOMAIN issuedTo :
          issuedTo[t] \in Ids /\ issuedTo[t] < nextId /\ KeyLasts(t)
    /\ DOMAIN redis \subseteq DOMAIN issuedTo
    /\ \A t \in DOMAIN redis : redis[t] \in Key /\ redis[t].user = issuedTo[t]
    /\ emitted \subseteq DOMAIN issuedTo

IInv == HandlersOK /\ UsersOK /\ TokensOK /\ OneAccountPerAddress

-----------------------------------------------------------------------------

\* The invariant says what the model-checked invariants say.
LEMMA IInvSuffices == IInv => TypeOK /\ OneAccountPerAddress /\ BlockedMeansVerifiable
<1> SUFFICES ASSUME IInv PROVE TypeOK /\ BlockedMeansVerifiable
  BY DEF IInv
<1>1. TypeOK
  BY DEF IInv, HandlersOK, UsersOK, TokensOK, TypeOK
<1>2. BlockedMeansVerifiable
  <2> SUFFICES ASSUME NEW t \in DOMAIN issuedTo, issuedTo[t] \in Users,
                      ~users[issuedTo[t]].verified_at, ~Expired(issuedTo[t])
               PROVE  Live(t)
    BY DEF BlockedMeansVerifiable
  <2>1. /\ t \in DOMAIN redis
        /\ users[issuedTo[t]].created_at + TTL <= redis[t].expires_at
    BY DEF IInv, TokensOK, KeyLasts, Users
  <2>2. users[issuedTo[t]].created_at \in Nat /\ redis[t].expires_at \in Nat /\ now \in Nat
    BY <2>1 DEF IInv, TokensOK, UsersOK, Users, UserRow, Key
  <2>3. now <= users[issuedTo[t]].created_at + TTL
    BY <2>2, AccountsAssumption DEF Expired
  <2> QED
    BY <2>1, <2>2, <2>3, AccountsAssumption DEF Live
<1> QED
  BY <1>1, <1>2

\* A handler without a request relies on nothing.
LEMMA IdleOK ==
    ASSUME NEW us, NEW id \in 1 .. MaxUsers + 1, NEW iss, NEW time
    PROVE  Idle \in Request /\ HandlerOK(Idle, us, id, iss, time)
<1>1. Idle \in Request
  BY AccountsAssumption DEF Idle, Request
<1> QED
  BY <1>1 DEF Idle, HandlerOK

\* The initial state.
LEMMA InitGood == Init => IInv
<1> SUFFICES ASSUME Init PROVE IInv
  OBVIOUS
<1>1. DOMAIN users = {} /\ DOMAIN redis = {} /\ DOMAIN issuedTo = {} /\ emitted = {}
  BY DEF Init
<1>2. nextId \in 1 .. MaxUsers + 1 /\ now \in 0 .. MaxTime
  BY AccountsAssumption DEF Init
<1>3. HandlersOK
  BY <1>2, IdleOK DEF Init, HandlersOK
<1> QED
  BY <1>1, <1>2, <1>3 DEF IInv, UsersOK, TokensOK, OneAccountPerAddress, Users

-----------------------------------------------------------------------------
(* How the tables move.                                                    *)

\* Accounts keep their creation and, once verified, the date of that; a new
\* one gets the next id.
UsersMove(us, id, time, us2, id2, time2) ==
    /\ id <= id2 /\ time <= time2
    /\ \A u \in DOMAIN us2 \cap DOMAIN us :
          /\ us2[u].created_at = us[u].created_at
          /\ us[u].verified_at => us2[u].verified_at
    /\ \A u \in DOMAIN us2 \ DOMAIN us :
          /\ u = id /\ id < id2
          /\ us2[u].created_at = time

TokensMove(iss, iss2) ==
    \A t \in DOMAIN iss : t \in DOMAIN iss2 /\ iss2[t] = iss[t]

\* What a waiting handler relies on survives the moves of others.
LEMMA HandlerKept ==
    ASSUME NEW r, NEW us, NEW id \in Nat, NEW iss, NEW time \in Nat,
           NEW us2, NEW id2 \in Nat, NEW iss2, NEW time2 \in Nat,
           \A u \in DOMAIN us : us[u] \in UserRow,
           UsersMove(us, id, time, us2, id2, time2), TokensMove(iss, iss2),
           HandlerOK(r, us, id, iss, time)
    PROVE  HandlerOK(r, us2, id2, iss2, time2)
<1>1. r.user \in Nat /\ r.user < id2 /\ (r.user \in DOMAIN us2 => r.user \in DOMAIN us)
  BY AccountsAssumption DEF HandlerOK, Request, UsersMove
<1>2. r.step = "delete" /\ r.user \in DOMAIN us2 => us2[r.user].created_at + TTL < time2
  <2> SUFFICES ASSUME r.step = "delete", r.user \in DOMAIN us2
               PROVE  us2[r.user].created_at + TTL < time2
    OBVIOUS
  <2>1. us2[r.user].created_at = us[r.user].created_at /\ us[r.user].created_at \in Nat
    BY <1>1 DEF UsersMove, UserRow
  <2>2. us[r.user].created_at + TTL < time /\ time <= time2
    BY <1>1 DEF HandlerOK, UsersMove
  <2> QED
    BY <2>1, <2>2, AccountsAssumption
<1>3. r.step = "del" /\ r.user \in DOMAIN us2 => us2[r.user].verified_at
  BY <1>1 DEF HandlerOK, UsersMove
<1>4. r.step \in {"emit", "find", "update", "del"} =>
          r.token \in DOMAIN iss2 /\ iss2[r.token] = iss[r.token]
  BY DEF HandlerOK, TokensMove
<1> QED
  BY <1>1, <1>2, <1>3, <1>4 DEF HandlerOK

\* So a step of p that leaves it with r keeps HandlersOK.
LEMMA HandlersKept ==
    ASSUME IInv, UsersOK', UsersMove(users, nextId, now, users', nextId', now'),
           TokensMove(issuedTo, issuedTo'),
           NEW p \in Handlers, NEW r,
           HandlerOK(r, users', nextId', issuedTo', now'), EndsWith(p, r)
    PROVE  HandlersOK'
<1>1. r \in Request
  BY DEF HandlerOK
<1>2. req' = [req EXCEPT ![p] = r]
  BY DEF EndsWith
<1>3. nextId \in Nat /\ nextId' \in Nat /\ now \in Nat /\ now' \in Nat
      /\ \A u \in DOMAIN users : users[u] \in UserRow
  BY AccountsAssumption DEF IInv, UsersOK
<1>4. \A q \in Handlers : HandlerOK(req[q], users', nextId', issuedTo', now')
  BY <1>3, HandlerKept DEF IInv, HandlersOK
<1> QED
  BY <1>1, <1>2, <1>4 DEF IInv, HandlersOK

-----------------------------------------------------------------------------
(* The ways in which a step writes the tables.                             *)

TablesOK == UsersOK /\ TokensOK /\ OneAccountPerAddress

Moves ==
    /\ UsersMove(users, nextId, now, users', nextId', now')
    /\ TokensMove(issuedTo, issuedTo')

\* It writes no row and no token.
LEMMA RowsKept ==
    ASSUME IInv, UNCHANGED <<users, nextId, tokens>>, now' \in 0 .. MaxTime, now <= now'
    PROVE  TablesOK' /\ Moves
<1>1. now \in Nat /\ now' \in Nat
  BY AccountsAssumption DEF IInv, UsersOK
<1>2. UsersOK'
  <2>1. \A u \in DOMAIN users : users[u].created_at <= now'
    BY <1>1 DEF IInv, UsersOK, UserRow
  <2> QED
    BY <2>1 DEF IInv, UsersOK
<1>3. nextId \in Nat
  BY AccountsAssumption DEF IInv, UsersOK
<1>4. TokensOK'
  BY DEF IInv, TokensOK, KeyLasts, tokens
<1>5. OneAccountPerAddress'
  BY DEF IInv, OneAccountPerAddress, Users
<1> QED
  BY <1>1, <1>2, <1>3, <1>4, <1>5 DEF TablesOK, Moves, UsersMove, TokensMove, tokens

\* It deletes rows.
LEMMA RowsDeleted ==
    ASSUME IInv, NEW S, DeleteUsers(S), UNCHANGED <<nextId, tokens, now>>
    PROVE  TablesOK' /\ Moves
<1>1. DOMAIN users' = DOMAIN users \ S /\ \A u \in DOMAIN users' : users'[u] = users[u]
  BY DEF DeleteUsers, Restrict, Users
<1>2. nextId \in Nat /\ now \in Nat
  BY AccountsAssumption DEF IInv, UsersOK
<1>3. UsersOK'
  BY <1>1 DEF IInv, UsersOK
<1>4. TokensOK'
  BY <1>1 DEF IInv, TokensOK, KeyLasts, tokens
<1>5. OneAccountPerAddress'
  BY <1>1 DEF IInv, OneAccountPerAddress, Users
<1> QED
  BY <1>1, <1>2, <1>3, <1>4, <1>5 DEF TablesOK, Moves, UsersMove, TokensMove, tokens

\* It writes one row, keeping its dates and the addresses apart.
LEMMA RowWritten ==
    ASSUME IInv, NEW u \in Users, NEW row \in UserRow,
           row.created_at = users[u].created_at,
           users[u].verified_at => row.verified_at,
           UserOf(row.email) \subseteq {u},
           PutUser(u, row), UNCHANGED <<nextId, tokens, now>>
    PROVE  TablesOK' /\ Moves
<1>1. /\ DOMAIN users' = DOMAIN users
      /\ users'[u] = row
      /\ \A v \in DOMAIN users \ {u} : users'[v] = users[v]
  BY DEF PutUser, Users
<1>2. nextId \in Nat /\ now \in Nat
  BY AccountsAssumption DEF IInv, UsersOK
<1>3. UsersOK'
  BY <1>1 DEF IInv, UsersOK, Users
<1>4. TokensOK'
  BY <1>1 DEF IInv, TokensOK, KeyLasts, tokens
<1>5. OneAccountPerAddress'
  BY <1>1 DEF IInv, OneAccountPerAddress, Users, UserOf
<1> QED
  BY <1>1, <1>2, <1>3, <1>4, <1>5 DEF TablesOK, Moves, UsersMove, TokensMove, tokens

\* It inserts a row under a free address.
LEMMA RowAdded ==
    ASSUME IInv, NEW e \in Emails, UserOf(e) = {}, nextId <= MaxUsers,
           PutUser(nextId, NewUser(e)), nextId' = nextId + 1, UNCHANGED <<tokens, now>>
    PROVE  TablesOK' /\ Moves
<1>0. nextId \in Nat /\ now \in Nat /\ nextId \in Ids /\ nextId \notin DOMAIN users
      /\ nextId' \in 1 .. MaxUsers + 1 /\ nextId' \in Nat /\ nextId < nextId'
  BY AccountsAssumption DEF IInv, UsersOK, Ids
<1>1. /\ DOMAIN users' = DOMAIN users \cup {nextId}
      /\ users'[nextId] = NewUser(e)
      /\ \A v \in DOMAIN users : users'[v] = users[v]
  BY <1>0 DEF PutUser, Users
<1>2. NewUser(e) \in UserRow /\ NewUser(e).created_at = now /\ NewUser(e).email = e
  BY <1>0 DEF NewUser, UserRow
<1>3. UsersOK'
  <2>1. \A u \in DOMAIN users : u < nextId'
    BY <1>0 DEF IInv, UsersOK, Ids
  <2> QED
    BY <1>0, <1>1, <1>2, <2>1 DEF IInv, UsersOK
<1>4. TokensOK'
  <2>1. \A t \in DOMAIN issuedTo : issuedTo[t] \in Ids /\ issuedTo[t] < nextId
                                 /\ issuedTo[t] < nextId' /\ issuedTo[t] # nextId
    BY <1>0 DEF IInv, TokensOK, Ids
  <2>2. \A t \in DOMAIN issuedTo : KeyLasts(t)'
    BY <1>1, <2>1 DEF IInv, TokensOK, KeyLasts, tokens
  <2> QED
    BY <2>1, <2>2 DEF IInv, TokensOK, tokens
<1>5. OneAccountPerAddress'
  BY <1>1, <1>2 DEF IInv, OneAccountPerAddress, Users, UserOf
<1> QED
  BY <1>0, <1>1, <1>2, <1>3, <1>4, <1>5 DEF TablesOK, Moves, UsersMove, TokensMove, tokens

\* It stores a new token for an account that was given its id already.
LEMMA TokenAdded ==
    ASSUME IInv, NEW u \in Ids, u < nextId, NEW t \in Tokens \ DOMAIN issuedTo,
           redis' = [k \in DOMAIN redis \cup {t} |->
                        IF k = t THEN [user |-> u, expires_at |-> now + TTL] ELSE redis[k]],
           issuedTo' = [k \in DOMAIN issuedTo \cup {t} |->
                        IF k = t THEN u ELSE issuedTo[k]],
           UNCHANGED <<users, nextId, emitted, now>>
    PROVE  TablesOK' /\ Moves
<1>0. nextId \in Nat /\ now \in Nat
  BY AccountsAssumption DEF IInv, UsersOK
<1>1. /\ DOMAIN redis' = DOMAIN redis \cup {t}
      /\ redis'[t] = [user |-> u, expires_at |-> now + TTL]
      /\ \A k \in DOMAIN redis : redis'[k] = redis[k]
  BY DEF IInv, TokensOK
<1>2. /\ DOMAIN issuedTo' = DOMAIN issuedTo \cup {t}
      /\ issuedTo'[t] = u
      /\ \A k \in DOMAIN issuedTo : issuedTo'[k] = issuedTo[k]
  OBVIOUS
<1>3. UsersOK'
  BY DEF IInv, UsersOK
<1>4. \A k \in DOMAIN issuedTo : KeyLasts(k)'
  BY <1>1, <1>2 DEF IInv, TokensOK, KeyLasts
<1>5. KeyLasts(t)'
  <2> SUFFICES ASSUME u \in DOMAIN users
               PROVE  users[u].created_at + TTL <= redis'[t].expires_at
    BY <1>1, <1>2 DEF KeyLasts
  <2>1. users[u].created_at \in Nat /\ users[u].created_at <= now
    BY DEF IInv, UsersOK, UserRow
  <2> QED
    BY <1>0, <1>1, <2>1, AccountsAssumption
<1>6. redis'[t] \in Key /\ redis'[t].user = issuedTo'[t]
  BY <1>0, <1>1, <1>2, AccountsAssumption DEF Key
<1>7. TokensOK'
  BY <1>1, <1>2, <1>4, <1>5, <1>6 DEF IInv, TokensOK
<1>8. OneAccountPerAddress'
  BY DEF IInv, OneAccountPerAddress, Users
<1> QED
  BY <1>0, <1>2, <1>3, <1>7, <1>8 DEF TablesOK, Moves, UsersMove, TokensMove

\* It deletes the token of an account that was verified, or is gone.
LEMMA TokenDeleted ==
    ASSUME IInv, NEW t \in DOMAIN issuedTo,
           issuedTo[t] \in DOMAIN users => users[issuedTo[t]].verified_at,
           redis' = Restrict(redis, DOMAIN redis \ {t}),
           UNCHANGED <<users, nextId, issuedTo, emitted, now>>
    PROVE  TablesOK' /\ Moves
<1>0. nextId \in Nat /\ now \in Nat
  BY AccountsAssumption DEF IInv, UsersOK
<1>1. DOMAIN redis' = DOMAIN redis \ {t} /\ \A k \in DOMAIN redis' : redis'[k] = redis[k]
  BY DEF Restrict
<1>2. UsersOK' /\ OneAccountPerAddress'
  BY DEF IInv, UsersOK, OneAccountPerAddress, Users
<1>3. \A k \in DOMAIN issuedTo : KeyLasts(k)'
  BY <1>1 DEF IInv, TokensOK, KeyLasts
<1>4. TokensOK'
  BY <1>1, <1>3 DEF IInv, TokensOK
<1> QED
  BY <1>0, <1>2, <1>4 DEF TablesOK, Moves, UsersMove, TokensMove

-----------------------------------------------------------------------------
(* The steps.                                                              *)

\* A step that keeps the tables and leaves p with a sound request is sound.
LEMMA Stepped ==
    ASSUME IInv, TablesOK', Moves, NEW p \in Handlers, NEW r,
           HandlerOK(r, users', nextId', issuedTo', now'), EndsWith(p, r)
    PROVE  IInv'
BY HandlersKept DEF TablesOK, Moves, IInv

LEMMA Ended ==
    ASSUME IInv, TablesOK', Moves, NEW p \in Handlers, Ends(p)
    PROVE  IInv'
<1>1. HandlerOK(Idle, users', nextId', issuedTo', now')
  BY IdleOK DEF TablesOK, UsersOK
<1> QED
  BY <1>1, Stepped DEF Ends

\* POST /auth/register.
LEMMA RegistrationGood ==
    ASSUME IInv, NEW p \in Handlers,
           \/ \E e \in Emails : Register(p, e)
           \/ DeleteExpired(p) \/ CreateUser(p) \/ StoreToken(p) \/ Emit(p)
    PROVE  IInv'
<1>0. /\ HandlerOK(req[p], users, nextId, issuedTo, now)
      /\ nextId \in 1 .. MaxUsers + 1 /\ nextId \in Nat /\ 0 < nextId
      /\ now \in 0 .. MaxTime /\ now \in Nat /\ now <= now
      /\ DOMAIN users \subseteq Ids /\ Ids \subseteq 0 .. MaxUsers
      /\ 0 \in 0 .. MaxUsers /\ 0 \notin DOMAIN users
      /\ \A u \in DOMAIN users : u < nextId
  BY AccountsAssumption DEF IInv, HandlersOK, UsersOK, Ids
<1>1. ASSUME NEW e \in Emails, Register(p, e) PROVE IInv'
  <2>1. TablesOK' /\ Moves
    BY <1>0, <1>1, RowsKept DEF Register
  <2>2. CASE EndsWith(p, [Idle EXCEPT !.step = "create", !.email = e])
    <3>1. HandlerOK([Idle EXCEPT !.step = "create", !.email = e],
                    users', nextId', issuedTo', now')
      BY <1>0, <1>1 DEF Register, Idle, Request, HandlerOK
    <3> QED
      BY <2>1, <2>2, <3>1, Stepped
  <2>3. ASSUME NEW u \in UserOf(e), Expired(u),
               EndsWith(p, [Idle EXCEPT !.step = "delete", !.email = e, !.user = u])
        PROVE  IInv'
    <3>1. u \in DOMAIN users /\ u < nextId /\ u \in 0 .. MaxUsers
      BY <1>0 DEF UserOf, Users
    <3>2. HandlerOK([Idle EXCEPT !.step = "delete", !.email = e, !.user = u],
                    users', nextId', issuedTo', now')
      BY <1>0, <1>1, <2>3, <3>1 DEF Register, Idle, Request, HandlerOK, Expired
    <3> QED
      BY <2>1, <2>3, <3>2, Stepped
  <2> QED
    BY <1>1, <2>2, <2>3 DEF Register
<1>2. CASE DeleteExpired(p)
  <2>1. TablesOK' /\ Moves
    BY <1>2, RowsDeleted DEF DeleteExpired
  <2>2. CASE Ends(p)
    BY <2>1, <2>2, Ended
  <2>3. CASE EndsWith(p, [req[p] EXCEPT !.step = "create", !.user = 0])
    <3>1. HandlerOK([req[p] EXCEPT !.step = "create", !.user = 0],
                    users', nextId', issuedTo', now')
      BY <1>0, <1>2 DEF DeleteExpired, Request, HandlerOK
    <3> QED
      BY <2>1, <2>3, <3>1, Stepped
  <2> QED
    BY <1>2, <2>2, <2>3 DEF DeleteExpired
<1>3. CASE CreateUser(p)
  <2>1. CASE UserOf(req[p].email) = {}
    <3>1. req[p].email \in Emails /\ req[p] \in Request
      BY <1>0, <1>3 DEF CreateUser, HandlerOK
    <3>2. TablesOK' /\ Moves
      BY <1>3, <2>1, <3>1, RowAdded DEF CreateUser
    <3>3. HandlerOK([req[p] EXCEPT !.step = "setex", !.user = nextId],
                    users', nextId', issuedTo', now')
      <4>1. nextId \in Ids /\ nextId \in 0 .. MaxUsers /\ nextId < nextId'
        BY <1>0, <1>3, <2>1, AccountsAssumption DEF CreateUser, Ids
      <4> QED
        BY <3>1, <4>1 DEF HandlerOK, Request
    <3> QED
      BY <1>3, <2>1, <3>2, <3>3, Stepped DEF CreateUser
  <2>2. CASE UserOf(req[p].email) # {}
    <3>1. TablesOK' /\ Moves
      BY <1>0, <1>3, <2>2, RowsKept DEF CreateUser
    <3> QED
      BY <1>3, <2>2, <3>1, Ended DEF CreateUser
  <2> QED
    BY <2>1, <2>2
<1>4. CASE StoreToken(p)
  <2>1. PICK t \in Tokens \ DOMAIN issuedTo :
           /\ redis' = [k \in DOMAIN redis \cup {t} |->
                 IF k = t THEN [user |-> req[p].user, expires_at |-> now + TTL] ELSE redis[k]]
           /\ issuedTo' = [k \in DOMAIN issuedTo \cup {t} |->
                 IF k = t THEN req[p].user ELSE issuedTo[k]]
           /\ EndsWith(p, [req[p] EXCEPT !.step = "emit", !.token = t])
    BY <1>4 DEF StoreToken
  <2>2. req[p].user \in Ids /\ req[p].user < nextId /\ req[p] \in Request
    BY <1>0, <1>4 DEF StoreToken, HandlerOK
  <2>3. TablesOK' /\ Moves
    BY <1>4, <2>1, <2>2, TokenAdded DEF StoreToken
  <2>4. HandlerOK([req[p] EXCEPT !.step = "emit", !.token = t],
                  users', nextId', issuedTo', now')
    <3>1. t \in DOMAIN issuedTo' /\ nextId' = nextId
      BY <1>4, <2>1 DEF StoreToken
    <3> QED
      BY <2>2, <3>1 DEF HandlerOK, Request
  <2> QED
    BY <2>1, <2>3, <2>4, Stepped
<1>5. CASE Emit(p)
  <2>1. /\ UNCHANGED <<users, nextId, redis, issuedTo, now>>
        /\ emitted' = emitted \cup {req[p].token} /\ Ends(p)
        /\ req[p].token \in DOMAIN issuedTo
    BY <1>0, <1>5 DEF Emit, HandlerOK
  <2>2. TablesOK'
    BY <2>1 DEF IInv, TablesOK, UsersOK, TokensOK, KeyLasts, OneAccountPerAddress, Users
  <2>3. Moves
    BY <1>0, <2>1 DEF Moves, UsersMove, TokensMove
  <2> QED
    BY <2>1, <2>2, <2>3, Ended
<1> QED
  BY <1>1, <1>2, <1>3, <1>4, <1>5

\* GET /auth/verify-email.
LEMMA VerificationGood ==
    ASSUME IInv, NEW p \in Handlers,
           \/ \E t \in Tokens : VerifyEmail(p, t)
           \/ FindUser(p) \/ SetVerified(p) \/ InvalidateToken(p)
    PROVE  IInv'
<1>0. /\ HandlerOK(req[p], users, nextId, issuedTo, now)
      /\ nextId \in 1 .. MaxUsers + 1 /\ nextId \in Nat
      /\ now \in 0 .. MaxTime /\ now \in Nat /\ now <= now
      /\ DOMAIN users \subseteq Ids /\ Ids \subseteq 0 .. MaxUsers
  BY AccountsAssumption DEF IInv, HandlersOK, UsersOK, Ids
<1>1. ASSUME NEW t \in Tokens, VerifyEmail(p, t) PROVE IInv'
  <2>1. TablesOK' /\ Moves
    BY <1>0, <1>1, RowsKept DEF VerifyEmail
  <2>2. t \in DOMAIN issuedTo /\ redis[t].user = issuedTo[t]
        /\ issuedTo[t] \in Ids /\ issuedTo[t] < nextId
    BY <1>1 DEF VerifyEmail, Live, IInv, TokensOK
  <2>3. HandlerOK([Idle EXCEPT !.step = "find", !.token = t, !.user = redis[t].user],
                  users', nextId', issuedTo', now')
    BY <1>0, <1>1, <2>2 DEF VerifyEmail, tokens, Idle, Request, HandlerOK
  <2> QED
    BY <1>1, <2>1, <2>3, Stepped DEF VerifyEmail
<1>2. CASE FindUser(p)
  <2>1. TablesOK' /\ Moves
    BY <1>0, <1>2, RowsKept DEF FindUser
  <2>2. HandlerOK([req[p] EXCEPT !.step = "update"], users', nextId', issuedTo', now')
    BY <1>0, <1>2 DEF FindUser, tokens, Request, HandlerOK
  <2> QED
    BY <1>2, <2>1, <2>2, Stepped, Ended DEF FindUser
<1>3. CASE SetVerified(p)
  <2>1. CASE req[p].user \in Users
    <3> DEFINE u == req[p].user
               row == Verified(users[u])
    <3>1. /\ users[u] \in UserRow /\ row \in UserRow
          /\ row.created_at = users[u].created_at /\ row.verified_at
          /\ row.email = users[u].email
      BY <2>1 DEF IInv, UsersOK, Users, UserRow, Verified
    <3>2. UserOf(row.email) \subseteq {u}
      BY <2>1, <3>1 DEF IInv, OneAccountPerAddress, UserOf
    <3>3. PutUser(u, row) /\ UNCHANGED <<nextId, tokens, now>>
      BY <1>3, <2>1 DEF SetVerified
    <3>4. TablesOK' /\ Moves
      BY <2>1, <3>1, <3>2, <3>3, RowWritten
    <3>5. users'[u].verified_at
      BY <3>1, <3>3 DEF PutUser
    <3>6. HandlerOK([req[p] EXCEPT !.step = "del"], users', nextId', issuedTo', now')
      BY <1>0, <1>3, <3>3, <3>5 DEF SetVerified, tokens, Request, HandlerOK
    <3> QED
      BY <1>3, <2>1, <3>4, <3>6, Stepped DEF SetVerified
  <2>2. CASE req[p].user \notin Users
    <3>1. TablesOK' /\ Moves
      BY <1>0, <1>3, <2>2, RowsKept DEF SetVerified
    <3> QED
      BY <1>3, <2>2, <3>1, Ended DEF SetVerified
  <2> QED
    BY <2>1, <2>2
<1>4. CASE InvalidateToken(p)
  <2>1. /\ req[p].token \in DOMAIN issuedTo /\ issuedTo[req[p].token] = req[p].user
        /\ req[p].user \in DOMAIN users => users[req[p].user].verified_at
    BY <1>0, <1>4 DEF InvalidateToken, HandlerOK
  <2>2. TablesOK' /\ Moves
    BY <1>4, <2>1, TokenDeleted DEF InvalidateToken
  <2> QED
    BY <1>4, <2>2, Ended DEF InvalidateToken
<1> QED
  BY <1>1, <1>2, <1>3, <1>4

\* Administration.
LEMMA AdministrationGood ==
    ASSUME IInv, NEW p \in Handlers,
           \/ \E u \in Users, c \in Changes, e \in Emails \cup {NoEmail} : ChangeUser(p, u, c, e)
           \/ WriteUser(p)
    PROVE  IInv'
<1>0. /\ HandlerOK(req[p], users, nextId, issuedTo, now)
      /\ nextId \in 1 .. MaxUsers + 1 /\ nextId \in Nat
      /\ now \in 0 .. MaxTime /\ now \in Nat /\ now <= now
      /\ DOMAIN users \subseteq Ids /\ Ids \subseteq 0 .. MaxUsers
      /\ \A u \in DOMAIN users : u < nextId
  BY AccountsAssumption DEF IInv, HandlersOK, UsersOK, Ids
<1>1. ASSUME NEW u \in Users, NEW c \in Changes, NEW e \in Emails \cup {NoEmail},
             ChangeUser(p, u, c, e)
      PROVE  IInv'
  <2>1. TablesOK' /\ Moves
    BY <1>0, <1>1, RowsKept DEF ChangeUser
  <2>2. u < nextId /\ u \in 0 .. MaxUsers /\ (c = "email" => e \in Emails)
    BY <1>0, <1>1 DEF ChangeUser, Users
  <2>3. HandlerOK([Idle EXCEPT !.step = "write", !.user = u, !.change = c, !.email = e],
                  users', nextId', issuedTo', now')
    BY <1>0, <1>1, <2>2 DEF ChangeUser, Idle, Request, HandlerOK
  <2> QED
    BY <1>1, <2>1, <2>3, Stepped DEF ChangeUser
<1>2. CASE WriteUser(p)
  <2> DEFINE u == req[p].user
             c == req[p].change
             e == req[p].email
  <2>1. CASE c = "delete"
    <3>1. TablesOK' /\ Moves
      BY <1>2, <2>1, RowsDeleted DEF WriteUser
    <3> QED
      BY <1>2, <3>1, Ended DEF WriteUser
  <2>2. CASE c # "delete"
    <3> DEFINE row == Changed(users[u], c, e)
    <3>1. /\ u \in Users /\ PutUser(u, row) /\ UNCHANGED <<nextId, tokens, now>>
          /\ c = "email" => UserOf(e) \subseteq {u}
          /\ c \in Changes /\ (c = "email" => e \in Emails)
          /\ users[u] \in UserRow
      BY <1>0, <1>2, <2>2 DEF WriteUser, HandlerOK, IInv, UsersOK, Users
    <3>2. /\ row \in UserRow /\ row.created_at = users[u].created_at
          /\ row.verified_at = users[u].verified_at
          /\ row.email = IF c = "email" THEN e ELSE users[u].email
      <4>1. CASE c = "email"
        BY <3>1, <4>1 DEF Changed, UserRow
      <4>2. CASE c = "verify"
        BY <3>1, <4>2 DEF Changed, UserRow
      <4>3. CASE c = "unverify"
        BY <3>1, <4>3 DEF Changed, UserRow
      <4>4. CASE c = "deactivate"
        BY <3>1, <4>4 DEF Changed, UserRow
      <4> QED
        BY <2>2, <3>1, <4>1, <4>2, <4>3, <4>4 DEF Changes
    <3>3. UserOf(row.email) \subseteq {u}
      BY <3>1, <3>2 DEF IInv, OneAccountPerAddress, UserOf
    <3>4. TablesOK' /\ Moves
      BY <3>1, <3>2, <3>3, RowWritten
    <3> QED
      BY <1>2, <3>4, Ended DEF WriteUser
  <2> QED
    BY <2>1, <2>2
<1> QED
  BY <1>1, <1>2

\* Every step keeps the invariant.
LEMMA StepGood == IInv /\ [Next]_vars => IInv'
<1> SUFFICES ASSUME IInv, [Next]_vars PROVE IInv'
  OBVIOUS
<1>0. now \in 0 .. MaxTime /\ now \in Nat /\ now <= now /\ MaxTime \in Nat
  BY AccountsAssumption DEF IInv, UsersOK
<1>1. ASSUME NEW p \in Handlers, Handle(p) PROVE IInv'
  <2>1. CASE Fail(p)
    BY <1>0, <2>1, RowsKept, Ended DEF Fail
  <2> QED
    BY <1>1, <2>1, RegistrationGood, VerificationGood, AdministrationGood DEF Handle
<1>2. ASSUME TablesOK', Moves, req' = req PROVE IInv'
  <2>1. nextId \in Nat /\ nextId' \in Nat /\ now \in Nat /\ now' \in Nat
        /\ \A u \in DOMAIN users : users[u] \in UserRow
    BY <1>2, AccountsAssumption DEF IInv, TablesOK, UsersOK
  <2>2. \A q \in Handlers : HandlerOK(req[q], users', nextId', issuedTo', now')
    BY <1>2, <2>1, HandlerKept DEF IInv, HandlersOK, Moves
  <2> QED
    BY <1>2, <2>2 DEF IInv, TablesOK, HandlersOK
<1>3. CASE CleanupUnverifiedUsers
  BY <1>2, <1>3, RowsDeleted DEF CleanupUnverifiedUsers
<1>4. CASE Tick
  <2>1. now' \in 0 .. MaxTime /\ now <= now'
    BY <1>0, <1>4 DEF Tick
  <2> QED
    BY <1>2, <1>4, <2>1, RowsKept DEF Tick
<1>5. CASE UNCHANGED vars
  BY <1>0, <1>2, <1>5, RowsKept DEF vars, tokens
<1> QED
  BY <1>1, <1>3, <1>4, <1>5 DEF Next

-----------------------------------------------------------------------------

\* The invariant holds in every reachable state.
THEOREM AccountInvariance == Spec => []IInv
BY InitGood, StepGood, PTL DEF Spec

\* The tables, the tokens and the requests stay well-formed.
THEOREM AccountTypeCorrect == Spec => []TypeOK
BY AccountInvariance, IInvSuffices, PTL

\* However registrations and changes of address interleave, the unique index
\* keeps one account per address.
THEOREM AddressesAreUnique == Spec => []OneAccountPerAddress
BY AccountInvariance, IInvSuffices, PTL

\* Between the end of the registration and the end of the verification
\* period there is no moment at which neither another registration nor the
\* token is accepted.
THEOREM NoLimbo == Spec => []BlockedMeansVerifiable
BY AccountInvariance, IInvSuffices, PTL

\* The step of a registration that waits to delete removes the account that
\* the registration found, and no other.
LEMMA DeletesWhatItFound ==
    ASSUME IInv, [Next]_vars, NEW p \in Handlers, NEW u \in Users,
           req[p].step = "delete", req'[p] # req[p], u \notin DOMAIN users'
    PROVE  u = req[p].user
<1>1. req \in [Handlers -> Request]
  BY DEF IInv, HandlersOK
<1>2. ASSUME NEW q \in Handlers, NEW r, EndsWith(q, r) PROVE q = p
  BY <1>1, <1>2 DEF EndsWith
<1>3. PICK q \in Handlers : Handle(q)
  BY DEF Next, CleanupUnverifiedUsers, Tick, vars
<1>4. CASE DeleteExpired(q)
  BY <1>2, <1>4 DEF DeleteExpired, DeleteUsers, Restrict, Users, Ends
<1>5. CASE WriteUser(q)
  BY <1>2, <1>5 DEF WriteUser, Ends
<1>6. CASE CreateUser(q) \/ SetVerified(q)
  BY <1>6 DEF CreateUser, SetVerified, PutUser, Users
<1>7. CASE \/ \E e \in Emails : Register(q, e)
           \/ \E t \in Tokens : VerifyEmail(q, t)
           \/ StoreToken(q) \/ Emit(q) \/ FindUser(q) \/ InvalidateToken(q) \/ Fail(q)
  <2>1. users' = users
    BY <1>7 DEF Register, VerifyEmail, StoreToken, Emit, FindUser, InvalidateToken, Fail
  <2> QED
    BY <2>1 DEF Users
<1>8. CASE \E v \in Users, c \in Changes, e \in Emails \cup {NoEmail} : ChangeUser(q, v, c, e)
  BY <1>8 DEF ChangeUser, Users
<1> QED
  BY <1>3, <1>4, <1>5, <1>6, <1>7, <1>8 DEF Handle

\* A registration deletes only expired accounts: the one it found keeps its
\* id and its creation, whatever happens before the deletion.
THEOREM RegistrationSparesFresh == Spec => FreshAccountsSurvive
<1> DEFINE Kept ==
      \A p \in Handlers, u \in Users :
          req[p].step = "delete" /\ req'[p] # req[p] /\ u \notin DOMAIN users' => Expired(u)
<1>1. ASSUME IInv, [Next]_vars PROVE Kept
  BY <1>1, DeletesWhatItFound DEF IInv, HandlersOK, HandlerOK, Expired, Users
<1>2. IInv /\ [Next]_vars => [Kept]_vars
  BY <1>1
<1>3. FreshAccountsSurvive <=> [][Kept]_vars
  BY DEF FreshAccountsSurvive
<1> QED
  BY AccountInvariance, <1>2, <1>3, PTL DEF Spec

-----------------------------------------------------------------------------
(* Who verifies an account.                                                *)

\* A request that was let in by a link holds a token that was mailed.
LinksOK ==
    \A p \in Handlers : req[p].step \in {"find", "update", "del"} => req[p].token \in emitted

\* A request waits to verify the account u.
VerificationWaits(u) ==
    \E q \in Handlers :
       /\ req[q].user = u
       /\ \/ req[q].step = "update"
          \/ req[q].step = "write" /\ req[q].change = "verify"

\* No verification of an account waits while a registration waits to delete it.
Apart == \A p \in Handlers : req[p].step = "delete" => ~VerificationWaits(req[p].user)

\* What a registration waits to delete is unverified, as it was when read.
StillUnverified ==
    \A p \in Handlers : req[p].step = "delete" /\ req[p].user \in Users
                        => ~users[req[p].user].email_verified

\* A handler's step leaves the other requests alone.
LEMMA OneRequestMoves ==
    ASSUME IInv, NEW p \in Handlers, NEW r \in Request, EndsWith(p, r)
    PROVE  req'[p] = r /\ \A q \in Handlers : q # p => req'[q] = req[q]
BY DEF IInv, HandlersOK, EndsWith

LEMMA IdleIsRequest == Idle \in Request
BY AccountsAssumption DEF Idle, Request

\* The row of an account changes by a verification, by administration, or not
\* at all; and ids that are waited for are not given to new accounts.
LEMMA RowsMove ==
    ASSUME IInv, NEW p \in Handlers, Handle(p), NEW u \in 1 .. nextId - 1, u \in DOMAIN users'
    PROVE  /\ u \in Users
           /\ \/ users'[u].email_verified = users[u].email_verified
              \/ SetVerified(p) /\ req[p].user = u
              \/ WriteUser(p) /\ req[p].user = u /\ req[p].change \in {"verify", "unverify"}
<1>0. /\ HandlerOK(req[p], users, nextId, issuedTo, now) /\ nextId \in Nat /\ u # nextId
  BY AccountsAssumption DEF IInv, HandlersOK, UsersOK
<1>1. CASE DeleteExpired(p)
  BY <1>1 DEF DeleteExpired, DeleteUsers, Restrict, Users
<1>2. CASE CreateUser(p)
  BY <1>0, <1>2 DEF CreateUser, PutUser, Users
<1>3. CASE SetVerified(p)
  BY <1>3 DEF SetVerified, PutUser, Users
<1>4. CASE WriteUser(p)
  <2>1. CASE req[p].change = "delete"
    BY <1>4, <2>1 DEF WriteUser, DeleteUsers, Restrict, Users
  <2>2. CASE req[p].change # "delete"
    <3>1. /\ req[p].user \in Users /\ req[p].change \in Changes
          /\ PutUser(req[p].user, Changed(users[req[p].user], req[p].change, req[p].email))
      BY <1>0, <1>4, <2>2 DEF WriteUser, HandlerOK
    <3>2. u \in Users
      BY <3>1 DEF PutUser
    <3>3. CASE u # req[p].user
      BY <3>1, <3>2, <3>3 DEF PutUser
    <3>4. CASE u = req[p].user /\ req[p].change \in {"email", "deactivate"}
      <4>1. users[u] \in UserRow
        BY <3>2 DEF IInv, UsersOK, Users
      <4>2. users'[u] = Changed(users[u], req[p].change, req[p].email)
        BY <3>1, <3>4 DEF PutUser
      <4>3. CASE req[p].change = "email"
        BY <3>2, <4>1, <4>2, <4>3 DEF Changed, UserRow
      <4>4. CASE req[p].change = "deactivate"
        BY <3>2, <4>1, <4>2, <4>4 DEF Changed, UserRow
      <4> QED
        BY <3>4, <4>3, <4>4
    <3>5. CASE u = req[p].user /\ req[p].change \in {"verify", "unverify"}
      BY <1>4, <3>2, <3>5
    <3> QED
      BY <2>2, <3>1, <3>3, <3>4, <3>5 DEF Changes
  <2> QED
    BY <2>1, <2>2
<1>5. CASE \/ \E e \in Emails : Register(p, e)
           \/ \E t \in Tokens : VerifyEmail(p, t)
           \/ StoreToken(p) \/ Emit(p) \/ FindUser(p) \/ InvalidateToken(p) \/ Fail(p)
  <2>1. users' = users
    BY <1>5 DEF Register, VerifyEmail, StoreToken, Emit, FindUser, InvalidateToken, Fail
  <2> QED
    BY <2>1 DEF Users
<1>6. CASE \E v \in Users, c \in Changes, e \in Emails \cup {NoEmail} : ChangeUser(p, v, c, e)
  BY <1>6 DEF ChangeUser, Users
<1> QED
  BY <1>1, <1>2, <1>3, <1>4, <1>5, <1>6 DEF Handle

\* The requests that a step can leave p with.
LEMMA RequestMoves ==
    ASSUME IInv, NEW p \in Handlers, Handle(p)
    PROVE  \E r \in Request :
              /\ EndsWith(p, r)
              /\ r.step \in {"find", "update", "del"} =>
                    \/ r.token \in emitted
                    \/ req[p].step \in {"find", "update", "del"} /\ r.token = req[p].token
              /\ r.step = "delete" =>
                    r.user \in Users /\ ~users[r.user].email_verified /\ users' = users
<1>0. /\ HandlerOK(req[p], users, nextId, issuedTo, now) /\ req[p] \in Request
      /\ nextId \in 1 .. MaxUsers + 1 /\ nextId \in Nat
      /\ DOMAIN users \subseteq Ids /\ Ids \subseteq 0 .. MaxUsers /\ 0 \in 0 .. MaxUsers
  BY AccountsAssumption DEF IInv, HandlersOK, UsersOK, Ids, HandlerOK
<1> USE IdleIsRequest
<1>1. ASSUME NEW e \in Emails, Register(p, e)
      PROVE  \E r \in Request :
                /\ EndsWith(p, r)
                /\ r.step \in {"create", "delete"}
                /\ r.step = "delete" =>
                      r.user \in Users /\ ~users[r.user].email_verified /\ users' = users
  <2>1. CASE EndsWith(p, [Idle EXCEPT !.step = "create", !.email = e])
    <3>1. [Idle EXCEPT !.step = "create", !.email = e] \in Request
          /\ [Idle EXCEPT !.step = "create", !.email = e].step = "create"
      BY <1>0 DEF Idle, Request
    <3> QED
      BY <2>1, <3>1
  <2>2. ASSUME NEW u \in UserOf(e), ~users[u].email_verified,
               EndsWith(p, [Idle EXCEPT !.step = "delete", !.email = e, !.user = u])
        PROVE  \E r \in Request :
                /\ EndsWith(p, r)
                /\ r.step \in {"create", "delete"}
                /\ r.step = "delete" =>
                      r.user \in Users /\ ~users[r.user].email_verified /\ users' = users
    <3> DEFINE r == [Idle EXCEPT !.step = "delete", !.email = e, !.user = u]
    <3>1. u \in Users /\ u \in 0 .. MaxUsers
      BY <1>0 DEF UserOf, Users
    <3>2. r \in Request /\ r.step = "delete" /\ r.user = u
      BY <1>0, <3>1 DEF Idle, Request
    <3>3. users' = users
      BY <1>1 DEF Register
    <3> QED
      BY <2>2, <3>1, <3>2, <3>3
  <2> QED
    BY <1>1, <2>1, <2>2 DEF Register
<1>2. ASSUME NEW t \in Tokens, VerifyEmail(p, t)
      PROVE  \E r \in Request : EndsWith(p, r) /\ r.step = "find" /\ r.token \in emitted
  <2> DEFINE r == [Idle EXCEPT !.step = "find", !.token = t, !.user = redis[t].user]
  <2>1. redis[t].user \in 0 .. MaxUsers /\ t \in emitted /\ EndsWith(p, r)
    BY <1>0, <1>2 DEF VerifyEmail, Live, IInv, TokensOK, Key
  <2>2. r \in Request /\ r.step = "find" /\ r.token = t
    BY <2>1 DEF Idle, Request
  <2> QED
    BY <2>1, <2>2
<1>3. ASSUME NEW v \in Users, NEW c \in Changes, NEW e \in Emails \cup {NoEmail},
             ChangeUser(p, v, c, e)
      PROVE  \E r \in Request : EndsWith(p, r) /\ r.step = "write"
  <2> DEFINE r == [Idle EXCEPT !.step = "write", !.user = v, !.change = c, !.email = e]
  <2>1. v \in 0 .. MaxUsers
    BY <1>0 DEF Users
  <2>2. r \in Request /\ r.step = "write"
    BY <2>1 DEF Idle, Request
  <2> QED
    BY <1>3, <2>2 DEF ChangeUser
<1>4. CASE Ends(p)
  BY <1>4 DEF Ends, Idle
<1>5. CASE DeleteExpired(p) \/ CreateUser(p) \/ StoreToken(p)
  <2>1. ASSUME NEW r \in Request, EndsWith(p, r), r.step \in {"create", "setex", "emit"}
        PROVE  \E x \in Request : EndsWith(p, x) /\ x.step \in {"create", "setex", "emit"}
    BY <2>1
  <2>2. CASE DeleteExpired(p) /\ ~Ends(p)
    <3>1. [req[p] EXCEPT !.step = "create", !.user = 0] \in Request
      BY <1>0 DEF Request
    <3> QED
      BY <1>0, <2>2, <3>1 DEF DeleteExpired, Request
  <2>3. CASE CreateUser(p) /\ ~Ends(p)
    <3>1. nextId \in 0 .. MaxUsers
      BY <1>0, <2>3, AccountsAssumption DEF CreateUser
    <3>2. [req[p] EXCEPT !.step = "setex", !.user = nextId] \in Request
      BY <1>0, <3>1 DEF Request
    <3> QED
      BY <1>0, <2>3, <3>2 DEF CreateUser, Request
  <2>4. CASE StoreToken(p)
    <3>1. PICK t \in Tokens : EndsWith(p, [req[p] EXCEPT !.step = "emit", !.token = t])
      BY <2>4 DEF StoreToken
    <3>2. [req[p] EXCEPT !.step = "emit", !.token = t] \in Request
      BY <1>0 DEF Request
    <3> QED
      BY <1>0, <3>1, <3>2 DEF Request
  <2> QED
    BY <1>4, <1>5, <2>2, <2>3, <2>4
<1>6. CASE (FindUser(p) \/ SetVerified(p)) /\ ~Ends(p)
  <2>1. ASSUME NEW s \in {"update", "del"}, EndsWith(p, [req[p] EXCEPT !.step = s])
        PROVE  \E r \in Request :
                  EndsWith(p, r) /\ r.step \in {"update", "del"} /\ r.token = req[p].token
    <3>1. [req[p] EXCEPT !.step = s] \in Request
      BY <1>0 DEF Request
    <3> QED
      BY <1>0, <2>1, <3>1 DEF Request
  <2>2. req[p].step \in {"find", "update"}
    BY <1>6 DEF FindUser, SetVerified
  <2>3. EndsWith(p, [req[p] EXCEPT !.step = "update"])
        \/ EndsWith(p, [req[p] EXCEPT !.step = "del"])
    BY <1>6 DEF FindUser, SetVerified
  <2> QED
    BY <2>1, <2>2, <2>3
<1>7. CASE Emit(p) \/ InvalidateToken(p) \/ WriteUser(p) \/ Fail(p)
  BY <1>4, <1>7 DEF Emit, InvalidateToken, WriteUser, Fail
<1> QED
  BY <1>1, <1>2, <1>3, <1>4, <1>5, <1>6, <1>7 DEF Handle

\* A step that is nobody's writes no request; it removes rows or nothing.
LEMMA NobodysStep ==
    ASSUME CleanupUnverifiedUsers \/ Tick \/ UNCHANGED vars
    PROVE  /\ req' = req /\ emitted' = emitted /\ issuedTo' = issuedTo
           /\ \A u \in DOMAIN users' : u \in Users /\ users'[u] = users[u]
BY DEF CleanupUnverifiedUsers, DeleteUsers, Restrict, Users, Tick, vars, tokens

LEMMA LinksStep == IInv /\ LinksOK /\ [Next]_vars => LinksOK'
<1> SUFFICES ASSUME IInv, LinksOK, [Next]_vars PROVE LinksOK'
  OBVIOUS
<1>1. ASSUME NEW p \in Handlers, Handle(p) PROVE LinksOK'
  <2>1. PICK r \in Request :
           /\ EndsWith(p, r)
           /\ r.step \in {"find", "update", "del"} =>
                 \/ r.token \in emitted
                 \/ req[p].step \in {"find", "update", "del"} /\ r.token = req[p].token
    BY <1>1, RequestMoves
  <2>2. emitted \subseteq emitted'
    BY <1>1 DEF Handle, Register, DeleteExpired, CreateUser, StoreToken, Emit, VerifyEmail,
                FindUser, SetVerified, InvalidateToken, ChangeUser, WriteUser, Fail, tokens
  <2>3. req'[p] = r /\ \A q \in Handlers : q # p => req'[q] = req[q]
    BY <2>1, OneRequestMoves
  <2> QED
    BY <2>1, <2>2, <2>3 DEF LinksOK
<1>2. CASE CleanupUnverifiedUsers \/ Tick \/ UNCHANGED vars
  BY <1>2, NobodysStep DEF LinksOK
<1> QED
  BY <1>1, <1>2 DEF Next

\* Every request that was let in by a link holds a token that was mailed.
LEMMA LinksWereMailed == Spec => []LinksOK
<1>1. Init => LinksOK
  BY DEF Init, LinksOK, Idle
<1> QED
  BY AccountInvariance, <1>1, LinksStep, PTL DEF Spec

\* Only the link mailed for an account, or an administrator, verifies it,
\* although the read of the token, the read of the account and the write are
\* three awaited calls, between which the account may be deleted and its
\* address registered anew.
THEOREM OnlyItsLinkVerifies == Spec => VerifiedByItsLink
<1> DEFINE Kept ==
      \A u \in Users : u \in DOMAIN users' /\ ~users[u].email_verified
                       /\ users'[u].email_verified =>
          \E p \in Handlers :
             /\ req'[p] # req[p]
             /\ req[p].user = u
             /\ \/ /\ req[p].step = "update"
                   /\ req[p].token \in emitted
                   /\ issuedTo[req[p].token] = u
                \/ req[p].step = "write" /\ req[p].change = "verify"
<1>1. ASSUME IInv, LinksOK, [Next]_vars PROVE Kept
  <2> SUFFICES ASSUME NEW u \in Users, u \in DOMAIN users', ~users[u].email_verified,
                      users'[u].email_verified
               PROVE  \E p \in Handlers :
                         /\ req'[p] # req[p]
                         /\ req[p].user = u
                         /\ \/ /\ req[p].step = "update"
                               /\ req[p].token \in emitted
                               /\ issuedTo[req[p].token] = u
                            \/ req[p].step = "write" /\ req[p].change = "verify"
    OBVIOUS
  <2>1. PICK p \in Handlers : Handle(p)
    BY <1>1, NobodysStep DEF Next
  <2>2. u \in 1 .. nextId - 1 /\ users[u] \in UserRow
    BY <1>1, AccountsAssumption DEF IInv, UsersOK, Users, Ids
  <2>3. /\ req[p].user = u
        /\ \/ SetVerified(p)
           \/ WriteUser(p) /\ req[p].change \in {"verify", "unverify"}
    <3>1. users'[u].email_verified # users[u].email_verified
      OBVIOUS
    <3>2. \/ users'[u].email_verified = users[u].email_verified
          \/ SetVerified(p) /\ req[p].user = u
          \/ WriteUser(p) /\ req[p].user = u /\ req[p].change \in {"verify", "unverify"}
      BY <1>1, <2>1, <2>2, RowsMove
    <3> QED
      BY <3>1, <3>2
  <2>4. HandlerOK(req[p], users, nextId, issuedTo, now) /\ req \in [Handlers -> Request]
    BY <1>1 DEF IInv, HandlersOK
  <2>5. CASE SetVerified(p)
    <3>1. req[p].step = "update" /\ req'[p].step = "del"
      BY <2>3, <2>4, <2>5 DEF SetVerified, EndsWith, Request
    <3>2. req[p].token \in emitted /\ issuedTo[req[p].token] = u
      BY <1>1, <2>3, <2>4, <3>1 DEF LinksOK, HandlerOK
    <3> QED
      BY <2>3, <3>1, <3>2
  <2>6. CASE WriteUser(p) /\ req[p].change \in {"verify", "unverify"}
    <3>1. req[p].step = "write" /\ req'[p].step = "idle"
      BY <2>4, <2>6 DEF WriteUser, Ends, EndsWith, Idle
    <3>2. CASE req[p].change = "verify"
      BY <2>3, <3>1, <3>2
    <3>3. CASE req[p].change = "unverify"
      <4>1. users'[u] = [users[u] EXCEPT !.email_verified = FALSE]
        BY <2>3, <2>6, <3>3 DEF WriteUser, PutUser, Changed
      <4> QED
        BY <2>2, <4>1 DEF UserRow
    <3> QED
      BY <2>6, <3>2, <3>3
  <2> QED
    BY <2>3, <2>5, <2>6
<1>2. IInv /\ LinksOK /\ [Next]_vars => [Kept]_vars
  BY <1>1
<1>3. VerifiedByItsLink <=> [][Kept]_vars
  BY DEF VerifiedByItsLink
<1> QED
  BY AccountInvariance, LinksWereMailed, <1>2, <1>3, PTL DEF Spec

LEMMA UnverifiedStep == IInv /\ Apart /\ StillUnverified /\ [Next]_vars => StillUnverified'
<1> SUFFICES ASSUME IInv, Apart, StillUnverified, [Next]_vars,
                    NEW q \in Handlers, req'[q].step = "delete", req'[q].user \in DOMAIN users'
             PROVE  ~users'[req'[q].user].email_verified
  BY DEF StillUnverified, Users
<1>1. ASSUME NEW p \in Handlers, Handle(p)
      PROVE  ~users'[req'[q].user].email_verified
  <2>1. PICK r \in Request :
           /\ EndsWith(p, r)
           /\ r.step = "delete" =>
                 r.user \in Users /\ ~users[r.user].email_verified /\ users' = users
    BY <1>1, RequestMoves
  <2>2. req'[p] = r /\ \A o \in Handlers : o # p => req'[o] = req[o]
    BY <2>1, OneRequestMoves
  <2>3. CASE q = p
    BY <2>1, <2>2, <2>3
  <2>4. CASE q # p
    <3> DEFINE u == req[q].user
    <3>1. req'[q] = req[q] /\ HandlerOK(req[q], users, nextId, issuedTo, now)
      BY <2>2, <2>4 DEF IInv, HandlersOK
    <3>2. u \in 1 .. nextId - 1 /\ u \in DOMAIN users'
      <4>1. u \in Nat /\ u < nextId /\ nextId \in Nat
        BY <3>1, AccountsAssumption DEF HandlerOK, Request, IInv, UsersOK
      <4>2. u # 0
        <5>1. DOMAIN users' \subseteq Ids
          BY <1>1, StepGood DEF Next, IInv, UsersOK
        <5> QED
          BY <3>1, <5>1 DEF Ids
      <4> QED
        BY <3>1, <4>1, <4>2
    <3>3. ~(SetVerified(p) /\ req[p].user = u)
      BY <3>1 DEF Apart, VerificationWaits, SetVerified
    <3>4. u \in Users /\ ~users[u].email_verified /\ users[u] \in UserRow
      BY <1>1, <3>1, <3>2, RowsMove DEF StillUnverified, IInv, UsersOK, Users
    <3>5. CASE users'[u].email_verified = users[u].email_verified
      BY <3>1, <3>4, <3>5
    <3>6. CASE WriteUser(p) /\ req[p].user = u /\ req[p].change \in {"verify", "unverify"}
      <4>1. req[p].change # "verify"
        BY <3>1, <3>6 DEF Apart, VerificationWaits, WriteUser
      <4>2. users'[u] = [users[u] EXCEPT !.email_verified = FALSE]
        BY <3>6, <4>1 DEF WriteUser, PutUser, Changed
      <4> QED
        BY <3>1, <3>4, <4>2 DEF UserRow
    <3> QED
      BY <1>1, <3>2, <3>3, <3>5, <3>6, RowsMove
  <2> QED
    BY <2>3, <2>4
<1>2. CASE CleanupUnverifiedUsers \/ Tick \/ UNCHANGED vars
  BY <1>2, NobodysStep DEF StillUnverified
<1> QED
  BY <1>1, <1>2 DEF Next

\* What a registration deletes is unverified as long as no verification of
\* that account waits between its read and its write while the registration
\* waits to delete: that interleaving is the only way to the deletion of a
\* verified account.
THEOREM OnlyTheRaceLosesVerified == Spec /\ []Apart => VerifiedAccountsSurvive
<1> DEFINE Kept ==
      \A p \in Handlers, u \in Users :
          req[p].step = "delete" /\ req'[p] # req[p] /\ u \notin DOMAIN users'
          => ~users[u].email_verified
<1>1. Init => StillUnverified
  BY DEF Init, StillUnverified, Idle
<1>2. IInv /\ StillUnverified /\ [Next]_vars => [Kept]_vars
  BY DeletesWhatItFound DEF StillUnverified
<1>3. VerifiedAccountsSurvive <=> [][Kept]_vars
  BY DEF VerifiedAccountsSurvive
<1> QED
  BY AccountInvariance, <1>1, UnverifiedStep, <1>2, <1>3, PTL DEF Spec
=============================================================================
