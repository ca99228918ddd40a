------------------------------ MODULE Accounts ------------------------------
(***************************************************************************)
(* Accounts of auth-service: registration, e-mail verification with tokens *)
(* in Redis, re-registration of an expired account, and what               *)
(* administration and the monthly clean-up do to accounts.                 *)
(*                                                                         *)
(* Each awaited call of PostgreSQL or Redis is one action; between two     *)
(* calls a handler waits in req with what it has read.  A request that is  *)
(* refused before its first write is not a step.                           *)
(***************************************************************************)
EXTENDS Naturals, FiniteSets, Functions

CONSTANTS
    Emails,     \* addresses in lower case
    Tokens,     \* verification tokens randomBytes may draw, each drawn once
    Handlers,   \* requests in flight
    NoEmail, NoToken,
    TTL,        \* EMAIL_VERIFICATION_TOKEN: of the Redis key, and of an unverified account
    MaxUsers,   \* bound: accounts created
    MaxTime,    \* bound: ticks of the clock
    Workload    \* bound: the kinds of requests

Changes == {"email", "verify", "unverify", "deactivate", "delete"}

ASSUME AccountsAssumption ==
    /\ NoEmail \notin Emails
    /\ NoToken \notin Tokens
    /\ TTL \in Nat /\ MaxUsers \in Nat /\ MaxTime \in Nat
    /\ Workload \subseteq {"register", "verify_email", "cleanup"} \cup Changes

VARIABLES
    users,      \* the table users: from ids to rows
    nextId,     \* its sequence: an id is never given twice
    redis,      \* the keys email:verification:*
    issuedTo,   \* history: the account each token was drawn for
    emitted,    \* tokens in the events sent to email-service
    req,        \* the handlers
    now

vars == <<users, nextId, redis, issuedTo, emitted, req, now>>

Ids == 1 .. MaxUsers

UserRow == [email : Emails, email_verified : BOOLEAN,
            verified_at : BOOLEAN,   \* TRUE when email_verified_at is not null
            is_active : BOOLEAN, created_at : Nat]
Key == [user : Ids, expires_at : Nat]

\* step: the call that the handler makes next.
Request == [step : {"idle", "delete", "create", "setex", "emit", "find", "update",
                    "del", "write"},
            user : 0 .. MaxUsers, email : Emails \cup {NoEmail},
            token : Tokens \cup {NoToken}, change : Changes \cup {"none"}]

Idle == [step |-> "idle", user |-> 0, email |-> NoEmail, token |-> NoToken,
         change |-> "none"]

TypeOK ==
    /\ DOMAIN users \subseteq Ids /\ \A u \in DOMAIN users : users[u] \in UserRow
    /\ nextId \in 1 .. MaxUsers + 1
    /\ DOMAIN redis \subseteq Tokens /\ \A t \in DOMAIN redis : redis[t] \in Key
    /\ DOMAIN issuedTo \subseteq Tokens /\ \A t \in DOMAIN issuedTo : issuedTo[t] \in Ids
    /\ emitted \subseteq DOMAIN issuedTo
    /\ req \in [Handlers -> Request]
    /\ now \in 0 .. MaxTime

-----------------------------------------------------------------------------

Users == DOMAIN users
Expired(u) == users[u].created_at + TTL < now
Live(t) == t \in DOMAIN redis /\ now <= redis[t].expires_at
UserOf(e) == {u \in Users : users[u].email = e}

DeleteUsers(S) == users' = Restrict(users, Users \ S)
PutUser(u, row) == users' = [v \in Users \cup {u} |-> IF v = u THEN row ELSE users[v]]
EndsWith(p, r) == req' = [req EXCEPT ![p] = r]
Ends(p) == EndsWith(p, Idle)

tokens == <<redis, issuedTo, emitted>>

-----------------------------------------------------------------------------
(* POST /auth/register.                                                    *)

\* The read of checkIfUserUnverifiedAndDelete; a verified account, or one in
\* its verification period, is a conflict.
Register(p, e) ==
    /\ "register" \in Workload
    /\ req[p] = Idle
    /\ \/ /\ UserOf(e) = {}
          /\ EndsWith(p, [Idle EXCEPT !.step = "create", !.email = e])
       \/ \E u \in UserOf(e) :
             /\ ~users[u].email_verified
             /\ Expired(u)
             /\ EndsWith(p, [Idle EXCEPT !.step = "delete", !.email = e, !.user = u])
    /\ UNCHANGED <<users, nextId, tokens, now>>

\* Variant that deletes by address.
DeleteExpiredByEmail(p) ==
    /\ req[p].step = "delete"
    /\ DeleteUsers(UserOf(req[p].email))
    /\ IF UserOf(req[p].email) # {}
       THEN EndsWith(p, [req[p] EXCEPT !.step = "create", !.user = 0])
       ELSE Ends(p)
    /\ UNCHANGED <<nextId, tokens, now>>

\* user.delete by id; an error when it is gone.
DeleteExpired(p) ==
    /\ req[p].step = "delete"
    /\ DeleteUsers({req[p].user})
    /\ IF req[p].user \in Users
       THEN EndsWith(p, [req[p] EXCEPT !.step = "create", !.user = 0])
       ELSE Ends(p)
    /\ UNCHANGED <<nextId, tokens, now>>

NewUser(e) == [email |-> e, email_verified |-> FALSE, verified_at |-> FALSE,
               is_active |-> TRUE, created_at |-> now]

\* Variant without the unique index.
CreateUserUnchecked(p) ==
    /\ req[p].step = "create"
    /\ nextId <= MaxUsers
    /\ PutUser(nextId, NewUser(req[p].email))
    /\ nextId' = nextId + 1
    /\ EndsWith(p, [req[p] EXCEPT !.step = "setex", !.user = nextId])
    /\ UNCHANGED <<tokens, now>>

\* user.create; the unique index on email is the only check made with it.
CreateUser(p) ==
    /\ req[p].step = "create"
    /\ IF UserOf(req[p].email) = {}
       THEN /\ nextId <= MaxUsers
            /\ PutUser(nextId, NewUser(req[p].email))
            /\ nextId' = nextId + 1
            /\ EndsWith(p, [req[p] EXCEPT !.step = "setex", !.user = nextId])
       ELSE UNCHANGED <<users, nextId>> /\ Ends(p)
    /\ UNCHANGED <<tokens, now>>

\* generateVerificationToken.
StoreToken(p) ==
    /\ req[p].step = "setex"
    /\ \E t \in Tokens \ DOMAIN issuedTo :
          /\ redis' = [k \in DOMAIN redis \cup {t} |->
                          IF k = t THEN [user |-> req[p].user, expires_at |-> now + TTL]
                          ELSE redis[k]]
          /\ issuedTo' = [k \in DOMAIN issuedTo \cup {t} |->
                          IF k = t THEN req[p].user ELSE issuedTo[k]]
          /\ EndsWith(p, [req[p] EXCEPT !.step = "emit", !.token = t])
    /\ UNCHANGED <<users, nextId, emitted, now>>

\* The event is emitted and the request answered.
Emit(p) ==
    /\ req[p].step = "emit"
    /\ emitted' = emitted \cup {req[p].token}
    /\ Ends(p)
    /\ UNCHANGED <<users, nextId, redis, issuedTo, now>>

-----------------------------------------------------------------------------
(* GET /auth/verify-email.                                                 *)

\* Variant that consumes the token with the read.
VerifyEmailGetDel(p, t) ==
    /\ "verify_email" \in Workload
    /\ req[p] = Idle
    /\ t \in emitted
    /\ Live(t)
    /\ EndsWith(p, [Idle EXCEPT !.step = "find", !.token = t, !.user = redis[t].user])
    /\ redis' = Restrict(redis, DOMAIN redis \ {t})
    /\ UNCHANGED <<users, nextId, issuedTo, emitted, now>>

\* verifyToken.  The link was mailed; it may be opened more than once.
VerifyEmail(p, t) ==
    /\ "verify_email" \in Workload
    /\ req[p] = Idle
    /\ t \in emitted
    /\ Live(t)
    /\ EndsWith(p, [Idle EXCEPT !.step = "find", !.token = t, !.user = redis[t].user])
    /\ UNCHANGED <<users, nextId, tokens, now>>

MayVerify(u) == u \in Users /\ users[u].is_active /\ ~users[u].email_verified

FindUser(p) ==
    /\ req[p].step = "find"
    /\ IF MayVerify(req[p].user)
       THEN EndsWith(p, [req[p] EXCEPT !.step = "update"])
       ELSE Ends(p)
    /\ UNCHANGED <<users, nextId, tokens, now>>

Verified(row) == [row EXCEPT !.email_verified = TRUE, !.verified_at = TRUE]

\* user.update by id; an error when the user is gone.
SetVerified(p) ==
    /\ req[p].step = "update"
    /\ IF req[p].user \in Users
       THEN /\ PutUser(req[p].user, Verified(users[req[p].user]))
            /\ EndsWith(p, [req[p] EXCEPT !.step = "del"])
       ELSE UNCHANGED users /\ Ends(p)
    /\ UNCHANGED <<nextId, tokens, now>>

\* invalidateToken, and the answer 200.
InvalidateToken(p) ==
    /\ req[p].step = "del"
    /\ redis' = Restrict(redis, DOMAIN redis \ {req[p].token})
    /\ Ends(p)
    /\ UNCHANGED <<users, nextId, issuedTo, emitted, now>>

-----------------------------------------------------------------------------
(* updateUser, softDeleteUser, hardDeleteUser and the monthly clean-up.    *)

\* Variant that writes fields the request does not have.
ChangeUserAnyField(p, u, change, e) ==
    /\ change \in Workload \cap Changes
    /\ req[p] = Idle
    /\ u \in Users
    /\ users[u].is_active \/ change = "delete"
    /\ EndsWith(p, [Idle EXCEPT !.step = "write", !.user = u, !.change = change, !.email = e])
    /\ UNCHANGED <<users, nextId, tokens, now>>

\* The read and the checks; a hard deletion does not ask for is_active.
ChangeUser(p, u, change, e) ==
    /\ change \in Workload \cap Changes
    /\ req[p] = Idle
    /\ u \in Users
    /\ users[u].is_active \/ change = "delete"
    /\ change = "email" <=> e # NoEmail
    /\ EndsWith(p, [Idle EXCEPT !.step = "write", !.user = u, !.change = change, !.email = e])
    /\ UNCHANGED <<users, nextId, tokens, now>>

\* Variant: an address that an administrator enters counts as verified.
ChangedAndVerified(row, change, e) ==
    CASE change = "email"      -> [row EXCEPT !.email = e, !.email_verified = TRUE]
      [] change = "verify"     -> [row EXCEPT !.email_verified = TRUE]
      [] change = "unverify"   -> [row EXCEPT !.email_verified = FALSE]
      [] change = "deactivate" -> [row EXCEPT !.is_active = FALSE]

Changed(row, change, e) ==
    CASE change = "email"      -> [row EXCEPT !.email = e]
      [] change = "verify"     -> [row EXCEPT !.email_verified = TRUE]
      [] change = "unverify"   -> [row EXCEPT !.email_verified = FALSE]
      [] change = "deactivate" -> [row EXCEPT !.is_active = FALSE]

\* The write by id; the unique index refuses an address that is taken.
WriteUser(p) ==
    /\ req[p].step = "write"
    /\ LET u == req[p].user
           e == req[p].email
       IN  \/ /\ req[p].change = "delete"
              /\ DeleteUsers({u})
           \/ /\ req[p].change # "delete"
              /\ u \in Users
              /\ req[p].change = "email" => UserOf(e) \subseteq {u}
              /\ PutUser(u, Changed(users[u], req[p].change, e))
    /\ Ends(p)
    /\ UNCHANGED <<nextId, tokens, now>>

CleanupUnverifiedUsers ==
    /\ "cleanup" \in Workload
    /\ LET S == {u \in Users : ~users[u].email_verified /\ Expired(u)}
       IN  S # {} /\ DeleteUsers(S)
    /\ UNCHANGED <<nextId, tokens, req, now>>

-----------------------------------------------------------------------------

\* A call fails, or the process dies: nothing is rolled back.
Fail(p) ==
    /\ req[p] # Idle
    /\ Ends(p)
    /\ UNCHANGED <<users, nextId, tokens, now>>

Tick ==
    /\ now < MaxTime
    /\ now' = now + 1
    /\ UNCHANGED <<users, nextId, tokens, req>>

Init ==
    /\ users = << >>
    /\ nextId = 1
    /\ redis = << >>
    /\ issuedTo = << >>
    /\ emitted = {}
    /\ req = [p \in Handlers |-> Idle]
    /\ now = 0

Handle(p) ==
    \/ \E e \in Emails : Register(p, e)
    \/ DeleteExpired(p)
    \/ CreateUser(p)
    \/ StoreToken(p)
    \/ Emit(p)
    \/ \E t \in Tokens : VerifyEmail(p, t)
    \/ FindUser(p)
    \/ SetVerified(p)
    \/ InvalidateToken(p)
    \/ \E u \in Users, c \in Changes, e \in Emails \cup {NoEmail} : ChangeUser(p, u, c, e)
    \/ WriteUser(p)
    \/ Fail(p)

Next == (\E p \in Handlers : Handle(p)) \/ CleanupUnverifiedUsers \/ Tick

Spec == Init /\ [][Next]_vars

-----------------------------------------------------------------------------
(* Properties.                                                             *)

\* The check for the address and the insert are two calls; two registrations,
\* or one and a change of address, still never share it.
OneAccountPerAddress ==
    \A u, v \in Users : users[u].email = users[v].email => u = v

\* A registration whose token was stored never leaves its address in limbo:
\* as long as the unverified account blocks another registration, its token
\* is live.  The two periods are measured from different moments.
BlockedMeansVerifiable ==
    \A t \in DOMAIN issuedTo :
        LET u == issuedTo[t]
        IN  u \in Users /\ ~users[u].verified_at /\ ~Expired(u) => Live(t)

\* A registration that found an expired account never deletes a newer one,
\* though others replace the account under the same address meanwhile.
FreshAccountsSurvive ==
    [][\A p \in Handlers, u \in Users :
          req[p].step = "delete" /\ req'[p] # req[p] /\ u \notin DOMAIN users'
          => Expired(u)]_vars

\* "Deleted expired unverified account" (auth.service.ts:182): a registration
\* deletes no verified account.
VerifiedAccountsSurvive ==
    [][\A p \in Handlers, u \in Users :
          req[p].step = "delete" /\ req'[p] # req[p] /\ u \notin DOMAIN users'
          => ~users[u].email_verified]_vars

\* An account becomes verified by a request that opened the link mailed for
\* this very account, or by an administrator who asked for it.  The read of
\* the token, the read of the account and the write are three awaited calls,
\* between which the account may be deleted and its address registered anew.
VerifiedByItsLink ==
    [][\A u \in Users : u \in DOMAIN users' /\ ~users[u].email_verified
                        /\ users'[u].email_verified =>
          \E p \in Handlers :
             /\ req'[p] # req[p]
             /\ req[p].user = u
             /\ \/ /\ req[p].step = "update"
                   /\ req[p].token \in emitted
                   /\ issuedTo[req[p].token] = u
                \/ req[p].step = "write" /\ req[p].change = "verify"]_vars
=============================================================================
