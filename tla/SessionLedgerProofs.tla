------------------------ MODULE SessionLedgerProofs ------------------------
(***************************************************************************)
(* The handlers, cron jobs and tables of Sessions implement SessionLedger. *)
(* Each of the six ways a step changes the tables is one step of the       *)
(* ledger or leaves it alone: a new token opens a session, deleted tokens  *)
(* end theirs, deleted users take theirs along, and touching or rotating a *)
(* token is invisible.                                                     *)
(***************************************************************************)
EXTENDS SessionsProofs

\* The sign-ins that took place.
IsSession(s) == s \in DOMAIN jwt /\ jwt[s].session = s

\* What the refinement mapping says of one session.
LEMMA MappedSession ==
    ASSUME NEW s \in TokenIds
    PROVE  /\ ~IsSession(s) => SessionStatus[s] = "new" /\ SessionOwner[s] = Null
           /\ IsSession(s) => /\ SessionStatus[s] = IF IsOpen(s) THEN "open" ELSE "ended"
                              /\ SessionOwner[s] = jwt[s].userId
BY DEF IsSession, SessionStatus, SessionOwner

\* Whatever is open was once opened.
LEMMA OpenIsSession ==
    ASSUME TablesOK, NEW s, IsOpen(s) PROVE IsSession(s) /\ s \in TokenIds
BY DEF TablesOK, RowOK, ClaimsOK, IsOpen, IsSession

\* The ledger sees nothing of a step that keeps the accounts and every session's state.
LEMMA SameSessions ==
    ASSUME DOMAIN users' = DOMAIN users,
           \A s \in TokenIds : /\ IsSession(s)' <=> IsSession(s)
                               /\ IsOpen(s)' <=> IsOpen(s)
                               /\ IsSession(s) => jwt'[s] = jwt[s]
    PROVE  UNCHANGED <<DOMAIN users, SessionStatus, SessionOwner>>
<1>1. SessionStatus' = SessionStatus
  BY DEF SessionStatus, IsSession
<1>2. SessionOwner' = SessionOwner
  BY DEF SessionOwner, IsSession
<1> QED
  BY <1>1, <1>2

\* A session whose token is new opens; the others do not change.
LEMMA CreatingOpens ==
    ASSUME TablesOK, NEW u, NEW d, NEW t, CreatesToken(u, d, t) PROVE Ledger!Open(t, u, {})
<1> USE DEF CreatesToken
<1>1. /\ DOMAIN refresh_tokens' = DOMAIN refresh_tokens \cup {t}
      /\ DOMAIN jwt' = DOMAIN jwt \cup {t}
      /\ \A i \in DOMAIN jwt : jwt'[i] = jwt[i]
      /\ jwt'[t].session = t /\ jwt'[t].userId = u
  BY DEF PutToken
<1>2. \A i \in DOMAIN refresh_tokens : i \in DOMAIN jwt
  BY DEF TablesOK, RowOK
<1>3. \A s \in TokenIds \ {t} : IsOpen(s)' <=> IsOpen(s)
  BY <1>1, <1>2 DEF IsOpen
<1>4. IsOpen(t)'
  BY <1>1 DEF IsOpen
<1>5. SessionStatus[t] = "new"
  BY DEF SessionStatus
<1>6. SessionStatus' = [SessionStatus EXCEPT ![t] = "open"]
  BY <1>1, <1>3, <1>4 DEF SessionStatus
<1>8. Ledger!Ended({}) = SessionStatus
  BY DEF Ledger!Ended, SessionStatus
<1>7. SessionOwner' = [SessionOwner EXCEPT ![t] = u]
  BY <1>1 DEF SessionOwner
<1> QED
  BY <1>5, <1>6, <1>7, <1>8 DEF Ledger!Open

\* Deleting tokens ends the sessions they stood for.
LEMMA RemovingEnds ==
    ASSUME TablesOK, NEW S, RemovesTokens(S)
    PROVE  \E E \in SUBSET Ledger!OpenSessions : Ledger!End(E)
<1> DEFINE E == {s \in TokenIds : IsOpen(s) /\ ~IsOpen(s)'}
<1>1. DOMAIN refresh_tokens' \subseteq DOMAIN refresh_tokens /\ jwt' = jwt
  BY DEF RemovesTokens, DeleteTokens, Restrict
<1>2. \A s \in TokenIds : IsOpen(s)' => IsOpen(s)
  BY <1>1 DEF IsOpen
<1>3. \A s \in E : IsSession(s)
  BY OpenIsSession
<1>4. E \subseteq Ledger!OpenSessions
  BY <1>3, MappedSession DEF Ledger!OpenSessions
<1>5. SessionStatus' = Ledger!Ended(E)
  BY <1>1, <1>2, <1>3 DEF SessionStatus, Ledger!Ended, IsSession
<1>6. SessionOwner' = SessionOwner /\ DOMAIN users' = DOMAIN users
  BY <1>1 DEF SessionOwner, RemovesTokens
<1> QED
  BY <1>4, <1>5, <1>6 DEF Ledger!End

\* Marking a token as used changes no session.
LEMMA TouchingIsInvisible ==
    ASSUME NEW t, NEW d, TouchesToken(t, d)
    PROVE  UNCHANGED <<DOMAIN users, SessionStatus, SessionOwner>>
<1>1. DOMAIN refresh_tokens' = DOMAIN refresh_tokens /\ UNCHANGED <<users, jwt>>
  BY DEF TouchesToken
<1> QED
  BY <1>1, SameSessions DEF IsOpen, IsSession

\* The new token continues the session of the one it replaces.
LEMMA RotatingIsInvisible ==
    ASSUME TablesOK, NEW old, NEW new, NEW d, RotatesToken(old, new, d)
    PROVE  UNCHANGED <<DOMAIN users, SessionStatus, SessionOwner>>
<1> USE DEF RotatesToken
<1>1. old \in DOMAIN jwt /\ jwt[old] \in Claims /\ jwt[old].session \in DOMAIN jwt
  BY DEF TablesOK, RowOK, ClaimsOK
<1>2. /\ DOMAIN refresh_tokens' = (DOMAIN refresh_tokens \ {old}) \cup {new}
      /\ DOMAIN jwt' = DOMAIN jwt \cup {new}
      /\ \A i \in DOMAIN jwt : jwt'[i] = jwt[i]
      /\ jwt'[new].session = jwt[old].session
  BY <1>1 DEF PutToken, Claims
<1>3. \A i \in DOMAIN refresh_tokens : i \in DOMAIN jwt
  BY DEF TablesOK, RowOK
<1>4. \A s \in TokenIds : IsOpen(s)' <=> IsOpen(s)
  BY <1>2, <1>3 DEF IsOpen
<1>5. \A s \in TokenIds : IsSession(s)' <=> IsSession(s)
  BY <1>1, <1>2 DEF IsSession
<1> QED
  BY <1>2, <1>4, <1>5, SameSessions DEF IsSession

\* All tokens of a session are its owner's, so they go when the owner goes.
LEMMA RemovingUsersCloses ==
    ASSUME TablesOK, NEW U, RemovesUsers(U)
    PROVE  \E V \in SUBSET UserIds : Ledger!CloseAccounts(V)
<1> DEFINE V == U \cap UserIds
           E == {s \in Ledger!OpenSessions : SessionOwner[s] \in V}
<1>1. /\ DOMAIN refresh_tokens' =
            {i \in DOMAIN refresh_tokens : refresh_tokens[i].user_id \notin U}
      /\ jwt' = jwt
      /\ DOMAIN users' = DOMAIN users \ U
  BY DEF RemovesUsers, DeleteUsers, DeleteTokens, Restrict, TokensOf
<1>2. \A i \in DOMAIN refresh_tokens :
          /\ refresh_tokens[i].user_id = jwt[jwt[i].session].userId
          /\ refresh_tokens[i].user_id \in UserIds
  BY DEF TablesOK, RowOK, ClaimsOK
<1>3. \A s : IsOpen(s)' <=> IsOpen(s) /\ jwt[s].userId \notin V
  BY <1>1, <1>2 DEF IsOpen
<1>4. \A s \in TokenIds : s \in E <=> IsOpen(s) /\ jwt[s].userId \in V
  <2> TAKE s \in TokenIds
  <2>1. IsOpen(s) => IsSession(s)
    BY OpenIsSession
  <2> QED
    BY <2>1, MappedSession DEF Ledger!OpenSessions
<1>5. SessionStatus' = Ledger!Ended(E)
  <2>1. \A s \in TokenIds :
            SessionStatus'[s] = IF s \in E THEN "ended" ELSE SessionStatus[s]
    <3> TAKE s \in TokenIds
    <3>1. IsOpen(s) => IsSession(s)
      BY OpenIsSession
    <3> QED
      BY <1>1, <1>3, <1>4, <3>1 DEF SessionStatus, IsSession
  <2> QED
    BY <2>1 DEF SessionStatus, Ledger!Ended
<1>6. SessionOwner' = SessionOwner
  BY <1>1 DEF SessionOwner
<1>7. DOMAIN users' = DOMAIN users \ V
  BY <1>1 DEF TablesOK
<1> QED
  BY <1>5, <1>6, <1>7 DEF Ledger!CloseAccounts

\* Nothing is open at the start, and every account exists.
LEMMA LedgerStarts == Init => Ledger!Init
BY DEF Init, Ledger!Init, SessionStatus, SessionOwner

\* Every way of changing the tables is a step of the ledger or a stutter.
LEMMA LedgerSteps ==
    ASSUME TablesOK, TableStep PROVE [Ledger!Next]_(Ledger!ledger)
<1>1. ASSUME KeepsTokens PROVE UNCHANGED Ledger!ledger
  <2>1. UNCHANGED <<DOMAIN users, refresh_tokens, jwt>>
    BY <1>1 DEF KeepsTokens
  <2> QED
    BY <2>1, SameSessions DEF IsOpen, IsSession, Ledger!ledger
<1>2. ASSUME NEW S, RemovesTokens(S) PROVE Ledger!Next
  BY <1>2, RemovingEnds DEF Ledger!Next
<1>3. ASSUME NEW u, NEW d, NEW t, CreatesToken(u, d, t) PROVE Ledger!Next
  <2>1. u \in UserIds /\ t \in TokenIds
    BY <1>3 DEF CreatesToken, TablesOK
  <2> QED
    BY <1>3, <2>1, CreatingOpens DEF Ledger!Next
<1>4. ASSUME NEW t, NEW d, TouchesToken(t, d) PROVE UNCHANGED Ledger!ledger
  BY <1>4, TouchingIsInvisible DEF Ledger!ledger
<1>5. ASSUME NEW old, NEW new, NEW d, RotatesToken(old, new, d)
      PROVE  UNCHANGED Ledger!ledger
  BY <1>5, RotatingIsInvisible DEF Ledger!ledger
<1>6. ASSUME NEW U, RemovesUsers(U) PROVE Ledger!Next
  BY <1>6, RemovingUsersCloses DEF Ledger!Next
<1> QED
  BY <1>1, <1>2, <1>3, <1>4, <1>5, <1>6 DEF TableStep

\* The service keeps the ledger's promise: a session that has ended, by logout,
\* logout-all, eviction, account deletion or a cleanup, never opens again,
\* whatever refresh of it was in flight.
THEOREM LedgerImplemented == Spec => ImplementsLedger
<1>1. Init => Ledger!Init
  BY LedgerStarts
<1>2. IInv /\ [Next]_vars => [Ledger!Next]_(Ledger!ledger)
  BY EveryStepIsGood, LedgerSteps DEF GoodStep, IInv
<1> QED
  BY <1>1, <1>2, Invariance, PTL DEF Spec, ImplementsLedger, Ledger!Spec
-----------------------------------------------------------------------------
(* What the callers of the service may rely on.                            *)

\* rotateTokens and the deletes: the id of a refresh token that was replaced
\* or deleted never returns to the table, so refreshToken and logout refuse
\* that token from then on, whoever repeats it and whatever was in flight.
SpentTokensStaySpent ==
    [][\A t \in DOMAIN jwt : t \notin DOMAIN refresh_tokens => t \notin DOMAIN refresh_tokens']_vars

\* logout: when the delete finds its row, the whole session is over, because
\* no other row descends from the same sign-in.
LogoutEndsItsSession ==
    [][\A p \in Procs, s \in TokenIds :
          /\ DeleteToken(p)
          /\ req[p].id \in DOMAIN refresh_tokens
          /\ jwt[req[p].id].session = s
          => SessionStatus'[s] = "ended"]_vars

\* logoutAllDevices, softDeleteUser and hardDeleteUser: every session that the
\* account had opened so far is over, also when the account was gone already.
RevocationIsTotal ==
    [][\A p \in Procs, s \in TokenIds :
          /\ RevokeAll(p) \/ Deactivate(p) \/ DeleteUser(p)
          /\ IsSession(s)
          /\ SessionOwner[s] = req[p].user
          => SessionStatus'[s] = "ended"]_vars

\* Only create and rotate write a row under an id, and they take a fresh one.
LEMMA NoRowReturns ==
    ASSUME TablesOK, TableStep, NEW t \in DOMAIN jwt, t \notin DOMAIN refresh_tokens
    PROVE  t \notin DOMAIN refresh_tokens'
<1>1. CASE KeepsTokens
  BY <1>1 DEF KeepsTokens
<1>2. ASSUME NEW S, RemovesTokens(S) PROVE t \notin DOMAIN refresh_tokens'
  BY <1>2 DEF RemovesTokens, DeleteTokens, Restrict
<1>3. ASSUME NEW u, NEW d, NEW i, CreatesToken(u, d, i) PROVE t \notin DOMAIN refresh_tokens'
  BY <1>3 DEF CreatesToken, PutToken
<1>4. ASSUME NEW i, NEW d, TouchesToken(i, d) PROVE t \notin DOMAIN refresh_tokens'
  BY <1>4 DEF TouchesToken
<1>5. ASSUME NEW old, NEW new, NEW d, RotatesToken(old, new, d) PROVE t \notin DOMAIN refresh_tokens'
  BY <1>5 DEF RotatesToken, PutToken
<1>6. ASSUME NEW U, RemovesUsers(U) PROVE t \notin DOMAIN refresh_tokens'
  BY <1>6 DEF RemovesUsers, DeleteUsers, DeleteTokens, Restrict
<1> QED
  BY <1>1, <1>2, <1>3, <1>4, <1>5, <1>6 DEF TableStep

\* A token that was rotated away or deleted can never be used again.
THEOREM NoReplay == Spec => SpentTokensStaySpent
<1>1. ASSUME IInv, [Next]_vars, NEW t \in DOMAIN jwt, t \notin DOMAIN refresh_tokens
      PROVE  t \notin DOMAIN refresh_tokens'
  BY <1>1, EveryStepIsGood, NoRowReturns DEF GoodStep, IInv
<1>2. ASSUME IInv, [Next]_vars
      PROVE  \A t \in DOMAIN jwt : t \notin DOMAIN refresh_tokens => t \notin DOMAIN refresh_tokens'
  BY <1>1, <1>2
<1> QED
  BY <1>2, Invariance, PTL DEF SpentTokensStaySpent, Spec

\* A session without a row is over if it took place.
LEMMA NoRowMeansEnded ==
    ASSUME NEW s \in TokenIds, s \in DOMAIN jwt', jwt'[s].session = s,
           \A t \in DOMAIN refresh_tokens' : jwt'[t].session # s
    PROVE  SessionStatus'[s] = "ended"
BY DEF SessionStatus, IsOpen

\* A logout that succeeds ends its session.
THEOREM LogoutIsEffective == Spec => LogoutEndsItsSession
<1>1. ASSUME IInv, NEW p \in Procs, NEW s \in TokenIds, DeleteToken(p),
             req[p].id \in DOMAIN refresh_tokens, jwt[req[p].id].session = s
      PROVE  SessionStatus'[s] = "ended"
  <2> DEFINE t == req[p].id
  <2>1. DOMAIN refresh_tokens' = DOMAIN refresh_tokens \ {t} /\ jwt' = jwt
    BY <1>1 DEF DeleteToken, DeleteTokens, Restrict
  <2>2. s \in DOMAIN jwt /\ jwt[s].session = s
    BY <1>1 DEF IInv, TablesOK, RowOK, ClaimsOK
  <2>3. \A i \in DOMAIN refresh_tokens : jwt[i].session = s => i = t
    BY <1>1 DEF IInv, TablesOK, OneTokenPerSession
  <2> QED
    BY <2>1, <2>2, <2>3, NoRowMeansEnded
<1>2. ASSUME IInv, [Next]_vars
      PROVE  \A p \in Procs, s \in TokenIds :
                /\ DeleteToken(p)
                /\ req[p].id \in DOMAIN refresh_tokens
                /\ jwt[req[p].id].session = s
                => SessionStatus'[s] = "ended"
  BY <1>1, <1>2
<1> QED
  BY <1>2, Invariance, PTL DEF LogoutEndsItsSession, Spec

\* Revoking the sessions of an account leaves none behind.
THEOREM RevocationIsEffective == Spec => RevocationIsTotal
<1>1. ASSUME IInv, NEW p \in Procs, NEW s \in TokenIds, RevokeAll(p) \/ Deactivate(p) \/ DeleteUser(p),
             IsSession(s), SessionOwner[s] = req[p].user
      PROVE  SessionStatus'[s] = "ended"
  <2> DEFINE u == req[p].user
  <2>1. s \in DOMAIN jwt /\ jwt[s].session = s /\ jwt[s].userId = u
    BY <1>1, MappedSession DEF IsSession
  <2>2. \A i \in DOMAIN refresh_tokens : jwt[i].session = s => refresh_tokens[i].user_id = u
    BY <1>1, <2>1 DEF IInv, TablesOK, RowOK, ClaimsOK
  <2>3. \A i \in DOMAIN refresh_tokens : refresh_tokens[i].user_id = u => u \in DOMAIN users
    BY <1>1 DEF IInv, TablesOK, RowOK
  <2>4. jwt' = jwt /\ \A i \in DOMAIN refresh_tokens' : i \in DOMAIN refresh_tokens /\ refresh_tokens[i].user_id # u
    <3>1. CASE RevokeAll(p)
      BY <3>1 DEF RevokeAll, DeleteTokens, Restrict, TokensOf
    <3>2. CASE Deactivate(p)
      BY <2>3, <3>2 DEF Deactivate, DeleteTokens, Restrict, TokensOf
    <3>3. CASE DeleteUser(p)
      BY <3>3 DEF DeleteUser, DeleteUsers, DeleteTokens, Restrict, TokensOf
    <3> QED
      BY <1>1, <3>1, <3>2, <3>3
  <2> QED
    BY <2>1, <2>2, <2>4, NoRowMeansEnded
<1>2. ASSUME IInv, [Next]_vars
      PROVE  \A p \in Procs, s \in TokenIds :
                /\ RevokeAll(p) \/ Deactivate(p) \/ DeleteUser(p)
                /\ IsSession(s)
                /\ SessionOwner[s] = req[p].user
                => SessionStatus'[s] = "ended"
  BY <1>1, <1>2
<1> QED
  BY <1>2, Invariance, PTL DEF RevocationIsTotal, Spec

\* The ledger does not reopen a session.
LEMMA LedgerKeepsEnded ==
    ASSUME NEW s \in TokenIds, SessionStatus[s] = "ended", [Ledger!Next]_(Ledger!ledger)
    PROVE  SessionStatus'[s] = "ended"
<1> USE DEF Ledger!Ended, Ledger!OpenSessions
<1>1. ASSUME NEW i \in TokenIds, NEW u, NEW S, Ledger!Open(i, u, S) PROVE SessionStatus'[s] = "ended"
  <2>1. i # s /\ SessionStatus' = [Ledger!Ended(S) EXCEPT ![i] = "open"]
    BY <1>1 DEF Ledger!Open
  <2> QED
    BY <2>1
<1>2. ASSUME NEW S, Ledger!End(S) PROVE SessionStatus'[s] = "ended"
  BY <1>2 DEF Ledger!End
<1>3. ASSUME NEW U, Ledger!CloseAccounts(U) PROVE SessionStatus'[s] = "ended"
  BY <1>3 DEF Ledger!CloseAccounts
<1> QED
  BY <1>1, <1>2, <1>3 DEF Ledger!Next, Ledger!ledger

\* A session that is over is over for good, through every later sign-in,
\* refresh, logout, deletion and clean-up.
THEOREM EndedForGood ==
    ASSUME NEW s \in TokenIds
    PROVE  Spec => [](SessionStatus[s] = "ended" => [](SessionStatus[s] = "ended"))
<1> DEFINE Over == SessionStatus[s] = "ended"
<1>1. IInv /\ [Next]_vars => [Ledger!Next]_(Ledger!ledger)
  BY EveryStepIsGood, LedgerSteps DEF GoodStep, IInv
<1>2. Over /\ [Ledger!Next]_(Ledger!ledger) => Over'
  BY LedgerKeepsEnded
<1>3. IInv /\ [Next]_vars /\ Over => Over'
  BY <1>1, <1>2
<1> HIDE DEF Over
<1>4. Spec => [](Over => []Over)
  BY <1>3, Invariance, PTL DEF Spec
<1> QED
  BY <1>4 DEF Over
=============================================================================
