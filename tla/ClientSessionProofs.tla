------------------------ MODULE ClientSessionProofs ------------------------
(***************************************************************************)
(* The refresh lock of the client, for every set of requests and without   *)
(* regard to how often the server answers 401.                             *)
(***************************************************************************)
EXTENDS ClientSession, FiniteSetTheorems, TLAPS

Owners == Requests \cup {Proactive}

(***************************************************************************)
(* What the properties rest on: isRefreshing is TRUE exactly while one     *)
(* refresh is in flight, the two failure fields are set together, and no   *)
(* refresh is in flight after a failure.                                   *)
(***************************************************************************)
Lock ==
    /\ isRefreshing => \E o \in Owners : refreshes = {o}
    /\ ~isRefreshing => refreshes = {}

FailureOnce ==
    /\ hasRefreshFailed = lastRefreshError
    /\ isRefreshing => ~hasRefreshFailed

IInv == TypeOK /\ Lock /\ FailureOnce

\* Sent and Idle are requests, and a request with another status is one too.
LEMMA RequestTypes ==
    /\ Idle \in Request
    /\ \A kind \in {"page", "profile", "sign_in", "logout"} : Sent(kind) \in Request
    /\ \A q \in Request, s \in {"idle", "sent", "queued", "refreshing", "expiry"} :
          [q EXCEPT !.status = s] \in Request
    /\ \A q \in Request : [q EXCEPT !.status = "sent", !.retried = TRUE] \in Request
  BY DEF Idle, Sent, Request

\* Initially nothing is in flight but perhaps the profile.
LEMMA InitGood == Init => IInv
<1> SUFFICES ASSUME Init PROVE IInv
  OBVIOUS
<1>1. req \in [Requests -> Request]
  BY RequestTypes DEF Init
<1>2. refusals \in 0 .. MaxRefusals
  BY ClientAssumption DEF Init
<1>3. isRefreshing = FALSE /\ hasRefreshFailed = FALSE /\ lastRefreshError = FALSE
      /\ userData = FALSE /\ timer = "none" /\ orphans = 0 /\ refreshes = {}
  BY DEF Init
<1>4. TypeOK
  BY <1>1, <1>2, <1>3 DEF TypeOK
<1> QED
  BY <1>3, <1>4 DEF IInv, Lock, FailureOnce

(***************************************************************************)
(* The queue is processed into requests again.                             *)
(***************************************************************************)
LEMMA QueueTypes ==
    ASSUME TypeOK, NEW rejected, NEW r \in Requests, NEW own \in Request,
           ProcessQueue(rejected, r, own)
    PROVE  req' \in [Requests -> Request]
<1>1. \A q \in Requests : req[q] \in Request
  BY DEF TypeOK
<1>2. \A q \in Requests : Retry(q) \in Request
  BY <1>1, RequestTypes DEF Retry
<1>3. ASSUME NEW q \in Requests
      PROVE  (CASE q = r -> own
                [] q # r /\ q \in failedQueue -> IF rejected THEN Idle ELSE Retry(q)
                [] OTHER -> req[q]) \in Request
  <2>1. CASE q = r
    BY <2>1
  <2>2. CASE q # r /\ q \in failedQueue
    BY <2>2, <1>2, RequestTypes
  <2>3. CASE q # r /\ q \notin failedQueue
    BY <2>3, <1>1
  <2> QED
    BY <2>1, <2>2, <2>3
<1> QED
  BY <1>3 DEF ProcessQueue

(***************************************************************************)
(* Every step keeps the invariant, and stops renewal only with the user or *)
(* after a failure.  One step per action.                                  *)
(***************************************************************************)
RenewalKept == Renewing /\ ~Renewing' => hasRefreshFailed' \/ ~userData'

LEMMA StepGood ==
    ASSUME IInv, [Next]_vars
    PROVE  IInv' /\ RenewalKept
<1> USE DEF IInv
<1>0. \A q \in Requests : req[q] \in Request
  BY DEF TypeOK
<1>1. ASSUME NEW r \in Requests, NEW kind \in {"page", "sign_in", "logout"}, Begin(r, kind)
      PROVE  IInv' /\ RenewalKept
  <2>1. req' \in [Requests -> Request]
    BY <1>1, RequestTypes DEF Begin, TypeOK
  <2> QED
    BY <1>1, <2>1 DEF Begin, TypeOK, Lock, FailureOnce, failures, timers, RenewalKept, Renewing
<1>2. ASSUME NEW r \in Requests,
             PageAnswered(r) \/ ProfileAnswered(r) \/ SignInAnswered(r)
      PROVE  IInv' /\ RenewalKept
  <2>1. req' \in [Requests -> Request]
    BY <1>2, <1>0, RequestTypes
       DEF PageAnswered, ProfileAnswered, SignInAnswered, TypeOK
  <2> QED
    BY <1>2, <2>1 DEF PageAnswered, ProfileAnswered, SignInAnswered, TypeOK, Lock,
                      FailureOnce, failures, timers, RenewalKept, Renewing
<1>3. ASSUME NEW r \in Requests, ExpiryRead(r)
      PROVE  IInv' /\ RenewalKept
  <2>1. req' \in [Requests -> Request]
    BY <1>3, RequestTypes DEF ExpiryRead, TypeOK
  <2> QED
    BY <1>3, <2>1 DEF ExpiryRead, SetUser, TypeOK, Lock, FailureOnce, RenewalKept, Renewing
<1>4. ASSUME NEW r \in Requests, LogoutAnswered(r) \/ RequestFails(r) \/ RefusedForGood(r)
      PROVE  IInv' /\ RenewalKept
  <2>1. req' \in [Requests -> Request]
    BY <1>4, RequestTypes DEF LogoutAnswered, RequestFails, RefusedForGood, TypeOK
  <2>2. refusals' \in 0 .. MaxRefusals
    BY <1>4, ClientAssumption
       DEF LogoutAnswered, RequestFails, RefusedForGood, Refused, TypeOK
  <2>3. UNCHANGED <<isRefreshing, hasRefreshFailed, lastRefreshError, refreshes>>
    BY <1>4 DEF LogoutAnswered, RequestFails, RefusedForGood, failures
  <2>4. ClearUser \/ UNCHANGED <<timers, userData>>
    BY <1>4 DEF LogoutAnswered, RequestFails, RefusedForGood
  <2>5. TypeOK'
    BY <2>1, <2>2, <2>3, <2>4 DEF ClearUser, timers, TypeOK
  <2>6. RenewalKept
    BY <2>3, <2>4 DEF ClearUser, timers, RenewalKept, Renewing
  <2> QED
    BY <2>3, <2>5, <2>6 DEF Lock, FailureOnce
<1>5. ASSUME NEW r \in Requests, RefusedWhileRefreshing(r) \/ RefusedStartsRefresh(r)
      PROVE  IInv' /\ RenewalKept
  <2>1. req' \in [Requests -> Request]
    BY <1>5, <1>0, RequestTypes DEF RefusedWhileRefreshing, RefusedStartsRefresh, TypeOK
  <2>2. refusals' \in 0 .. MaxRefusals
    BY <1>5, ClientAssumption
       DEF RefusedWhileRefreshing, RefusedStartsRefresh, Refused, TypeOK
  <2>3. CASE RefusedWhileRefreshing(r)
    BY <2>1, <2>2, <2>3 DEF RefusedWhileRefreshing, TypeOK, Lock, FailureOnce, failures,
                            timers, RenewalKept, Renewing
  <2>4. CASE RefusedStartsRefresh(r)
    BY <2>1, <2>2, <2>4 DEF RefusedStartsRefresh, TypeOK, Lock, FailureOnce, failures,
                            timers, RenewalKept, Renewing, Owners
  <2> QED
    BY <1>5, <2>3, <2>4
<1>6. ASSUME NEW r \in Requests, RefreshSucceeds(r)
      PROVE  IInv' /\ RenewalKept
  <2>1. Retry(r) \in Request
    BY <1>0, RequestTypes DEF Retry
  <2>2. req' \in [Requests -> Request]
    BY <1>6, <2>1, QueueTypes DEF RefreshSucceeds
  <2>3. orphans' \in Nat /\ timer' = "armed"
    BY <1>6 DEF RefreshSucceeds, Schedule, TypeOK
  <2>4. refreshes' = {} /\ isRefreshing' = FALSE
    BY <1>6 DEF RefreshSucceeds, Lock
  <2> QED
    BY <1>6, <2>2, <2>3, <2>4 DEF RefreshSucceeds, TypeOK, Lock, FailureOnce, failures,
                                  RenewalKept, Renewing
<1>7. ASSUME NEW r \in Requests, RefreshFails(r)
      PROVE  IInv' /\ RenewalKept
  <2>1. req' \in [Requests -> Request]
    BY <1>7, RequestTypes, QueueTypes DEF RefreshFails
  <2>2. refreshes' = {} /\ isRefreshing' = FALSE
    BY <1>7 DEF RefreshFails, Lock
  <2> QED
    BY <1>7, <2>1, <2>2 DEF RefreshFails, RememberFailure, ClearUser, TypeOK, Lock,
                            FailureOnce, RenewalKept
<1>8. CASE TimerFires
  <2>1. orphans' \in Nat /\ timer' \in {"none", "armed", "fired"}
    BY <1>8 DEF TimerFires, ATimerFires, TypeOK
  <2>2. CASE ~hasRefreshFailed /\ ~isRefreshing
    BY <1>8, <2>1, <2>2 DEF TimerFires, TypeOK, Lock, FailureOnce, failures, RenewalKept,
                            Renewing, Owners
  <2>3. CASE hasRefreshFailed \/ isRefreshing
    BY <1>8, <2>1, <2>3 DEF TimerFires, TypeOK, Lock, FailureOnce, failures, RenewalKept,
                            Renewing
  <2> QED
    BY <2>2, <2>3 DEF TypeOK
<1>9. CASE ProactiveAnswer
  <2>1. refreshes' = {} /\ isRefreshing' = FALSE
    BY <1>9 DEF ProactiveAnswer, ProactiveRefreshSucceeds, ProactiveRefreshFails, Lock
  <2>2. CASE ProactiveRefreshSucceeds
    <3>1. orphans' \in Nat /\ timer' = "armed"
      BY <2>2 DEF ProactiveRefreshSucceeds, Schedule, TypeOK
    <3>2. UNCHANGED <<hasRefreshFailed, lastRefreshError, userData, req, refusals>>
      BY <2>2 DEF ProactiveRefreshSucceeds, failures
    <3>3. TypeOK'
      BY <2>1, <3>1, <3>2 DEF TypeOK
    <3>4. RenewalKept
      BY <3>1 DEF RenewalKept, Renewing
    <3> QED
      BY <2>1, <3>2, <3>3, <3>4 DEF Lock, FailureOnce
  <2>3. CASE ProactiveRefreshFails
    BY <2>1, <2>3 DEF ProactiveRefreshFails, RememberFailure, TypeOK, Lock, FailureOnce,
                      timers, RenewalKept
  <2> QED
    BY <1>9, <2>2, <2>3 DEF ProactiveAnswer
<1>10. CASE UNCHANGED vars
  BY <1>10 DEF vars, TypeOK, Lock, FailureOnce, RenewalKept, Renewing
<1> QED
  BY <1>1, <1>2, <1>3, <1>4, <1>5, <1>6, <1>7, <1>8, <1>9, <1>10
     DEF Next, SendPageRequest, SignIn, Logout, Answer

-----------------------------------------------------------------------------

\* The invariant holds in every reachable state.
THEOREM ClientInvariance == Spec => []IInv
<1>1. IInv /\ [Next]_vars => IInv'
  BY StepGood
<1> QED
  BY InitGood, <1>1, PTL DEF Spec

\* The state of the page stays well-formed.
THEOREM ClientTypeCorrect == Spec => []TypeOK
<1>1. IInv => TypeOK
  BY DEF IInv
<1> QED
  BY ClientInvariance, <1>1, PTL

\* Reactive and proactive refreshes share one lock: one refresh at a time.
THEOREM RefreshesExclude == Spec => []OneRefreshAtATime
<1>1. ASSUME IInv PROVE OneRefreshAtATime
  <2>1. CASE isRefreshing
    <3>1. PICK o \in Owners : refreshes = {o}
      BY <1>1, <2>1 DEF IInv, Lock
    <3>2. Cardinality(refreshes) = 1
      BY <3>1, FS_Singleton
    <3> QED
      BY <2>1, <3>1, <3>2 DEF OneRefreshAtATime
  <2>2. CASE ~isRefreshing
    <3>1. refreshes = {} /\ Cardinality(refreshes) = 0
      BY <1>1, <2>2, FS_EmptySet DEF IInv, Lock
    <3> QED
      BY <1>1, <2>2, <3>1 DEF OneRefreshAtATime, IInv, TypeOK
  <2> QED
    BY <2>1, <2>2
<1> QED
  BY ClientInvariance, <1>1, PTL

\* A failed refresh is the last until a sign-in or a profile that arrives
\* resets the failure.
THEOREM FailureEndsRefreshing == Spec => []NoRefreshAfterFailure
<1>1. IInv => NoRefreshAfterFailure
  BY DEF IInv, TypeOK, Lock, FailureOnce, NoRefreshAfterFailure
<1> QED
  BY ClientInvariance, <1>1, PTL

\* Renewal that is under way stops only with the user or after a failure.
THEOREM RenewalPersists == Spec => RenewalGoesOn
<1>1. IInv /\ [Next]_vars => [RenewalKept]_vars
  BY StepGood
<1>2. RenewalGoesOn <=> [][RenewalKept]_vars
  BY DEF RenewalGoesOn, RenewalKept
<1> QED
  BY ClientInvariance, <1>1, <1>2, PTL DEF Spec

-----------------------------------------------------------------------------
(* The queue behind a refresh.                                             *)

\* The requests that await a refresh of their own are those whose refresh is
\* in flight: none waits for an answer that came, or will never come.
AwaitersOK == \A r \in Requests : r \in refreshes <=> req[r].status = "refreshing"

\* failedQueue is processed when a refresh that a request started ends, and
\* only then.  All of it is sent again and nothing is rejected, whether that
\* refresh succeeded or failed: processQueue gets lastRefreshError as it was
\* before the failure.
QueueEndsWithRefresh ==
    [][/\ \A q \in failedQueue : q \notin failedQueue' =>
             /\ req'[q] = Retry(q)
             /\ \E r \in Requests : r \in refreshes /\ r \notin refreshes'
       /\ \A r \in Requests : r \in refreshes /\ r \notin refreshes' => failedQueue' = {}]_vars

\* A request waits in the queue with no refresh of a request to process it.
Unserved(q) == q \in failedQueue /\ refreshes \cap Requests = {}

\* A request comes to wait unserved only behind a refresh that the timer
\* started and that is still in flight.
OnlyTimersLeaveUnserved ==
    [][\A q \in Requests : ~Unserved(q) /\ Unserved(q)' => Proactive \in refreshes']_vars

\* What a step makes of the queue, and of the refreshes that requests await.
QueueMoves ==
    \/ /\ \A q \in failedQueue : req'[q] = req[q]
       /\ refreshes \cap Requests \subseteq refreshes'
       /\ \/ failedQueue' \subseteq failedQueue
          \/ refreshes # {} /\ refreshes' = refreshes
    \/ /\ \E r \in Requests : r \in refreshes /\ r \notin refreshes'
       /\ \A q \in failedQueue : req'[q] = Retry(q)
       /\ failedQueue' = {}

LEMMA QueueStep ==
    ASSUME IInv, AwaitersOK, [Next]_vars
    PROVE  AwaitersOK' /\ QueueMoves
<1> USE DEF IInv
<1>0. req \in [Requests -> Request] /\ Proactive \notin Requests
  BY ClientAssumption DEF TypeOK
\* A step of one request that was not waiting and does not come to wait.
<1>1. ASSUME NEW r \in Requests, NEW x, req' = [req EXCEPT ![r] = x],
             req[r].status \in {"idle", "sent", "expiry"},
             x.status \in {"idle", "sent", "expiry"}, UNCHANGED refreshes
      PROVE  AwaitersOK' /\ QueueMoves
  <2>1. req'[r] = x /\ \A q \in Requests : q # r => req'[q] = req[q]
    BY <1>0, <1>1
  <2>2. AwaitersOK'
    BY <1>1, <2>1 DEF AwaitersOK
  <2>3. failedQueue' \subseteq failedQueue /\ \A q \in failedQueue : req'[q] = req[q]
    BY <1>1, <2>1 DEF failedQueue
  <2> QED
    BY <1>1, <2>2, <2>3 DEF QueueMoves
<1>2. ASSUME NEW r \in Requests, NEW kind, Begin(r, kind)
      PROVE  AwaitersOK' /\ QueueMoves
  <2>1. req' = [req EXCEPT ![r] = Sent(kind)] /\ req[r] = Idle /\ UNCHANGED refreshes
    BY <1>2 DEF Begin
  <2>2. Sent(kind).status = "sent" /\ Idle.status = "idle"
    BY DEF Sent, Idle
  <2> QED
    BY <1>1, <2>1, <2>2
<1>3. ASSUME NEW r \in Requests,
             \/ PageAnswered(r) \/ ProfileAnswered(r) \/ ExpiryRead(r) \/ SignInAnswered(r)
             \/ LogoutAnswered(r) \/ RequestFails(r) \/ RefusedForGood(r)
      PROVE  AwaitersOK' /\ QueueMoves
  <2>1. req[r].status \in {"sent", "expiry"} /\ UNCHANGED refreshes
    BY <1>3 DEF PageAnswered, ProfileAnswered, ExpiryRead, SignInAnswered, LogoutAnswered,
                RequestFails, RefusedForGood, Refused, Answered
  <2>2. CASE req' = [req EXCEPT ![r] = Idle]
    BY <1>1, <2>1, <2>2 DEF Idle
  <2>3. CASE req' = [req EXCEPT ![r] = Sent("profile")]
    BY <1>1, <2>1, <2>3 DEF Sent
  <2>4. CASE req' = [req EXCEPT ![r].status = "expiry"]
    <3>1. req' = [req EXCEPT ![r] = [req[r] EXCEPT !.status = "expiry"]]
          /\ [req[r] EXCEPT !.status = "expiry"].status = "expiry"
      BY <1>0, <2>4 DEF Request
    <3> QED
      BY <1>1, <2>1, <3>1
  <2> QED
    BY <1>3, <2>2, <2>3, <2>4
       DEF PageAnswered, ProfileAnswered, ExpiryRead, SignInAnswered, LogoutAnswered,
           RequestFails, RefusedForGood
<1>4. ASSUME NEW r \in Requests, RefusedWhileRefreshing(r)
      PROVE  AwaitersOK' /\ QueueMoves
  <2>1. /\ req'[r].status = "queued" /\ req[r].status = "sent"
        /\ \A q \in Requests : q # r => req'[q] = req[q]
        /\ refreshes' = refreshes /\ refreshes # {}
    BY <1>0, <1>4 DEF RefusedWhileRefreshing, Refused, Request, Lock
  <2>2. AwaitersOK'
    BY <2>1 DEF AwaitersOK
  <2>3. \A q \in failedQueue : req'[q] = req[q]
    BY <2>1 DEF failedQueue
  <2> QED
    BY <2>1, <2>2, <2>3 DEF QueueMoves
<1>5. ASSUME NEW r \in Requests, RefusedStartsRefresh(r)
      PROVE  AwaitersOK' /\ QueueMoves
  <2>1. /\ req'[r].status = "refreshing" /\ req[r].status = "sent"
        /\ \A q \in Requests : q # r => req'[q] = req[q]
        /\ refreshes' = refreshes \cup {r}
    BY <1>0, <1>5 DEF RefusedStartsRefresh, Refused, Request
  <2>2. AwaitersOK'
    BY <2>1 DEF AwaitersOK
  <2>3. failedQueue' \subseteq failedQueue /\ \A q \in failedQueue : req'[q] = req[q]
    BY <2>1 DEF failedQueue
  <2> QED
    BY <2>1, <2>2, <2>3 DEF QueueMoves
<1>6. ASSUME NEW r \in Requests, RefreshSucceeds(r) \/ RefreshFails(r)
      PROVE  AwaitersOK' /\ QueueMoves
  <2>1. /\ r \in refreshes /\ refreshes = {r} /\ refreshes' = {} /\ ~lastRefreshError
        /\ req[r].status = "refreshing"
    BY <1>6 DEF RefreshSucceeds, RefreshFails, Lock, FailureOnce, TypeOK, AwaitersOK
  <2>2. PICK own \in {Idle, Retry(r)} : ProcessQueue(FALSE, r, own)
    BY <1>6, <2>1 DEF RefreshSucceeds, RefreshFails, TypeOK
  <2>3. \A q \in Requests : Retry(q).status = "sent"
    BY <1>0 DEF Retry, Request
  <2>4. req'[r] = own /\ own.status \in {"idle", "sent"}
    BY <2>2, <2>3 DEF ProcessQueue, Idle
  <2>5. \A q \in failedQueue : q # r /\ req'[q] = Retry(q)
    BY <2>1, <2>2 DEF ProcessQueue, failedQueue
  <2>6. \A q \in Requests : q # r /\ q \notin failedQueue => req'[q] = req[q]
    BY <2>2 DEF ProcessQueue
  <2>7. failedQueue' = {}
    BY <2>3, <2>4, <2>5, <2>6 DEF failedQueue
  <2>8. AwaitersOK'
    BY <2>1, <2>3, <2>4, <2>5, <2>6 DEF AwaitersOK
  <2> QED
    BY <2>1, <2>5, <2>7, <2>8 DEF QueueMoves
<1>7. CASE TimerFires \/ ProactiveAnswer \/ UNCHANGED vars
  <2>1. req' = req
    BY <1>7 DEF TimerFires, ProactiveAnswer, ProactiveRefreshSucceeds, ProactiveRefreshFails,
                vars
  <2>2. refreshes' \in {refreshes, refreshes \cup {Proactive}, refreshes \ {Proactive}}
    BY <1>7 DEF TimerFires, ProactiveAnswer, ProactiveRefreshSucceeds, ProactiveRefreshFails,
                vars
  <2>3. AwaitersOK'
    BY <1>0, <2>1, <2>2 DEF AwaitersOK
  <2>4. failedQueue' = failedQueue /\ refreshes \cap Requests \subseteq refreshes'
    BY <1>0, <2>1, <2>2 DEF failedQueue
  <2> QED
    BY <2>1, <2>3, <2>4 DEF QueueMoves
<1> QED
  BY <1>2, <1>3, <1>4, <1>5, <1>6, <1>7 DEF Next, SendPageRequest, SignIn, Logout, Answer

\* A request waits for the answer of a refresh of its own exactly while that
\* refresh is in flight.
THEOREM NobodyAwaitsTheDead == Spec => []AwaitersOK
<1>1. Init => AwaitersOK
  BY DEF Init, AwaitersOK, Idle, Sent
<1> QED
  BY ClientInvariance, <1>1, QueueStep, PTL DEF Spec

\* A queued request is sent again when the refresh of another request ends,
\* with all the queue and whatever the outcome; nothing else moves it.
THEOREM QueueIsReleased == Spec => QueueEndsWithRefresh
<1> DEFINE Kept ==
      /\ \A q \in failedQueue : q \notin failedQueue' =>
            /\ req'[q] = Retry(q)
            /\ \E r \in Requests : r \in refreshes /\ r \notin refreshes'
      /\ \A r \in Requests : r \in refreshes /\ r \notin refreshes' => failedQueue' = {}
<1>1. QueueMoves => Kept
  BY DEF QueueMoves, failedQueue
<1>2. IInv /\ AwaitersOK /\ [Next]_vars => [Kept]_vars
  BY QueueStep, <1>1
<1>3. QueueEndsWithRefresh <=> [][Kept]_vars
  BY DEF QueueEndsWithRefresh
<1> QED
  BY ClientInvariance, NobodyAwaitsTheDead, <1>2, <1>3, PTL DEF Spec

\* Nothing but a refresh that a timer started leaves a request in the queue
\* with nobody to process it.
THEOREM OnlyTimersStrand == Spec => OnlyTimersLeaveUnserved
<1> DEFINE Kept == \A q \in Requests : ~Unserved(q) /\ Unserved(q)' => Proactive \in refreshes'
<1>1. ASSUME IInv, AwaitersOK, [Next]_vars PROVE Kept
  <2> SUFFICES ASSUME NEW q \in Requests, ~Unserved(q), Unserved(q)'
               PROVE  Proactive \in refreshes'
    OBVIOUS
  <2>1. QueueMoves /\ q \in failedQueue' /\ refreshes' \cap Requests = {}
    BY <1>1, QueueStep DEF Unserved
  <2>2. CASE q \in failedQueue
    BY <2>1, <2>2 DEF QueueMoves, Unserved
  <2>3. CASE q \notin failedQueue
    <3>1. refreshes # {} /\ refreshes' = refreshes
      BY <2>1, <2>3 DEF QueueMoves
    <3> QED
      BY <1>1, <2>1, <3>1 DEF IInv, TypeOK
  <2> QED
    BY <2>2, <2>3
<1>2. IInv /\ AwaitersOK /\ [Next]_vars => [Kept]_vars
  BY <1>1
<1>3. OnlyTimersLeaveUnserved <=> [][Kept]_vars
  BY DEF OnlyTimersLeaveUnserved
<1> QED
  BY ClientInvariance, NobodyAwaitsTheDead, <1>2, <1>3, PTL DEF Spec
=============================================================================
