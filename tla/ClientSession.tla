--------------------------- MODULE ClientSession ---------------------------
(***************************************************************************)
(* One open page of client-mx: the RefreshTokenManager, the response       *)
(* interceptor that calls it (AuthInterceptorService) and the UserManager  *)
(* they keep informed.                                                     *)
(*                                                                         *)
(* JavaScript runs one callback at a time, up to its next await; each      *)
(* callback (an answer arrives, a timer fires, the user acts) is one       *)
(* action, with all the promise reactions it settles.  The server is the   *)
(* environment: any answer may come to any request, in any order.          *)
(***************************************************************************)
EXTENDS Naturals, FiniteSets

CONSTANTS
    Requests,     \* requests the page may have in flight
    Proactive,    \* the refresh that a timer starts, as an owner of a refresh
    MaxRefusals,  \* bound: how often the server answers 401 in all
    MaxOrphans,   \* bound: nobody signs in with this many orphans
    Workload      \* bound: what happens besides page requests

ASSUME ClientAssumption ==
    /\ Proactive \notin Requests
    /\ MaxRefusals \in Nat
    /\ MaxOrphans \in Nat
    /\ Workload \subseteq {"sign_in", "logout", "timer"}

VARIABLES
    isRefreshing, hasRefreshFailed,
    lastRefreshError,  \* TRUE when it holds an error, FALSE when null
    timer,     \* proactiveRefreshInterval: "none", "armed", or "fired" (a stale handle)
    orphans,   \* armed timers whose handle was overwritten
    userData,  \* TRUE when userProfileData is not null
    req,       \* the requests; those "queued" are the failedQueue
    refreshes, \* the calls of /auth/refresh in flight, by who awaits them
    refusals   \* 401s so far

vars == <<isRefreshing, hasRefreshFailed, lastRefreshError, timer, orphans, userData,
          req, refreshes, refusals>>

failures == <<hasRefreshFailed, lastRefreshError>>
timers == <<timer, orphans>>

\* "refreshing": the request whose 401 started the refresh that it awaits;
\* "expiry": a profile that awaits getAccessTokenExpiresIn.
\* retried: an interceptor awaits this request in handleTokenRefresh.
Request == [kind : {"none", "page", "profile", "sign_in", "logout"},
            status : {"idle", "sent", "queued", "refreshing", "expiry"},
            retried : BOOLEAN]

Idle == [kind |-> "none", status |-> "idle", retried |-> FALSE]
Sent(kind) == [kind |-> kind, status |-> "sent", retried |-> FALSE]

TypeOK ==
    /\ isRefreshing \in BOOLEAN
    /\ hasRefreshFailed \in BOOLEAN
    /\ lastRefreshError \in BOOLEAN
    /\ userData \in BOOLEAN
    /\ timer \in {"none", "armed", "fired"}
    /\ orphans \in Nat
    /\ req \in [Requests -> Request]
    /\ refreshes \subseteq Requests \cup {Proactive}
    /\ refusals \in 0 .. MaxRefusals

failedQueue == {r \in Requests : req[r].status = "queued"}

-----------------------------------------------------------------------------
(* What the callbacks do.                                                  *)

\* scheduleNextProactiveRefresh: an armed timer loses its handle but still runs.
Schedule ==
    /\ timer' = "armed"
    /\ orphans' = orphans + (IF timer = "armed" THEN 1 ELSE 0)

\* setUserData(null), with stopProactiveRefresh.
ClearUser ==
    /\ userData' = FALSE
    /\ timer' = "none"
    /\ UNCHANGED orphans

\* setUserData(user): the failure is forgotten, and with a known expiry a new
\* timer replaces the one of the handle.
SetUser(expiryKnown) ==
    /\ userData' = TRUE
    /\ hasRefreshFailed' = FALSE
    /\ lastRefreshError' = FALSE
    /\ timer' = IF expiryKnown THEN "armed" ELSE timer
    /\ UNCHANGED orphans

RememberFailure ==
    /\ hasRefreshFailed' = TRUE
    /\ lastRefreshError' = TRUE

Retry(r) == [req[r] EXCEPT !.status = "sent", !.retried = TRUE]

\* Variant that leaves the queue alone.
ProcessQueueNot(rejected, r, own) ==
    req' = [q \in Requests |-> IF q = r THEN own ELSE req[q]]

\* processQueue: what it resolves is sent again, what it rejects is over.  r,
\* which is not in the queue, becomes own.
ProcessQueue(rejected, r, own) ==
    req' = [q \in Requests |->
               CASE q = r -> own
                 [] q # r /\ q \in failedQueue -> IF rejected THEN Idle ELSE Retry(q)
                 [] OTHER -> req[q]]

-----------------------------------------------------------------------------
(* The user and the page.                                                  *)

Begin(r, kind) ==
    /\ req[r] = Idle
    /\ req' = [req EXCEPT ![r] = Sent(kind)]
    /\ UNCHANGED <<isRefreshing, failures, timers, userData, refreshes, refusals>>

SendPageRequest(r) == Begin(r, "page")
SignIn(r) == "sign_in" \in Workload /\ orphans < MaxOrphans /\ Begin(r, "sign_in")
Logout(r) == "logout" \in Workload /\ userData /\ Begin(r, "logout")

-----------------------------------------------------------------------------
(* Answers other than 401.                                                 *)

Answered(r, kind) == req[r].kind = kind /\ req[r].status = "sent"

PageAnswered(r) ==
    /\ Answered(r, "page")
    /\ req' = [req EXCEPT ![r] = Idle]
    /\ UNCHANGED <<isRefreshing, failures, timers, userData, refreshes, refusals>>

ProfileAnswered(r) ==
    /\ Answered(r, "profile")
    /\ req' = [req EXCEPT ![r].status = "expiry"]
    /\ UNCHANGED <<isRefreshing, failures, timers, userData, refreshes, refusals>>

\* getAccessTokenExpiresIn answers; null when the cookie or the API is missing.
ExpiryRead(r) ==
    /\ req[r].status = "expiry"
    /\ req' = [req EXCEPT ![r] = Idle]
    /\ \E known \in BOOLEAN : SetUser(known)
    /\ UNCHANGED <<isRefreshing, refreshes, refusals>>

\* The cookies are set; onSuccess calls fetchUserData.
SignInAnswered(r) ==
    /\ Answered(r, "sign_in")
    /\ req' = [req EXCEPT ![r] = Sent("profile")]
    /\ UNCHANGED <<isRefreshing, failures, timers, userData, refreshes, refusals>>

LogoutAnswered(r) ==
    /\ Answered(r, "logout")
    /\ req' = [req EXCEPT ![r] = Idle]
    /\ ClearUser
    /\ UNCHANGED <<isRefreshing, failures, refreshes, refusals>>

\* Any failure but a 401, which sign-in and logout take like any other.  The
\* interceptor that retried the request, and fetchUserData, clear the user.
RequestFails(r) ==
    /\ req[r].status = "sent"
    /\ req' = [req EXCEPT ![r] = Idle]
    /\ IF req[r].retried \/ req[r].kind = "profile"
       THEN ClearUser
       ELSE UNCHANGED <<timers, userData>>
    /\ UNCHANGED <<isRefreshing, failures, refreshes, refusals>>

-----------------------------------------------------------------------------
(* A 401: handleTokenRefresh, up to its first await.                       *)

Refused(r) ==
    /\ req[r].kind \in {"page", "profile"}
    /\ req[r].status = "sent"
    /\ refusals < MaxRefusals
    /\ refusals' = refusals + 1

\* A refresh has failed before: the interceptor clears the user.
RefusedForGood(r) ==
    /\ Refused(r)
    /\ hasRefreshFailed
    /\ req' = [req EXCEPT ![r] = Idle]
    /\ ClearUser
    /\ UNCHANGED <<isRefreshing, failures, refreshes>>

RefusedWhileRefreshing(r) ==
    /\ Refused(r)
    /\ ~hasRefreshFailed
    /\ isRefreshing
    /\ req' = [req EXCEPT ![r].status = "queued"]
    /\ UNCHANGED <<isRefreshing, failures, timers, userData, refreshes>>

\* Variant without the queue.
RefusedStartsAnother(r) ==
    /\ Refused(r)
    /\ ~hasRefreshFailed
    /\ isRefreshing' = TRUE
    /\ refreshes' = refreshes \cup {r}
    /\ req' = [req EXCEPT ![r].status = "refreshing"]
    /\ UNCHANGED <<failures, timers, userData>>

RefusedStartsRefresh(r) ==
    /\ Refused(r)
    /\ ~hasRefreshFailed
    /\ ~isRefreshing
    /\ isRefreshing' = TRUE
    /\ refreshes' = refreshes \cup {r}
    /\ req' = [req EXCEPT ![r].status = "refreshing"]
    /\ UNCHANGED <<failures, timers, userData>>

-----------------------------------------------------------------------------
(* The answer to /auth/refresh, and the timer.                             *)

RefreshSucceeds(r) ==
    /\ r \in refreshes
    /\ ProcessQueue(FALSE, r, Retry(r))
    /\ Schedule
    /\ isRefreshing' = FALSE
    /\ refreshes' = refreshes \ {r}
    /\ UNCHANGED <<failures, userData, refusals>>

\* processQueue gets the error of an earlier failure; the interceptor clears
\* the user.
RefreshFails(r) ==
    /\ r \in refreshes
    /\ ProcessQueue(lastRefreshError, r, Idle)
    /\ RememberFailure
    /\ ClearUser
    /\ isRefreshing' = FALSE
    /\ refreshes' = refreshes \ {r}
    /\ UNCHANGED refusals

\* Variant of a timer that fires unarmed.
ATimerFiresUnarmed ==
    \/ timer = "armed" /\ timer' = "fired" /\ UNCHANGED orphans
    \/ orphans' = orphans - 1 /\ UNCHANGED timer

\* Which of the armed timers fires: the one of the handle, or an orphan.
ATimerFires ==
    \/ timer = "armed" /\ timer' = "fired" /\ UNCHANGED orphans
    \/ orphans > 0 /\ orphans' = orphans - 1 /\ UNCHANGED timer

\* Variant that ignores an earlier failure.
TimerFiresAnyway ==
    /\ "timer" \in Workload
    /\ ATimerFires
    /\ IF ~isRefreshing
       THEN isRefreshing' = TRUE /\ refreshes' = refreshes \cup {Proactive}
       ELSE UNCHANGED <<isRefreshing, refreshes>>
    /\ UNCHANGED <<failures, userData, req, refusals>>

TimerFires ==
    /\ "timer" \in Workload
    /\ ATimerFires
    /\ IF ~hasRefreshFailed /\ ~isRefreshing
       THEN isRefreshing' = TRUE /\ refreshes' = refreshes \cup {Proactive}
       ELSE UNCHANGED <<isRefreshing, refreshes>>
    /\ UNCHANGED <<failures, userData, req, refusals>>

\* Variant that does not re-arm.
ProactiveRefreshSucceedsOnce ==
    /\ Proactive \in refreshes
    /\ isRefreshing' = FALSE
    /\ refreshes' = refreshes \ {Proactive}
    /\ UNCHANGED <<failures, timers, userData, req, refusals>>

\* performProactiveRefresh leaves the queue alone, and the user too.
ProactiveRefreshSucceeds ==
    /\ Proactive \in refreshes
    /\ Schedule
    /\ isRefreshing' = FALSE
    /\ refreshes' = refreshes \ {Proactive}
    /\ UNCHANGED <<failures, userData, req, refusals>>

ProactiveRefreshFails ==
    /\ Proactive \in refreshes
    /\ RememberFailure
    /\ isRefreshing' = FALSE
    /\ refreshes' = refreshes \ {Proactive}
    /\ UNCHANGED <<timers, userData, req, refusals>>

-----------------------------------------------------------------------------

\* The page has just loaded.  With a session cookie the UserManager's
\* constructor has asked for the profile.
Init ==
    /\ isRefreshing = FALSE
    /\ hasRefreshFailed = FALSE
    /\ lastRefreshError = FALSE
    /\ userData = FALSE
    /\ timer = "none"
    /\ orphans = 0
    /\ \E S \in SUBSET Requests :
          /\ Cardinality(S) <= 1
          /\ req = [r \in Requests |-> IF r \in S THEN Sent("profile") ELSE Idle]
    /\ refreshes = {}
    /\ refusals = 0

\* Every answer, one of which each request in flight gets in the end.
Answer(r) ==
    \/ PageAnswered(r)
    \/ ProfileAnswered(r)
    \/ ExpiryRead(r)
    \/ SignInAnswered(r)
    \/ LogoutAnswered(r)
    \/ RequestFails(r)
    \/ RefusedForGood(r)
    \/ RefusedWhileRefreshing(r)
    \/ RefusedStartsRefresh(r)
    \/ RefreshSucceeds(r)
    \/ RefreshFails(r)

ProactiveAnswer == ProactiveRefreshSucceeds \/ ProactiveRefreshFails

Next ==
    \/ \E r \in Requests : SendPageRequest(r) \/ SignIn(r) \/ Logout(r) \/ Answer(r)
    \/ TimerFires
    \/ ProactiveAnswer

Spec == Init /\ [][Next]_vars

\* The browser answers or fails every request it has sent, and runs its
\* timers; nothing makes the user act.
Fairness ==
    /\ \A r \in Requests : WF_vars(Answer(r))
    /\ WF_vars(ProactiveAnswer)
    /\ WF_vars(TimerFires)

FairSpec == Spec /\ Fairness

-----------------------------------------------------------------------------
(* Properties.                                                             *)

\* isRefreshing is a lock: reactive and proactive refreshes together never
\* present the same refresh token twice at once.
OneRefreshAtATime ==
    /\ Cardinality(refreshes) <= 1
    /\ isRefreshing <=> refreshes # {}

\* Once a refresh has failed no other is sent until the failure is forgotten,
\* which a sign-in and a profile that arrives do; the page cannot loop on
\* 401s. It follows that processQueue never gets an
\* error: a queue behind a failing refresh is sent again, not rejected.
NoRefreshAfterFailure ==
    refreshes # {} => ~hasRefreshFailed /\ ~lastRefreshError

\* Proactive renewal, once under way, goes on until the user is cleared or a
\* refresh fails, even when the timer fires during a reactive refresh.
Renewing == timer = "armed" \/ orphans > 0 \/ refreshes # {}
RenewalGoesOn ==
    [][Renewing /\ ~Renewing' => hasRefreshFailed' \/ ~userData']_vars

\* "Proactive token renewal ... to ensure seamless user experience"
\* (README.md:200): every request is settled, whatever renewal is under way.
\* A proactive refresh
\* breaks it: nobody processes the queue that forms behind it.
EveryRequestSettles ==
    \A r \in Requests : req[r].status # "idle" ~> req[r].status = "idle"

\* Nothing but a refresh that a timer starts strands a request: sent, or
\* queued behind the refresh of another request, it is settled or comes to
\* wait behind a proactive one.
OnlyTimersStrandRequests ==
    \A r \in Requests :
        req[r].status # "idle" /\ (r \in failedQueue => refreshes \cap Requests # {})
        ~> req[r].status = "idle" \/ (r \in failedQueue /\ Proactive \in refreshes)
=============================================================================
