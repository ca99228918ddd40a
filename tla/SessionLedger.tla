---------------------------- MODULE SessionLedger ----------------------------
(***************************************************************************)
(* What the auth-service promises about sessions, with no tokens in sight: *)
(* a session opens once, on an account that exists; any number of open     *)
(* sessions may end together; an ended session never opens again, whatever *)
(* refresh is still in flight; an account that goes takes all its sessions *)
(* with it.                                                                *)
(***************************************************************************)
CONSTANTS SessionIds, UserIds, Null

VARIABLES
    accounts,  \* the accounts that exist
    status,    \* each session: "new", "open" or "ended"
    owner      \* the account a session was opened on

ledger == <<accounts, status, owner>>

OpenSessions == {s \in SessionIds : status[s] = "open"}

Init ==
    /\ accounts = UserIds
    /\ status = [s \in SessionIds |-> "new"]
    /\ owner = [s \in SessionIds |-> Null]

Ended(S) == [s \in SessionIds |-> IF s \in S THEN "ended" ELSE status[s]]

\* A session that opens may take the place of others, which end.
Open(s, u, S) ==
    /\ u \in accounts
    /\ status[s] = "new"
    /\ S \subseteq OpenSessions
    /\ status' = [Ended(S) EXCEPT ![s] = "open"]
    /\ owner' = [owner EXCEPT ![s] = u]
    /\ UNCHANGED accounts

End(S) ==
    /\ S \subseteq OpenSessions
    /\ status' = Ended(S)
    /\ UNCHANGED <<accounts, owner>>

CloseAccounts(U) ==
    /\ accounts' = accounts \ U
    /\ status' = Ended({s \in OpenSessions : owner[s] \in U})
    /\ UNCHANGED owner

Next ==
    \/ \E s \in SessionIds, u \in UserIds, S \in SUBSET OpenSessions : Open(s, u, S)
    \/ \E S \in SUBSET OpenSessions : End(S)
    \/ \E U \in SUBSET UserIds : CloseAccounts(U)

Spec == Init /\ [][Next]_ledger
=============================================================================
