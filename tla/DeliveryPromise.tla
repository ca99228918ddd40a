--------------------------- MODULE DeliveryPromise ---------------------------
(***************************************************************************)
(* What the delivery of e-mails promises, with no queue and no consumer in *)
(* sight: a registration that was accepted is owed its mail until it is    *)
(* settled, which happens once and not before the mail is out, or until    *)
(* it is lost with a process that had it in memory.  Settled and lost are  *)
(* final.                                                                  *)
(***************************************************************************)
CONSTANT Registered   \* the registrations there may be

VARIABLES
  wanted,           \* what a registration is owed: a mail, a file, or both
  owed, done, lost, \* the registrations accepted, by what became of them
  mailed, filed     \* those mailed, those saved in a file, at least once

promise == <<wanted, owed, done, lost, mailed, filed>>

Accepted == owed \cup done \cup lost

Init ==
  /\ wanted \in SUBSET {"mail", "file"}
  /\ owed = {} /\ done = {} /\ lost = {}
  /\ mailed = {} /\ filed = {}

Accept(m) ==
  /\ m \notin Accepted
  /\ owed' = owed \cup {m}
  /\ UNCHANGED <<wanted, done, lost, mailed, filed>>

\* A mail may go out late: by a process that does not know what became of m.
Mail(m) ==
  /\ "mail" \in wanted
  /\ m \in Accepted
  /\ mailed' = mailed \cup {m}
  /\ UNCHANGED <<wanted, owed, done, lost, filed>>

File(m) ==
  /\ "file" \in wanted
  /\ m \in Accepted
  /\ filed' = filed \cup {m}
  /\ UNCHANGED <<wanted, owed, done, lost, mailed>>

Settle(m) ==
  /\ m \in owed
  /\ "mail" \in wanted => m \in mailed
  /\ "file" \in wanted => m \in filed
  /\ owed' = owed \ {m}
  /\ done' = done \cup {m}
  /\ UNCHANGED <<wanted, lost, mailed, filed>>

Lose(S) ==
  /\ S \subseteq owed
  /\ owed' = owed \ S
  /\ lost' = lost \cup S
  /\ UNCHANGED <<wanted, done, mailed, filed>>

Next ==
  \/ \E m \in Registered : Accept(m) \/ Mail(m) \/ File(m) \/ Settle(m)
  \/ \E S \in SUBSET owed : Lose(S)

Spec == Init /\ [][Next]_promise
=============================================================================
