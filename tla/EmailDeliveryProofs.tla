------------------------- MODULE EmailDeliveryProofs -------------------------
(***************************************************************************)
(* The safety of EmailDelivery for any number of registrations, any finite *)
(* set of consumers and any number of faults.                              *)
(*                                                                         *)
(* Three facts carry it: a message is in exactly one place (PlaceOK), a    *)
(* handler has done what the step it is at supposes (HandlersOK), and a    *)
(* mail too many was paid for with a fault (CountOK).                      *)
(***************************************************************************)
EXTENDS EmailDelivery, FiniteSetTheorems, TLAPS

(***************************************************************************)
(* What a handler has in hand was emitted, and the steps before the one it *)
(* is at were taken.                                                       *)
(***************************************************************************)
HandlersOK ==
  /\ \A c \in Consumers : consumer[c].msg <= emitted
  /\ \A c \in Consumers :
       /\ consumer[c].step = "send" => Sends
       /\ consumer[c].step = "save" => Saves /\ (Sends => mails[consumer[c].msg] > 0)
       /\ consumer[c].step = "ack" => /\ Sends => mails[consumer[c].msg] > 0
                                      /\ Saves => files[consumer[c].msg] > 0

(***************************************************************************)
(* A message is in one place, and in one hand at most.                     *)
(***************************************************************************)
Elsewhere == buffer \cup queue \cup acked \cup lost

PlaceOK ==
  /\ buffer \cap (queue \cup acked \cup lost) = {}
  /\ queue \cap (acked \cup lost) = {}
  /\ acked \cap lost = {}
  /\ \A c \in Consumers, m \in Messages : Holds(c, m) => m \notin Elsewhere
  /\ \A c, d \in Consumers, m \in Messages : Holds(c, m) /\ Holds(d, m) => c = d
  /\ \A m \in 1..emitted : m \in Elsewhere \/ \E c \in Consumers : Holds(c, m)

(***************************************************************************)
(* Handlers that may yet send m although their channel is closed, and      *)
(* whether the mail that needs no fault has been sent or never will be.    *)
(***************************************************************************)
Strays(m) == {c \in Consumers : consumer[c].msg = m /\ consumer[c].step = "send" /\ ~consumer[c].open}

Spent(m) ==
  \/ m \in acked \cup lost
  \/ \E c \in Consumers : Holds(c, m) /\ consumer[c].step \in {"save", "ack"}

Allowance(m) == faults + (IF Spent(m) THEN 1 ELSE 0)

Cost(m) == mails[m] + Cardinality(Strays(m))

CountOK == \A m \in Messages : Cost(m) <= Allowance(m)

IInv == TypeOK /\ HandlersOK /\ AckedMeansMailed /\ PlaceOK /\ CountOK

-----------------------------------------------------------------------------
(* Facts that no action is about.                                          *)

\* Publish and Deliver take the oldest message, which is one that is there.
\* The sets 0 .. x for the members x are ordered by inclusion; the smallest
\* of them belongs to the minimum.
LEMMA MinIsMember ==
    ASSUME NEW S \in SUBSET Nat, S # {}
    PROVE  Min(S) \in S
<1>1. PICK n : n \in S
  OBVIOUS
<1> DEFINE I == 0 .. n
<1> DEFINE T == {0 .. x : x \in S \cap I}
<1>2. IsFiniteSet(I)
  BY <1>1, FS_Interval
<1>3. IsWellFoundedOn(StrictSubsetOrdering(I), SUBSET I)
  BY <1>2, FS_StrictSubsetOrderingWellFounded, FS_FiniteSubsetsOfFinite, Zenon
<1>4. T \subseteq SUBSET I
  <2> SUFFICES ASSUME NEW x \in S \cap I PROVE 0 .. x \subseteq I
    OBVIOUS
  <2> QED
    BY <1>1
<1>5. T # {}
  BY <1>1
<1> HIDE DEF T, I
<1>6. PICK t \in T : \A u \in T : ~ (<<u, t>> \in StrictSubsetOrdering(I))
  BY <1>3, <1>4, <1>5, WFMin, Zenon
<1>7. PICK x \in S \cap I : t = 0 .. x
  BY <1>6 DEF T
<1>8. \A y \in S : x <= y
  <2> SUFFICES ASSUME NEW y \in S, y < x PROVE FALSE
    BY <1>1, <1>7 DEF I
  <2>1. y \in I /\ x \in Nat /\ y \in Nat
    BY <1>1, <1>7 DEF I
  <2>2. 0 .. y \in T
    BY <2>1 DEF T
  <2>3. 0 .. y \subseteq 0 .. x /\ 0 .. y # 0 .. x
    <3>1. x \in 0 .. x /\ x \notin 0 .. y
      BY <2>1
    <3>2. 0 .. y \subseteq 0 .. x
      BY <2>1
    <3> QED
      BY <3>1, <3>2
  <2>4. <<0 .. y, t>> \in StrictSubsetOrdering(I)
    BY <2>2, <2>3, <1>4, <1>6, <1>7 DEF StrictSubsetOrdering
  <2> QED
    BY <2>2, <2>4, <1>6
<1> QED
  BY <1>7, <1>8 DEF Min

\* TypeOK and HandlersOK in the form in which the steps use them.
LEMMA Types ==
  ASSUME TypeOK, HandlersOK
  PROVE  /\ emitted \in Nat /\ emitted <= Registrations
         /\ buffer \in SUBSET (1..emitted) /\ queue \in SUBSET (1..emitted)
         /\ buffer \in SUBSET Nat /\ queue \in SUBSET Nat
         /\ 1..emitted \subseteq Messages
         /\ \A c \in Consumers : consumer[c].msg # NoMessage => consumer[c].msg \in 1..emitted
<1> USE EmailAssumption DEF TypeOK, HandlersOK, Messages, NoMessage
<1>1. emitted \in Nat /\ emitted <= Registrations
  OBVIOUS
<1>2. ASSUME NEW c \in Consumers, consumer[c].msg # NoMessage PROVE consumer[c].msg \in 1..emitted
  <2>1. consumer[c].msg \in Messages \cup {NoMessage} /\ consumer[c].msg <= emitted
    OBVIOUS
  <2> QED
    BY <1>1, <1>2, <2>1
<1> QED
  BY <1>1, <1>2

\* What a queue hands out is a message that waits in it.
LEMMA Oldest ==
  ASSUME TypeOK, HandlersOK
  PROVE  /\ buffer # {} => Min(buffer) \in buffer
         /\ queue # {} => Min(queue) \in queue /\ Min(queue) \in 1..emitted
BY Types, MinIsMember

-----------------------------------------------------------------------------
(* The beginning, and TypeOK                                               *)

\* In the beginning nothing has been emitted and nothing was done.
LEMMA InitIInv == Init => IInv
<1> SUFFICES ASSUME Init PROVE IInv
  OBVIOUS
<1> USE EmailAssumption DEF Init, DownState, NoMessage
<1>1. TypeOK
  BY DEF TypeOK, Messages
<1>2. HandlersOK
  BY DEF HandlersOK
<1>3. AckedMeansMailed
  BY DEF AckedMeansMailed
<1>4. PlaceOK
  BY DEF PlaceOK, Holds, Elsewhere, Messages
<1>5. CountOK
  <2> SUFFICES ASSUME NEW m \in Messages PROVE Cost(m) <= Allowance(m)
    BY DEF CountOK
  <2>1. Strays(m) = {}
    BY DEF Strays
  <2>2. mails[m] = 0 /\ Cardinality(Strays(m)) = 0 /\ faults = 0
    BY <2>1, FS_EmptySet
  <2>3. Allowance(m) \in {0, 1}
    BY <2>2 DEF Allowance
  <2> QED
    BY <2>2, <2>3 DEF Cost
<1> QED
  BY <1>1, <1>2, <1>3, <1>4, <1>5 DEF IInv

\* The values a handler may have; a message is in hand at the steps that need one.
Busy == {"send", "save", "ack", "nack"}
Hand == {h \in [step : {"down", "idle", "send", "save", "ack", "nack"},
                msg : Messages \cup {NoMessage}, open : BOOLEAN] :
           h.msg = NoMessage <=> h.step \in {"down", "idle"}}

\* Those values are what TypeOK says of the consumers.
LEMMA HandsTyped ==
  /\ TypeOK => consumer \in [Consumers -> Hand]
  /\ consumer \in [Consumers -> Hand] =>
       /\ consumer \in [Consumers -> [step : {"down", "idle", "send", "save", "ack", "nack"},
                                      msg : Messages \cup {NoMessage}, open : BOOLEAN]]
       /\ \A c \in Consumers : consumer[c].msg = NoMessage <=> consumer[c].step \in {"down", "idle"}
BY DEF TypeOK, Hand

\* What the actions write into a handler is such a value.
LEMMA HandValues ==
  /\ Idle \in Hand /\ DownState \in Hand
  /\ \A h \in Hand, b \in BOOLEAN : [h EXCEPT !.open = b] \in Hand
  /\ \A h \in Hand, s \in Busy : h.step \in Busy => [h EXCEPT !.step = s] \in Hand
  /\ \A m \in Messages, s \in Busy, b \in BOOLEAN : [step |-> s, msg |-> m, open |-> b] \in Hand
BY EmailAssumption DEF Hand, Busy, Idle, DownState, Messages, NoMessage

\* Every step gives the consumers such values.
LEMMA HandsStep ==
  ASSUME TypeOK, HandlersOK, Next
  PROVE  consumer' \in [Consumers -> Hand]
<1>1. CASE Emit
  BY <1>1, HandsTyped DEF Emit
<1>2. CASE Publish
  BY <1>2, HandsTyped DEF Publish
<1>3. CASE PublisherCrash
  BY <1>3, HandsTyped DEF PublisherCrash
<1>4. CASE BrokerRestart
  BY <1>4, HandsTyped, HandValues DEF BrokerRestart
<1>5. ASSUME NEW c \in Consumers, Start(c) \/ Crash(c) \/ Disconnect(c) \/ Deliver(c) \/ Handle(c)
      PROVE  consumer' \in [Consumers -> Hand]
  <2>1. CASE Start(c)
    BY <2>1, HandsTyped, HandValues DEF Start
  <2>2. CASE Crash(c)
    BY <2>2, HandsTyped, HandValues DEF Crash
  <2>3. CASE Disconnect(c)
    BY <2>3, HandsTyped, HandValues DEF Disconnect
  <2>4. CASE Deliver(c)
    <3>1. Min(queue) \in Messages
      BY <2>4, Types, Oldest DEF Deliver
    <3>2. FirstStep \in Busy
      BY DEF FirstStep, Busy
    <3> QED
      BY <2>4, <3>1, <3>2, HandsTyped, HandValues DEF Deliver
  <2>5. CASE Send(c)
    BY <2>5, HandsTyped, HandValues DEF Send, Goto, Busy
  <2>6. CASE SendFails(c)
    BY <2>6, HandsTyped, HandValues DEF SendFails, Goto, Busy
  <2>7. CASE Save(c)
    BY <2>7, HandsTyped, HandValues DEF Save, Goto, Busy
  <2>8. CASE SaveFails(c)
    BY <2>8, HandsTyped, HandValues DEF SaveFails, Goto, Busy
  <2>9. CASE Ack(c)
    BY <2>9, HandsTyped, HandValues DEF Ack
  <2>10. CASE Nack(c)
    BY <2>10, HandsTyped, HandValues DEF Nack
  <2> QED
    BY <1>5, <2>1, <2>2, <2>3, <2>4, <2>5, <2>6, <2>7, <2>8, <2>9, <2>10 DEF Handle
<1> QED
  BY <1>1, <1>2, <1>3, <1>4, <1>5 DEF Next

\* The other variables keep their types: what moves between the places is a
\* message that was emitted.
TablesTyped ==
  /\ env \in [mode : Modes, missing : SUBSET Settings, rejected : SUBSET Messages]
  /\ emitted \in 0..Registrations
  /\ buffer \subseteq 1..emitted
  /\ queue \subseteq 1..emitted
  /\ mails \in [Messages -> Nat]
  /\ files \in [Messages -> Nat]
  /\ acked \subseteq 1..emitted
  /\ lost \subseteq 1..emitted
  /\ faults \in Nat

LEMMA TablesStep ==
  ASSUME TypeOK, HandlersOK, Next
  PROVE  TablesTyped'
<1>a. TablesTyped
  BY DEF TypeOK, TablesTyped
<1>1. CASE Emit
  <2>1. emitted + 1 \in 0..Registrations /\ buffer \cup {emitted + 1} \subseteq 1..emitted + 1 /\ 1..emitted \subseteq 1..emitted + 1
    BY <1>1, <1>a, EmailAssumption DEF Emit, TablesTyped
  <2> QED
    BY <1>1, <1>a, <2>1 DEF Emit, TablesTyped
<1>2. CASE Publish
  BY <1>2, <1>a, Oldest DEF Publish, TablesTyped
<1>3. CASE PublisherCrash
  BY <1>3, <1>a DEF PublisherCrash, Fault, TablesTyped
<1>4. CASE BrokerRestart
  <2>1. InHand \subseteq 1..emitted
    BY Types, EmailAssumption DEF InHand, Holds, Messages, NoMessage
  <2> QED
    BY <1>4, <1>a, <2>1 DEF BrokerRestart, Fault, TablesTyped
<1>5. ASSUME NEW c \in Consumers, Start(c) \/ Crash(c) \/ Disconnect(c) \/ Deliver(c) \/ Handle(c)
      PROVE  TablesTyped'
  <2>1. CASE Start(c)
    BY <2>1, <1>a DEF Start, TablesTyped
  <2>2. CASE Crash(c)
    <3>1. consumer[c].msg # NoMessage => consumer[c].msg \in 1..emitted
      BY Types
    <3>2. queue' \subseteq 1..emitted
      BY <2>2, <1>a, <3>1 DEF Crash, TablesTyped
    <3> QED
      BY <2>2, <1>a, <3>2 DEF Crash, Fault, TablesTyped
  <2>3. CASE Disconnect(c)
    <3>1. consumer[c].msg # NoMessage => consumer[c].msg \in 1..emitted
      BY Types
    <3>2. consumer[c].step \in {"send", "save", "ack", "nack"} => consumer[c].msg \in 1..emitted /\ consumer[c].msg \in Messages
      BY <3>1, Types, HandsTyped DEF Hand
    <3> QED
      BY <2>3, <1>a, <3>1, <3>2 DEF Disconnect, TablesTyped, Fault
  <2>4. CASE Deliver(c)
    BY <2>4, <1>a, Oldest DEF Deliver, TablesTyped
  <2>5. CASE Send(c)
    <3>1. consumer[c].msg # NoMessage => consumer[c].msg \in 1..emitted
      BY Types
    <3>2. consumer[c].step \in {"send", "save", "ack", "nack"} => consumer[c].msg \in 1..emitted /\ consumer[c].msg \in Messages
      BY <3>1, Types, HandsTyped DEF Hand
    <3> QED
      BY <2>5, <1>a, <3>1, <3>2 DEF Send, TablesTyped
  <2>6. CASE SendFails(c)
    <3>1. consumer[c].msg # NoMessage => consumer[c].msg \in 1..emitted
      BY Types
    <3>2. consumer[c].step \in {"send", "save", "ack", "nack"} => consumer[c].msg \in 1..emitted /\ consumer[c].msg \in Messages
      BY <3>1, Types, HandsTyped DEF Hand
    <3> QED
      BY <2>6, <1>a, <3>1, <3>2 DEF SendFails, TablesTyped, Fault
  <2>7. CASE Save(c)
    <3>1. consumer[c].msg # NoMessage => consumer[c].msg \in 1..emitted
      BY Types
    <3>2. consumer[c].step \in {"send", "save", "ack", "nack"} => consumer[c].msg \in 1..emitted /\ consumer[c].msg \in Messages
      BY <3>1, Types, HandsTyped DEF Hand
    <3> QED
      BY <2>7, <1>a, <3>1, <3>2 DEF Save, TablesTyped
  <2>8. CASE SaveFails(c)
    <3>1. consumer[c].msg # NoMessage => consumer[c].msg \in 1..emitted
      BY Types
    <3>2. consumer[c].step \in {"send", "save", "ack", "nack"} => consumer[c].msg \in 1..emitted /\ consumer[c].msg \in Messages
      BY <3>1, Types, HandsTyped DEF Hand
    <3> QED
      BY <2>8, <1>a, <3>1, <3>2 DEF SaveFails, TablesTyped, Fault
  <2>9. CASE Ack(c)
    <3>1. consumer[c].msg # NoMessage => consumer[c].msg \in 1..emitted
      BY Types
    <3>2. consumer[c].step \in {"send", "save", "ack", "nack"} => consumer[c].msg \in 1..emitted /\ consumer[c].msg \in Messages
      BY <3>1, Types, HandsTyped DEF Hand
    <3> QED
      BY <2>9, <1>a, <3>1, <3>2 DEF Ack, TablesTyped
  <2>10. CASE Nack(c)
    <3>1. consumer[c].msg # NoMessage => consumer[c].msg \in 1..emitted
      BY Types
    <3>2. consumer[c].step \in {"send", "save", "ack", "nack"} => consumer[c].msg \in 1..emitted /\ consumer[c].msg \in Messages
      BY <3>1, Types, HandsTyped DEF Hand
    <3> QED
      BY <2>10, <1>a, <3>1, <3>2 DEF Nack, TablesTyped
  <2> QED
    BY <1>5, <2>1, <2>2, <2>3, <2>4, <2>5, <2>6, <2>7, <2>8, <2>9, <2>10 DEF Handle
<1> QED
  BY <1>1, <1>2, <1>3, <1>4, <1>5 DEF Next

LEMMA TypeStep ==
  ASSUME TypeOK, HandlersOK, Next
  PROVE  TypeOK'
<1>1. consumer' \in [Consumers -> Hand]
  BY HandsStep
<1> QED
  BY <1>1, HandsTyped, TablesStep DEF TypeOK, TablesTyped, Hand

-----------------------------------------------------------------------------
(* HandlersOK and AckedMeansMailed                                         *)

\* A handler reaches a step only through those before it, and nothing undoes
\* a mail or a file.
LEMMA HandlersStep ==
  ASSUME TypeOK, HandlersOK, Next
  PROVE  HandlersOK'
<1> USE DEF HandlersOK, Idle, DownState, NoMessage, Sends, Saves
<1>a. mails \in [Messages -> Nat] /\ files \in [Messages -> Nat]
  BY DEF TypeOK
<1>b. consumer \in [Consumers -> Hand] /\ env.mode \in {"send", "file", "both"}
  BY HandsTyped DEF TypeOK, Modes
<1>1. CASE Emit
  BY <1>1, <1>a, <1>b, Types DEF Emit, Goto
<1>2. CASE Publish
  BY <1>2, <1>a, <1>b, Types DEF Publish, Goto
<1>3. CASE PublisherCrash
  BY <1>3, <1>a, <1>b, Types DEF PublisherCrash, Goto
<1>4. CASE BrokerRestart
  <2>1. \A d \in Consumers : consumer'[d].step = consumer[d].step /\ consumer'[d].msg = consumer[d].msg
    BY <1>4, <1>b DEF BrokerRestart, Hand
  <2> QED
    BY <1>4, <1>a, <1>b, <2>1, Types DEF BrokerRestart
<1>5. ASSUME NEW c \in Consumers, Start(c) \/ Crash(c) \/ Disconnect(c) \/ Deliver(c) \/ Handle(c)
      PROVE  HandlersOK'
  <2>1. CASE Start(c)
    BY <2>1, <1>a, <1>b, Types DEF Start, Goto
  <2>2. CASE Crash(c)
    BY <2>2, <1>a, <1>b, Types DEF Crash, Goto
  <2>3. CASE Disconnect(c)
    BY <2>3, <1>a, <1>b, Types DEF Disconnect, Goto
  <2>4. CASE Deliver(c)
    BY <2>4, <1>a, <1>b, Types, Oldest DEF Deliver, FirstStep
  <2>5. CASE Send(c)
    BY <2>5, <1>a, <1>b, Types DEF Send, Goto, Hand
  <2>6. CASE SendFails(c)
    BY <2>6, <1>a, <1>b, Types DEF SendFails, Fault, Goto, Hand
  <2>7. CASE Save(c)
    BY <2>7, <1>a, <1>b, Types DEF Save, Goto, Hand
  <2>8. CASE SaveFails(c)
    BY <2>8, <1>a, <1>b, Types DEF SaveFails, Goto
  <2>9. CASE Ack(c)
    BY <2>9, <1>a, <1>b, Types DEF Ack, Goto
  <2>10. CASE Nack(c)
    BY <2>10, <1>a, <1>b, Types DEF Nack, Goto
  <2> QED
    BY <1>5, <2>1, <2>2, <2>3, <2>4, <2>5, <2>6, <2>7, <2>8, <2>9, <2>10 DEF Handle
<1> QED
  BY <1>1, <1>2, <1>3, <1>4, <1>5 DEF Next

\* Only Ack acknowledges, and it finds the mail sent and the files written.
LEMMA AckedStep ==
  ASSUME TypeOK, HandlersOK, AckedMeansMailed, Next
  PROVE  AckedMeansMailed'
<1> USE DEF HandlersOK, AckedMeansMailed, Sends, Saves
<1>a. /\ mails \in [Messages -> Nat] /\ files \in [Messages -> Nat]
      /\ acked \subseteq Messages /\ consumer \in [Consumers -> Hand]
  BY Types, HandsTyped DEF TypeOK
<1>1. CASE Emit
  BY <1>1, <1>a DEF Emit
<1>2. CASE Publish
  BY <1>2, <1>a DEF Publish
<1>3. CASE PublisherCrash
  BY <1>3, <1>a DEF PublisherCrash
<1>4. CASE BrokerRestart
  BY <1>4, <1>a DEF BrokerRestart
<1>5. ASSUME NEW c \in Consumers, Start(c) \/ Crash(c) \/ Disconnect(c) \/ Deliver(c) \/ Handle(c)
      PROVE  AckedMeansMailed'
  <2>1. CASE Start(c)
    BY <2>1, <1>a DEF Start
  <2>2. CASE Crash(c)
    BY <2>2, <1>a DEF Crash
  <2>3. CASE Disconnect(c)
    BY <2>3, <1>a DEF Disconnect
  <2>4. CASE Deliver(c)
    BY <2>4, <1>a DEF Deliver
  <2>5. CASE Send(c)
    BY <2>5, <1>a DEF Send, Hand
  <2>6. CASE SendFails(c)
    BY <2>6, <1>a DEF SendFails, Hand
  <2>7. CASE Save(c)
    BY <2>7, <1>a DEF Save, Hand
  <2>8. CASE SaveFails(c)
    BY <2>8, <1>a DEF SaveFails
  <2>9. CASE Ack(c)
    BY <2>9, <1>a DEF Ack
  <2>10. CASE Nack(c)
    BY <2>10, <1>a DEF Nack
  <2> QED
    BY <1>5, <2>1, <2>2, <2>3, <2>4, <2>5, <2>6, <2>7, <2>8, <2>9, <2>10 DEF Handle
<1> QED
  BY <1>1, <1>2, <1>3, <1>4, <1>5 DEF Next

-----------------------------------------------------------------------------
(* PlaceOK                                                                 *)

\* What the steps do to the hands: they keep them, ...
LEMMA HandsKept ==
  ASSUME TypeOK, NEW c \in Consumers, NEW s, Goto(c, s)
  PROVE  \A d \in Consumers, m \in Messages : Holds(d, m)' <=> Holds(d, m)
BY HandsTyped DEF Goto, Holds, Hand

\* ... empty one, or close the channel it belongs to, ...
Released(c) == \A d \in Consumers, m \in Messages : Holds(d, m)' <=> d # c /\ Holds(d, m)

LEMMA HandReleased ==
  ASSUME TypeOK, NEW c \in Consumers,
         consumer' \in {[consumer EXCEPT ![c] = Idle], [consumer EXCEPT ![c] = DownState],
                        [consumer EXCEPT ![c].open = FALSE]}
  PROVE  Released(c)
BY HandsTyped, EmailAssumption DEF Holds, Idle, DownState, Messages, NoMessage, Hand, Released

\* ... or fill one.
Taken(c, n) == \A d \in Consumers, m \in Messages : Holds(d, m)' <=> IF d = c THEN m = n ELSE Holds(d, m)

LEMMA HandFilled ==
  ASSUME TypeOK, NEW c \in Consumers, consumer[c].step = "idle", NEW n \in Messages, NEW s,
         consumer' = [consumer EXCEPT ![c] = [step |-> s, msg |-> n, open |-> TRUE]]
  PROVE  Taken(c, n)
BY HandsTyped DEF Holds, Hand, Taken

\* A restart of the broker closes the channel of every message in hand.
LEMMA Closed ==
  ASSUME TypeOK, BrokerRestart, NEW d \in Consumers, NEW m \in Messages, consumer'[d].msg = m
  PROVE  ~consumer'[d].open
<1>1. consumer' = [c \in Consumers |-> [consumer[c] EXCEPT !.open = (consumer[c].msg = NoMessage)]]
  BY DEF BrokerRestart
<1>2. consumer[d] \in Hand /\ consumer'[d] = [consumer[d] EXCEPT !.open = (consumer[d].msg = NoMessage)]
  BY <1>1, HandsTyped
<1>3. consumer[d].msg = m /\ m # NoMessage
  BY <1>2, EmailAssumption DEF Hand, Messages, NoMessage
<1> QED
  BY <1>2, <1>3 DEF Hand

\* An idle hand holds nothing.
LEMMA IdleHoldsNothing ==
  ASSUME TypeOK, NEW c \in Consumers, consumer[c].step \in {"down", "idle"}, NEW m \in Messages
  PROVE  ~Holds(c, m)
BY HandsTyped, EmailAssumption DEF Holds, Hand, Messages, NoMessage

\* Every step moves a message from one place to another and leaves the
\* others where they are.
LEMMA PlaceStep ==
  ASSUME TypeOK, HandlersOK, PlaceOK, Next
  PROVE  PlaceOK'
<1>1. CASE Emit
  <2>1. \A d \in Consumers, m \in Messages : Holds(d, m)' <=> Holds(d, m)
    BY <1>1 DEF Emit, Holds
  <2>2. emitted + 1 \notin Elsewhere /\ \A d \in Consumers : ~Holds(d, emitted + 1)
    BY <1>1, Types, EmailAssumption DEF Emit, Elsewhere, TypeOK, Holds, NoMessage
  <2> QED
    BY <1>1, <2>1, <2>2, Types DEF Emit, PlaceOK, Elsewhere
<1>2. CASE Publish
  <2>1. \A d \in Consumers, m \in Messages : Holds(d, m)' <=> Holds(d, m)
    BY <1>2 DEF Publish, Holds
  <2> QED
    BY <1>2, <2>1, Types, Oldest DEF Publish, PlaceOK, Elsewhere
<1>3. CASE PublisherCrash
  <2>1. \A d \in Consumers, m \in Messages : Holds(d, m)' <=> Holds(d, m)
    BY <1>3 DEF PublisherCrash, Holds
  <2> QED
    BY <1>3, <2>1, Types DEF PublisherCrash, PlaceOK, Elsewhere
<1>4. CASE BrokerRestart
  <2>1. \A d \in Consumers, m \in Messages : ~Holds(d, m)'
    BY <1>4, Closed DEF Holds
  <2>2. lost' = lost \cup queue \cup InHand /\ queue' = {} /\ UNCHANGED <<emitted, buffer, acked>>
    BY <1>4 DEF BrokerRestart
  <2>3. \A m \in Messages : m \in InHand <=> \E d \in Consumers : Holds(d, m)
    BY DEF InHand
  <2>4. InHand \subseteq Messages
    BY DEF InHand
  <2> QED
    BY <2>1, <2>2, <2>3, <2>4, Types DEF PlaceOK, Elsewhere
<1>5. ASSUME NEW c \in Consumers, Start(c) \/ Crash(c) \/ Disconnect(c) \/ Deliver(c) \/ Handle(c)
      PROVE  PlaceOK'
  <2>1. CASE Start(c)
    <3>1. Released(c)
      BY <2>1, HandReleased DEF Start
    <3>2. \A m \in Messages : ~Holds(c, m)
      BY <2>1, IdleHoldsNothing DEF Start
    <3> QED
      BY <2>1, <3>1, <3>2, Types DEF Start, PlaceOK, Elsewhere, Released
  <2>2. CASE Crash(c)
    <3>1. Released(c)
      BY <2>2, HandReleased DEF Crash
    <3>2. \A m \in Messages : Holds(c, m) <=> consumer[c].open /\ consumer[c].msg = m
      BY DEF Holds
    <3>3. UNCHANGED <<emitted, buffer, acked, lost>>
      BY <2>2 DEF Crash
    <3>4. CASE consumer[c].msg # NoMessage /\ consumer[c].open
      BY <2>2, <3>1, <3>2, <3>3, <3>4, Types DEF Crash, PlaceOK, Elsewhere, Released
    <3>5. CASE ~(consumer[c].msg # NoMessage /\ consumer[c].open)
      BY <2>2, <3>1, <3>2, <3>3, <3>5, Types, EmailAssumption DEF Crash, PlaceOK, Elsewhere, Released, Messages, NoMessage
    <3> QED
      BY <3>4, <3>5
  <2>3. CASE Disconnect(c)
    <3>1. Released(c)
      BY <2>3, HandReleased DEF Disconnect
    <3>2. consumer[c].msg # NoMessage => consumer[c].msg \in Messages
      BY Types
    <3>3. \A m \in Messages : Holds(c, m) <=> consumer[c].open /\ consumer[c].msg = m
      BY DEF Holds
    <3> QED
      BY <2>3, <3>1, <3>2, <3>3, Types DEF Disconnect, PlaceOK, Elsewhere, Released
  <2>4. CASE Deliver(c)
    <3>1. Min(queue) \in queue /\ Min(queue) \in Messages
      BY <2>4, Types, Oldest DEF Deliver
    <3>2. Taken(c, Min(queue))
      BY <2>4, <3>1, HandFilled DEF Deliver
    <3>3. \A m \in Messages : ~Holds(c, m)
      BY <2>4, IdleHoldsNothing DEF Deliver
    <3> QED
      BY <2>4, <3>1, <3>2, <3>3, Types DEF Deliver, PlaceOK, Elsewhere, Taken
  <2>5. CASE Send(c)
    <3>1. \A d \in Consumers, m \in Messages : Holds(d, m)' <=> Holds(d, m)
      BY <2>5, HandsKept DEF Send
    <3> QED
      BY <2>5, <3>1, Types DEF Send, PlaceOK, Elsewhere
  <2>6. CASE SendFails(c)
    <3>1. \A d \in Consumers, m \in Messages : Holds(d, m)' <=> Holds(d, m)
      BY <2>6, HandsKept DEF SendFails
    <3> QED
      BY <2>6, <3>1, Types DEF SendFails, PlaceOK, Elsewhere
  <2>7. CASE Save(c)
    <3>1. \A d \in Consumers, m \in Messages : Holds(d, m)' <=> Holds(d, m)
      BY <2>7, HandsKept DEF Save
    <3> QED
      BY <2>7, <3>1, Types DEF Save, PlaceOK, Elsewhere
  <2>8. CASE SaveFails(c)
    <3>1. \A d \in Consumers, m \in Messages : Holds(d, m)' <=> Holds(d, m)
      BY <2>8, HandsKept DEF SaveFails
    <3> QED
      BY <2>8, <3>1, Types DEF SaveFails, PlaceOK, Elsewhere
  <2>9. CASE Ack(c)
    <3>1. Released(c)
      BY <2>9, HandReleased DEF Ack
    <3>2. consumer[c].msg \in Messages
      BY <2>9, Types, HandsTyped DEF Ack, Hand
    <3>3. \A m \in Messages : Holds(c, m) <=> consumer[c].open /\ consumer[c].msg = m
      BY DEF Holds
    <3> QED
      BY <2>9, <3>1, <3>2, <3>3, Types DEF Ack, PlaceOK, Elsewhere, Released
  <2>10. CASE Nack(c)
    <3>1. Released(c)
      BY <2>10, HandReleased DEF Nack
    <3>2. consumer[c].msg \in Messages
      BY <2>10, Types, HandsTyped DEF Nack, Hand
    <3>3. \A m \in Messages : Holds(c, m) <=> consumer[c].open /\ consumer[c].msg = m
      BY DEF Holds
    <3> QED
      BY <2>10, <3>1, <3>2, <3>3, Types DEF Nack, PlaceOK, Elsewhere, Released
  <2> QED
    BY <1>5, <2>1, <2>2, <2>3, <2>4, <2>5, <2>6, <2>7, <2>8, <2>9, <2>10 DEF Handle
<1> QED
  BY <1>1, <1>2, <1>3, <1>4, <1>5 DEF Next

-----------------------------------------------------------------------------
(* CountOK                                                                 *)

\* Sets of consumers can be counted.
LEMMA Counting ==
  /\ \A S \in SUBSET Consumers : IsFiniteSet(S) /\ Cardinality(S) \in Nat
  /\ \A S, T \in SUBSET Consumers : T \subseteq S => Cardinality(T) <= Cardinality(S)
  /\ \A S, T \in SUBSET Consumers, c \in Consumers : T \subseteq S \cup {c} => Cardinality(T) <= Cardinality(S) + 1
  /\ \A S, T \in SUBSET Consumers : \A c \in S : T \subseteq S \ {c} => Cardinality(T) + 1 <= Cardinality(S)
<1>1. ASSUME NEW S \in SUBSET Consumers PROVE IsFiniteSet(S) /\ Cardinality(S) \in Nat
  BY FS_Subset, FS_CardinalityType, EmailAssumption
<1>2. ASSUME NEW S \in SUBSET Consumers, NEW T \in SUBSET S PROVE Cardinality(T) <= Cardinality(S)
  BY <1>1, FS_Subset
<1>3. ASSUME NEW S \in SUBSET Consumers, NEW c \in Consumers, NEW T \in SUBSET (S \cup {c})
      PROVE  Cardinality(T) <= Cardinality(S) + 1
  <2>1. S \cup {c} \in SUBSET Consumers
    OBVIOUS
  <2>2. Cardinality(S \cup {c}) <= Cardinality(S) + 1
    BY <1>1, FS_AddElement
  <2>3. Cardinality(T) <= Cardinality(S \cup {c})
    BY <1>2, <2>1
  <2>4. Cardinality(T) \in Nat /\ Cardinality(S \cup {c}) \in Nat /\ Cardinality(S) \in Nat
    BY <1>1, <2>1
  <2> QED
    BY <2>2, <2>3, <2>4
<1>4. ASSUME NEW S \in SUBSET Consumers, NEW c \in S, NEW T \in SUBSET (S \ {c})
      PROVE  Cardinality(T) + 1 <= Cardinality(S)
  <2>1. S \ {c} \in SUBSET Consumers
    OBVIOUS
  <2>2. Cardinality(S \ {c}) = Cardinality(S) - 1
    BY <1>1, FS_RemoveElement
  <2>3. Cardinality(T) <= Cardinality(S \ {c})
    BY <1>2, <2>1
  <2>4. Cardinality(T) \in Nat /\ Cardinality(S \ {c}) \in Nat /\ Cardinality(S) \in Nat
    BY <1>1, <2>1
  <2> QED
    BY <2>2, <2>3, <2>4
<1> QED
  BY <1>1, <1>2, <1>3, <1>4

\* The ways in which the books are balanced: nothing is spent; a fault pays
\* for what is spent, or for what the message may cost anew; the first mail is free.
LEMMA Balance ==
  ASSUME TypeOK, TypeOK', CountOK, NEW m \in Messages,
         \/ faults' = faults /\ Cost(m)' <= Cost(m) /\ (Spent(m) => Spent(m)')
         \/ faults' = faults + 1 /\ Cost(m)' <= Cost(m)
         \/ faults' = faults + 1 /\ Cost(m)' <= Cost(m) + 1 /\ ~Spent(m)
         \/ faults' = faults /\ Cost(m)' <= Cost(m) + 1 /\ ~Spent(m) /\ Spent(m)'
  PROVE  Cost(m)' <= Allowance(m)'
<1>1. Strays(m) \in SUBSET Consumers /\ Strays(m)' \in SUBSET Consumers
  BY DEF Strays
<1>2. mails[m] \in Nat /\ mails'[m] \in Nat /\ faults \in Nat
  BY DEF TypeOK
<1>3. Cost(m) \in Nat /\ Cost(m)' \in Nat
  <2>1. Cardinality(Strays(m)) \in Nat /\ Cardinality(Strays(m)') \in Nat
    BY <1>1, Counting
  <2> QED
    BY <1>2, <2>1 DEF Cost
<1>4. Allowance(m) = IF Spent(m) THEN faults + 1 ELSE faults
  BY <1>2 DEF Allowance
<1>5. PICK f \in Nat : f = faults'
  BY DEF TypeOK
<1>7. Allowance(m)' = IF Spent(m)' THEN f + 1 ELSE f
  <2>1. Allowance(m)' = f + (IF Spent(m)' THEN 1 ELSE 0)
    BY <1>5, Zenon DEF Allowance
  <2>2. CASE Spent(m)'
    BY <2>1, <2>2
  <2>3. CASE ~Spent(m)'
    BY <2>1, <2>3
  <2> QED
    BY <2>2, <2>3
<1>6. Cost(m) <= Allowance(m)
  BY DEF CountOK
<1> QED
  BY <1>2, <1>3, <1>4, <1>5, <1>6, <1>7

\* What a message costs when its mails are the same, and its strays the
\* same, fewer, or one more.
LEMMA CostWithMails ==
  ASSUME TypeOK, NEW m \in Messages, mails'[m] = mails[m]
  PROVE  /\ Strays(m)' \subseteq Strays(m) => Cost(m)' <= Cost(m)
         /\ \A c \in Consumers : Strays(m)' \subseteq Strays(m) \cup {c} => Cost(m)' <= Cost(m) + 1
<1>1. Strays(m) \in SUBSET Consumers /\ Strays(m)' \in SUBSET Consumers
  BY DEF Strays
<1>2. Cardinality(Strays(m)) \in Nat /\ Cardinality(Strays(m)') \in Nat
  BY <1>1, Counting
<1>3. mails[m] \in Nat
  BY DEF TypeOK
<1>4. Strays(m)' \subseteq Strays(m) => Cardinality(Strays(m)') <= Cardinality(Strays(m))
  BY <1>1, Counting
<1>5. ASSUME NEW c \in Consumers, Strays(m)' \subseteq Strays(m) \cup {c}
      PROVE  Cardinality(Strays(m)') <= Cardinality(Strays(m)) + 1
  BY <1>1, <1>5, Counting
<1> QED
  BY <1>2, <1>3, <1>4, <1>5 DEF Cost

\* The same when c has ended its attempt to send m, with one mail more or
\* none: a stray is a stray no longer.
LEMMA CostOfSending ==
  ASSUME TypeOK, NEW m \in Messages, NEW c \in Consumers,
         mails'[m] \in {mails[m], mails[m] + 1},
         Strays(m)' \subseteq Strays(m) \ {c}
  PROVE  /\ Cost(m)' <= Cost(m) + 1
         /\ c \in Strays(m) => Cost(m)' <= Cost(m)
<1>1. Strays(m) \in SUBSET Consumers /\ Strays(m)' \in SUBSET Consumers
  BY DEF Strays
<1>2. Cardinality(Strays(m)) \in Nat /\ Cardinality(Strays(m)') \in Nat
  BY <1>1, Counting
<1>3. mails[m] \in Nat
  BY DEF TypeOK
<1>4. Cardinality(Strays(m)') <= Cardinality(Strays(m))
  BY <1>1, Counting
<1>5. c \in Strays(m) => Cardinality(Strays(m)') + 1 <= Cardinality(Strays(m))
  BY <1>1, Counting
<1> QED
  BY <1>2, <1>3, <1>4, <1>5 DEF Cost

\* A message that is about to be sent by its holder has cost nothing yet.
LEMMA NotYetSpent ==
  ASSUME PlaceOK, NEW c \in Consumers, NEW m \in Messages, Holds(c, m), consumer[c].step = "send"
  PROVE  ~Spent(m)
BY DEF PlaceOK, Elsewhere, Spent

\* What is spent stays spent as long as its holder does not lose it.
LEMMA SpentStays ==
  ASSUME NEW m \in Messages, Spent(m), acked \subseteq acked', lost \subseteq lost',
         \A d \in Consumers : Holds(d, m) /\ consumer[d].step \in {"save", "ack"} =>
            \/ Holds(d, m)' /\ consumer'[d].step \in {"save", "ack"}
            \/ m \in acked'
  PROVE  Spent(m)'
BY DEF Spent

\* Every step keeps the balance.
LEMMA CountStep ==
  ASSUME TypeOK, TypeOK', HandlersOK, PlaceOK, CountOK, Next
  PROVE  CountOK'
<1>a. consumer \in [Consumers -> Hand]
  BY HandsTyped
<1>b. mails \in [Messages -> Nat] /\ faults \in Nat
  BY DEF TypeOK
<1>1. CASE Emit
  <2> SUFFICES ASSUME NEW m \in Messages PROVE Cost(m)' <= Allowance(m)'
    BY DEF CountOK
  <2>1. mails'[m] = mails[m] /\ faults' = faults /\ Strays(m)' = Strays(m)
    BY <1>1 DEF Emit, Strays
  <2>2. Spent(m) => Spent(m)'
    BY <1>1, SpentStays DEF Emit, Holds
  <2> QED
    BY <2>1, <2>2, CostWithMails, Balance
<1>2. CASE Publish
  <2> SUFFICES ASSUME NEW m \in Messages PROVE Cost(m)' <= Allowance(m)'
    BY DEF CountOK
  <2>1. mails'[m] = mails[m] /\ faults' = faults /\ Strays(m)' = Strays(m)
    BY <1>2 DEF Publish, Strays
  <2>2. Spent(m) => Spent(m)'
    BY <1>2, SpentStays DEF Publish, Holds
  <2> QED
    BY <2>1, <2>2, CostWithMails, Balance
<1>3. CASE PublisherCrash
  <2> SUFFICES ASSUME NEW m \in Messages PROVE Cost(m)' <= Allowance(m)'
    BY DEF CountOK
  <2>1. mails'[m] = mails[m] /\ faults' = faults + 1 /\ Strays(m)' = Strays(m)
    BY <1>3 DEF PublisherCrash, Strays, Fault
  <2> QED
    BY <2>1, CostWithMails, Balance
<1>4. CASE BrokerRestart
  <2> SUFFICES ASSUME NEW m \in Messages PROVE Cost(m)' <= Allowance(m)'
    BY DEF CountOK
  <2>1. mails'[m] = mails[m] /\ faults' = faults + 1
    BY <1>4 DEF BrokerRestart, Fault
  <2>2. \A d \in Consumers : consumer'[d].step = consumer[d].step /\ consumer'[d].msg = consumer[d].msg
    BY <1>4, <1>a DEF BrokerRestart, Hand
  <2>3. ASSUME NEW c \in Consumers, Holds(c, m), consumer[c].step = "send" PROVE Cost(m)' <= Allowance(m)'
    <3>1. Strays(m)' \subseteq Strays(m) \cup {c}
      BY <2>2, <2>3 DEF Strays, PlaceOK, Holds
    <3>2. ~Spent(m)
      BY <2>3, NotYetSpent
    <3> QED
      BY <3>1, <3>2, <2>1, CostWithMails, Balance
  <2>4. CASE \A c \in Consumers : ~(Holds(c, m) /\ consumer[c].step = "send")
    <3>1. Strays(m)' \subseteq Strays(m)
      BY <2>2, <2>4 DEF Strays, Holds
    <3> QED
      BY <3>1, <2>1, CostWithMails, Balance
  <2> QED
    BY <2>3, <2>4
<1>5. ASSUME NEW c \in Consumers, Start(c) \/ Crash(c) \/ Disconnect(c) \/ Deliver(c) \/ Handle(c)
      PROVE  CountOK'
  <2>1. CASE Start(c)
    <3> SUFFICES ASSUME NEW m \in Messages PROVE Cost(m)' <= Allowance(m)'
      BY DEF CountOK
    <3>1. mails'[m] = mails[m] /\ faults' = faults
      BY <2>1 DEF Start
    <3>2. Strays(m)' \subseteq Strays(m)
      BY <2>1, <1>a DEF Start, Strays, Goto, Idle, Hand
    <3>3. Spent(m) => Spent(m)'
      BY <2>1, <1>a, SpentStays DEF Start, Holds, Goto, Hand
    <3> QED
      BY <3>1, <3>2, <3>3, CostWithMails, Balance
  <2>2. CASE Crash(c)
    <3> SUFFICES ASSUME NEW m \in Messages PROVE Cost(m)' <= Allowance(m)'
      BY DEF CountOK
    <3>1. mails'[m] = mails[m] /\ faults' = faults + 1
      BY <2>2 DEF Crash, Fault
    <3>2. Strays(m)' \subseteq Strays(m)
      BY <2>2, <1>a DEF Crash, Strays, Goto, DownState, Hand
    <3> QED
      BY <3>1, <3>2, CostWithMails, Balance
  <2>3. CASE Disconnect(c)
    <3> SUFFICES ASSUME NEW m \in Messages PROVE Cost(m)' <= Allowance(m)'
      BY DEF CountOK
    <3>1. mails'[m] = mails[m] /\ faults' = faults + 1
      BY <2>3 DEF Disconnect, Fault
    <3>2. CASE consumer[c].msg = m /\ consumer[c].step = "send"
      <4>1. Strays(m)' \subseteq Strays(m) \cup {c}
        BY <2>3, <1>a DEF Disconnect, Strays, Hand
      <4>2. ~Spent(m)
        BY <2>3, <3>2, NotYetSpent DEF Disconnect, Holds
      <4> QED
        BY <4>1, <4>2, <3>1, CostWithMails, Balance
    <3>3. CASE ~(consumer[c].msg = m /\ consumer[c].step = "send")
      <4>1. Strays(m)' \subseteq Strays(m)
        BY <2>3, <3>3, <1>a DEF Disconnect, Strays, Hand
      <4> QED
        BY <4>1, <3>1, CostWithMails, Balance
    <3> QED
      BY <3>2, <3>3
  <2>4. CASE Deliver(c)
    <3> SUFFICES ASSUME NEW m \in Messages PROVE Cost(m)' <= Allowance(m)'
      BY DEF CountOK
    <3>1. mails'[m] = mails[m] /\ faults' = faults
      BY <2>4 DEF Deliver
    <3>2. Strays(m)' \subseteq Strays(m)
      BY <2>4, <1>a DEF Deliver, Strays, Goto, Idle, Hand, FirstStep
    <3>3. Spent(m) => Spent(m)'
      BY <2>4, <1>a, SpentStays DEF Deliver, Holds, Goto, Hand, FirstStep
    <3> QED
      BY <3>1, <3>2, <3>3, CostWithMails, Balance
  <2>5. CASE Send(c)
    <3> SUFFICES ASSUME NEW m \in Messages PROVE Cost(m)' <= Allowance(m)'
      BY DEF CountOK
    <3>1. CASE consumer[c].msg # m
      <4>1. mails'[m] = mails[m] /\ Strays(m)' \subseteq Strays(m)
        BY <2>5, <3>1, <1>a, <1>b DEF Send, Strays, Goto, Hand
      <4>2. Spent(m) => Spent(m)'
        BY <2>5, <3>1, <1>a, SpentStays DEF Send, Holds, Goto, Hand
      <4> QED
        BY <2>5, <4>1, <4>2, CostWithMails, Balance DEF Send, Fault
    <3>2. CASE consumer[c].msg = m
      <4>1. mails'[m] = mails[m] + 1 /\ faults' = faults
        BY <2>5, <3>2, <1>b DEF Send
      <4>2. Strays(m)' \subseteq Strays(m) \ {c}
        BY <2>5, <1>a DEF Send, Strays, Goto, Hand
      <4>3. Cost(m)' <= Cost(m) + 1 /\ (c \in Strays(m) => Cost(m)' <= Cost(m))
        BY <4>1, <4>2, CostOfSending
      <4>4. CASE consumer[c].open
        <5>1. ~Spent(m)
          BY <2>5, <3>2, <4>4, NotYetSpent DEF Send, Holds
        <5>2. Spent(m)'
          BY <2>5, <3>2, <4>4, <1>a DEF Send, Spent, Holds, Goto, Hand
        <5> QED
          BY <4>1, <4>3, <5>1, <5>2, Balance
      <4>5. CASE ~consumer[c].open
        <5>1. c \in Strays(m)
          BY <2>5, <3>2, <4>5 DEF Send, Strays
        <5>2. Spent(m) => Spent(m)'
          BY <2>5, <4>5, <1>a, SpentStays DEF Send, Holds, Goto, Hand
        <5> QED
          BY <4>1, <4>3, <5>1, <5>2, Balance
      <4> QED
        BY <4>4, <4>5
    <3> QED
      BY <3>1, <3>2
  <2>6. CASE SendFails(c)
    <3> SUFFICES ASSUME NEW m \in Messages PROVE Cost(m)' <= Allowance(m)'
      BY DEF CountOK
    <3>1. CASE consumer[c].msg # m
      <4>1. mails'[m] = mails[m] /\ Strays(m)' \subseteq Strays(m)
        BY <2>6, <3>1, <1>a, <1>b DEF SendFails, Strays, Goto, Hand
      <4>2. Spent(m) => Spent(m)'
        BY <2>6, <3>1, <1>a, SpentStays DEF SendFails, Holds, Goto, Hand
      <4> QED
        BY <2>6, <4>1, <4>2, CostWithMails, Balance DEF SendFails, Fault
    <3>2. CASE consumer[c].msg = m
      <4>1. Strays(m)' \subseteq Strays(m) \ {c}
        BY <2>6, <1>a DEF SendFails, Strays, Goto, Hand
      <4>2. mails'[m] \in {mails[m], mails[m] + 1}
        BY <2>6, <1>b DEF SendFails
      <4>3. Cost(m)' <= Cost(m) + 1 /\ (c \in Strays(m) => Cost(m)' <= Cost(m))
        BY <4>1, <4>2, CostOfSending
      <4>4. CASE faults' = faults
        <5>1. mails' = mails
          BY <2>6, <4>4, <1>b DEF SendFails, Fault
        <5>2. Spent(m) => Spent(m)'
          BY <2>6, <1>a, SpentStays DEF SendFails, Holds, Goto, Hand
        <5> QED
          BY <4>1, <4>4, <5>1, <5>2, CostWithMails, Balance
      <4>5. CASE faults' = faults + 1
        <5>1. CASE consumer[c].open
          <6>1. ~Spent(m)
            BY <2>6, <3>2, <5>1, NotYetSpent DEF SendFails, Holds
          <6> QED
            BY <4>3, <4>5, <6>1, Balance
        <5>2. CASE ~consumer[c].open
          <6>1. c \in Strays(m)
            BY <2>6, <3>2, <5>2 DEF SendFails, Strays
          <6> QED
            BY <4>3, <4>5, <6>1, Balance
        <5> QED
          BY <5>1, <5>2
      <4> QED
        BY <2>6, <4>4, <4>5 DEF SendFails, Fault
    <3> QED
      BY <3>1, <3>2
  <2>7. CASE Save(c)
    <3> SUFFICES ASSUME NEW m \in Messages PROVE Cost(m)' <= Allowance(m)'
      BY DEF CountOK
    <3>1. mails'[m] = mails[m] /\ faults' = faults
      BY <2>7 DEF Save
    <3>2. Strays(m)' \subseteq Strays(m)
      BY <2>7, <1>a DEF Save, Strays, Goto, Idle, Hand
    <3>3. Spent(m) => Spent(m)'
      BY <2>7, <1>a, SpentStays DEF Save, Holds, Goto, Hand
    <3> QED
      BY <3>1, <3>2, <3>3, CostWithMails, Balance
  <2>8. CASE SaveFails(c)
    <3> SUFFICES ASSUME NEW m \in Messages PROVE Cost(m)' <= Allowance(m)'
      BY DEF CountOK
    <3>1. mails'[m] = mails[m] /\ faults' = faults + 1
      BY <2>8 DEF SaveFails, Fault
    <3>2. Strays(m)' \subseteq Strays(m)
      BY <2>8, <1>a DEF SaveFails, Strays, Goto, DownState, Hand
    <3> QED
      BY <3>1, <3>2, CostWithMails, Balance
  <2>9. CASE Ack(c)
    <3> SUFFICES ASSUME NEW m \in Messages PROVE Cost(m)' <= Allowance(m)'
      BY DEF CountOK
    <3>1. mails'[m] = mails[m] /\ faults' = faults
      BY <2>9 DEF Ack
    <3>2. Strays(m)' \subseteq Strays(m)
      BY <2>9, <1>a DEF Ack, Strays, Goto, Idle, Hand
    <3>3. Spent(m) => Spent(m)'
      BY <2>9, <1>a, SpentStays DEF Ack, Holds, Goto, Hand
    <3> QED
      BY <3>1, <3>2, <3>3, CostWithMails, Balance
  <2>10. CASE Nack(c)
    <3> SUFFICES ASSUME NEW m \in Messages PROVE Cost(m)' <= Allowance(m)'
      BY DEF CountOK
    <3>1. mails'[m] = mails[m] /\ faults' = faults
      BY <2>10 DEF Nack
    <3>2. Strays(m)' \subseteq Strays(m)
      BY <2>10, <1>a DEF Nack, Strays, Goto, Idle, Hand
    <3>3. Spent(m) => Spent(m)'
      BY <2>10, <1>a, SpentStays DEF Nack, Holds, Goto, Hand
    <3> QED
      BY <3>1, <3>2, <3>3, CostWithMails, Balance
  <2> QED
    BY <1>5, <2>1, <2>2, <2>3, <2>4, <2>5, <2>6, <2>7, <2>8, <2>9, <2>10 DEF Handle
<1> QED
  BY <1>1, <1>2, <1>3, <1>4, <1>5 DEF Next

-----------------------------------------------------------------------------
(* The theorems                                                            *)

\* The invariant is kept by every step and by stuttering.
LEMMA NextIInv == IInv /\ [Next]_vars => IInv'
<1> SUFFICES ASSUME IInv, [Next]_vars PROVE IInv'
  OBVIOUS
<1>1. CASE Next
  <2>1. TypeOK' /\ HandlersOK' /\ AckedMeansMailed' /\ PlaceOK'
    BY <1>1, TypeStep, HandlersStep, AckedStep, PlaceStep DEF IInv
  <2>2. CountOK'
    BY <1>1, <2>1, CountStep DEF IInv
  <2> QED
    BY <2>1, <2>2 DEF IInv
<1>2. CASE UNCHANGED vars
  <2>1. TypeOK' /\ HandlersOK' /\ AckedMeansMailed'
    BY <1>2 DEF vars, IInv, TypeOK, HandlersOK, AckedMeansMailed, Sends, Saves
  <2>2. PlaceOK'
    BY <1>2 DEF vars, IInv, PlaceOK, Elsewhere, Holds
  <2>3. CountOK'
    BY <1>2 DEF vars, IInv, CountOK, Cost, Allowance, Strays, Spent, Holds
  <2> QED
    BY <2>1, <2>2, <2>3 DEF IInv
<1> QED
  BY <1>1, <1>2

\* The inductive invariant holds in every reachable state.
THEOREM Invariance == Spec => []IInv
BY InitIInv, NextIInv, PTL DEF Spec

\* Every variable keeps its type, for any instance.
THEOREM TypeCorrect == Spec => []TypeOK
<1>1. IInv => TypeOK
  BY DEF IInv
<1> QED
  BY <1>1, Invariance, PTL

\* A message is acknowledged only after its mail was sent and its files were
\* written, for any number of consumers, messages and faults.
THEOREM AckedIsMailed == Spec => []AckedMeansMailed
<1>1. IInv => AckedMeansMailed
  BY DEF IInv
<1> QED
  BY <1>1, Invariance, PTL

\* The two cardinalities of NothingVanishes: one of the four places has the
\* message and no consumer, or one consumer and none of the places.
LEMMA PlacesCounted ==
  ASSUME TypeOK, HandlersOK, PlaceOK
  PROVE  NothingVanishes
<1> SUFFICES ASSUME NEW m \in 1..emitted
             PROVE  Cardinality({p \in {"buffer", "queue", "acked", "lost"} :
                      CASE p = "buffer" -> m \in buffer [] p = "queue" -> m \in queue
                        [] p = "acked" -> m \in acked [] p = "lost" -> m \in lost})
                    + Cardinality({c \in Consumers : Holds(c, m)}) = 1
  BY DEF NothingVanishes
<1> DEFINE P == {p \in {"buffer", "queue", "acked", "lost"} :
                   CASE p = "buffer" -> m \in buffer [] p = "queue" -> m \in queue
                     [] p = "acked" -> m \in acked [] p = "lost" -> m \in lost}
<1> DEFINE H == {c \in Consumers : Holds(c, m)}
<1>1. m \in Messages
  BY Types
<1>2. /\ "buffer" \in P <=> m \in buffer
      /\ "queue" \in P <=> m \in queue
      /\ "acked" \in P <=> m \in acked
      /\ "lost" \in P <=> m \in lost
      /\ P \subseteq {"buffer", "queue", "acked", "lost"}
  OBVIOUS
<1> SUFFICES Cardinality(P) + Cardinality(H) = 1
  OBVIOUS
<1> HIDE DEF P
<1>3. CASE m \in Elsewhere
  <2>1. \E p : P = {p}
    <3>1. ASSUME m \in buffer PROVE P = {"buffer"}
      <4>1. m \notin queue /\ m \notin acked /\ m \notin lost
        BY <3>1 DEF PlaceOK
      <4> QED
        BY <1>2, <3>1, <4>1
    <3>2. ASSUME m \in queue PROVE P = {"queue"}
      <4>1. m \notin buffer /\ m \notin acked /\ m \notin lost
        BY <3>2 DEF PlaceOK
      <4> QED
        BY <1>2, <3>2, <4>1
    <3>3. ASSUME m \in acked PROVE P = {"acked"}
      <4>1. m \notin buffer /\ m \notin queue /\ m \notin lost
        BY <3>3 DEF PlaceOK
      <4> QED
        BY <1>2, <3>3, <4>1
    <3>4. ASSUME m \in lost PROVE P = {"lost"}
      <4>1. m \notin buffer /\ m \notin queue /\ m \notin acked
        BY <3>4 DEF PlaceOK
      <4> QED
        BY <1>2, <3>4, <4>1
    <3> QED
      BY <1>3, <3>1, <3>2, <3>3, <3>4 DEF Elsewhere
  <2>2. H = {}
    BY <1>1, <1>3 DEF PlaceOK
  <2>3. Cardinality(P) = 1 /\ Cardinality(H) = 0
    BY <2>1, <2>2, FS_Singleton, FS_EmptySet
  <2> QED
    BY <2>3
<1>4. CASE m \notin Elsewhere
  <2>1. P = {}
    BY <1>2, <1>4 DEF Elsewhere
  <2>2. PICK c \in Consumers : Holds(c, m)
    BY <1>4 DEF PlaceOK
  <2>3. H = {c}
    BY <1>1, <2>2 DEF PlaceOK
  <2>4. Cardinality(P) = 0 /\ Cardinality(H) = 1
    BY <2>1, <2>3, FS_Singleton, FS_EmptySet
  <2> QED
    BY <2>4
<1> QED
  BY <1>3, <1>4

\* Every registration is in exactly one place, whatever crashes, restarts,
\* broken connections and redeliveries there have been.
THEOREM NoneVanishes == Spec => []NothingVanishes
<1>1. IInv => NothingVanishes
  BY PlacesCounted DEF IInv
<1> QED
  BY <1>1, Invariance, PTL

\* One fault makes at most one mail too many: redelivery alone sends none twice.
THEOREM MailsAreCounted == Spec => []MailedOncePerFault
<1>1. IInv => MailedOncePerFault
  <2> SUFFICES ASSUME IInv, NEW m \in Messages PROVE mails[m] <= 1 + faults
    BY DEF MailedOncePerFault
  <2>1. Strays(m) \in SUBSET Consumers
    BY DEF Strays
  <2>2. Cardinality(Strays(m)) \in Nat
    BY <2>1, Counting
  <2>3. mails[m] \in Nat /\ faults \in Nat
    BY DEF IInv, TypeOK
  <2>4. mails[m] + Cardinality(Strays(m)) <= faults + (IF Spent(m) THEN 1 ELSE 0)
    BY DEF IInv, CountOK, Cost, Allowance
  <2> QED
    BY <2>2, <2>3, <2>4
<1> QED
  BY <1>1, Invariance, PTL

-----------------------------------------------------------------------------
(* What a registration was promised.                                       *)

Pending == (1..emitted) \ (acked \cup lost)
MailedSome == {m \in Messages : mails[m] > 0}
FiledSome == {m \in Messages : files[m] > 0}
Asked == {x \in {"mail", "file"} : IF x = "mail" THEN Sends ELSE Saves}

Promise == INSTANCE DeliveryPromise WITH
  Registered <- Messages, wanted <- Asked, owed <- Pending, done <- acked, lost <- lost,
  mailed <- MailedSome, filed <- FiledSome

\* A registration is accepted when its event is emitted.
LEMMA PromiseInit == Init => Promise!Init
<1> SUFFICES ASSUME Init PROVE Promise!Init
  OBVIOUS
<1>1. Pending = {} /\ acked = {} /\ lost = {}
  BY DEF Init, Pending
<1>2. MailedSome = {} /\ FiledSome = {}
  BY DEF Init, MailedSome, FiledSome
<1>3. Asked \in SUBSET {"mail", "file"}
  BY DEF Asked
<1> QED
  BY <1>1, <1>2, <1>3 DEF Promise!Init

\* Where the messages are that a step is about.
LEMMA WherePending ==
  ASSUME IInv
  PROVE  /\ Promise!Accepted = 1..emitted
         /\ buffer \subseteq Pending /\ queue \subseteq Pending /\ InHand \subseteq Pending
         /\ \A c \in Consumers : consumer[c].msg # NoMessage =>
               /\ consumer[c].msg \in Messages
               /\ consumer[c].msg \in 1..emitted
               /\ consumer[c].open => consumer[c].msg \in Pending
<1> USE DEF IInv
<1>1. acked \subseteq 1..emitted /\ lost \subseteq 1..emitted
  BY DEF TypeOK
<1>2. Promise!Accepted = 1..emitted
  BY <1>1 DEF Promise!Accepted, Pending
<1>3. buffer \subseteq Pending /\ queue \subseteq Pending
  BY Types DEF PlaceOK, Pending
<1>4. ASSUME NEW c \in Consumers, consumer[c].msg # NoMessage
      PROVE  /\ consumer[c].msg \in Messages
             /\ consumer[c].msg \in 1..emitted
             /\ consumer[c].open => consumer[c].msg \in Pending
  BY <1>4, Types DEF PlaceOK, Elsewhere, Holds, Pending
<1>5. InHand \subseteq Pending
  <2> SUFFICES ASSUME NEW m \in Messages, NEW c \in Consumers, Holds(c, m) PROVE m \in Pending
    BY DEF InHand
  <2> QED
    BY <1>4, EmailAssumption DEF Holds, Messages, NoMessage
<1> QED
  BY <1>2, <1>3, <1>4, <1>5

\* Every step of the delivery is a step of the promise, or is not seen by it.
LEMMA PromiseStep == IInv /\ [Next]_vars => [Promise!Next]_(Promise!promise)
<1> SUFFICES ASSUME IInv, [Next]_vars PROVE [Promise!Next]_(Promise!promise)
  OBVIOUS
<1> DEFINE Goal == Promise!Next \/ UNCHANGED Promise!promise
<1>0. /\ TypeOK /\ HandlersOK /\ emitted \in Nat
      /\ mails \in [Messages -> Nat] /\ files \in [Messages -> Nat]
      /\ acked \subseteq 1..emitted /\ lost \subseteq 1..emitted
      /\ 1..emitted \subseteq Messages
  BY Types DEF IInv, TypeOK
<1>1. Asked' = Asked
  BY DEF Next, vars, Handle, Emit, Publish, PublisherCrash, BrokerRestart, Start, Crash, Disconnect,
         Deliver, Send, SendFails, Save, SaveFails, Ack, Nack, Asked, Sends, Saves
\* A step that is not seen.
<1>2. ASSUME UNCHANGED <<emitted, acked, lost, mails, files>> PROVE Goal
  BY <1>1, <1>2 DEF Promise!promise, Pending, MailedSome, FiledSome
\* A message lost.
<1>3. ASSUME NEW S \in SUBSET Pending, lost' = lost \cup S,
             UNCHANGED <<emitted, acked, mails, files>>
      PROVE  Goal
  <2>1. Pending' = Pending \ S
    BY <1>3 DEF Pending
  <2>2. UNCHANGED <<MailedSome, FiledSome>>
    BY <1>3 DEF MailedSome, FiledSome
  <2>3. Promise!Lose(S)
    BY <1>1, <1>3, <2>1, <2>2 DEF Promise!Lose
  <2> QED
    BY <1>3, <2>3 DEF Promise!Next
\* A mail sent.
<1>4. ASSUME NEW m \in 1..emitted, Sends, mails' = [mails EXCEPT ![m] = @ + 1],
             UNCHANGED <<emitted, acked, lost, files>>
      PROVE  Goal
  <2>1. MailedSome' = MailedSome \cup {m}
    BY <1>0, <1>4 DEF MailedSome
  <2>2. UNCHANGED <<Pending, FiledSome>>
    BY <1>4 DEF Pending, FiledSome
  <2>3. Promise!Mail(m)
    BY <1>0, <1>1, <1>4, <2>1, <2>2, WherePending DEF Promise!Mail, Asked
  <2> QED
    BY <1>0, <2>3 DEF Promise!Next
\* A file saved.
<1>5. ASSUME NEW m \in 1..emitted, Saves, files' = [files EXCEPT ![m] = @ + 1],
             UNCHANGED <<emitted, acked, lost, mails>>
      PROVE  Goal
  <2>1. FiledSome' = FiledSome \cup {m}
    BY <1>0, <1>5 DEF FiledSome
  <2>2. UNCHANGED <<Pending, MailedSome>>
    BY <1>5 DEF Pending, MailedSome
  <2>3. Promise!File(m)
    BY <1>0, <1>1, <1>5, <2>1, <2>2, WherePending DEF Promise!File, Asked
  <2> QED
    BY <1>0, <2>3 DEF Promise!Next
<1>6. CASE Emit
  <2>1. Pending' = Pending \cup {emitted + 1} /\ emitted + 1 \notin 1..emitted
    BY <1>0, <1>6 DEF Emit, Pending
  <2>2. UNCHANGED <<MailedSome, FiledSome, acked, lost>>
    BY <1>6 DEF Emit, MailedSome, FiledSome
  <2>3. Promise!Accept(emitted + 1)
    BY <1>1, <2>1, <2>2, WherePending DEF Promise!Accept
  <2>4. emitted + 1 \in Messages
    BY <1>0, <1>6, EmailAssumption DEF Emit, Messages
  <2> QED
    BY <2>3, <2>4 DEF Promise!Next
<1>7. CASE PublisherCrash
  BY <1>3, <1>7, WherePending DEF PublisherCrash
<1>8. CASE BrokerRestart
  <2>1. lost' = lost \cup (queue \cup InHand) /\ queue \cup InHand \subseteq Pending
    BY <1>8, WherePending DEF BrokerRestart
  <2> QED
    BY <1>3, <1>8, <2>1 DEF BrokerRestart
<1>9. ASSUME NEW c \in Consumers, Handle(c) PROVE Goal
  <2>1. consumer[c].msg # NoMessage
    BY <1>0, <1>9 DEF TypeOK, Handle, Send, SendFails, Save, SaveFails, Ack, Nack
  <2>2. consumer[c].msg \in 1..emitted
    BY <2>1, WherePending
  <2>3. CASE Send(c) \/ SendFails(c)
    <3>1. Sends /\ UNCHANGED <<emitted, acked, lost, files>>
          /\ mails' \in {mails, [mails EXCEPT ![consumer[c].msg] = @ + 1]}
      BY <1>0, <2>3 DEF Send, SendFails, HandlersOK
    <3> QED
      BY <1>2, <1>4, <2>2, <3>1
  <2>4. CASE Save(c)
    <3>1. Saves /\ UNCHANGED <<emitted, acked, lost, mails>>
          /\ files' = [files EXCEPT ![consumer[c].msg] = @ + 1]
      BY <1>0, <2>4 DEF Save, HandlersOK
    <3> QED
      BY <1>5, <2>2, <3>1
  <2>5. CASE SaveFails(c) \/ Nack(c)
    BY <1>2, <2>5 DEF SaveFails, Nack
  <2>6. CASE Ack(c) /\ consumer[c].open
    <3> DEFINE m == consumer[c].msg
    <3>1. m \in Pending /\ m \in Messages
      BY <2>1, <2>6, WherePending
    <3>2. acked' = acked \cup {m} /\ UNCHANGED <<emitted, lost, mails, files>>
      BY <2>6 DEF Ack
    <3>3. Pending' = Pending \ {m} /\ UNCHANGED <<MailedSome, FiledSome>>
      BY <3>2 DEF Pending, MailedSome, FiledSome
    <3>4. (Sends => m \in MailedSome) /\ (Saves => m \in FiledSome)
      BY <1>0, <2>6, <3>1 DEF HandlersOK, Ack, MailedSome, FiledSome
    <3>5. Promise!Settle(m)
      BY <1>1, <3>1, <3>2, <3>3, <3>4 DEF Promise!Settle, Asked
    <3> QED
      BY <3>1, <3>5 DEF Promise!Next
  <2>7. CASE Ack(c) /\ ~consumer[c].open
    BY <1>2, <2>7 DEF Ack
  <2> QED
    BY <1>9, <2>3, <2>4, <2>5, <2>6, <2>7 DEF Handle
<1>10. CASE Publish \/ UNCHANGED vars
  BY <1>2, <1>10 DEF Publish, vars
<1>11. ASSUME NEW c \in Consumers, Start(c) \/ Crash(c) \/ Disconnect(c) \/ Deliver(c) PROVE Goal
  BY <1>2, <1>11 DEF Start, Crash, Disconnect, Deliver
<1> QED
  BY <1>6, <1>7, <1>8, <1>9, <1>10, <1>11 DEF Next

\* The delivery keeps the promise: through every crash, lost connection and
\* redelivery a registration is owed its mail until it is settled, once and
\* after the mail went out, or lost for good.
THEOREM PromiseKept == Spec => Promise!Spec
<1>1. IInv /\ [Next]_vars => [Promise!Next]_(Promise!promise)
  BY PromiseStep
<1> QED
  BY PromiseInit, Invariance, <1>1, PTL DEF Spec, Promise!Spec
=============================================================================
