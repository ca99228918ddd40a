---------------------------- MODULE EmailDelivery ----------------------------
(***************************************************************************)
(* From a registration to its e-mail: the event that auth-service emits    *)
(* (modules/messaging), RabbitMQ's queue email-service, and the consumers  *)
(* of apps/email-service, which acknowledge by hand and take one message   *)
(* at a time. Blue and green environments consume one queue, so there may  *)
(* be several consumers.                                                   *)
(*                                                                         *)
(* Messages are numbered in the order in which they are emitted; RabbitMQ  *)
(* puts a message that comes back into its old place.                      *)
(***************************************************************************)
EXTENDS Integers, FiniteSets, FiniteSetsExt

CONSTANTS
  Registrations,   \* bound: number of registrations
  Consumers,       \* running instances of email-service
  MaxFaults        \* bound: faults that happen

ASSUME EmailAssumption ==
  /\ Registrations \in Nat
  /\ IsFiniteSet(Consumers)
  /\ MaxFaults \in Nat

Messages == 1..Registrations
NoMessage == 0

Modes == {"send", "file", "both"}
Settings == {"smtp", "url", "from"}

VARIABLES
  env,        \* NX_PUBLIC_EMAIL_MODE, the settings that are missing, and ...
              \* the messages whose recipient the SMTP server always rejects
  emitted,    \* number of events emitted
  buffer,     \* events still in the memory of auth-service
  queue,      \* messages ready at the broker
  consumer,   \* the consumers, with the message each has in hand
  mails,      \* how often each message was mailed
  files,      \* how often each message was saved
  acked,      \* messages acknowledged
  lost,       \* history: messages lost with the process that held them
  faults      \* history: number of faults

vars == <<env, emitted, buffer, queue, consumer, mails, files, acked, lost, faults>>

(***************************************************************************)
(* A consumer: what its handler awaits, the message it has in hand, and    *)
(* whether the channel the message came by is still open.                  *)
(***************************************************************************)
Idle == [step |-> "idle", msg |-> NoMessage, open |-> TRUE]
DownState == [step |-> "down", msg |-> NoMessage, open |-> TRUE]

Sends == env.mode \in {"send", "both"}
Saves == env.mode \in {"file", "both"}

Holds(c, m) == consumer[c].msg = m /\ consumer[c].open
InHand == {m \in Messages : \E c \in Consumers : Holds(c, m)}

Fault ==
  /\ faults < MaxFaults
  /\ faults' = faults + 1

Goto(c, step) == consumer' = [consumer EXCEPT ![c].step = step]

Init ==
  /\ env \in [mode : Modes, missing : SUBSET Settings, rejected : SUBSET Messages]
  /\ emitted = 0
  /\ buffer = {}
  /\ queue = {}
  /\ consumer = [c \in Consumers |-> DownState]
  /\ mails = [m \in Messages |-> 0]
  /\ files = [m \in Messages |-> 0]
  /\ acked = {}
  /\ lost = {}
  /\ faults = 0

(***************************************************************************)
(* auth-service and the broker                                             *)
(***************************************************************************)

\* emitUserRegistrationInitiated, fire and forget.
Emit ==
  /\ emitted < Registrations
  /\ emitted' = emitted + 1
  /\ buffer' = buffer \cup {emitted + 1}
  /\ UNCHANGED <<env, queue, consumer, mails, files, acked, lost, faults>>

\* The connection manager publishes in order, as soon as there is a broker.
Publish ==
  /\ buffer # {}
  /\ queue' = queue \cup {Min(buffer)}
  /\ buffer' = buffer \ {Min(buffer)}
  /\ UNCHANGED <<env, emitted, consumer, mails, files, acked, lost, faults>>

\* auth-service ends with what it had not published.
PublisherCrash ==
  /\ buffer # {}
  /\ Fault
  /\ lost' = lost \cup buffer
  /\ buffer' = {}
  /\ UNCHANGED <<env, emitted, queue, consumer, mails, files, acked>>

\* The queue is durable, the messages are not: the client sets no
\* `persistent`. Handlers go on with messages they can no longer settle.
BrokerRestart ==
  /\ queue \cup InHand # {}
  /\ Fault
  /\ lost' = lost \cup queue \cup InHand
  /\ queue' = {}
  /\ consumer' = [c \in Consumers |-> [consumer[c] EXCEPT !.open = (consumer[c].msg = NoMessage)]]
  /\ UNCHANGED <<env, emitted, buffer, mails, files, acked>>

\* A consumer's connection breaks; the broker gives its message to the next.
Disconnect(c) ==
  /\ consumer[c].msg # NoMessage /\ consumer[c].open
  /\ Fault
  /\ queue' = queue \cup {consumer[c].msg}
  /\ consumer' = [consumer EXCEPT ![c].open = FALSE]
  /\ UNCHANGED <<env, emitted, buffer, mails, files, acked, lost>>

(***************************************************************************)
(* email-service                                                           *)
(***************************************************************************)

\* The constructor of EmailService throws without an SMTP server to send by.
Starts == ~(Sends /\ "smtp" \in env.missing)

Start(c) ==
  /\ consumer[c].step = "down"
  /\ Starts
  /\ consumer' = [consumer EXCEPT ![c] = Idle]
  /\ UNCHANGED <<env, emitted, buffer, queue, mails, files, acked, lost, faults>>

\* Variant: the message stays with the process that is gone.
CrashKeepsMessage(c) ==
  /\ consumer[c].step # "down"
  /\ Fault
  /\ consumer' = [consumer EXCEPT ![c].step = "down"]
  /\ UNCHANGED <<env, emitted, buffer, queue, mails, files, acked, lost>>

\* The process ends; its message returns to the queue.
Crash(c) ==
  /\ consumer[c].step # "down"
  /\ Fault
  /\ queue' = IF consumer[c].msg # NoMessage /\ consumer[c].open THEN queue \cup {consumer[c].msg} ELSE queue
  /\ consumer' = [consumer EXCEPT ![c] = DownState]
  /\ UNCHANGED <<env, emitted, buffer, mails, files, acked, lost>>

\* sendVerificationEmail cannot even try.
Unconfigured == "url" \in env.missing \/ (Sends /\ "from" \in env.missing)

FirstStep == IF Unconfigured THEN "nack" ELSE IF Sends THEN "send" ELSE "save"

\* Variant: noAck, the broker takes delivery for success.
DeliverNoAck(c) ==
  /\ consumer[c].step = "idle"
  /\ queue # {}
  /\ consumer' = [consumer EXCEPT ![c] = [step |-> FirstStep, msg |-> Min(queue), open |-> FALSE]]
  /\ queue' = queue \ {Min(queue)}
  /\ acked' = acked \cup {Min(queue)}
  /\ UNCHANGED <<env, emitted, buffer, mails, files, lost, faults>>

\* prefetchCount 1: no message while one is in hand.
Deliver(c) ==
  /\ consumer[c].step = "idle"
  /\ queue # {}
  /\ consumer' = [consumer EXCEPT ![c] = [step |-> FirstStep, msg |-> Min(queue), open |-> TRUE]]
  /\ queue' = queue \ {Min(queue)}
  /\ UNCHANGED <<env, emitted, buffer, mails, files, acked, lost, faults>>

\* sendMail resolves.
Send(c) ==
  /\ consumer[c].step = "send"
  /\ consumer[c].msg \notin env.rejected
  /\ mails' = [mails EXCEPT ![consumer[c].msg] = @ + 1]
  /\ Goto(c, IF Saves THEN "save" ELSE "ack")
  /\ UNCHANGED <<env, emitted, buffer, queue, files, acked, lost, faults>>

\* sendMail rejects: the recipient is refused, or the server fails, or its
\* answer is lost although it has taken the mail.
SendFails(c) ==
  /\ consumer[c].step = "send"
  /\ IF consumer[c].msg \in env.rejected
     THEN UNCHANGED <<mails, faults>>
     ELSE Fault /\ mails' \in {mails, [mails EXCEPT ![consumer[c].msg] = @ + 1]}
  /\ Goto(c, "nack")
  /\ UNCHANGED <<env, emitted, buffer, queue, files, acked, lost>>

Save(c) ==
  /\ consumer[c].step = "save"
  /\ files' = [files EXCEPT ![consumer[c].msg] = @ + 1]
  /\ Goto(c, "ack")
  /\ UNCHANGED <<env, emitted, buffer, queue, mails, acked, lost, faults>>

SaveFails(c) ==
  /\ consumer[c].step = "save"
  /\ Fault
  /\ Goto(c, "nack")
  /\ UNCHANGED <<env, emitted, buffer, queue, mails, files, acked, lost>>

\* Variants: a message goes back even after success; a message is not
\* requeued; the handler settles nothing when it fails.
AckRequeues(c) ==
  /\ consumer[c].step = "ack"
  /\ queue' = IF consumer[c].open THEN queue \cup {consumer[c].msg} ELSE queue
  /\ consumer' = [consumer EXCEPT ![c] = Idle]
  /\ UNCHANGED <<env, emitted, buffer, mails, files, acked, lost, faults>>

NackDrop(c) ==
  /\ consumer[c].step = "nack"
  /\ consumer' = [consumer EXCEPT ![c] = Idle]
  /\ UNCHANGED <<env, emitted, buffer, queue, mails, files, acked, lost, faults>>

NackMissing(c) == consumer[c].step = "nack" /\ UNCHANGED vars

\* On a closed channel ack throws, and so does the nack of the catch block.
Ack(c) ==
  /\ consumer[c].step = "ack"
  /\ acked' = IF consumer[c].open THEN acked \cup {consumer[c].msg} ELSE acked
  /\ consumer' = [consumer EXCEPT ![c] = Idle]
  /\ UNCHANGED <<env, emitted, buffer, queue, mails, files, lost, faults>>

Nack(c) ==
  /\ consumer[c].step = "nack"
  /\ queue' = IF consumer[c].open THEN queue \cup {consumer[c].msg} ELSE queue
  /\ consumer' = [consumer EXCEPT ![c] = Idle]
  /\ UNCHANGED <<env, emitted, buffer, mails, files, acked, lost, faults>>

Handle(c) == Send(c) \/ SendFails(c) \/ Save(c) \/ SaveFails(c) \/ Ack(c) \/ Nack(c)

Next ==
  \/ Emit \/ Publish \/ PublisherCrash \/ BrokerRestart
  \/ \E c \in Consumers : Start(c) \/ Crash(c) \/ Disconnect(c) \/ Deliver(c) \/ Handle(c)

Spec == Init /\ [][Next]_vars

\* The broker comes back, an instance that is down is started again (its
\* container has a restart policy), and every await ends.
FairSpec ==
  /\ Spec
  /\ WF_vars(Publish)
  /\ \A c \in Consumers : WF_vars(Start(c)) /\ WF_vars(Deliver(c)) /\ WF_vars(Handle(c))

(***************************************************************************)
(* Properties                                                              *)
(***************************************************************************)
TypeOK ==
  /\ env \in [mode : Modes, missing : SUBSET Settings, rejected : SUBSET Messages]
  /\ emitted \in 0..Registrations
  /\ buffer \subseteq 1..emitted
  /\ queue \subseteq 1..emitted
  /\ consumer \in [Consumers -> [step : {"down", "idle", "send", "save", "ack", "nack"},
                                 msg : Messages \cup {NoMessage}, open : BOOLEAN]]
  /\ \A c \in Consumers : consumer[c].msg = NoMessage <=> consumer[c].step \in {"down", "idle"}
  /\ mails \in [Messages -> Nat]
  /\ files \in [Messages -> Nat]
  /\ acked \subseteq 1..emitted
  /\ lost \subseteq 1..emitted
  /\ faults \in Nat

\* A message is acknowledged only after its mail was sent and its files
\* written, as far as the mode asks for them, through every crash, lost
\* connection and redelivery.
AckedMeansMailed ==
  \A m \in acked : (Sends => mails[m] > 0) /\ (Saves => files[m] > 0)

\* Every registration is in exactly one place: in the memory of auth-service,
\* in the queue, in one consumer's hand, acknowledged, or lost with a process
\* that kept it in memory: redelivery neither drops nor doubles a message.
NothingVanishes ==
  \A m \in 1..emitted :
    Cardinality({p \in {"buffer", "queue", "acked", "lost"} :
                   CASE p = "buffer" -> m \in buffer [] p = "queue" -> m \in queue
                     [] p = "acked" -> m \in acked [] p = "lost" -> m \in lost})
      + Cardinality({c \in Consumers : Holds(c, m)}) = 1

\* One fault makes at most one mail too many: redelivery alone never sends twice.
MailedOncePerFault == \A m \in Messages : mails[m] <= 1 + faults

\* With all settings there, and no recipient that is always rejected, every
\* registration that is not lost is mailed and acknowledged.
RegistrationsAreMailed ==
  env.missing = {} /\ env.rejected = {} =>
    \A m \in Messages : emitted >= m ~> m \in acked \cup lost

=============================================================================
