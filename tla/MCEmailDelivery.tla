-------------------------- MODULE MCEmailDelivery --------------------------
(* E-mail delivery with two instances of email-service. *)
EXTENDS EmailDelivery
=============================================================================
