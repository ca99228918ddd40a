-------------------------- MODULE MCClientSession --------------------------
(* ClientSession on small sets of requests. *)
EXTENDS ClientSession
=============================================================================
