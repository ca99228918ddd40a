---------------------------- MODULE MCBlueGreen ----------------------------
(* The deployment on two services. *)
EXTENDS BlueGreen
=============================================================================
