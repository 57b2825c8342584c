----------------------------- MODULE MCMachine ------------------------------
(* An instance of Machine for TLC. *)
EXTENDS Machine
=============================================================================
