------------------------------ MODULE MCCircuit ------------------------------
(* Circuit for TLC.  Threshold and Open are 3, so that a failure may carry a
   stamp that is stale by part of a cooldown, by all of it, or not at all, and
   a success may come between failures. *)
EXTENDS Circuit
=============================================================================
