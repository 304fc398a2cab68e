---------------------------- MODULE MCHitlCard ----------------------------
(* Instances of HitlCard for TLC. *)
EXTENDS HitlCard, TLC

ClientSymmetry == Permutations(Clients)
=============================================================================
