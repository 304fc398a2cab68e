---------------------------- MODULE MCAuditChain ----------------------------
(* All threads in one process, as the class invariant asks. *)
EXTENDS AuditChain, TLC
CONSTANT process
OneProcess == [p \in Threads |-> process]
Symmetry == Permutations(Threads)
=============================================================================
