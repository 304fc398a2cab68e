-------------------------- MODULE MCParkedMutation --------------------------
(* Values for ParkedMutation, in ticks of five minutes: a forget, extract or
   attachment payload lives as long as its card, a document longer than owner
   and manager together.  The second process has the service of the commits only. *)
EXTENDS ParkedMutation, TLC

CONSTANTS SaveTtl, DocTtl, w1
MCServes == [w \in Workers |-> IF w = w1 THEN Tasks ELSE Commits]
MCTtl == [x \in Tasks \cup {Doc} |->
            IF x \in Commits \cup {Doc} THEN DocTtl ELSE SaveTtl]
Symmetry == Permutations(Clicks)
=============================================================================
