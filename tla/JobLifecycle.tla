---------------------------- MODULE JobLifecycle ----------------------------
(***************************************************************************)
(* What the queue of memory-extraction jobs promises of each job, without  *)
(* leases, workers, rows or time: at-least-once work in one attempt after  *)
(* another.  A job may be worked through more than once, by attempts that  *)
(* then fail to report; but one that is done was worked through and is not *)
(* worked on again, and one is given up only when it was tried often       *)
(* enough.  ExtractQueue shows that PostgresExtractJobQueue keeps this     *)
(* promise while no attempt outlasts its lease and revivals do not race.   *)
(***************************************************************************)
EXTENDS Naturals

CONSTANTS Jobs, MaxAttempts

VARIABLES state,   \* [Jobs -> States]
          tries,   \* [Jobs -> Nat]: attempts since the job was queued
          lost,    \* [Jobs -> Nat]: those of them that nobody reported on
          worked   \* the jobs that some attempt worked through

vars == <<state, tries, lost, worked>>

States == {"absent", "waiting", "working", "abandoned", "done", "dead"}

Init == /\ state = [j \in Jobs |-> "absent"]
        /\ tries = [j \in Jobs |-> 0] /\ lost = [j \in Jobs |-> 0]
        /\ worked = {}

Moves(j, from, to) == state[j] = from /\ state' = [state EXCEPT ![j] = to]

Queue(j) == /\ Moves(j, "absent", "waiting")
            /\ tries' = [tries EXCEPT ![j] = 0]
            /\ UNCHANGED <<lost, worked>>

(* A waiting job is tried while it has attempts left, an abandoned one once more. *)
Try(j) == /\ \/ Moves(j, "waiting", "working") /\ tries[j] < MaxAttempts
             \/ Moves(j, "abandoned", "working")
          /\ tries' = [tries EXCEPT ![j] = @ + 1]
          /\ UNCHANGED <<lost, worked>>
Work(j) == /\ state[j] = "working"
           /\ worked' = worked \cup {j}
           /\ UNCHANGED <<state, tries, lost>>

Finish(j) == /\ j \in worked /\ Moves(j, "working", "done")
             /\ UNCHANGED <<tries, lost, worked>>
Retry(j) == /\ tries[j] < MaxAttempts /\ Moves(j, "working", "waiting")
            /\ UNCHANGED <<tries, lost, worked>>
GiveUp(j) == /\ tries[j] >= MaxAttempts /\ Moves(j, "working", "dead")
             /\ UNCHANGED <<tries, lost, worked>>
Abandon(j) == /\ Moves(j, "working", "abandoned")
              /\ lost' = [lost EXCEPT ![j] = @ + 1]
              /\ UNCHANGED <<tries, worked>>

(* Only a new request brings a job back that was given up. *)
Revive(j) == /\ Moves(j, "dead", "waiting")
             /\ tries' = [tries EXCEPT ![j] = 0] /\ lost' = [lost EXCEPT ![j] = 0]
             /\ UNCHANGED worked

Next == \E j \in Jobs : \/ Queue(j) \/ Try(j) \/ Work(j) \/ Finish(j) \/ Retry(j)
                        \/ GiveUp(j) \/ Abandon(j) \/ Revive(j)
Spec == Init /\ [][Next]_vars
=============================================================================
