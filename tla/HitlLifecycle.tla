--------------------------- MODULE HitlLifecycle ---------------------------
(***************************************************************************)
(* What a human-in-the-loop card promises, without saying how: a card is   *)
(* minted once, may be escalated to a manager once, and receives at most   *)
(* one verdict, which is never revised.  HitlCard shows that the           *)
(* compare-and-set protocol of HitlService keeps this promise.             *)
(***************************************************************************)
CONSTANTS Cards,     \* card ids
          HighRisk,  \* the cards whose risk is above the escalation threshold
          Actions    \* the options printed on a card

VARIABLES status,    \* [Cards -> Status]
          verdict    \* [Cards -> Verdicts], "none" until the card is decided

Status == {"none", "pending", "escalated", "resolved",
           "auto_rejected", "dead_letter", "gone"}
Terminal == {"resolved", "auto_rejected", "dead_letter"}
Verdicts == Actions \cup {"reject", "none"}

vars == <<status, verdict>>

Init == /\ status = [c \in Cards |-> "none"]
        /\ verdict = [c \in Cards |-> "none"]

(* A move of one card that leaves its verdict open. *)
Move(c, from, to) ==
  /\ status[c] = from
  /\ status' = [status EXCEPT ![c] = to]
  /\ UNCHANGED verdict

(* A move of one card that gives it its only verdict. *)
Close(c, from, to, v) ==
  /\ status[c] = from
  /\ verdict[c] = "none"
  /\ status' = [status EXCEPT ![c] = to]
  /\ verdict' = [verdict EXCEPT ![c] = v]

Mint(c) == Move(c, "none", "pending")

(* Only a risky card is handed to a manager, only a safe one is rejected by
   the clock alone; a manager who lets the clock run out rejects it too. *)
Escalate(c) == c \in HighRisk /\ Move(c, "pending", "escalated")
AutoReject(c) == c \notin HighRisk /\ Close(c, "pending", "auto_rejected", "reject")
DeadLetter(c) == Close(c, "escalated", "dead_letter", "reject")

Decide(c) == \E from \in {"pending", "escalated"}, a \in Actions :
                Close(c, from, "resolved", a)

(* The store forgets a card some time after its deadline. *)
Forget(c) == /\ status[c] \in Terminal \cup {"pending", "escalated"}
             /\ status' = [status EXCEPT ![c] = "gone"]
             /\ UNCHANGED verdict

Next == \E c \in Cards : \/ Mint(c) \/ Escalate(c) \/ AutoReject(c)
                         \/ DeadLetter(c) \/ Decide(c) \/ Forget(c)

Spec == Init /\ [][Next]_vars
=============================================================================
