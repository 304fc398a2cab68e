------------------------------- MODULE Circuit -------------------------------
(***************************************************************************)
(* The circuit breaker that sheds calls to a failing target                *)
(* (ConsecutiveFailureCircuit) and the concurrent calls that ask it for    *)
(* permission and report to it: graph nodes, LLM providers, MCP servers,   *)
(* web search.  The methods of the circuit do not await, so each is one    *)
(* step; the call itself runs between two of them.                         *)
(*                                                                         *)
(* A call may end without a report: it is cancelled (the harness runs      *)
(* calls under wait_for, and nobody who reports catches CancelledError),   *)
(* or its exception is one that its caller does not count (a refused       *)
(* json_schema; for web search, all but HTTP errors).  A report reaches    *)
(* the circuit that has the target's name when it is made, which need not  *)
(* be the one that gave permission.                                        *)
(*                                                                         *)
(* PeekTakes, AllowUnmarked and FailStays are wrong variants of a later    *)
(* definition; nothing uses them.  The parts of the specification carry    *)
(* the module's name because CoreProofs extends AuditChain beside it.      *)
(***************************************************************************)
EXTENDS Naturals

CONSTANTS Calls,
          Threshold,   \* failures_to_open
          Open,        \* open_seconds, in ticks
          StaleStamp,  \* a failure may carry the time at which its call began
          Renewed      \* the circuit may be replaced by a new one

ASSUME CircuitAssumption == /\ Threshold \in Nat \ {0} /\ Open \in Nat \ {0}
                            /\ StaleStamp \in BOOLEAN /\ Renewed \in BOOLEAN

VARIABLES state, failures,
          cool,   \* ticks until open_until, 0 when it has passed
          probe,  \* _probe_in_flight
          call,   \* [Calls -> Call]
          late,   \* history: a report came too late, see Outlasts and Fail
          dropped \* history: a probe ended without a report

circuit == <<state, failures, cool, probe>>
circuitVars == <<state, failures, cool, probe, call, late, dropped>>

(* age: ticks since permission was given, and no more than Open of them. *)
Call == [running : BOOLEAN, probe : BOOLEAN, age : 0..Open]
NoCall == [running |-> FALSE, probe |-> FALSE, age |-> 0]

(* consecutive_failures is only compared with Threshold, and not counted
   beyond it here. *)
CircuitTypeOK == /\ state \in {"closed", "open", "half_open"}
                 /\ failures \in 0..Threshold /\ cool \in 0..Open
                 /\ probe \in BOOLEAN /\ late \in BOOLEAN /\ dropped \in BOOLEAN
                 /\ call \in [Calls -> Call]

CircuitInit == /\ state = "closed" /\ failures = 0 /\ cool = 0 /\ probe = FALSE
               /\ call = [k \in Calls |-> NoCall] /\ late = FALSE /\ dropped = FALSE

-----------------------------------------------------------------------------
Cooled == state = "open" /\ cool = 0
Current == IF Cooled THEN "half_open" ELSE state
Blocked == (state = "open" /\ cool > 0) \/ (state = "half_open" /\ probe)

(* is_open alone, which takes no probe; allow_request that refuses does no
   more either. *)
PeekTakes == /\ Cooled
             /\ state' = "half_open" /\ probe' = TRUE
             /\ UNCHANGED <<failures, cool, call, late, dropped>>
Peek == /\ Cooled
        /\ state' = "half_open" /\ probe' = FALSE
        /\ UNCHANGED <<failures, cool, call, late, dropped>>

AllowUnmarked(k) == /\ ~call[k].running /\ ~Blocked
                    /\ state' = Current
                    /\ call' = [call EXCEPT ![k] = [running |-> TRUE, age |-> 0,
                                                    probe |-> Current = "half_open"]]
                    /\ UNCHANGED <<failures, cool, probe, late, dropped>>
Allow(k) == /\ ~call[k].running /\ ~Blocked
            /\ state' = Current
            /\ probe' = (probe \/ Current = "half_open")
            /\ call' = [call EXCEPT ![k] = [running |-> TRUE, age |-> 0,
                                            probe |-> Current = "half_open"]]
            /\ UNCHANGED <<failures, cool, late, dropped>>

Returns(k) == /\ call[k].running
              /\ call' = [call EXCEPT ![k] = NoCall]

Succeed(k) == /\ Returns(k)
              /\ state' = "closed" /\ failures' = 0 /\ cool' = 0 /\ probe' = FALSE
              /\ UNCHANGED <<late, dropped>>

Count == IF failures < Threshold THEN failures + 1 ELSE failures
Opens(k, stale) == /\ state' = "open"
                   /\ cool' = IF stale THEN Open - call[k].age ELSE Open

FailStays(k, stale) == /\ Returns(k) /\ (stale => StaleStamp)
                       /\ IF state = "half_open"
                          THEN UNCHANGED circuit
                          ELSE /\ probe' = FALSE /\ failures' = Count
                               /\ IF Count = Threshold THEN Opens(k, stale)
                                  ELSE UNCHANGED <<state, cool>>
                       /\ late' = (late \/ (stale /\ call[k].age > 0)) /\ UNCHANGED dropped
Fail(k, stale) == /\ Returns(k) /\ (stale => StaleStamp)
                  /\ probe' = FALSE
                  /\ failures' = IF state = "half_open" THEN failures ELSE Count
                  /\ IF state = "half_open" \/ Count = Threshold THEN Opens(k, stale)
                     ELSE UNCHANGED <<state, cool>>
                  /\ late' = (late \/ (stale /\ call[k].age > 0)) /\ UNCHANGED dropped

EndSilently(k) == /\ Returns(k)
                  /\ dropped' = (dropped \/ call[k].probe)
                  /\ UNCHANGED <<circuit, late>>

(* MCPRegistry.refresh and reload forget the circuits of all servers. *)
Renew == /\ Renewed
         /\ state' = "closed" /\ failures' = 0 /\ cool' = 0 /\ probe' = FALSE
         /\ UNCHANGED <<call, late, dropped>>

Older(c) == IF c.running /\ c.age < Open THEN [c EXCEPT !.age = @ + 1] ELSE c
Outlasts(k) == call[k].running /\ call[k].age + 1 >= Open
Tick == /\ cool' = IF cool > 0 THEN cool - 1 ELSE 0
        /\ call' = [k \in Calls |-> Older(call[k])]
        /\ late' = (late \/ \E k \in Calls : Outlasts(k))
        /\ UNCHANGED <<state, failures, probe, dropped>>

Reports(k) == Succeed(k) \/ \E stale \in BOOLEAN : Fail(k, stale)
CircuitNext == \/ Peek \/ Renew \/ Tick
               \/ \E k \in Calls : Allow(k) \/ Reports(k) \/ EndSilently(k)

CircuitSpec == CircuitInit /\ [][CircuitNext]_circuitVars

(* Calls keep coming, every call ends (it has a timeout), and time passes. *)
Fairness == /\ WF_circuitVars(Tick)
            /\ \A k \in Calls : /\ WF_circuitVars(Allow(k))
                               /\ WF_circuitVars(Reports(k) \/ EndSilently(k))
CircuitFairSpec == CircuitSpec /\ Fairness

-----------------------------------------------------------------------------
(* The probe that blocks all other calls belongs to a call that still runs and
   will give it back, stale reports, refreshes and lost races included: unless
   some probe ended without a report. *)
ProbeOwned == ~dropped /\ probe => \E k \in Calls : call[k].running /\ call[k].probe

(* While no report comes later than a cooldown after permission was given, one
   probe runs at a time, and no other call's report decides a half-open
   circuit. *)
OneProbe == ~late => \A j, k \in Calls :
  /\ call[j].running /\ call[j].probe /\ call[k].running /\ call[k].probe => j = k
  /\ state = "half_open" /\ call[k].running => call[k].probe

(* A circuit that refuses calls lets one through again. *)
Recovers == Blocked ~> ~Blocked

(* Once calls no longer fail, and if every probe reports, the circuit closes
   and stays closed. *)
NoFailure == <>[][\A k \in Calls, stale \in BOOLEAN : ~Fail(k, stale)]_circuitVars
Heals == NoFailure /\ []~dropped => <>[](state = "closed")

(* The inductive invariant: the count tells whether the circuit is closed; a
   call that runs while the circuit is open will have outlasted the cooldown
   when it is over, so that a half-open circuit knows no call but its probe. *)
RowOpens == state = "closed" <=> failures < Threshold
ProbeIsHalfOpen == probe => state = "half_open"
Young == ~late => \A k \in Calls : call[k].running => call[k].age < Open
OldEnough == ~late /\ state = "open" =>
  \A k \in Calls : call[k].running => call[k].age + cool >= Open
Alone == ~late /\ state = "half_open" =>
  \A k \in Calls : call[k].running => probe /\ call[k].probe
CircuitInv == /\ CircuitTypeOK /\ RowOpens /\ ProbeIsHalfOpen /\ Young /\ OldEnough /\ Alone
              /\ ProbeOwned /\ OneProbe
=============================================================================
