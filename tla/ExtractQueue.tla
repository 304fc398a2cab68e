---------------------------- MODULE ExtractQueue ----------------------------
(***************************************************************************)
(* The durable queue of memory-extraction jobs (PostgresExtractJobQueue)   *)
(* and the workers that serve it (MemoryExtractService.run_worker).  A     *)
(* claim is one statement; fail and enqueue read a row in one statement    *)
(* and write it in a later one, and neither fail nor complete asks whose   *)
(* lease it is.  The order of created_at is the order of insertion.        *)
(*                                                                         *)
(* Time is counted down: a row holds the ticks until it is available and   *)
(* until its lease runs out.                                               *)
(*                                                                         *)
(* InsertBlind, ReviveKeeps, ClaimRunning, ClaimPending and FailAlways     *)
(* are wrong variants of a later definition; nothing uses them.            *)
(***************************************************************************)
EXTENDS Naturals, Sequences, FiniteSets

CONSTANTS Jobs,        \* the keys (thread_id, task_id)
          Workers, Callers,
          MaxQueue, MaxAttempts,
          LeaseTicks,  \* _DEFAULT_LEASE_SECONDS
          Delay,       \* [attempts so far -> ticks of back-off]
          StopAfter,   \* _SCHEMA_FAILURES_TO_STOP
          Slow,        \* an attempt may outlast its lease
          Faults,      \* of "report", "schema"
          MaxCalls,    \* bound: calls of enqueue
          MaxLost      \* bound: attempts lost per job

ASSUME QueueAssumption ==
  /\ Jobs # {} /\ IsFiniteSet(Jobs)
  /\ MaxQueue \in Nat \ {0} /\ MaxAttempts \in Nat \ {0}
  /\ LeaseTicks \in Nat \ {0} /\ StopAfter \in Nat \ {0}
  /\ Delay \in [0..(MaxAttempts - 1) -> Nat]
  /\ Slow \in BOOLEAN /\ MaxCalls \in Nat /\ MaxLost \in Nat

VARIABLES row,     \* [Jobs -> Row]
          table,   \* the inserted jobs, oldest first
          worker,  \* [Workers -> WorkerState]
          caller,  \* [Callers -> CallerState]
          calls,   \* calls of enqueue so far
          worked,  \* the jobs for which _process_job has returned
          lost     \* [Jobs -> Nat]: attempts nobody reported on, since the job was queued

vars == <<row, table, worker, caller, calls, worked, lost>>

Statuses == {"absent", "pending", "running", "done", "dead"}
(* lease: 0 is NULL, 1 has run out, n + 1 has n ticks to go. *)
Row == [status : Statuses, attempts : Nat, wait : Nat, lease : Nat]
Absent == [status |-> "absent", attempts |-> 0, wait |-> 0, lease |-> 0]
Inserted == [status |-> "pending", attempts |-> 0, wait |-> 0, lease |-> 0]

WorkerState == [pc : {"idle", "work", "complete", "fail", "write", "stopped"},
                job : Jobs, seen : Row, errors : Nat]
CallerState == [pc : {"idle", "look", "write"}, job : Jobs, depth : Nat, seen : Row]

AnyJob == CHOOSE j \in Jobs : TRUE
Idle == [pc |-> "idle", job |-> AnyJob, seen |-> Absent, errors |-> 0]
Answered == [pc |-> "idle", job |-> AnyJob, depth |-> 0, seen |-> Absent]

TypeOK == /\ row \in [Jobs -> Row] /\ table \in Seq(Jobs)
          /\ worker \in [Workers -> WorkerState]
          /\ caller \in [Callers -> CallerState]
          /\ calls \in Nat /\ worked \in SUBSET Jobs /\ lost \in [Jobs -> Nat]

Init == /\ row = [j \in Jobs |-> Absent] /\ table = <<>>
        /\ worker = [w \in Workers |-> Idle]
        /\ caller = [c \in Callers |-> Answered]
        /\ calls = 0 /\ worked = {} /\ lost = [j \in Jobs |-> 0]

-----------------------------------------------------------------------------
(* An UPDATE of the mapper names the columns whose value changed since they
   were loaded, and no others. *)
Put(seen, new, stands) == IF new = seen THEN stands ELSE new

Queued == {j \in Jobs : row[j].status \in {"pending", "running"}}
Depth == Cardinality(Queued)

Count(c, j) == /\ caller[c].pc = "idle" /\ calls < MaxCalls
               /\ calls' = calls + 1
               /\ caller' = [caller EXCEPT ![c] =
                               [pc |-> "look", job |-> j, depth |-> Depth, seen |-> Absent]]
               /\ UNCHANGED <<row, table, worker, worked, lost>>

Look(c) == /\ caller[c].pc = "look"
           /\ caller' = [caller EXCEPT ![c].pc = "write", ![c].seen = row[caller[c].job]]
           /\ UNCHANGED <<row, table, worker, calls, worked, lost>>

Answers(c) == caller' = [caller EXCEPT ![c] = Answered]

(* The unique key refuses a row that another caller has inserted meanwhile. *)
InsertBlind(c) == /\ caller[c].pc = "write" /\ caller[c].seen.status = "absent"
                  /\ row' = [row EXCEPT ![caller[c].job] = Inserted]
                  /\ table' = Append(table, caller[c].job)
                  /\ Answers(c)
                  /\ UNCHANGED <<worker, calls, worked, lost>>
Insert(c) == LET j == caller[c].job IN
  /\ caller[c].pc = "write" /\ caller[c].seen.status = "absent"
  /\ caller[c].depth < MaxQueue
  /\ \/ /\ row[j].status = "absent"
        /\ row' = [row EXCEPT ![j] = Inserted] /\ table' = Append(table, j)
     \/ row[j].status # "absent" /\ UNCHANGED <<row, table>>
  /\ Answers(c)
  /\ UNCHANGED <<worker, calls, worked, lost>>

Full(c) == /\ caller[c].pc = "write" /\ caller[c].seen.status = "absent"
           /\ caller[c].depth >= MaxQueue
           /\ Answers(c)
           /\ UNCHANGED <<row, table, worker, calls, worked, lost>>

Known(c) == /\ caller[c].pc = "write"
            /\ caller[c].seen.status \in {"pending", "running", "done"}
            /\ Answers(c)
            /\ UNCHANGED <<row, table, worker, calls, worked, lost>>

ReviveKeeps(c) == /\ caller[c].pc = "write" /\ caller[c].seen.status = "dead"
                  /\ row' = [row EXCEPT ![caller[c].job].status = "pending",
                                        ![caller[c].job].wait = 0]
                  /\ lost' = [lost EXCEPT ![caller[c].job] = 0]
                  /\ Answers(c)
                  /\ UNCHANGED <<table, worker, calls, worked>>
Revive(c) == LET j == caller[c].job
                 s == caller[c].seen IN
  /\ caller[c].pc = "write" /\ s.status = "dead"
  /\ row' = [row EXCEPT ![j] = [status |-> "pending",
                                attempts |-> Put(s.attempts, 0, row[j].attempts),
                                wait |-> 0,
                                lease |-> Put(s.lease, 0, row[j].lease)]]
  /\ lost' = [lost EXCEPT ![j] = 0]
  /\ Answers(c)
  /\ UNCHANGED <<table, worker, calls, worked>>

-----------------------------------------------------------------------------
Claimable(j) == \/ row[j].status = "pending" /\ row[j].wait = 0
                \/ row[j].status = "running" /\ row[j].lease = 1
Oldest(j) == \E i \in 1..Len(table) : /\ table[i] = j
                                      /\ \A k \in 1..(i - 1) : ~Claimable(table[k])

Takes(w, j) == /\ row' = [row EXCEPT ![j] = [status |-> "running",
                                             attempts |-> row[j].attempts + 1,
                                             wait |-> 0,
                                             lease |-> LeaseTicks + 1]]
               /\ worker' = [worker EXCEPT ![w].pc = "work", ![w].job = j, ![w].errors = 0]
               /\ UNCHANGED <<table, caller, calls, worked, lost>>

ClaimRunning(w, j) == /\ worker[w].pc = "idle"
                      /\ row[j].status \in {"pending", "running"} /\ Takes(w, j)
ClaimPending(w, j) == /\ worker[w].pc = "idle" /\ row[j].status = "pending"
                      /\ Claimable(j) /\ Oldest(j) /\ Takes(w, j)
Claim(w, j) == /\ worker[w].pc = "idle" /\ Claimable(j) /\ Oldest(j) /\ Takes(w, j)

(* A claim that meets a missing table or column; StopAfter of them in a row
   end the worker. *)
SchemaError(w) == /\ worker[w].pc = "idle" /\ "schema" \in Faults
                  /\ worker' = [worker EXCEPT
                       ![w].errors = @ + 1,
                       ![w].pc = IF worker[w].errors + 1 >= StopAfter THEN "stopped" ELSE "idle"]
                  /\ UNCHANGED <<row, table, caller, calls, worked, lost>>

Goes(w, pc) == worker' = [worker EXCEPT ![w].pc = pc]
Returns(w) == worker' = [worker EXCEPT ![w] = Idle]

(* _process_job returns: the facts are persisted, there is nothing to extract, or
   the model failed or its answer did not parse, which the memory keeper turns into
   a success without facts.  Or it raises, before or after some are persisted. *)
Process(w) == /\ worker[w].pc = "work"
              /\ \/ worked' = worked \cup {worker[w].job} /\ Goes(w, "complete")
                 \/ Goes(w, "fail") /\ UNCHANGED worked
              /\ UNCHANGED <<row, table, caller, calls, lost>>

Complete(w) == /\ worker[w].pc = "complete"
               /\ row' = [row EXCEPT ![worker[w].job].status = "done",
                                     ![worker[w].job].lease = 0]
               /\ Returns(w)
               /\ UNCHANGED <<table, caller, calls, worked, lost>>

(* The UPDATE of complete raises inside the try that fail answers. *)
CompleteRaises(w) == /\ worker[w].pc = "complete" /\ "report" \in Faults
                     /\ Goes(w, "fail")
                     /\ UNCHANGED <<row, table, caller, calls, worked, lost>>

FailRead(w) == /\ worker[w].pc = "fail"
               /\ worker' = [worker EXCEPT ![w].pc = "write", ![w].seen = row[worker[w].job]]
               /\ UNCHANGED <<row, table, caller, calls, worked, lost>>

Exhausted(s) == s.attempts >= MaxAttempts
Failed(s, r) == [status |-> Put(s.status, IF Exhausted(s) THEN "dead" ELSE "pending", r.status),
                 attempts |-> r.attempts,
                 wait |-> IF Exhausted(s) THEN r.wait ELSE Delay[s.attempts],
                 lease |-> Put(s.lease, 0, r.lease)]

FailAlways(w) == /\ worker[w].pc = "write"
                 /\ row' = [row EXCEPT ![worker[w].job].status = "pending",
                                       ![worker[w].job].lease = 0]
                 /\ Returns(w)
                 /\ UNCHANGED <<table, caller, calls, worked, lost>>
FailWrite(w) == /\ worker[w].pc = "write"
                /\ row' = [row EXCEPT ![worker[w].job] = Failed(worker[w].seen, row[worker[w].job])]
                /\ Returns(w)
                /\ UNCHANGED <<table, caller, calls, worked, lost>>

(* The worker's process dies, or fail itself raises: nobody reports. *)
Lose(w) == /\ worker[w].pc \in {"work", "complete", "fail", "write"}
           /\ "report" \in Faults /\ lost[worker[w].job] < MaxLost
           /\ lost' = [lost EXCEPT ![worker[w].job] = @ + 1]
           /\ Returns(w)
           /\ UNCHANGED <<row, table, caller, calls, worked>>

-----------------------------------------------------------------------------
Busy(w) == worker[w].pc \in {"work", "complete", "fail", "write"}
Aged(r) == [r EXCEPT !.wait = IF @ > 0 THEN @ - 1 ELSE 0,
                     !.lease = IF @ > 1 THEN @ - 1 ELSE @]
(* Without Slow, an attempt is over before its lease is. *)
Tick == /\ ~Slow => \A w \in Workers : Busy(w) => row[worker[w].job].lease # 2
        /\ row' = [j \in Jobs |-> Aged(row[j])]
        /\ row' # row
        /\ UNCHANGED <<table, worker, caller, calls, worked, lost>>

Serve(w) == \/ \E j \in Jobs : Claim(w, j)
            \/ Process(w) \/ Complete(w) \/ FailRead(w) \/ FailWrite(w)
Enqueue(c) == \/ \E j \in Jobs : Count(c, j)
              \/ Look(c) \/ Insert(c) \/ Full(c) \/ Known(c) \/ Revive(c)
Next == \/ \E w \in Workers : Serve(w) \/ CompleteRaises(w) \/ SchemaError(w) \/ Lose(w)
        \/ \E c \in Callers : Enqueue(c)
        \/ Tick

Spec == Init /\ [][Next]_vars

(* run_worker never waits longer than a poll or a back-off, and time passes. *)
Fairness == WF_vars(Tick) /\ \A w \in Workers : WF_vars(Serve(w))
FairSpec == Spec /\ Fairness

-----------------------------------------------------------------------------
(* No job is worked on twice at once: the lease keeps others away until the
   attempt is over, and then its report has been made or never will be. *)
OneWorker == \A v, w \in Workers :
  Busy(v) /\ Busy(w) /\ worker[v].job = worker[w].job => v = w

(* A job is attempted at most MaxAttempts times, and once more for every
   attempt that ended without a report. *)
AttemptsBounded == \A j \in Jobs : row[j].attempts <= MaxAttempts + lost[j]

(* A job is given up only after MaxAttempts attempts. *)
DeadIsExhausted == \A j \in Jobs : row[j].status = "dead" => row[j].attempts >= MaxAttempts

(* A row per key, whoever races to insert it. *)
OneRow == /\ \A i, k \in 1..Len(table) : table[i] = table[k] => i = k
          /\ \A j \in Jobs : row[j].status # "absent" => \E i \in 1..Len(table) : table[i] = j

(* A completed job is not worked on again. *)
DoneIsFinal == [][\A j \in Jobs : row[j].status = "done" => row'[j].status = "done"]_vars

(* Each job moves as JobLifecycle says: it is tried again only when its attempt is
   over or lost, counted each time, and left alone when it is done. *)
Attempted(j) == \E w \in Workers : Busy(w) /\ worker[w].job = j
State(j) == CASE row[j].status = "pending" -> "waiting"
              [] row[j].status = "running" -> IF Attempted(j) THEN "working" ELSE "abandoned"
              [] OTHER -> row[j].status
J == INSTANCE JobLifecycle WITH state <- [j \in Jobs |-> State(j)],
                                tries <- [j \in Jobs |-> row[j].attempts]
JobSpec == J!Spec

(* Every queued job ends, done or given up, although attempts are lost, unless
   schema errors have stopped every worker. *)
NoneServes == \A w \in Workers : worker[w].pc = "stopped"
EveryJobEnds == \A j \in Jobs : row[j].status \in {"pending", "running"} ~>
                                  row[j].status \in {"done", "dead"} \/ NoneServes

(* What a dead worker leaves behind is claimed again: a row that is running while
   nobody is at it has a lease, and will be taken up when it runs out. *)
Reclaimable == \A j \in Jobs :
  row[j].status = "running" /\ ~Attempted(j) => row[j].lease # 0

(* Inductive, however late a report comes. *)
Listed == \A i \in 1..Len(table) : row[table[i]].status # "absent"
Present == /\ \A w \in Workers : Busy(w) => row[worker[w].job].status # "absent"
           /\ \A c \in Callers : caller[c].seen.status # "absent" =>
                                    row[caller[c].job].status # "absent"
Finished == \A w \in Workers : worker[w].pc = "complete" => worker[w].job \in worked
Sound == TypeOK /\ OneRow /\ Listed /\ Present /\ Finished

(* Inductive when no attempt outlasts its lease and one caller enqueues: the
   row of a job worked on is running under a live lease, and what a report or
   a revival read still stands when it writes. *)
Timely == ~Slow
OneCaller == \A c, d \in Callers : c = d
Held == \A w \in Workers : Busy(w) =>
  LET r == row[worker[w].job] IN
  /\ r.status = "running" /\ r.lease > 1
  /\ worker[w].pc = "write" =>
       worker[w].seen.status = "running" /\ worker[w].seen.lease # 0
         /\ worker[w].seen.attempts = r.attempts
StillDead == \A c \in Callers : caller[c].seen.status = "dead" =>
  LET r == row[caller[c].job] IN r.status = "dead" /\ r.attempts = caller[c].seen.attempts
MayRetry == \A j \in Jobs :
  /\ row[j].status = "pending" => row[j].attempts < MaxAttempts
  /\ row[j].status = "running" =>
       \/ \E w \in Workers : Busy(w) /\ worker[w].job = j
       \/ row[j].attempts < MaxAttempts + lost[j]
IInv == /\ TypeOK /\ Held /\ StillDead /\ MayRetry
        /\ OneWorker /\ AttemptsBounded /\ DeadIsExhausted
=============================================================================
