-------------------------- MODULE ExtractQueueProofs --------------------------
(***************************************************************************)
(* Theorems of the extraction queue, for any jobs, workers, callers and    *)
(* settings.  Sound needs nothing but the code; IInv needs attempts that   *)
(* end within their lease and one caller at a time, the two conditions     *)
(* under which reports of different attempts cannot cross.  Under the same *)
(* two the queue implements JobLifecycle.                                  *)
(***************************************************************************)
EXTENDS ExtractQueue, FiniteSetTheorems, SequenceTheorems, TLAPS

(* The steps that a worker, a caller or the clock may take. *)
LEMMA Steps ==
  ASSUME Next
  PROVE  \/ \E w \in Workers, j \in Jobs : Claim(w, j)
         \/ \E w \in Workers : \/ Process(w) \/ Complete(w) \/ FailRead(w) \/ FailWrite(w)
                               \/ CompleteRaises(w) \/ SchemaError(w) \/ Lose(w)
         \/ \E c \in Callers, j \in Jobs : Count(c, j)
         \/ \E c \in Callers : \/ Look(c) \/ Insert(c) \/ Full(c) \/ Known(c) \/ Revive(c)
         \/ Tick
  BY DEF Next, Serve, Enqueue

LEMMA Numbers == /\ MaxAttempts \in Nat /\ MaxAttempts > 0
                 /\ LeaseTicks \in Nat /\ LeaseTicks > 0
  BY QueueAssumption

(* The idle states and the fresh rows are well typed. *)
LEMMA Constants ==
  /\ AnyJob \in Jobs /\ Absent \in Row /\ Inserted \in Row
  /\ Idle \in WorkerState /\ Answered \in CallerState
  <1>1. AnyJob \in Jobs
    BY QueueAssumption DEF AnyJob
  <1>2. Absent \in Row /\ Inserted \in Row
    BY DEF Absent, Inserted, Row, Statuses
  <1> QED
    BY <1>1, <1>2 DEF Idle, Answered, WorkerState, CallerState

(* The depth of the queue is a number. *)
LEMMA DepthNat == Depth \in Nat
  <1>1. IsFiniteSet(Queued)
    BY QueueAssumption, FS_Subset DEF Queued
  <1> QED
    BY <1>1, FS_CardinalityType DEF Depth

(* Ageing and a failure report keep a row a row. *)
LEMMA RowTypes ==
  ASSUME NEW r \in Row, NEW s \in Row
  PROVE  Aged(r) \in Row /\ Failed(s, r) \in Row
  <1>1. Aged(r) \in Row
    <2>1. /\ (IF r.wait > 0 THEN r.wait - 1 ELSE 0) \in Nat
          /\ (IF r.lease > 1 THEN r.lease - 1 ELSE r.lease) \in Nat
      BY DEF Row
    <2> QED
      BY <2>1 DEF Aged, Row
  <1>2. ~Exhausted(s) => Delay[s.attempts] \in Nat
    BY QueueAssumption DEF Exhausted, Row
  <1>3. Failed(s, r) \in Row
    BY <1>2 DEF Failed, Put, Row, Statuses
  <1> QED
    BY <1>1, <1>3

(* Every step keeps the types. *)
LEMMA TypeStep == TypeOK /\ [Next]_vars => TypeOK'
  <1> SUFFICES ASSUME TypeOK, [Next]_vars
               PROVE  TypeOK'
    OBVIOUS
  <1> USE Constants DEF TypeOK
  <1>1. CASE UNCHANGED vars
    BY <1>1 DEF vars
  <1>2. ASSUME NEW w \in Workers, NEW j \in Jobs, Claim(w, j) PROVE TypeOK'
    <2>0. row[j].attempts \in Nat
      BY DEF Row
    <2>1. row[j].attempts + 1 \in Nat /\ LeaseTicks + 1 \in Nat
      <3> HIDE DEF TypeOK
      <3> QED
        BY <2>0, Numbers
    <2>2. row' \in [Jobs -> Row]
      BY <1>2, <2>1 DEF Claim, Takes, Row, Statuses
    <2>3. worker' \in [Workers -> WorkerState]
      BY <1>2 DEF Claim, Takes, WorkerState
    <2> QED
      BY <1>2, <2>2, <2>3 DEF Claim, Takes
  <1>3. ASSUME NEW w \in Workers, Process(w) PROVE TypeOK'
    <2>0. \E pc \in {"complete", "fail"} : worker' = [worker EXCEPT ![w].pc = pc]
      BY <1>3 DEF Process, Goes
    <2>1. worker' \in [Workers -> WorkerState]
      <3>1. PICK pc \in {"complete", "fail"} : worker' = [worker EXCEPT ![w].pc = pc]
        BY <2>0
      <3>2. pc \in {"idle", "work", "complete", "fail", "write", "stopped"}
        BY <3>1
      <3> QED
        BY <3>1, <3>2 DEF WorkerState
    <2>2. worker[w].job \in Jobs
      BY DEF WorkerState
    <2> QED
      BY <1>3, <2>1, <2>2 DEF Process
  <1>4. ASSUME NEW w \in Workers, Complete(w) PROVE TypeOK'
    BY <1>4 DEF Complete, Returns, Row, Statuses, WorkerState
  <1>5. ASSUME NEW w \in Workers, FailRead(w) PROVE TypeOK'
    BY <1>5 DEF FailRead, WorkerState
  <1>6. ASSUME NEW w \in Workers, FailWrite(w) PROVE TypeOK'
    <2>1. /\ worker[w].job \in Jobs /\ worker[w].seen \in Row
          /\ row[worker[w].job] \in Row
      BY DEF WorkerState
    <2>2. Failed(worker[w].seen, row[worker[w].job]) \in Row
      BY <2>1, RowTypes
    <2> QED
      BY <1>6, <2>2 DEF FailWrite, Returns
  <1>7. ASSUME NEW w \in Workers, CompleteRaises(w) PROVE TypeOK'
    BY <1>7 DEF CompleteRaises, Goes, WorkerState
  <1>8. ASSUME NEW w \in Workers, SchemaError(w) PROVE TypeOK'
    <2>1. worker[w].errors + 1 \in Nat
      BY DEF WorkerState
    <2>2. worker' \in [Workers -> WorkerState]
      BY <1>8, <2>1 DEF SchemaError, WorkerState
    <2> QED
      BY <1>8, <2>2 DEF SchemaError
  <1>9. ASSUME NEW w \in Workers, Lose(w) PROVE TypeOK'
    BY <1>9 DEF Lose, Returns, WorkerState
  <1>10. ASSUME NEW c \in Callers, NEW j \in Jobs, Count(c, j) PROVE TypeOK'
    BY <1>10, DepthNat DEF Count, CallerState
  <1>11. ASSUME NEW c \in Callers, Look(c) PROVE TypeOK'
    BY <1>11 DEF Look, CallerState
  <1>12. ASSUME NEW c \in Callers, Insert(c) PROVE TypeOK'
    <2>1. caller[c].job \in Jobs
      BY DEF CallerState
    <2>2. row' \in [Jobs -> Row]
      BY <1>12, <2>1 DEF Insert
    <2>3. table' \in Seq(Jobs)
      <3>1. table' = table \/ table' = Append(table, caller[c].job)
        BY <1>12 DEF Insert
      <3> QED
        <4>1. CASE table' = table
          BY <4>1
        <4>2. CASE table' = Append(table, caller[c].job)
          BY <2>1, <4>2, AppendProperties
        <4> QED
          BY <3>1, <4>1, <4>2
    <2>4. caller' \in [Callers -> CallerState]
      BY <1>12 DEF Insert, Answers
    <2> QED
      BY <1>12, <2>2, <2>3, <2>4 DEF Insert
  <1>13. ASSUME NEW c \in Callers, Full(c) \/ Known(c) PROVE TypeOK'
    BY <1>13 DEF Full, Known, Answers
  <1>14. ASSUME NEW c \in Callers, Revive(c) PROVE TypeOK'
    BY <1>14 DEF Revive, Put, Answers, Row, Statuses, CallerState
  <1>15. CASE Tick
    <2>1. \A j \in Jobs : Aged(row[j]) \in Row
      BY RowTypes
    <2> QED
      BY <1>15, <2>1 DEF Tick
  <1> QED
    BY <1>1, <1>2, <1>3, <1>4, <1>5, <1>6, <1>7, <1>8, <1>9, <1>10, <1>11, <1>12,
       <1>13, <1>14, <1>15, Steps

-----------------------------------------------------------------------------
(* A step inserts one row, or leaves every row in the table it was in. *)
Inserts(j) == /\ row[j].status = "absent" /\ row' = [row EXCEPT ![j] = Inserted]
              /\ table' = Append(table, j)
Stands == /\ table' = table
          /\ \A j \in Jobs : row'[j].status = "absent" <=> row[j].status = "absent"

LEMMA RowsStand ==
  ASSUME TypeOK, Present, [Next]_vars
  PROVE  Stands \/ \E c \in Callers : Insert(c) /\ Inserts(caller[c].job)
  <1> USE DEF Stands
  <1>1. CASE UNCHANGED vars
    BY <1>1 DEF vars
  <1>2. ASSUME NEW w \in Workers, NEW j \in Jobs, Claim(w, j) PROVE Stands
    BY <1>2 DEF TypeOK, Claim, Claimable, Takes
  <1>3. ASSUME NEW w \in Workers,
               Process(w) \/ FailRead(w) \/ CompleteRaises(w) \/ SchemaError(w) \/ Lose(w)
        PROVE  Stands
    BY <1>3 DEF Process, FailRead, CompleteRaises, SchemaError, Lose
  <1>4. ASSUME NEW w \in Workers, Complete(w) PROVE Stands
    BY <1>4 DEF TypeOK, Complete, Present, Busy, WorkerState, Row
  <1>5. ASSUME NEW w \in Workers, FailWrite(w) PROVE Stands
    BY <1>5 DEF TypeOK, FailWrite, Failed, Put, Present, Busy, WorkerState
  <1>6. ASSUME NEW c \in Callers, NEW j \in Jobs, Count(c, j) PROVE Stands
    BY <1>6 DEF Count
  <1>7. ASSUME NEW c \in Callers, Look(c) \/ Full(c) \/ Known(c) PROVE Stands
    BY <1>7 DEF Look, Full, Known
  <1>8. ASSUME NEW c \in Callers, Insert(c) PROVE Stands \/ Inserts(caller[c].job)
    BY <1>8 DEF Insert, Inserts
  <1>9. ASSUME NEW c \in Callers, Revive(c) PROVE Stands
    BY <1>9 DEF TypeOK, Revive, Present, CallerState
  <1>10. CASE Tick
    BY <1>10 DEF TypeOK, Tick, Aged, Row
  <1> QED
    BY <1>1, <1>2, <1>3, <1>4, <1>5, <1>6, <1>7, <1>8, <1>9, <1>10, Steps

(* There is one row per key after the step, and it is in the table. *)
LEMMA TableStep ==
  ASSUME TypeOK, Present, OneRow, Listed, [Next]_vars
  PROVE  OneRow' /\ Listed'
  <1>0. \A i \in 1..Len(table) : table[i] \in Jobs
    BY DEF TypeOK
  <1>1. CASE Stands
    BY <1>0, <1>1 DEF Stands, OneRow, Listed
  <1>2. ASSUME NEW c \in Callers, Inserts(caller[c].job)
        PROVE  OneRow' /\ Listed'
    <2> DEFINE j == caller[c].job
               n == Len(table)
    <2>1. j \in Jobs /\ n \in Nat /\ table \in Seq(Jobs)
      BY DEF TypeOK, CallerState
    <2>2. /\ Len(table') = n + 1 /\ table'[n + 1] = j
          /\ \A i \in 1..n : table'[i] = table[i]
      BY <1>2, <2>1, AppendProperties DEF Inserts
    <2>3. \A i \in 1..n : table[i] # j
      BY <1>2 DEF Inserts, Listed
    <2>4. /\ row'[j].status = "pending"
          /\ \A k \in Jobs \ {j} : row'[k] = row[k]
      BY <1>2, <2>1 DEF Inserts, Inserted, TypeOK
    <2>5. \A i \in 1..(n + 1) : i \in 1..n \/ i = n + 1
      BY <2>1
    <2>6. Listed'
      BY <1>0, <2>2, <2>3, <2>4, <2>5 DEF Listed
    <2>7. \A i, k \in 1..(n + 1) : table'[i] = table'[k] => i = k
      BY <2>2, <2>3, <2>5 DEF OneRow
    <2>8. ASSUME NEW k \in Jobs, row'[k].status # "absent"
          PROVE  \E i \in 1..(n + 1) : table'[i] = k
      <3>1. CASE k = j
        BY <2>1, <2>2, <3>1
      <3>2. CASE k # j
        <4>1. PICK i \in 1..n : table[i] = k
          BY <2>4, <2>8, <3>2 DEF OneRow
        <4> QED
          BY <2>1, <2>2, <4>1
      <3> QED
        BY <3>1, <3>2
    <2> QED
      BY <2>2, <2>6, <2>7, <2>8 DEF OneRow
  <1> QED
    BY <1>1, <1>2, RowsStand

(* What workers and callers hold is a row that exists. *)
LEMMA PresentStep ==
  ASSUME TypeOK, Present, [Next]_vars
  PROVE  Present'
  <1>1. ASSUME NEW j \in Jobs, row[j].status # "absent" PROVE row'[j].status # "absent"
    <2>1. CASE Stands
      BY <1>1, <2>1 DEF Stands
    <2>2. ASSUME NEW k, Inserts(k) PROVE row'[j].status # "absent"
      BY <1>1, <2>2 DEF Inserts, TypeOK, Inserted
    <2> QED
      BY <2>1, <2>2, RowsStand
  <1>2. ASSUME NEW w \in Workers, Busy(w)' PROVE row'[worker'[w].job].status # "absent"
    <2>1. worker[w].job \in Jobs
      BY DEF TypeOK, WorkerState
    <2>2. CASE Busy(w) /\ worker'[w].job = worker[w].job
      BY <1>1, <2>1, <2>2 DEF Present
    <2>3. ASSUME NEW v \in Workers, NEW j \in Jobs, Claim(v, j)
          PROVE  row'[worker'[w].job].status # "absent"
      <3>1. CASE v = w
        BY <2>3, <3>1 DEF Claim, Takes, TypeOK, WorkerState
      <3>2. CASE v # w
        BY <1>2, <2>2, <2>3, <3>2 DEF Claim, Takes, TypeOK, Busy
      <3> QED
        BY <3>1, <3>2
    <2>4. ASSUME NEW v \in Workers,
                 \/ Process(v) \/ Complete(v) \/ FailRead(v) \/ FailWrite(v)
                 \/ CompleteRaises(v) \/ SchemaError(v) \/ Lose(v)
          PROVE  Busy(w) /\ worker'[w].job = worker[w].job
      <3>1. CASE v = w
        BY <1>2, <2>4, <3>1
           DEF Process, Complete, FailRead, FailWrite, CompleteRaises, SchemaError, Lose,
               Goes, Returns, Idle, Busy, TypeOK, WorkerState
      <3>2. CASE v # w
        BY <1>2, <2>4, <3>2
           DEF Process, Complete, FailRead, FailWrite, CompleteRaises, SchemaError, Lose,
               Goes, Returns, Busy, TypeOK
      <3> QED
        BY <3>1, <3>2
    <2>5. CASE worker' = worker
      BY <1>2, <2>2, <2>5 DEF Busy
    <2>6. \/ worker' = worker
          \/ \E v \in Workers, j \in Jobs : Claim(v, j)
          \/ \E v \in Workers : \/ Process(v) \/ Complete(v) \/ FailRead(v) \/ FailWrite(v)
                                \/ CompleteRaises(v) \/ SchemaError(v) \/ Lose(v)
      BY Steps DEF vars, Count, Look, Insert, Full, Known, Revive, Tick
    <2> QED
      BY <2>2, <2>3, <2>4, <2>5, <2>6
  <1>3. ASSUME NEW c \in Callers, caller'[c].seen.status # "absent"
        PROVE  row'[caller'[c].job].status # "absent"
    <2>1. caller[c].job \in Jobs
      BY DEF TypeOK, CallerState
    <2>2. CASE caller'[c] = caller[c]
      BY <1>1, <1>3, <2>1, <2>2 DEF Present
    <2>3. CASE Look(c)
      BY <1>1, <1>3, <2>1, <2>3 DEF Look, TypeOK, CallerState
    <2>4. CASE caller'[c].seen = Absent
      BY <1>3, <2>4 DEF Absent
    <2>5. \/ caller'[c] = caller[c] \/ Look(c) \/ caller'[c].seen = Absent
      <3>1. ASSUME NEW d \in Callers,
                   \/ \E j \in Jobs : Count(d, j)
                   \/ Look(d) \/ Insert(d) \/ Full(d) \/ Known(d) \/ Revive(d)
            PROVE  \/ caller'[c] = caller[c] \/ Look(c) \/ caller'[c].seen = Absent
        <4>1. CASE d = c
          BY <3>1, <4>1 DEF Count, Insert, Full, Known, Revive, Answers, Answered, TypeOK
        <4>2. CASE d # c
          BY <3>1, <4>2 DEF Count, Look, Insert, Full, Known, Revive, Answers, TypeOK
        <4> QED
          BY <4>1, <4>2
      <3>2. \/ caller' = caller
            \/ \E d \in Callers : \/ \E j \in Jobs : Count(d, j)
                                  \/ Look(d) \/ Insert(d) \/ Full(d) \/ Known(d) \/ Revive(d)
        BY Steps DEF vars, Claim, Takes, Process, Complete, FailRead, FailWrite,
                     CompleteRaises, SchemaError, Lose, Tick
      <3> QED
        BY <3>1, <3>2
    <2> QED
      BY <2>2, <2>3, <2>4, <2>5
  <1> QED
    BY <1>2, <1>3 DEF Present

(* Whoever is about to report a job as complete has worked it through. *)
LEMMA FinishedStep ==
  ASSUME TypeOK, Finished, [Next]_vars
  PROVE  Finished'
  <1> USE DEF TypeOK, Finished
  <1>1. CASE UNCHANGED vars
    BY <1>1 DEF vars
  <1>2. ASSUME NEW w \in Workers, NEW j \in Jobs, Claim(w, j)
        PROVE  Finished'
    BY <1>2 DEF Claim, Takes
  <1>3. ASSUME NEW w \in Workers, Process(w) PROVE Finished'
    BY <1>3 DEF Process, Goes, WorkerState
  <1>4. ASSUME NEW w \in Workers, Complete(w) PROVE Finished'
    BY <1>4 DEF Complete, Returns, Idle, WorkerState, Row
  <1>5. ASSUME NEW w \in Workers, FailRead(w) PROVE Finished'
    BY <1>5 DEF FailRead
  <1>6. ASSUME NEW w \in Workers, FailWrite(w) PROVE Finished'
    BY <1>6 DEF FailWrite, Failed, Put, Returns, Idle, WorkerState
  <1>7. ASSUME NEW w \in Workers, CompleteRaises(w) \/ SchemaError(w) \/ Lose(w)
        PROVE  Finished'
    <2>1. row' = row /\ worked' = worked
      BY <1>7 DEF CompleteRaises, SchemaError, Lose
    <2>2. ASSUME NEW v \in Workers, worker'[v].pc = "complete"
          PROVE  worker'[v].job = worker[v].job /\ worker[v].pc = "complete"
      <3>1. CASE CompleteRaises(w)
        BY <2>2, <3>1 DEF CompleteRaises, Goes
      <3>2. CASE SchemaError(w)
        BY <2>2, <3>2 DEF SchemaError
      <3>3. CASE Lose(w)
        BY <2>2, <3>3 DEF Lose, Returns, Idle
      <3> QED
        BY <1>7, <3>1, <3>2, <3>3
    <2> QED
      BY <2>1, <2>2
  <1>8. ASSUME NEW c \in Callers, NEW j \in Jobs, Count(c, j)
        PROVE  Finished'
    BY <1>8 DEF Count
  <1>9. ASSUME NEW c \in Callers, Look(c) \/ Full(c) \/ Known(c)
        PROVE  Finished'
    BY <1>9 DEF Look, Full, Known
  <1>10. ASSUME NEW c \in Callers, Insert(c) PROVE Finished'
    <2>1. /\ worker' = worker /\ worked' = worked
          /\ row' = row \/ row' = [row EXCEPT ![caller[c].job] = Inserted]
      BY <1>10 DEF Insert
    <2> QED
      BY <2>1 DEF Inserted
  <1>11. ASSUME NEW c \in Callers, Revive(c) PROVE Finished'
    BY <1>11 DEF Revive, CallerState
  <1>12. CASE Tick
    BY <1>12 DEF Tick, Aged, Row
  <1> QED
    BY <1>1, <1>2, <1>3, <1>4, <1>5, <1>6, <1>7, <1>8, <1>9, <1>10, <1>11, <1>12, Steps

(* However late reports come: the queue is well formed, holds one row per key,
   and only what an attempt worked through is about to be completed. *)
THEOREM SoundHolds == Spec => []Sound
  <1>1. Init => Sound
    BY Constants, QueueAssumption
       DEF Init, Sound, TypeOK, OneRow, Listed, Present, Finished,
           Busy, Idle, Answered, Absent
  <1>2. Sound /\ [Next]_vars => Sound'
    BY TypeStep, TableStep, PresentStep, FinishedStep DEF Sound
  <1> QED
    BY <1>1, <1>2, PTL DEF Spec

THEOREM RowsUnique == Spec => []OneRow
  BY SoundHolds, PTL DEF Sound

-----------------------------------------------------------------------------
(* A row that is pending, done or dead is in no worker's hands. *)
LEMMA HeldOnce ==
  ASSUME IInv, NEW w \in Workers, Busy(w)
  PROVE  /\ worker[w].job \in Jobs
         /\ row[worker[w].job].status = "running" /\ row[worker[w].job].lease > 1
         /\ \A v \in Workers : Busy(v) /\ worker[v].job = worker[w].job => v = w
  BY DEF IInv, Held, OneWorker, TypeOK, WorkerState

(* The six parts of IInv besides the types. *)
Parts == Held /\ StillDead /\ MayRetry /\ OneWorker /\ AttemptsBounded /\ DeadIsExhausted

LEMMA ClaimKeeps ==
  ASSUME IInv, NEW w \in Workers, NEW j \in Jobs, Claim(w, j)
  PROVE  Parts'
  <1> USE DEF IInv, TypeOK
  <1>1. /\ row[j] \in Row /\ row[j].status \in {"pending", "running"}
        /\ row[j].status = "running" => row[j].lease = 1
        /\ \A v \in Workers : Busy(v) => worker[v].job # j
    BY HeldOnce DEF Claim, Claimable
  <1>2. /\ row'[j].status = "running" /\ row'[j].attempts = row[j].attempts + 1
        /\ row'[j].lease = LeaseTicks + 1
        /\ \A k \in Jobs \ {j} : row'[k] = row[k]
        /\ worker'[w].pc = "work" /\ worker'[w].job = j
        /\ \A v \in Workers : v # w => worker'[v] = worker[v]
        /\ caller' = caller /\ lost' = lost
    BY DEF Claim, Takes
  <1>3. Held'
    <2>1. row'[j].lease > 1
      BY <1>2, QueueAssumption
    <2>2. ASSUME NEW v \in Workers, v # w, Busy(v)'
          PROVE  Busy(v) /\ worker[v].job \in Jobs \ {j}
      BY <1>1, <1>2, <2>2, HeldOnce DEF Busy
    <2> QED
      BY <1>2, <2>1, <2>2 DEF Held
  <1>4. OneWorker'
    BY <1>1, <1>2 DEF OneWorker, Busy
  <1>5. StillDead'
    BY <1>1, <1>2 DEF StillDead, CallerState
  <1>6. row[j].attempts < MaxAttempts + lost[j]
    <2>1. lost[j] \in Nat /\ MaxAttempts \in Nat /\ row[j].attempts \in Nat
      BY <1>1, QueueAssumption DEF Row
    <2>2. CASE row[j].status = "pending"
      BY <2>1, <2>2 DEF MayRetry
    <2>3. CASE row[j].status = "running"
      BY <1>1, <2>3 DEF MayRetry
    <2> QED
      BY <1>1, <2>2, <2>3
  <1>7. AttemptsBounded'
    <2>1. lost[j] \in Nat /\ MaxAttempts \in Nat /\ row[j].attempts \in Nat
      BY <1>1, QueueAssumption DEF Row
    <2>2. row'[j].attempts <= MaxAttempts + lost'[j]
      BY <1>2, <1>6, <2>1
    <2> QED
      BY <1>2, <2>2 DEF AttemptsBounded
  <1>8. DeadIsExhausted'
    BY <1>2 DEF DeadIsExhausted
  <1>9. MayRetry'
    <2>1. ASSUME NEW k \in Jobs \ {j}, NEW v \in Workers, Busy(v), worker[v].job = k
          PROVE  Busy(v)' /\ worker'[v].job = k
      BY <1>2, <2>1 DEF Claim, Busy
    <2>2. Busy(w)'
      BY <1>2 DEF Busy
    <2> QED
      BY <1>2, <2>1, <2>2 DEF MayRetry
  <1> QED
    BY <1>3, <1>4, <1>5, <1>7, <1>8, <1>9 DEF Parts

(* A worker goes on with the job it has, or fails to claim one. *)
LEMMA WorkKeeps ==
  ASSUME IInv, NEW w \in Workers,
         Process(w) \/ FailRead(w) \/ CompleteRaises(w) \/ SchemaError(w)
  PROVE  Parts'
  <1> USE DEF IInv, TypeOK
  <1>1. /\ row' = row /\ caller' = caller /\ lost' = lost
        /\ \A v \in Workers : v # w => worker'[v] = worker[v]
        /\ worker'[w].job = worker[w].job /\ Busy(w)' = Busy(w)
    BY DEF Process, FailRead, CompleteRaises, SchemaError, Goes, Busy, WorkerState
  <1>2. \/ worker'[w].pc # "write"
        \/ Busy(w) /\ worker'[w].seen = row[worker[w].job]
    BY DEF Process, FailRead, CompleteRaises, SchemaError, Goes, Busy, WorkerState
  <1>3. Held'
    <2>1. ASSUME NEW v \in Workers, v # w, Busy(v)'
          PROVE  Busy(v) /\ worker'[v] = worker[v]
      BY <1>1, <2>1 DEF Busy
    <2>2. Busy(w)' => Busy(w)
      BY <1>1
    <2>3. Busy(w) => row[worker[w].job].lease # 0
      BY HeldOnce
    <2> QED
      BY <1>1, <1>2, <2>1, <2>2, <2>3 DEF Held
  <1>4. OneWorker'
    BY <1>1 DEF OneWorker, Busy
  <1>5. MayRetry'
    BY <1>1 DEF MayRetry, Busy
  <1>6. StillDead' /\ AttemptsBounded' /\ DeadIsExhausted'
    BY <1>1 DEF StillDead, AttemptsBounded, DeadIsExhausted
  <1> QED
    BY <1>3, <1>4, <1>5, <1>6 DEF Parts

(* A report ends the attempt that held the job, and nobody else's. *)
LEMMA ReportKeeps ==
  ASSUME IInv, NEW w \in Workers, Complete(w) \/ FailWrite(w) \/ Lose(w)
  PROVE  Parts'
  <1> USE DEF IInv, TypeOK
  <1> DEFINE j == worker[w].job
  <1>1. /\ Busy(w) /\ ~Busy(w)' /\ caller' = caller
        /\ \A v \in Workers : v # w => worker'[v] = worker[v]
    BY DEF Complete, FailWrite, Lose, Returns, Idle, Busy
  <1>2. /\ j \in Jobs /\ row[j] \in Row /\ row[j].status = "running"
        /\ \A v \in Workers : Busy(v) /\ worker[v].job = j => v = w
    BY <1>1, HeldOnce
  <1>3. /\ \A k \in Jobs \ {j} : row'[k] = row[k] /\ lost'[k] = lost[k]
        /\ row'[j].attempts = row[j].attempts
        /\ \/ /\ row'[j].status = "done" \/ row'[j].status = "dead"
              /\ row'[j].status = "dead" => row[j].attempts >= MaxAttempts
              /\ lost'[j] = lost[j]
           \/ /\ row'[j].status = "pending" /\ row[j].attempts < MaxAttempts
              /\ lost'[j] = lost[j]
           \/ row'[j] = row[j] /\ lost'[j] = lost[j] + 1
    <2>1. CASE Complete(w)
      BY <1>2, <2>1 DEF Complete, Row
    <2>2. CASE FailWrite(w)
      <3>1. /\ worker[w].seen.status = "running"
            /\ worker[w].seen.attempts = row[j].attempts
        BY <1>1, <2>2 DEF Held, FailWrite
      <3>2. row[j].attempts >= MaxAttempts \/ row[j].attempts < MaxAttempts
        BY <1>2, QueueAssumption DEF Row
      <3>3. /\ Failed(worker[w].seen, row[j]).attempts = row[j].attempts
            /\ Failed(worker[w].seen, row[j]).status =
                 IF row[j].attempts >= MaxAttempts THEN "dead" ELSE "pending"
        BY <3>1 DEF Failed, Put, Exhausted
      <3> QED
        BY <1>2, <2>2, <3>2, <3>3 DEF FailWrite
    <2>3. CASE Lose(w)
      BY <1>2, <2>3 DEF Lose
    <2> QED
      BY <2>1, <2>2, <2>3
  <1>4. Held'
    BY <1>1, <1>2, <1>3 DEF Held, Busy, WorkerState
  <1>5. OneWorker'
    BY <1>1 DEF OneWorker, Busy
  <1>6. StillDead'
    BY <1>1, <1>2, <1>3 DEF StillDead, CallerState
  <1>7. AttemptsBounded'
    <2>1. lost[j] \in Nat /\ MaxAttempts \in Nat /\ row[j].attempts \in Nat
      BY <1>2, QueueAssumption DEF Row
    <2>2. row'[j].attempts <= MaxAttempts + lost'[j]
      BY <1>2, <1>3, <2>1 DEF AttemptsBounded
    <2> QED
      BY <1>3, <2>2 DEF AttemptsBounded
  <1>8. DeadIsExhausted'
    BY <1>2, <1>3 DEF DeadIsExhausted
  <1>9. MayRetry'
    <2>0. /\ row[j].attempts \in Nat /\ lost[j] \in Nat
          /\ row[j].attempts <= MaxAttempts + lost[j]
      BY <1>2 DEF AttemptsBounded, Row
    <2>1. row'[j].status = "running" => row'[j].attempts < MaxAttempts + lost'[j]
      <3>1. row'[j].status = "running" => lost'[j] = lost[j] + 1
        BY <1>3
      <3> HIDE DEF IInv, TypeOK
      <3> QED
        BY <1>3, <2>0, <3>1, Numbers
    <2>2. row'[j].status = "pending" => row'[j].attempts < MaxAttempts
      BY <1>2, <1>3
    <2>3. ASSUME NEW k \in Jobs \ {j}, row'[k].status = "running"
          PROVE  \/ \E v \in Workers : Busy(v)' /\ worker'[v].job = k
                 \/ row'[k].attempts < MaxAttempts + lost'[k]
      <3>1. row[k].status = "running" /\ row'[k] = row[k] /\ lost'[k] = lost[k]
        BY <1>3, <2>3
      <3>2. CASE row[k].attempts < MaxAttempts + lost[k]
        BY <3>1, <3>2
      <3>3. CASE \E v \in Workers : Busy(v) /\ worker[v].job = k
        <4>1. PICK v \in Workers : Busy(v) /\ worker[v].job = k
          BY <3>3
        <4>2. v # w
          BY <4>1
        <4> QED
          BY <1>1, <4>1, <4>2 DEF Busy
      <3> QED
        BY <3>1, <3>2, <3>3 DEF MayRetry
    <2>4. \A k \in Jobs \ {j} : row'[k].status = "pending" => row'[k].attempts < MaxAttempts
      BY <1>3 DEF MayRetry
    <2> QED
      BY <2>1, <2>2, <2>3, <2>4 DEF MayRetry
  <1> QED
    BY <1>4, <1>5, <1>6, <1>7, <1>8, <1>9 DEF Parts

(* What a caller does: it reads, it is refused, or it queues a new or a dead
   job that nobody works on. *)
LEMMA CallerKeeps ==
  ASSUME IInv, OneCaller, NEW c \in Callers,
         \/ \E j \in Jobs : Count(c, j)
         \/ Look(c) \/ Insert(c) \/ Full(c) \/ Known(c) \/ Revive(c)
  PROVE  Parts'
  <1> USE DEF IInv, TypeOK
  <1>1. worker' = worker /\ \A v \in Workers : Busy(v)' = Busy(v)
    BY DEF Count, Look, Insert, Full, Known, Revive, Busy
  <1>2. \A d \in Callers : d = c
    BY DEF OneCaller
  <1>3. CASE row' = row /\ lost' = lost
    <2>1. \/ caller'[c].seen = Absent
          \/ caller'[c].seen = row[caller[c].job] /\ caller'[c].job = caller[c].job
          \/ caller'[c] = caller[c]
      <3>1. CASE \E j \in Jobs : Count(c, j)
        BY <3>1 DEF Count
      <3>2. CASE Look(c)
        BY <3>2 DEF Look
      <3>3. CASE Insert(c) \/ Full(c) \/ Known(c) \/ Revive(c)
        BY <3>3 DEF Insert, Full, Known, Revive, Answers, Answered
      <3> QED
        BY <3>1, <3>2, <3>3
    <2>2. StillDead'
      BY <1>2, <1>3, <2>1 DEF StillDead, Absent
    <2> QED
      BY <1>1, <1>3, <2>2
         DEF Parts, Held, MayRetry, OneWorker, AttemptsBounded, DeadIsExhausted
  <1>4. CASE ~(row' = row /\ lost' = lost)
    <2> DEFINE j == caller[c].job
    <2>0. j \in Jobs /\ row[j] \in Row
      BY DEF CallerState
    <2>1. /\ Insert(c) \/ Revive(c)
          /\ row[j].status \in {"absent", "dead"}
          /\ row'[j].status = "pending" /\ row'[j].attempts = 0
          /\ \A k \in Jobs \ {j} : row'[k] = row[k] /\ lost'[k] = lost[k]
          /\ lost'[j] \in Nat /\ caller'[c].seen = Absent
      <3>1. CASE Insert(c)
        BY <1>4, <2>0, <3>1 DEF Insert, Inserted, Answers, Answered
      <3>2. CASE Revive(c)
        BY <2>0, <3>2 DEF Revive, StillDead, Put, Answers, Answered
      <3> QED
        BY <1>4, <3>1, <3>2 DEF Count, Look, Full, Known
    <2>2. \A w \in Workers : Busy(w) => worker[w].job \in Jobs \ {j}
      BY <2>1, HeldOnce
    <2>3. Held' /\ OneWorker'
      BY <1>1, <2>1, <2>2 DEF Held, OneWorker
    <2>4. StillDead'
      BY <1>2, <2>1 DEF StillDead, Absent
    <2>5. AttemptsBounded' /\ DeadIsExhausted'
      <3>1. row'[j].attempts <= MaxAttempts + lost'[j] /\ row'[j].status # "dead"
        BY <2>1, QueueAssumption
      <3> QED
        BY <2>1, <3>1 DEF AttemptsBounded, DeadIsExhausted
    <2>6. MayRetry'
      <3> SUFFICES ASSUME NEW k \in Jobs
                   PROVE  /\ row'[k].status = "pending" => row'[k].attempts < MaxAttempts
                          /\ row'[k].status = "running" =>
                               \/ \E w \in Workers : Busy(w)' /\ worker'[w].job = k
                               \/ row'[k].attempts < MaxAttempts + lost'[k]
        BY DEF MayRetry
      <3>1. CASE k = j
        BY <2>1, <3>1, QueueAssumption
      <3>2. CASE k # j
        <4>1. row'[k] = row[k] /\ lost'[k] = lost[k]
          BY <2>1, <3>2
        <4> QED
          BY <1>1, <4>1 DEF MayRetry
      <3> QED
        BY <3>1, <3>2
    <2> QED
      BY <2>3, <2>4, <2>5, <2>6 DEF Parts
  <1> QED
    BY <1>3, <1>4

(* Time passes only while no attempt is about to outlast its lease. *)
LEMMA TickKeeps ==
  ASSUME IInv, Timely, Tick
  PROVE  Parts'
  <1> USE DEF IInv, TypeOK
  <1>1. /\ worker' = worker /\ caller' = caller /\ lost' = lost
        /\ \A v \in Workers : Busy(v)' = Busy(v)
    BY DEF Tick, Busy
  <1>2. \A j \in Jobs : /\ row'[j].status = row[j].status
                        /\ row'[j].attempts = row[j].attempts
                        /\ row'[j].lease = IF row[j].lease > 1 THEN row[j].lease - 1
                                           ELSE row[j].lease
    BY DEF Tick, Aged, Row
  <1>3. \A w \in Workers : Busy(w) => row'[worker[w].job].lease > 1
    BY <1>2, HeldOnce DEF Tick, Timely, Row
  <1>4. Held'
    BY <1>1, <1>2, <1>3, HeldOnce DEF Held
  <1>5. OneWorker'
    BY <1>1 DEF OneWorker
  <1>6. StillDead' /\ AttemptsBounded' /\ DeadIsExhausted'
    BY <1>1, <1>2 DEF StillDead, AttemptsBounded, DeadIsExhausted, CallerState
  <1>7. MayRetry'
    BY <1>1, <1>2 DEF MayRetry
  <1> QED
    BY <1>4, <1>5, <1>6, <1>7 DEF Parts

(* With attempts that end within their lease and one caller, the reports of
   different attempts at a job never cross. *)
THEOREM InvariantHolds ==
  ASSUME Timely, OneCaller
  PROVE  Spec => []IInv
  <1>1. Init => IInv
    BY Constants, QueueAssumption
       DEF Init, IInv, TypeOK, Held, StillDead, MayRetry, OneWorker, AttemptsBounded,
           DeadIsExhausted, Busy, Idle, Answered, Absent
  <1>2. IInv /\ [Next]_vars => IInv'
    <2> SUFFICES ASSUME IInv, [Next]_vars
                 PROVE  IInv'
      OBVIOUS
    <2>1. TypeOK'
      BY TypeStep DEF IInv
    <2>2. CASE UNCHANGED vars
      BY <2>2 DEF vars, IInv, TypeOK, Held, StillDead, MayRetry, OneWorker, AttemptsBounded,
                  DeadIsExhausted, Busy
    <2>3. CASE Next
      <3>1. Parts'
        BY <2>3, Timely, OneCaller, Steps, ClaimKeeps, WorkKeeps, ReportKeeps, CallerKeeps,
           TickKeeps
      <3> QED
        BY <2>1, <3>1 DEF IInv, Parts
    <2> QED
      BY <2>2, <2>3
  <1> QED
    BY <1>1, <1>2, PTL DEF Spec

(* Claims with a lease keep two workers from one job. *)
THEOREM WorkersAreApart ==
  ASSUME Timely, OneCaller
  PROVE  Spec => []OneWorker
  BY InvariantHolds, PTL DEF IInv

(* fail counts: a job is tried MaxAttempts times, plus the attempts that were
   never reported. *)
THEOREM TriesAreBounded ==
  ASSUME Timely, OneCaller
  PROVE  Spec => []AttemptsBounded
  BY InvariantHolds, PTL DEF IInv

(* fail gives a job up no sooner than that. *)
THEOREM DeadAreExhausted ==
  ASSUME Timely, OneCaller
  PROVE  Spec => []DeadIsExhausted
  BY InvariantHolds, PTL DEF IInv

(* complete is the last word on a job. *)
THEOREM DoneStays ==
  ASSUME Timely, OneCaller
  PROVE  Spec => DoneIsFinal
  <1>1. ASSUME IInv, [Next]_vars, NEW j \in Jobs, row[j].status = "done"
        PROVE  row'[j].status = "done"
    <2> USE <1>1 DEF IInv, TypeOK
    <2>1. \A w \in Workers : Busy(w) => worker[w].job # j
      BY HeldOnce
    <2>2. ASSUME NEW w \in Workers, NEW k \in Jobs, Claim(w, k)
          PROVE  row'[j].status = "done"
      BY <2>2 DEF Claim, Claimable, Takes
    <2>3. ASSUME NEW w \in Workers, Complete(w) \/ FailWrite(w)
          PROVE  row'[j].status = "done"
      BY <2>1, <2>3 DEF Complete, FailWrite, Busy
    <2>4. ASSUME NEW c \in Callers, Insert(c) \/ Revive(c)
          PROVE  row'[j].status = "done"
      BY <2>4 DEF Insert, Revive, StillDead, CallerState
    <2>5. CASE Tick
      BY <2>5 DEF Tick, Aged, Row
    <2>6. CASE row' = row
      BY <2>6
    <2> QED
      BY <2>2, <2>3, <2>4, <2>5, <2>6, Steps
         DEF vars, Process, FailRead, CompleteRaises, SchemaError, Lose,
             Count, Look, Full, Known
  <1>2. IInv /\ [Next]_vars =>
          [\A j \in Jobs : row[j].status = "done" => row'[j].status = "done"]_vars
    BY <1>1
  <1> QED
    BY <1>2, InvariantHolds, PTL DEF Spec, DoneIsFinal

-----------------------------------------------------------------------------
(* ExtractQueue implements JobLifecycle.  A step of one worker or caller moves the
   job it is about; the others stand. *)
Others(j) == \A k \in Jobs \ {j} : /\ row'[k] = row[k]
                                   /\ Attempted(k)' = Attempted(k)

LEMMA OthersStand ==
  ASSUME NEW w \in Workers, NEW j \in Jobs,
         \A v \in Workers \ {w} : worker'[v] = worker[v],
         Busy(w) => worker[w].job = j, Busy(w)' => worker'[w].job = j,
         \A k \in Jobs \ {j} : row'[k] = row[k]
  PROVE  Others(j)
  <1> SUFFICES ASSUME NEW k \in Jobs \ {j} PROVE Attempted(k)' = Attempted(k)
    BY DEF Others
  <1>1. \A v \in Workers \ {w} : Busy(v)' = Busy(v) /\ worker'[v].job = worker[v].job
    BY DEF Busy
  <1>2. ~(Busy(w) /\ worker[w].job = k) /\ ~(Busy(w)' /\ worker'[w].job = k)
    OBVIOUS
  <1>3. Attempted(k)' <=> Attempted(k)
    BY <1>1, <1>2 DEF Attempted
  <1> QED
    BY <1>3 DEF Attempted

LEMMA StatesMove ==
  ASSUME NEW j \in Jobs, NEW from, NEW to, State(j) = from, State(j)' = to, Others(j)
  PROVE  J!Moves(j, from, to)
  <1>1. \A k \in Jobs \ {j} : State(k)' = State(k)
    BY DEF State, Others
  <1> QED
    BY <1>1 DEF J!Moves

LEMMA StatesStand ==
  ASSUME \A j \in Jobs : row'[j].status = row[j].status /\ row'[j].attempts = row[j].attempts
                         /\ (Attempted(j)' <=> Attempted(j)),
         UNCHANGED <<worked, lost>>
  PROVE  UNCHANGED J!vars
  <1>1. \A j \in Jobs : State(j)' = State(j)
    BY DEF State
  <1> QED
    BY <1>1 DEF J!vars

(* A claim takes a job that waits, or one whose worker has gone: the lease of a
   job in work has not run out. *)
LEMMA ClaimMoves ==
  ASSUME IInv, NEW w \in Workers, NEW j \in Jobs, Claim(w, j)
  PROVE  J!Next
  <1> USE DEF IInv, TypeOK
  <1>1. /\ row' = [row EXCEPT ![j] = [status |-> "running", attempts |-> row[j].attempts + 1,
                                      wait |-> 0, lease |-> LeaseTicks + 1]]
        /\ ~Busy(w) /\ Busy(w)' /\ worker'[w].job = j /\ UNCHANGED <<worked, lost>>
        /\ \A v \in Workers \ {w} : worker'[v] = worker[v]
    BY DEF Claim, Takes, Busy, WorkerState
  <1>2. Others(j)
    BY <1>1, OthersStand
  <1>3. State(j)' = "working"
    BY <1>1 DEF State, Attempted
  <1>4. [k \in Jobs |-> row'[k].attempts]
          = [[k \in Jobs |-> row[k].attempts] EXCEPT ![j] = @ + 1]
    BY <1>1
  <1>5. CASE row[j].status = "pending"
    <2>1. State(j) = "waiting" /\ row[j].attempts < MaxAttempts
      BY <1>5 DEF State, MayRetry
    <2>2. J!Moves(j, "waiting", "working")
      BY <1>2, <1>3, <2>1, StatesMove
    <2> QED
      BY <1>1, <1>4, <2>1, <2>2 DEF J!Try, J!Next
  <1>6. CASE row[j].status = "running" /\ row[j].lease = 1
    <2>1. ~Attempted(j)
      BY <1>6, HeldOnce DEF Attempted
    <2>2. J!Moves(j, "abandoned", "working")
      BY <1>2, <1>3, <1>6, <2>1, StatesMove DEF State
    <2> QED
      BY <1>1, <1>4, <2>2 DEF J!Try, J!Next
  <1> QED
    BY <1>5, <1>6 DEF Claim, Claimable

(* The worker that ends an attempt is the only one at its job. *)
LEMMA Over ==
  ASSUME IInv, NEW w \in Workers, NEW j \in Jobs, j = worker[w].job, Busy(w), ~Busy(w)',
         \A v \in Workers \ {w} : worker'[v] = worker[v],
         \A k \in Jobs \ {j} : row'[k] = row[k]
  PROVE  State(j) = "working" /\ ~Attempted(j)' /\ Others(j)
  <1>1. Attempted(j)
    BY HeldOnce DEF Attempted
  <1>2. State(j) = "working"
    BY <1>1, HeldOnce DEF State
  <1>3. \A v \in Workers : Busy(v)' => v # w /\ Busy(v) /\ worker'[v].job = worker[v].job
    BY DEF Busy
  <1>4. ~Attempted(j)'
    BY <1>3, HeldOnce DEF Attempted
  <1> QED
    BY <1>1, <1>2, <1>4, OthersStand

(* A report or a loss ends the attempt, in the way that the row says. *)
LEMMA ReportMoves ==
  ASSUME IInv, Finished, NEW w \in Workers, Complete(w) \/ FailWrite(w) \/ Lose(w)
  PROVE  J!Next
  <1> USE DEF IInv, TypeOK
  <1> PICK j \in Jobs : j = worker[w].job
    BY HeldOnce DEF Complete, FailWrite, Lose, Busy
  <1>1. /\ Busy(w) /\ ~Busy(w)' /\ worked' = worked
        /\ \A v \in Workers \ {w} : worker'[v] = worker[v]
        /\ \A k \in Jobs \ {j} : row'[k] = row[k]
    BY DEF Complete, FailWrite, Lose, Returns, Busy, Idle
  <1>2. /\ row[j].status = "running" /\ row[j] \in Row
        /\ State(j) = "working" /\ ~Attempted(j)' /\ Others(j)
    BY <1>1, HeldOnce, Over
  <1>3. CASE Complete(w)
    <2>1. row'[j].status = "done" /\ row'[j].attempts = row[j].attempts /\ lost' = lost
      BY <1>2, <1>3 DEF Complete, Row
    <2>2. J!Moves(j, "working", "done")
      BY <1>2, <2>1, StatesMove DEF State
    <2>3. UNCHANGED [k \in Jobs |-> row[k].attempts]
      BY <1>1, <2>1
    <2>4. j \in worked
      BY <1>3 DEF Finished, Complete
    <2> QED
      BY <1>1, <1>2, <2>1, <2>2, <2>3, <2>4 DEF J!Finish, J!Next
  <1>4. CASE FailWrite(w)
    <2>1. /\ worker[w].seen.status = "running" /\ worker[w].seen.attempts = row[j].attempts
          /\ row'[j] = Failed(worker[w].seen, row[j]) /\ lost' = lost
      BY <1>1, <1>2, <1>4 DEF FailWrite, Held
    <2>2. /\ row'[j].status = IF row[j].attempts >= MaxAttempts THEN "dead" ELSE "pending"
          /\ row'[j].attempts = row[j].attempts
      BY <2>1 DEF Failed, Exhausted, Put
    <2>3. UNCHANGED [k \in Jobs |-> row[k].attempts]
      BY <1>1, <2>2
    <2>4. CASE row[j].attempts >= MaxAttempts
      <3>1. J!Moves(j, "working", "dead")
        BY <1>2, <2>2, <2>4, StatesMove DEF State
      <3> QED
        BY <1>1, <1>2, <2>1, <2>3, <2>4, <3>1 DEF J!GiveUp, J!Next
    <2>5. CASE ~(row[j].attempts >= MaxAttempts)
      <3>1. J!Moves(j, "working", "waiting")
        BY <1>2, <2>2, <2>5, StatesMove DEF State
      <3>2. row[j].attempts < MaxAttempts
        BY <1>2, <2>5, Numbers DEF Row
      <3> QED
        BY <1>1, <1>2, <2>1, <2>3, <3>1, <3>2 DEF J!Retry, J!Next
    <2> QED
      BY <2>4, <2>5
  <1>5. CASE Lose(w)
    <2>1. row' = row /\ lost' = [lost EXCEPT ![j] = @ + 1]
      BY <1>5 DEF Lose
    <2>2. J!Moves(j, "working", "abandoned")
      BY <1>2, <2>1, StatesMove DEF State
    <2> QED
      BY <1>1, <1>2, <2>1, <2>2 DEF J!Abandon, J!Next
  <1> QED
    BY <1>3, <1>4, <1>5

(* What a worker does in between leaves its job in work. *)
LEMMA WorkMoves ==
  ASSUME IInv, NEW w \in Workers,
         Process(w) \/ FailRead(w) \/ CompleteRaises(w) \/ SchemaError(w)
  PROVE  J!Next \/ UNCHANGED J!vars
  <1> USE DEF IInv, TypeOK
  <1>1. /\ row' = row /\ lost' = lost
        /\ \A v \in Workers : (Busy(v)' <=> Busy(v)) /\ worker'[v].job = worker[v].job
    <2>1. CASE SchemaError(w)
      BY <2>1 DEF SchemaError, Busy, WorkerState
    <2>2. CASE Process(w) \/ FailRead(w) \/ CompleteRaises(w)
      <3>1. /\ Busy(w) /\ Busy(w)' /\ worker'[w].job = worker[w].job
            /\ \A v \in Workers \ {w} : worker'[v] = worker[v]
        BY <2>2 DEF Process, FailRead, CompleteRaises, Goes, Busy, WorkerState
      <3>2. row' = row /\ lost' = lost
        BY <2>2 DEF Process, FailRead, CompleteRaises
      <3> QED
        BY <3>1, <3>2 DEF Busy
    <2> QED
      BY <2>1, <2>2
  <1>2. \A k \in Jobs : Attempted(k)' <=> Attempted(k)
    BY <1>1 DEF Attempted
  <1>3. CASE worked' = worked
    BY <1>1, <1>2, <1>3, StatesStand
  <1>4. CASE Process(w) /\ worked' = worked \cup {worker[w].job}
    <2>1. /\ worker[w].job \in Jobs /\ row[worker[w].job].status = "running"
          /\ Attempted(worker[w].job)
      BY <1>4, HeldOnce DEF Process, Busy, Attempted
    <2>2. State(worker[w].job) = "working"
      BY <2>1 DEF State
    <2>3. \A k \in Jobs : State(k)' = State(k)
      BY <1>1, <1>2 DEF State
    <2> QED
      BY <1>1, <1>4, <2>1, <2>2, <2>3 DEF J!Work, J!Next
  <1> QED
    BY <1>3, <1>4 DEF Process, FailRead, CompleteRaises, SchemaError

(* A caller inserts a row or revives a job that is still dead. *)
LEMMA CallerMoves ==
  ASSUME IInv, NEW c \in Callers,
         \/ \E j \in Jobs : Count(c, j)
         \/ Look(c) \/ Insert(c) \/ Full(c) \/ Known(c) \/ Revive(c)
  PROVE  J!Next \/ UNCHANGED J!vars
  <1> USE DEF IInv, TypeOK
  <1> PICK j \in Jobs : j = caller[c].job
    BY DEF CallerState
  <1>1. caller[c].seen \in Row /\ worker' = worker /\ worked' = worked
    BY DEF CallerState, Count, Look, Insert, Full, Known, Revive
  <1>2. \A k \in Jobs : Attempted(k)' <=> Attempted(k)
    BY <1>1 DEF Attempted, Busy
  <1>3. CASE row' = row /\ lost' = lost
    BY <1>1, <1>2, <1>3, StatesStand
  <1>4. CASE Insert(c) /\ row[j].status = "absent" /\ row' = [row EXCEPT ![j] = Inserted]
    <2>1. State(j) = "absent" /\ State(j)' = "waiting" /\ Others(j) /\ lost' = lost
      BY <1>1, <1>2, <1>4 DEF State, Inserted, Insert, Others, Attempted
    <2>2. J!Moves(j, "absent", "waiting")
      BY <1>1, <2>1, StatesMove
    <2>3. [k \in Jobs |-> row'[k].attempts] = [[k \in Jobs |-> row[k].attempts] EXCEPT ![j] = 0]
      BY <1>4 DEF Inserted
    <2> QED
      BY <1>1, <2>1, <2>2, <2>3 DEF J!Queue, J!Next
  <1>5. CASE Revive(c)
    <2>1. row[j].status = "dead" /\ row[j].attempts = caller[c].seen.attempts
      BY <1>5 DEF Revive, StillDead
    <2>2. row'[j].status = "pending" /\ row'[j].attempts = 0
          /\ \A k \in Jobs \ {j} : row'[k] = row[k]
      BY <1>1, <1>5, <2>1 DEF Revive, Put
    <2>3. State(j) = "dead" /\ State(j)' = "waiting" /\ Others(j)
      BY <1>1, <1>2, <2>1, <2>2 DEF State, Others, Attempted
    <2>4. J!Moves(j, "dead", "waiting")
      BY <1>1, <2>3, StatesMove
    <2>5. [k \in Jobs |-> row'[k].attempts] = [[k \in Jobs |-> row[k].attempts] EXCEPT ![j] = 0]
      BY <1>1, <2>2
    <2> QED
      BY <1>1, <1>5, <2>4, <2>5 DEF Revive, J!Revive, J!Next
  <1> QED
    BY <1>3, <1>4, <1>5 DEF Count, Look, Insert, Full, Known

LEMMA JobMoves == IInv /\ Finished /\ [Next]_vars => [J!Next]_J!vars
  <1> SUFFICES ASSUME IInv, Finished, [Next]_vars PROVE J!Next \/ UNCHANGED J!vars
    OBVIOUS
  <1>1. CASE Tick \/ UNCHANGED vars
    <2>1. \A j \in Jobs : row'[j].status = row[j].status /\ row'[j].attempts = row[j].attempts
      BY <1>1 DEF Tick, Aged, vars, IInv, TypeOK, Row
    <2>2. worker' = worker /\ UNCHANGED <<worked, lost>>
      BY <1>1 DEF Tick, vars
    <2>3. \A j \in Jobs : Attempted(j)' <=> Attempted(j)
      BY <2>2 DEF Attempted, Busy
    <2> QED
      BY <2>1, <2>2, <2>3, StatesStand
  <1> QED
    BY <1>1, Steps, ClaimMoves, ReportMoves, WorkMoves, CallerMoves

(* The queue keeps the promise of JobLifecycle, as long as attempts end within their
   lease and revivals do not race. *)
THEOREM ImplementsJobs ==
  ASSUME Timely, OneCaller
  PROVE  Spec => JobSpec
  <1>1. Init => J!Init
    BY DEF Init, Absent, State, J!Init
  <1>2. Sound => Finished
    BY DEF Sound
  <1> QED
    BY <1>1, <1>2, JobMoves, InvariantHolds, SoundHolds, PTL DEF Spec, JobSpec, J!Spec
=============================================================================
