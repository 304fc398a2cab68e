----------------------------- MODULE CoreProofs -----------------------------
(***************************************************************************)
(* Proofs about the two classes of palatium_ai/core that concurrent calls  *)
(* share: AuditChain, for any threads, processes and faults, and Circuit,  *)
(* for any number of calls, any threshold and any cooldown.  The two have  *)
(* nothing to do with each other.                                          *)
(***************************************************************************)
EXTENDS AuditChain, Circuit, SequenceTheorems, TLAPS

-----------------------------------------------------------------------------
(* The audit chain.  While no write was torn, and all threads share a process and
   with it the lock, the chain verifies, commits to every event reported as written,
   and each of those can be read back.  Torn writes are excluded by ~hurt; two
   processes would fork the chain.

   The argument: the lock covers the read and the write, so the hash a writer holds
   is still the hash of the last line when it writes. *)

USE DEF ends

LEMMA InitInv == Init => IInv
<1> SUFFICES ASSUME Init PROVE IInv
  OBVIOUS
<1>1. TypeOK
  <2>1. Genesis \in Hash /\ file \in Seq(Line)
    BY DEF Init, Genesis, Hash
  <2>2. thread \in [Threads -> AppendState]
    BY <2>1 DEF Init, Idle, AppendState
  <2>3. lock \in [Processes -> Threads \cup {NoThread}]
    BY DEF Init
  <2> QED BY <2>1, <2>2, <2>3 DEF Init, TypeOK
<1>2. UnderLock /\ PrevIsLast
  BY DEF Init, UnderLock, PrevIsLast, Idle
<1>3. Verifies /\ Covered /\ ChainedIsReadable
  BY DEF Init, Verifies, Linked, Covered, ChainedIsReadable, InFile
<1> QED BY <1>1, <1>2, <1>3 DEF IInv, Intact, Init

(* What a text appended to the file leaves is a file. *)
LEMMA FileType ==
  ASSUME TypeOK, NEW l \in Line
  PROVE  Extended(l) \in Seq(Line)
<1>1. Genesis \in Hash
  BY DEF Genesis, Hash
<1>2. Junk \in Line
  BY <1>1 DEF Junk, Line
<1>3. file \in Seq(Line)
  BY DEF TypeOK
<1>4. CASE torn
  <2>1. SubSeq(file, 1, Len(file) - 1) \in Seq(Line)
    BY <1>3
  <2> QED BY <1>2, <1>4, <2>1, AppendProperties DEF Extended
<1>5. CASE ~torn
  BY <1>3, <1>5, AppendProperties DEF Extended
<1> QED BY <1>4, <1>5

(* A record is a line, and so is what is left of one. *)
LEMMA RecordType ==
  ASSUME TypeOK, NEW p \in Threads
  PROVE  /\ thread[p] \in AppendState /\ Home[p] \in Processes /\ Genesis \in Hash
         /\ Record(p) \in Line /\ Junk \in Line
<1>1. thread[p] \in AppendState /\ Genesis \in Hash
  BY DEF TypeOK, Genesis, Hash
<1>2. thread[p].prev \in Seq(Nat) /\ thread[p].event \in Nat
  BY <1>1 DEF AppendState, Hash
<1>3. Append(thread[p].prev, thread[p].event) \in Seq(Nat)
  BY <1>2, AppendProperties
<1>4. Record(p) \in Line /\ Junk \in Line
  BY <1>1, <1>2, <1>3 DEF Record, Append1, Junk, Line, Hash
<1> QED BY <1>1, <1>4 DEF Processes

(* Types and the lock discipline survive every step, torn writes included. *)
LEMMA StepType ==
  ASSUME TypeOK, UnderLock, NEW p \in Threads, Step(p)
  PROVE  TypeOK' /\ UnderLock'
<1>0. thread[p] \in AppendState /\ Home[p] \in Processes /\ Genesis \in Hash
  BY RecordType
<1>1. CASE Begin(p)
  BY <1>0, <1>1 DEF Begin, TypeOK, AppendState, UnderLock, Holds
<1>2. CASE Acquire(p)
  <2>1. \A q \in Threads : q # p /\ Home[q] = Home[p] => thread[q].pc \notin {"read", "write"}
    BY <1>2, LogAssumption DEF Acquire, UnderLock, Holds
  <2>2. UnderLock'
    BY <1>0, <1>2, <2>1 DEF Acquire, TypeOK, UnderLock, Holds
  <2> QED BY <1>0, <1>2, <2>2 DEF Acquire, TypeOK, AppendState
<1>3. CASE ReadLast(p)
  <2>1. HashOf(Kept) \in Hash
    <3>1. Kept \in Seq(Line)
      BY DEF TypeOK, Kept
    <3>2. ASSUME Kept # <<>> PROVE Kept[Len(Kept)] \in Line
      BY <3>1, <3>2
    <3> QED BY <1>0, <3>2 DEF HashOf, Line
  <2>2. thread' \in [Threads -> AppendState]
    BY <1>0, <1>3, <2>1 DEF ReadLast, TypeOK, AppendState
  <2>3. UnderLock'
    BY <1>3 DEF ReadLast, TypeOK, UnderLock, Holds
  <2> QED BY <1>3, <2>2, <2>3 DEF ReadLast, TypeOK
<1>4. ASSUME (Ends(p) /\ Release(p)) \/ WriteFails(p),
             thread[p].pc \in {"read", "write"}
      PROVE  /\ thread' \in [Threads -> AppendState]
             /\ lock' \in [Processes -> Threads \cup {NoThread}]
             /\ UnderLock'
  <2>1. \A q \in Threads : q # p /\ Home[q] = Home[p] => thread[q].pc \notin {"read", "write"}
    BY <1>4, LogAssumption DEF UnderLock, Holds
  <2>2. /\ thread' = [thread EXCEPT ![p] = Idle] \/ thread' = [thread EXCEPT ![p].pc = "dead"]
        /\ lock' = [lock EXCEPT ![Home[p]] = NoThread]
    BY <1>4 DEF Ends, Release, WriteFails
  <2>3. thread' \in [Threads -> AppendState]
    <3>1. CASE thread' = [thread EXCEPT ![p] = Idle]
      BY <1>0, <3>1 DEF TypeOK, Idle, AppendState
    <3>2. CASE thread' = [thread EXCEPT ![p].pc = "dead"]
      BY <1>0, <3>2 DEF TypeOK, AppendState
    <3> QED BY <2>2, <3>1, <3>2
  <2>4. lock' \in [Processes -> Threads \cup {NoThread}]
    BY <1>0, <2>2 DEF TypeOK
  <2>5. UnderLock'
    <3>1. thread'[p].pc \notin {"read", "write"}
      <4>1. CASE thread' = [thread EXCEPT ![p] = Idle]
        BY <4>1 DEF TypeOK, Idle
      <4>2. CASE thread' = [thread EXCEPT ![p].pc = "dead"]
        BY <1>0, <4>2 DEF TypeOK, AppendState
      <4> QED BY <2>2, <4>1, <4>2
    <3>2. \A q \in Threads : q # p => thread'[q] = thread[q]
      BY <2>2 DEF TypeOK
    <3>3. \A q \in Threads : Home[q] # Home[p] => lock'[Home[q]] = lock[Home[q]]
      BY <2>2 DEF TypeOK, Processes
    <3> QED BY <2>1, <3>1, <3>2, <3>3 DEF UnderLock, Holds
  <2> QED BY <2>3, <2>4, <2>5
<1>5. CASE ReadFails(p)
  BY <1>0, <1>4, <1>5 DEF ReadFails, TypeOK, AppendState
<1>6. CASE Write(p)
  BY <1>0, <1>4, <1>6, RecordType, FileType DEF Write, TypeOK, AppendState
<1>7. CASE WriteFails(p)
  <2>1. file' \in Seq(Line) /\ torn' \in BOOLEAN /\ hurt' \in BOOLEAN
    BY <1>7, RecordType, FileType DEF WriteFails, Tears, TypeOK
  <2> QED BY <1>4, <1>7, <2>1 DEF WriteFails, TypeOK
<1>8. CASE DeadLetter(p)
  <2>1. UnderLock'
    BY <1>8 DEF DeadLetter, Ends, Idle, TypeOK, UnderLock, Holds
  <2> QED BY <1>0, <1>8, <2>1 DEF DeadLetter, Ends, Idle, TypeOK, AppendState
<1> QED BY <1>1, <1>2, <1>3, <1>5, <1>6, <1>7, <1>8 DEF Step

LEMMA CrashType ==
  ASSUME TypeOK, UnderLock, NEW x \in Processes, Crash(x)
  PROVE  TypeOK' /\ UnderLock'
<1>1. file' \in Seq(Line) /\ torn' \in BOOLEAN /\ hurt' \in BOOLEAN
  BY RecordType, FileType DEF Crash, Tears, TypeOK
<1>2. \A p \in Threads : thread'[p] = IF Home[p] = x THEN Idle ELSE thread[p]
  BY DEF Crash
<1>3. Genesis \in Hash
  BY DEF Genesis, Hash
<1>4. thread' \in [Threads -> AppendState]
  BY <1>3 DEF Crash, TypeOK, Idle, AppendState
<1>5. cut' \in SUBSET Nat
  BY DEF Crash, TypeOK, AppendState
<1>6. UnderLock'
  BY <1>2 DEF Crash, TypeOK, UnderLock, Holds, Idle, Processes
<1> QED BY <1>1, <1>4, <1>5, <1>6 DEF Crash, TypeOK

(* Steps that leave the file alone. *)
LEMMA KeepsFile ==
  ASSUME Intact, UNCHANGED <<file, torn, chained>>, PrevIsLast'
  PROVE  Intact'
<1>1. Verifies' /\ Covered' /\ ChainedIsReadable'
  BY DEF Intact, Verifies, Linked, Covered, ChainedIsReadable, InFile, HashOf, Commits
<1> QED BY <1>1 DEF Intact

(* The lock: at most one thread is past it. *)
LEMMA OneWriter ==
  ASSUME Whole, TypeOK, UnderLock, NEW p \in Threads, NEW q \in Threads,
         Holds(p), thread[q].pc \in {"read", "write"}
  PROVE  p = q
BY DEF Whole, UnderLock, Holds

(* The last line carries the hash the next record is computed from. *)
LEMMA WriteKeeps ==
  ASSUME Whole, TypeOK, UnderLock, Intact, NEW p \in Threads, Write(p)
  PROVE  Intact'
<1> DEFINE r == Record(p)
           h == thread[p].prev
           e == thread[p].event
<1>1. /\ file \in Seq(Line) /\ h \in Seq(Nat) /\ e \in Nat /\ ~torn /\ h = HashOf(file)
  BY DEF Intact, TypeOK, AppendState, Hash, Write, PrevIsLast
<1>2. file' = Append(file, r) /\ ~torn' /\ chained' = chained \cup {e}
  BY <1>1 DEF Write, Extended
<1>3. r = [ok |-> TRUE, prev |-> h, cur |-> Append(h, e)]
  BY DEF Record, Append1
<1>4. r \in Line /\ r.ok /\ r.prev = h /\ r.cur = Append(h, e) /\ Append(h, e) \in Seq(Nat)
  BY <1>1, <1>3 DEF Line, Hash
<1>5. /\ Len(file') = Len(file) + 1 /\ Len(file) \in Nat
      /\ file'[Len(file) + 1] = r
      /\ \A i \in 1..Len(file) : file'[i] = file[i]
      /\ file' # <<>>
  BY <1>1, <1>2, <1>4
<1>6. HashOf(file') = Append(h, e)
  BY <1>4, <1>5 DEF HashOf
<1>8. \A q \in Threads : q # p => thread[q].pc \notin {"read", "write"}
  <2>1. Holds(p)
    BY DEF Write, UnderLock
  <2> QED BY <2>1, OneWriter
<1>9. \A q \in Threads : thread'[q].pc \notin {"read", "write"}
  BY <1>8 DEF Write, Ends, Idle, TypeOK
<1>10. PrevIsLast'
  BY <1>9 DEF PrevIsLast
<1>11. Verifies'
  <2> SUFFICES ASSUME NEW i \in 1..Len(file')
               PROVE  file'[i].ok /\ file'[i].prev = (IF i = 1 THEN Genesis ELSE file'[i - 1].cur)
    BY DEF Verifies, Linked
  <2>1. CASE i \in 1..Len(file)
    <3>1. file'[i] = file[i] /\ (i # 1 => file'[i - 1] = file[i - 1])
      BY <1>5, <2>1
    <3> QED BY <2>1, <3>1 DEF Intact, Verifies, Linked
  <2>2. CASE i = Len(file) + 1
    <3>1. h = IF i = 1 THEN Genesis ELSE file[i - 1].cur
      BY <1>1, <1>5, <2>2 DEF HashOf
    <3>2. i # 1 => file'[i - 1] = file[i - 1]
      BY <1>5, <2>2
    <3> QED BY <1>4, <1>5, <2>2, <3>1, <3>2
  <2> QED BY <1>5, <2>1, <2>2
<1>12. Covered'
  <2>1. Commits(h) \subseteq Commits(Append(h, e)) /\ e \in Commits(Append(h, e))
    <3>1. /\ Len(Append(h, e)) = Len(h) + 1 /\ Len(h) \in Nat
          /\ Append(h, e)[Len(h) + 1] = e
          /\ \A j \in 1..Len(h) : Append(h, e)[j] = h[j]
      BY <1>1
    <3> QED BY <3>1 DEF Commits
  <2> QED BY <1>1, <1>2, <1>6, <2>1 DEF Intact, Covered
<1>13. ChainedIsReadable'
  <2> SUFFICES ASSUME NEW x \in chained'
               PROVE  \E i \in 1..Len(file') : file'[i].ok /\ file'[i].cur # Genesis
                         /\ file'[i].cur[Len(file'[i].cur)] = x
    BY DEF ChainedIsReadable, InFile
  <2>1. CASE x \in chained
    <3>1. PICK i \in 1..Len(file) : file[i].ok /\ file[i].cur # Genesis
                         /\ file[i].cur[Len(file[i].cur)] = x
      BY <2>1 DEF Intact, ChainedIsReadable, InFile
    <3> QED BY <1>5, <3>1
  <2>2. CASE x = e
    <3>1. r.cur # Genesis /\ r.cur[Len(r.cur)] = e
      <4>1. /\ Append(h, e) # <<>> /\ Len(Append(h, e)) = Len(h) + 1
            /\ Append(h, e)[Len(h) + 1] = e
        BY <1>1, AppendProperties
      <4> QED BY <1>4, <4>1 DEF Genesis
    <3> QED BY <1>4, <1>5, <2>2, <3>1
  <2> QED BY <1>2, <2>1, <2>2
<1> QED BY <1>2, <1>10, <1>11, <1>12, <1>13 DEF Intact

LEMMA StepKeeps ==
  ASSUME Whole, TypeOK, UnderLock, Intact, NEW p \in Threads, Step(p), ~hurt'
  PROVE  Intact'
<1>0. thread[p] \in AppendState
  BY RecordType
<1>1. CASE Begin(p) \/ Acquire(p) \/ DeadLetter(p)
  <2>1. PrevIsLast'
    <3>1. \A q \in Threads : thread'[q].pc = "write" => thread'[q] = thread[q]
      <4>1. CASE Begin(p)
        BY <4>1 DEF Begin, TypeOK
      <4>2. CASE Acquire(p)
        BY <4>2 DEF Acquire, TypeOK
      <4>3. CASE DeadLetter(p)
        BY <4>3 DEF DeadLetter, Ends, Idle, TypeOK
      <4> QED BY <1>1, <4>1, <4>2, <4>3
    <3>2. file' = file
      BY <1>1 DEF Begin, Acquire, DeadLetter
    <3> QED BY <3>1, <3>2 DEF Intact, PrevIsLast, HashOf
  <2> QED BY <1>1, <2>1, KeepsFile DEF Begin, Acquire, DeadLetter
<1>2. CASE ReadLast(p)
  <2>1. Kept = file
    BY DEF Kept, Intact
  <2>2. PrevIsLast'
    BY <1>2, <2>1 DEF ReadLast, Intact, TypeOK, PrevIsLast, HashOf
  <2> QED BY <1>2, <2>2, KeepsFile DEF ReadLast
<1>3. CASE ReadFails(p) \/ WriteFails(p)
  <2>1. UNCHANGED <<file, torn, chained>>
    BY <1>3 DEF ReadFails, WriteFails, Tears
  <2>2. \A q \in Threads : q # p => thread[q].pc \notin {"read", "write"}
    BY <1>3, OneWriter DEF ReadFails, WriteFails, UnderLock
  <2>3. \A q \in Threads : thread'[q].pc # "write"
    <3>1. CASE ReadFails(p)
      BY <2>2, <3>1 DEF ReadFails, Ends, Idle, TypeOK
    <3>2. CASE WriteFails(p)
      BY <2>2, <3>2 DEF WriteFails, TypeOK
    <3> QED BY <1>3, <3>1, <3>2
  <2> QED BY <2>1, <2>3, KeepsFile DEF PrevIsLast
<1>4. CASE Write(p)
  BY <1>4, WriteKeeps
<1> QED BY <1>1, <1>2, <1>3, <1>4 DEF Step

LEMMA CrashKeeps ==
  ASSUME TypeOK, Intact, NEW x \in Processes, Crash(x), ~hurt'
  PROVE  Intact'
<1>1. UNCHANGED <<file, torn, chained>>
  BY DEF Crash, Tears
<1>2. PrevIsLast'
  BY <1>1 DEF Crash, Idle, Intact, PrevIsLast, HashOf
<1> QED BY <1>1, <1>2, KeepsFile

(* What is hurt stays so. *)
LEMMA HurtStays == TypeOK /\ [Next]_vars /\ ~hurt' => ~hurt
BY DEF TypeOK, Next, Step, Begin, Acquire, ReadLast, ReadFails, Write, WriteFails, DeadLetter,
       Crash, Tears, vars

(* The inductive invariant of the log, for any threads, processes and faults. *)
THEOREM ChainInvariantHolds == Spec => []IInv
<1>1. IInv /\ [Next]_vars => IInv'
  <2> SUFFICES ASSUME IInv, [Next]_vars PROVE IInv'
    OBVIOUS
  <2>1. CASE UNCHANGED vars
    BY <2>1 DEF vars, IInv, Intact, TypeOK, UnderLock, Holds, PrevIsLast, HashOf,
               Verifies, Linked, Covered, Commits, ChainedIsReadable, InFile
  <2>2. ASSUME NEW p \in Threads, Step(p) PROVE IInv'
    BY <2>2, StepType, StepKeeps, HurtStays DEF IInv
  <2>3. ASSUME NEW x \in Processes, Crash(x) PROVE IInv'
    BY <2>3, CrashType, CrashKeeps, HurtStays DEF IInv
  <2> QED BY <2>1, <2>2, <2>3 DEF Next
<1> QED BY <1>1, InitInv, PTL DEF Spec

(* While no write was torn, appends that race for one lock leave a chain that
   verifies, commits to every event reported as written, and shows each. *)
THEOREM ChainHolds == Spec => []ChainIntact
<1>1. IInv => ChainIntact
  BY DEF IInv, Intact, ChainIntact
<1> QED BY <1>1, ChainInvariantHolds, PTL

-----------------------------------------------------------------------------
(* A torn write cannot hide the loss of a record: the text that continues a torn
   line leaves a line that does not parse, for good. *)

Shows(f, i, e) == f[i].ok /\ f[i].cur # Genesis /\ f[i].cur[Len(f[i].cur)] = e
Damaged(f) == \E i \in 1..Len(f) : ~f[i].ok
Settled == \A e \in chained :
  \/ \E i \in 1..Len(file) : (torn => i < Len(file)) /\ Shows(file, i, e)
  \/ Damaged(file)

LEMMA AppendedTo ==
  ASSUME TypeOK, NEW l \in Line
  PROVE  /\ \A i \in 1..Len(file) : (torn => i < Len(file)) =>
               i \in 1..Len(Extended(l)) /\ i < Len(Extended(l)) /\ Extended(l)[i] = file[i]
         /\ torn => Damaged(Extended(l))
         /\ ~torn => /\ Len(Extended(l)) \in 1..Len(Extended(l))
                     /\ Extended(l)[Len(Extended(l))] = l
<1>1. file \in Seq(Line) /\ Len(file) \in Nat
  BY DEF TypeOK
<1>2. CASE torn
  <2> DEFINE rest == SubSeq(file, 1, Len(file) - 1)
  <2>1. rest \in Seq(Line) /\ \A i \in 1..(Len(file) - 1) : i \in 1..Len(rest) /\ rest[i] = file[i]
    BY <1>1
  <2>2. Junk \in Line
    BY DEF Junk, Line, Genesis, Hash
  <2>3. Extended(l) = Append(rest, Junk)
    BY <1>2 DEF Extended
  <2>4. /\ Len(Extended(l)) = Len(rest) + 1 /\ Extended(l)[Len(rest) + 1] = Junk
        /\ \A i \in 1..Len(rest) : Extended(l)[i] = rest[i]
    BY <2>1, <2>2, <2>3, AppendProperties
  <2>5. Damaged(Extended(l))
    BY <2>1, <2>4 DEF Damaged, Junk
  <2> QED BY <1>1, <1>2, <2>1, <2>4, <2>5
<1>3. CASE ~torn
  <2>1. Extended(l) = Append(file, l)
    BY <1>3 DEF Extended
  <2>2. /\ Len(Extended(l)) = Len(file) + 1 /\ Extended(l)[Len(file) + 1] = l
        /\ \A i \in 1..Len(file) : Extended(l)[i] = file[i]
    BY <1>1, <2>1, AppendProperties
  <2> QED BY <1>1, <1>3, <2>2
<1> QED BY <1>2, <1>3

LEMMA TearSettles ==
  ASSUME TypeOK, Settled, NEW p \in Threads, Tears(p), UNCHANGED chained
  PROVE  Settled'
<1>1. PICK l \in Line : file' = Extended(l)
  BY RecordType DEF Tears
<1>2. Damaged(file) => Damaged(file')
  BY <1>1, AppendedTo DEF Damaged
<1>3. ASSUME NEW e \in chained, NEW i \in 1..Len(file), torn => i < Len(file), Shows(file, i, e)
      PROVE  i \in 1..Len(file') /\ i < Len(file') /\ Shows(file', i, e)
  BY <1>1, <1>3, AppendedTo DEF Shows
<1> QED BY <1>2, <1>3 DEF Settled

LEMMA WriteSettles ==
  ASSUME TypeOK, Settled, NEW p \in Threads, Write(p)
  PROVE  Settled'
<1>1. /\ file' = Extended(Record(p)) /\ ~torn' /\ chained' = chained \cup {thread[p].event}
      /\ Record(p) \in Line
  BY RecordType DEF Write
<1>2. CASE torn
  BY <1>1, <1>2, AppendedTo DEF Settled
<1>3. CASE ~torn
  <2>1. Damaged(file) => Damaged(file')
    BY <1>1, <1>3, AppendedTo DEF Damaged
  <2>2. ASSUME NEW e \in chained, NEW i \in 1..Len(file), Shows(file, i, e)
        PROVE  i \in 1..Len(file') /\ Shows(file', i, e)
    BY <1>1, <1>3, <2>2, AppendedTo DEF Shows
  <2>3. Len(file') \in 1..Len(file') /\ Shows(file', Len(file'), thread[p].event)
    <3>1. thread[p].prev \in Seq(Nat) /\ thread[p].event \in Nat
      BY RecordType DEF AppendState, Hash
    <3> DEFINE h == Append(thread[p].prev, thread[p].event)
    <3>2. h # <<>> /\ h[Len(h)] = thread[p].event
      BY <3>1, AppendProperties
    <3>3. Record(p).ok /\ Record(p).cur = h
      BY DEF Record, Append1
    <3>4. file'[Len(file')] = Record(p) /\ Len(file') \in 1..Len(file')
      BY <1>1, <1>3, AppendedTo
    <3> QED BY <3>2, <3>3, <3>4 DEF Shows, Genesis
  <2> QED BY <1>1, <2>1, <2>2, <2>3 DEF Settled
<1> QED BY <1>2, <1>3

LEMMA SettledStep == TypeOK /\ Settled /\ [Next]_vars => Settled'
<1> SUFFICES ASSUME TypeOK, Settled, [Next]_vars PROVE Settled'
  OBVIOUS
<1>1. ASSUME UNCHANGED <<file, torn, chained>> PROVE Settled'
  BY <1>1 DEF Settled, Damaged, Shows
<1>2. ASSUME NEW p \in Threads, Step(p) PROVE Settled'
  <2>1. CASE Write(p)
    BY <2>1, WriteSettles
  <2>2. CASE WriteFails(p)
    BY <1>1, <2>2, TearSettles DEF WriteFails
  <2>3. CASE ~Write(p) /\ ~WriteFails(p)
    BY <1>1, <1>2, <2>3 DEF Step, Begin, Acquire, ReadLast, ReadFails, DeadLetter
  <2> QED BY <2>1, <2>2, <2>3
<1>3. ASSUME NEW x \in Processes, Crash(x) PROVE Settled'
  BY <1>1, <1>3, TearSettles DEF Crash
<1>4. CASE UNCHANGED vars
  BY <1>1, <1>4 DEF vars
<1> QED BY <1>2, <1>3, <1>4 DEF Next

(* However many writes were torn, and even if two processes share the file: a
   file in which verification finds nothing has every record that an append
   reported as written. *)
THEOREM LossShows == Spec => []LossIsReported
<1>1. Init => Settled
  BY DEF Init, Settled
<1>2. Settled => LossIsReported
  BY DEF Settled, LossIsReported, Verifies, Linked, ChainedIsReadable, InFile, Damaged, Shows
<1>3. IInv => TypeOK
  BY DEF IInv
<1> QED BY <1>1, <1>2, <1>3, ChainInvariantHolds, SettledStep, PTL DEF Spec

-----------------------------------------------------------------------------
(* What a caller was told: a step that ends an append answers its caller, and only
   after the file or the dead-letter file has the event.  What the chain holds is
   LossShows. *)

Answered(e) == e \in chained \cup cut \cup refused \cup (told \cap (dead \cup spilt))
Accounted == 1..events \subseteq Running \cup {e \in 1..events : Answered(e)}

LEMMA AccountedStep == TypeOK /\ Accounted /\ [Next]_vars => Accounted'
<1> SUFFICES ASSUME TypeOK, Accounted, [Next]_vars, NEW e \in 1..events'
             PROVE  e \in Running' \/ Answered(e)'
  BY DEF Accounted
<1> DEFINE Active(q) == thread[q].pc # "idle" /\ thread[q].event = e
<1>0. /\ thread \in [Threads -> AppendState] /\ events \in Nat
      /\ (e \in 1..events => (\E q \in Threads : Active(q)) \/ Answered(e))
  BY DEF TypeOK, Accounted, Running
<1>1. (\E q \in Threads : thread'[q].pc # "idle" /\ thread'[q].event = e) => e \in Running'
  BY DEF Running
<1>2. ASSUME NEW p \in Threads, Step(p) PROVE e \in Running' \/ Answered(e)'
  <2>1. Answered(e) => Answered(e)'
    BY <1>2 DEF Step, Begin, Acquire, ReadLast, ReadFails, Write, WriteFails, DeadLetter,
                Answered
  <2>2. \A q \in Threads : q # p => thread'[q] = thread[q]
    BY <1>0, <1>2 DEF Step, Begin, Acquire, ReadLast, ReadFails, Write, WriteFails, DeadLetter, Ends
  <2>3. CASE Begin(p)
    <3>1. thread'[p].pc = "wait" /\ thread'[p].event = events + 1 /\ events' = events + 1
          /\ thread[p].pc = "idle"
      BY <1>0, <2>3 DEF Begin
    <3>2. e = events + 1 \/ e \in 1..events
      BY <1>0, <3>1
    <3> QED BY <1>0, <1>1, <2>1, <2>2, <3>1, <3>2
  <2>4. CASE ~Begin(p)
    <3>1. events' = events
      BY <1>2, <2>4 DEF Step, Acquire, ReadLast, ReadFails, Write, WriteFails, DeadLetter
    <3>2. CASE Active(p)
      <4>1. (thread'[p].pc # "idle" /\ thread'[p].event = e) \/ Answered(e)'
        BY <1>0, <1>2, <2>4, <3>2
           DEF Step, Acquire, ReadLast, ReadFails, Write, WriteFails, DeadLetter, Ends,
               AppendState, Answered
      <4> QED BY <1>1, <4>1
    <3>3. CASE ~Active(p)
      BY <1>0, <1>1, <2>1, <2>2, <3>1, <3>3
    <3> QED BY <3>2, <3>3
  <2> QED BY <2>3, <2>4
<1>3. ASSUME NEW x \in Processes, Crash(x) PROVE e \in Running' \/ Answered(e)'
  <2>1. UNCHANGED <<chained, dead, told, spilt, refused, events>> /\ cut \subseteq cut'
    BY <1>3 DEF Crash
  <2>2. \A q \in Threads : thread'[q] = IF Home[q] = x THEN Idle ELSE thread[q]
    BY <1>3 DEF Crash
  <2>3. \A q \in Threads : Home[q] = x /\ Active(q) => e \in cut'
    BY <1>3 DEF Crash
  <2> QED BY <1>0, <1>1, <2>1, <2>2, <2>3 DEF Answered
<1>4. CASE UNCHANGED vars
  <2>1. UNCHANGED <<thread, events, ends>>
    BY <1>4 DEF vars
  <2> QED BY <1>0, <1>1, <2>1 DEF Answered
<1> QED BY <1>2, <1>3, <1>4 DEF Next

(* What the caller was told of an event, the chain and the dead-letter file bear out,
   whatever is torn: the exceptions are a second failure and a crash. *)
THEOREM EventsAreAccounted == Spec => []NothingLost
<1>1. Init => Accounted
  BY DEF Init, Accounted
<1>2. IInv => TypeOK
  BY DEF IInv
<1>3. Accounted /\ LossIsReported => NothingLost
  BY DEF Accounted, Answered, LossIsReported, ChainedIsReadable, NothingLost
<1> QED BY <1>1, <1>2, <1>3, ChainInvariantHolds, LossShows, AccountedStep, PTL DEF Spec

(* What is added to the file takes nothing back: a record with its newline stands
   where it is, and what verification found wrong is still wrong. *)
Stands == \A i \in 1..Len(file) :
  (torn => i < Len(file)) => i \in 1..Len(file)' /\ file'[i] = file[i]

LEMMA AddedStands ==
  ASSUME TypeOK, NEW l \in Line, file' = Extended(l)
  PROVE  Stands /\ (~Verifies => ~Verifies')
<1>1. Stands
  BY AppendedTo DEF Stands
<1>2. ASSUME ~Verifies PROVE ~Verifies'
  <2>1. PICK i \in 1..Len(file) : ~Linked(i)
    BY <1>2 DEF Verifies
  <2>2. CASE torn
    <3>1. PICK j \in 1..Len(file') : ~file'[j].ok
      BY <2>2, AppendedTo DEF Damaged
    <3> QED BY <3>1 DEF Verifies, Linked
  <2>3. CASE ~torn
    <3>1. \A j \in 1..Len(file) : j \in 1..Len(file') /\ file'[j] = file[j]
      BY <2>3, AppendedTo
    <3>2. i # 1 => i - 1 \in 1..Len(file)
      BY DEF TypeOK
    <3>3. ~Linked(i)'
      BY <2>1, <3>1, <3>2 DEF Linked
    <3> QED BY <3>1, <3>3 DEF Verifies
  <2> QED BY <2>2, <2>3
<1> QED BY <1>1, <1>2

LEMMA FileSteps ==
  TypeOK /\ [Next]_vars => file' = file \/ \E l \in Line : file' = Extended(l)
<1> SUFFICES ASSUME TypeOK, [Next]_vars, file' # file
             PROVE  \E l \in Line : file' = Extended(l)
  OBVIOUS
<1>1. ASSUME NEW p \in Threads, Write(p) \/ Tears(p) PROVE \E l \in Line : file' = Extended(l)
  BY <1>1, RecordType DEF Write, Tears
<1>2. ASSUME NEW p \in Threads, Step(p) PROVE \E l \in Line : file' = Extended(l)
  BY <1>1, <1>2 DEF Step, Begin, Acquire, ReadLast, ReadFails, WriteFails, DeadLetter
<1>3. ASSUME NEW x \in Processes, Crash(x) PROVE \E l \in Line : file' = Extended(l)
  BY <1>1, <1>3 DEF Crash
<1> QED BY <1>2, <1>3 DEF Next, vars

(* The log is append-only for verification, whatever is torn and whoever shares the
   file: no later append hides what was found wrong, nor alters a finished record. *)
THEOREM EvidenceStands == Spec => [][Stands /\ (~Verifies => ~Verifies')]_vars
<1>1. IInv /\ [Next]_vars => Stands /\ (~Verifies => ~Verifies')
  <2> SUFFICES ASSUME IInv, [Next]_vars PROVE Stands /\ (~Verifies => ~Verifies')
    OBVIOUS
  <2>1. TypeOK
    BY DEF IInv
  <2>2. CASE file' = file
    BY <2>2 DEF Stands, Verifies, Linked
  <2> QED BY <2>1, <2>2, FileSteps, AddedStands
<1> QED BY <1>1, ChainInvariantHolds, PTL DEF Spec

-----------------------------------------------------------------------------
(* The circuit.  Its invariant is inductive; each action is a lemma, the actions that
   leave every running call as it is share one. *)

LEMMA CircuitNumbers == Threshold \in Nat /\ Threshold > 0 /\ Open \in Nat /\ Open > 0
  BY CircuitAssumption

LEMMA NoCallIsCall == NoCall \in Call
  BY CircuitNumbers DEF NoCall, Call

(* The types of the successor state. *)
LEMMA CircuitTypeStep == CircuitTypeOK /\ [CircuitNext]_circuitVars => CircuitTypeOK'
  <1> SUFFICES ASSUME CircuitTypeOK, [CircuitNext]_circuitVars
               PROVE  CircuitTypeOK'
    OBVIOUS
  <1> USE CircuitNumbers DEF CircuitTypeOK
  <1>1. CASE UNCHANGED circuitVars
    BY <1>1 DEF circuitVars
  <1>2. CASE Peek \/ Renew
    <2>1. failures' \in 0..Threshold /\ cool' \in 0..Open
      BY <1>2 DEF Peek, Renew
    <2>2. probe' \in BOOLEAN /\ late' \in BOOLEAN /\ dropped' \in BOOLEAN
      BY <1>2 DEF Peek, Renew
    <2>3. state' \in {"closed", "open", "half_open"} /\ call' \in [Calls -> Call]
      BY <1>2 DEF Peek, Renew
    <2> QED
      BY <2>1, <2>2, <2>3
  <1>3. CASE Tick
    <2>1. \A c \in Call : Older(c) \in Call
      BY DEF Older, Call
    <2>2. cool' \in 0..Open
      BY <1>3 DEF Tick
    <2> QED
      BY <1>3, <2>1, <2>2 DEF Tick
  <1>4. ASSUME NEW k \in Calls, Allow(k) PROVE CircuitTypeOK'
    <2>1. [running |-> TRUE, age |-> 0, probe |-> Current = "half_open"] \in Call
      BY DEF Call
    <2>2. call' \in [Calls -> Call]
      BY <1>4, <2>1 DEF Allow
    <2>3. state' \in {"closed", "open", "half_open"} /\ probe' \in BOOLEAN
      BY <1>4 DEF Allow, Current
    <2> QED
      BY <1>4, <2>2, <2>3 DEF Allow
  <1>5. ASSUME NEW k \in Calls, Succeed(k) PROVE CircuitTypeOK'
    <2>1. failures' \in 0..Threshold /\ cool' \in 0..Open /\ state' = "closed"
      BY <1>5 DEF Succeed
    <2>2. probe' \in BOOLEAN /\ late' \in BOOLEAN /\ dropped' \in BOOLEAN
      BY <1>5 DEF Succeed
    <2>3. call' \in [Calls -> Call]
      BY <1>5, NoCallIsCall DEF Succeed, Returns
    <2> QED
      BY <2>1, <2>2, <2>3
  <1>6. ASSUME NEW k \in Calls, EndSilently(k) PROVE CircuitTypeOK'
    BY <1>6 DEF EndSilently, Returns, NoCall, Call, circuit
  <1>7. ASSUME NEW k \in Calls, NEW stale \in BOOLEAN, Fail(k, stale) PROVE CircuitTypeOK'
    <2>1. Count \in 0..Threshold
      BY DEF Count
    <2>2. Open - call[k].age \in 0..Open
      BY DEF Call
    <2>3. cool' \in 0..Open /\ state' \in {"closed", "open", "half_open"}
      BY <1>7, <2>2 DEF Fail, Opens
    <2>4. call' \in [Calls -> Call]
      BY <1>7 DEF Fail, Returns, NoCall, Call
    <2> QED
      BY <1>7, <2>1, <2>3, <2>4 DEF Fail
  <1> QED
    BY <1>1, <1>2, <1>3, <1>4, <1>5, <1>6, <1>7 DEF CircuitNext, Reports

(* A call that is given permission is a probe exactly if the circuit is half
   open then, and nobody else runs if it is. *)
LEMMA AllowKeeps ==
  ASSUME CircuitInv, CircuitTypeOK', NEW k \in Calls, Allow(k)
  PROVE  CircuitInv'
  <1> USE CircuitNumbers DEF CircuitInv, CircuitTypeOK
  <1>1. /\ call'[k].running /\ call'[k].age = 0
        /\ call'[k].probe = (Current = "half_open") /\ ~call[k].running
        /\ \A j \in Calls : j # k => call'[j] = call[j]
        /\ late' = late /\ dropped' = dropped /\ cool' = cool
        /\ failures' = failures /\ state' = Current /\ ~Blocked
        /\ probe' = (probe \/ Current = "half_open")
    BY DEF Allow, Call
  <1>2. CASE Current = "half_open"
    <2>1. ~late => \A j \in Calls : ~call[j].running
      <3>1. CASE state = "half_open"
        BY <1>1, <3>1 DEF Alone, Blocked
      <3>2. CASE state = "open" /\ cool = 0
        <4> SUFFICES ASSUME ~late, NEW j \in Calls, call[j].running
                     PROVE  FALSE
          OBVIOUS
        <4>1. call[j].age >= Open /\ call[j].age < Open /\ call[j].age \in 0..Open
          BY <3>2 DEF OldEnough, Young, Call
        <4> QED
          BY <4>1
      <3> QED
        BY <1>2, <3>1, <3>2 DEF Current, Cooled
    <2>2. state # "closed"
      BY <1>2 DEF Current, Cooled
    <2>3. RowOpens' /\ ProbeIsHalfOpen' /\ OldEnough'
      BY <1>1, <1>2, <2>2 DEF RowOpens, ProbeIsHalfOpen, OldEnough
    <2>4. Young'
      BY <1>1, <2>1 DEF Young
    <2>5. probe' /\ call'[k].probe
      BY <1>1, <1>2
    <2>6. Alone' /\ ProbeOwned' /\ OneProbe'
      BY <1>1, <2>1, <2>5 DEF Alone, ProbeOwned, OneProbe
    <2> QED
      BY <2>3, <2>4, <2>6
  <1>3. CASE Current # "half_open"
    <2>1. state = "closed" /\ ~probe
      <3>1. state # "half_open" /\ (state = "open" => cool # 0)
        BY <1>3 DEF Current, Cooled
      <3>2. state # "open"
        BY <1>1, <3>1 DEF Blocked
      <3> QED
        BY <3>1, <3>2 DEF ProbeIsHalfOpen
    <2>2. state' = "closed" /\ ~probe' /\ ~call'[k].probe
      BY <1>1, <1>3, <2>1 DEF Current, Cooled
    <2>3. RowOpens' /\ ProbeIsHalfOpen' /\ OldEnough' /\ Alone' /\ ProbeOwned'
      BY <1>1, <2>1, <2>2 DEF RowOpens, ProbeIsHalfOpen, OldEnough, Alone, ProbeOwned
    <2>4. Young'
      BY <1>1 DEF Young
    <2>5. OneProbe'
      BY <1>1, <2>2 DEF OneProbe
    <2> QED
      BY <2>3, <2>4, <2>5
  <1> QED
    BY <1>2, <1>3

(* A report, or an end without one, takes a call away and clears the probe,
   or leaves it to its owner. *)
LEMMA ReturnKeeps ==
  ASSUME CircuitInv, CircuitTypeOK', NEW k \in Calls, Reports(k) \/ EndSilently(k)
  PROVE  CircuitInv'
  <1> USE CircuitNumbers DEF CircuitInv, CircuitTypeOK
  <1>1. /\ ~call'[k].running /\ call[k].running
        /\ \A j \in Calls : j # k => call'[j] = call[j]
    BY DEF Reports, Succeed, Fail, EndSilently, Returns, NoCall
  <1>2. CASE Succeed(k)
    BY <1>1, <1>2
       DEF Succeed, RowOpens, ProbeIsHalfOpen, Young, OldEnough, Alone, ProbeOwned,
           OneProbe
  <1>3. CASE EndSilently(k)
    <2>1. UNCHANGED <<state, failures, cool, probe, late>>
      BY <1>3 DEF EndSilently, circuit
    <2>2. ProbeOwned'
      <3> SUFFICES ASSUME ~dropped', probe
                   PROVE  \E j \in Calls : call'[j].running /\ call'[j].probe
        BY <2>1 DEF ProbeOwned
      <3>1. ~dropped /\ ~call[k].probe
        BY <1>3 DEF EndSilently, Call
      <3>2. PICK j \in Calls : call[j].running /\ call[j].probe
        BY <3>1 DEF ProbeOwned
      <3> QED
        BY <1>1, <3>1, <3>2
    <2> QED
      BY <1>1, <2>1, <2>2
         DEF RowOpens, ProbeIsHalfOpen, Young, OldEnough, Alone, OneProbe
  <1>4. ASSUME NEW stale \in BOOLEAN, Fail(k, stale) PROVE CircuitInv'
    <2>1. ~probe' /\ dropped' = dropped /\ (late' <=> late \/ (stale /\ call[k].age > 0))
      BY <1>4 DEF Fail
    <2>2. RowOpens'
      BY <1>4 DEF Fail, Opens, Count, RowOpens
    <2>3. ~late' /\ state' = "open" => state = "open" \/ cool' = Open
      BY <1>4, <2>1 DEF Fail, Opens, Call
    <2>4. ~late' /\ state' = "open" => cool' = cool \/ cool' = Open
      BY <1>4, <2>1 DEF Fail, Opens, Call
    <2>5. OldEnough'
      <3> SUFFICES ASSUME ~late', state' = "open", NEW j \in Calls, call'[j].running
                   PROVE  call'[j].age + cool' >= Open
        BY DEF OldEnough
      <3>1. call'[j] = call[j] /\ call[j].running /\ call[j].age \in 0..Open
        BY <1>1 DEF Call
      <3>2. CASE cool' = Open
        BY <3>1, <3>2
      <3>3. CASE cool' # Open
        BY <2>1, <2>3, <2>4, <3>1, <3>3 DEF OldEnough
      <3> QED
        BY <3>2, <3>3
    <2>6. state' # "half_open"
      <3>1. state = "half_open" => state' = "open"
        BY <1>4 DEF Fail, Opens
      <3> QED
        BY <1>4, <3>1 DEF Fail, Opens
    <2> QED
      BY <1>1, <2>1, <2>2, <2>5, <2>6
         DEF ProbeIsHalfOpen, Young, Alone, ProbeOwned, OneProbe
  <1> QED
    BY <1>2, <1>3, <1>4 DEF Reports

(* A cooled circuit has no call left but those that came too late. *)
LEMMA PeekKeeps ==
  ASSUME CircuitInv, CircuitTypeOK', Peek
  PROVE  CircuitInv'
  <1> USE CircuitNumbers DEF CircuitInv, CircuitTypeOK
  <1>1. ~late => \A k \in Calls : ~call[k].running
    <2> SUFFICES ASSUME ~late, NEW k \in Calls, call[k].running
                 PROVE  FALSE
      OBVIOUS
    <2>1. call[k].age >= Open /\ call[k].age < Open /\ call[k].age \in 0..Open
      BY DEF Peek, Cooled, OldEnough, Young, Call
    <2> QED
      BY <2>1
  <1> QED
    BY <1>1 DEF Peek, Cooled, RowOpens, ProbeIsHalfOpen, Young, OldEnough, Alone,
                ProbeOwned, OneProbe

LEMMA RenewKeeps ==
  ASSUME CircuitInv, CircuitTypeOK', Renew
  PROVE  CircuitInv'
  BY CircuitNumbers DEF Renew, CircuitInv, CircuitTypeOK, RowOpens, ProbeIsHalfOpen, Young, OldEnough,
                 Alone, ProbeOwned, OneProbe

(* As the cooldown shrinks by a tick, the calls age by one. *)
LEMMA TickKeeps ==
  ASSUME CircuitInv, CircuitTypeOK', Tick
  PROVE  CircuitInv'
  <1> USE CircuitNumbers DEF CircuitInv, CircuitTypeOK
  <1>1. UNCHANGED <<state, failures, probe, dropped>>
    BY DEF Tick
  <1>2. \A k \in Calls : call'[k].running = call[k].running /\ call'[k].probe = call[k].probe
    BY DEF Tick, Older, Call
  <1>3. ~late' => ~late
    BY DEF Tick
  <1>4. ASSUME ~late', NEW k \in Calls, call[k].running
        PROVE  /\ call[k].age \in Nat /\ call[k].age + 1 < Open
               /\ call'[k].age = call[k].age + 1
    <2>1. call[k].age \in Nat /\ ~(call[k].age + 1 >= Open)
      BY <1>4 DEF Tick, Outlasts, Call
    <2> QED
      BY <1>4, <2>1 DEF Tick, Older, Call
  <1>5. Young'
    BY <1>2, <1>4 DEF Young
  <1>6. OldEnough'
    <2> SUFFICES ASSUME ~late', state = "open", NEW k \in Calls, call[k].running
                 PROVE  call'[k].age + cool' >= Open
      BY <1>1, <1>2 DEF OldEnough
    <2>1. call[k].age + cool >= Open
      BY <1>3 DEF OldEnough
    <2>2. cool' = (IF cool > 0 THEN cool - 1 ELSE 0) /\ cool \in Nat
      BY DEF Tick
    <2> QED
      BY <1>4, <2>1, <2>2
  <1>7. RowOpens' /\ ProbeIsHalfOpen' /\ Alone' /\ ProbeOwned' /\ OneProbe'
    BY <1>1, <1>2, <1>3 DEF RowOpens, ProbeIsHalfOpen, Alone, ProbeOwned, OneProbe
  <1> QED
    BY <1>5, <1>6, <1>7

(* The breaker's invariant holds whatever calls do, cancelled and late ones
   included. *)
THEOREM CircuitInvariantHolds == CircuitSpec => []CircuitInv
  <1>1. CircuitInit => CircuitInv
    <2> SUFFICES ASSUME CircuitInit
                 PROVE  CircuitInv
      OBVIOUS
    <2>1. CircuitTypeOK
      <3>1. failures \in 0..Threshold /\ cool \in 0..Open /\ state = "closed"
        BY CircuitNumbers DEF CircuitInit
      <3>2. probe \in BOOLEAN /\ late \in BOOLEAN /\ dropped \in BOOLEAN
        BY DEF CircuitInit
      <3>3. call \in [Calls -> Call]
        BY NoCallIsCall DEF CircuitInit
      <3> QED
        BY <3>1, <3>2, <3>3 DEF CircuitTypeOK
    <2>2. state = "closed" /\ ~probe /\ \A k \in Calls : ~call[k].running
      BY DEF CircuitInit, NoCall
    <2>3. RowOpens
      BY CircuitNumbers DEF CircuitInit, RowOpens
    <2> QED
      BY <2>1, <2>2, <2>3 DEF CircuitInv, ProbeIsHalfOpen, Young, OldEnough, Alone, ProbeOwned, OneProbe
  <1>2. CircuitInv /\ [CircuitNext]_circuitVars => CircuitInv'
    <2> SUFFICES ASSUME CircuitInv, [CircuitNext]_circuitVars
                 PROVE  CircuitInv'
      OBVIOUS
    <2>1. CircuitTypeOK'
      BY CircuitTypeStep DEF CircuitInv
    <2>2. CASE UNCHANGED circuitVars
      BY <2>2 DEF circuitVars, CircuitInv, CircuitTypeOK, RowOpens, ProbeIsHalfOpen, Young,
                  OldEnough, Alone, ProbeOwned, OneProbe
    <2>3. CASE CircuitNext
      BY <2>1, <2>3, AllowKeeps, ReturnKeeps, PeekKeeps, RenewKeeps, TickKeeps DEF CircuitNext
    <2> QED
      BY <2>2, <2>3
  <1> QED
    BY <1>1, <1>2, PTL DEF CircuitSpec

(* A probe that blocks the other calls is always held by a call that runs,
   unless one ended without a report. *)
THEOREM ProbeIsOwned == CircuitSpec => []ProbeOwned
  <1>1. CircuitInv => ProbeOwned
    BY DEF CircuitInv
  <1> QED
    BY <1>1, CircuitInvariantHolds, PTL

(* While no report is late, there is one probe at a time and nobody else's
   report decides a half-open circuit. *)
THEOREM ProbeIsAlone == CircuitSpec => []OneProbe
  <1>1. CircuitInv => OneProbe
    BY DEF CircuitInv
  <1> QED
    BY <1>1, CircuitInvariantHolds, PTL
=============================================================================
