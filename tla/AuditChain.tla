----------------------------- MODULE AuditChain -----------------------------
(***************************************************************************)
(* The hash-chained audit file (AuditChainLogger): threads of one process  *)
(* append under a lock, each reading the hash of the last record before it *)
(* writes its own.  A write may fail before anything reaches the file, may *)
(* leave part of a line behind (disk full), or may be cut short by a crash *)
(* of the process.                                                         *)
(*                                                                         *)
(* A hash is modelled as what it commits to: the sequence of all events it *)
(* was computed over, the ideal of SHA-256.  Signing with the HMAC secret  *)
(* adds nothing to that and is left out, as is the secret scan that may    *)
(* refuse an event before the lock is taken.                               *)
(*                                                                         *)
(* NoNewline, Swallowed and NoDeadLetter are wrong variants of the         *)
(* definition that follows them; no action uses them.                      *)
(***************************************************************************)
EXTENDS Naturals, Sequences

CONSTANTS Threads,
          Home,       \* [Threads -> process]; a process has one lock
          NoThread,
          Block,      \* the tail block _TAIL_BLOCK_SIZE, in lines
          MaxEvents,  \* bound: events appended in a behaviour
          MaxCrashes, \* bound: crashes in a behaviour
          Faults      \* of "read", "open", "disk", "dead", "crash"

ASSUME LogAssumption == /\ NoThread \notin Threads
                        /\ DOMAIN Home = Threads
                        /\ Block \in Nat /\ Block > 1
                        /\ MaxEvents \in Nat /\ MaxCrashes \in Nat

Processes == {Home[p] : p \in Threads}

VARIABLES file,    \* Seq(Line)
          torn,    \* BOOLEAN: the last line of the file has no newline
          hurt,    \* history: some write was torn
          lock,    \* [Processes -> Threads \cup {NoThread}]
          thread,  \* [Threads -> Append]: what each running append holds
          events,  \* events taken up so far, numbered in that order
          chained, \* the events whose append returned
          dead,    \* the events in the dead-letter file
          told,    \* the events of appends that raised AuditWriteDegradedError,
                   \* "event preserved in dead-letter"
          spilt,   \* those of them whose dead-letter write failed too
          refused, \* the events of appends that raised AuditChainIntegrityError
          cut,     \* the events of appends that a crash cut short
          crashes

ends == <<chained, dead, told, spilt, refused, cut>>
vars == <<file, torn, hurt, lock, thread, events, ends, crashes>>

Hash == Seq(Nat)
Genesis == <<>>
Line == [ok : BOOLEAN, prev : Hash, cur : Hash]
Junk == [ok |-> FALSE, prev |-> Genesis, cur |-> Genesis]
Append1(prev, e) == [ok |-> TRUE, prev |-> prev, cur |-> Append(prev, e)]

Idle == [pc |-> "idle", event |-> 0, prev |-> Genesis]
AppendState == [pc : {"idle", "wait", "read", "write", "dead"}, event : Nat, prev : Hash]

TypeOK == /\ file \in Seq(Line) /\ torn \in BOOLEAN /\ hurt \in BOOLEAN
          /\ lock \in [Processes -> Threads \cup {NoThread}]
          /\ thread \in [Threads -> AppendState]
          /\ events \in Nat /\ crashes \in Nat
          /\ \A ended \in {chained, dead, told, spilt, refused, cut} : ended \in SUBSET Nat

Init == /\ file = <<>> /\ torn = FALSE /\ hurt = FALSE
        /\ lock = [x \in Processes |-> NoThread]
        /\ thread = [p \in Threads |-> Idle]
        /\ events = 0 /\ crashes = 0
        /\ chained = {} /\ dead = {} /\ told = {} /\ spilt = {} /\ refused = {} /\ cut = {}

-----------------------------------------------------------------------------
Holds(p) == lock[Home[p]] = p
Release(p) == lock' = [lock EXCEPT ![Home[p]] = NoThread]
Ends(p) == thread' = [thread EXCEPT ![p] = Idle]

Begin(p) == /\ thread[p].pc = "idle" /\ events < MaxEvents
            /\ events' = events + 1
            /\ thread' = [thread EXCEPT ![p] =
                            [pc |-> "wait", event |-> events + 1, prev |-> Genesis]]
            /\ UNCHANGED <<file, torn, hurt, lock, ends, crashes>>

Acquire(p) == /\ thread[p].pc = "wait" /\ lock[Home[p]] = NoThread
              /\ lock' = [lock EXCEPT ![Home[p]] = p]
              /\ thread' = [thread EXCEPT ![p].pc = "read"]
              /\ UNCHANGED <<file, torn, hurt, events, ends, crashes>>

(* _read_last_current_hash: a line without a newline is dropped, but only
   when the file is longer than the tail block. *)
Kept == IF torn /\ Len(file) > Block THEN SubSeq(file, 1, Len(file) - 1) ELSE file
Readable(s) == s # <<>> => s[Len(s)].ok
HashOf(s) == IF s = <<>> THEN Genesis ELSE s[Len(s)].cur

ReadLast(p) == /\ thread[p].pc = "read" /\ Readable(Kept)
               /\ thread' = [thread EXCEPT ![p].pc = "write", ![p].prev = HashOf(Kept)]
               /\ UNCHANGED <<file, torn, hurt, lock, events, ends, crashes>>

(* AuditChainIntegrityError: the line does not parse, or cannot be read. *)
ReadFails(p) == /\ thread[p].pc = "read" /\ (~Readable(Kept) \/ "read" \in Faults)
                /\ refused' = refused \cup {thread[p].event}
                /\ Ends(p) /\ Release(p)
                /\ UNCHANGED <<file, torn, hurt, events, chained, dead, told, spilt, cut, crashes>>

(* The file after more text is appended to it: a new line, or the rest of a
   line that was never finished. *)
Extended(l) == IF torn THEN Append(SubSeq(file, 1, Len(file) - 1), Junk)
               ELSE Append(file, l)

Record(p) == Append1(thread[p].prev, thread[p].event)

NoNewline(p) == /\ thread[p].pc = "write"
                /\ file' = Extended(Record(p)) /\ torn' = TRUE
                /\ chained' = chained \cup {thread[p].event}
                /\ Ends(p) /\ Release(p)
                /\ UNCHANGED <<hurt, events, dead, told, spilt, refused, cut, crashes>>
Write(p) == /\ thread[p].pc = "write"
            /\ file' = Extended(Record(p)) /\ torn' = FALSE
            /\ chained' = chained \cup {thread[p].event}
            /\ Ends(p) /\ Release(p)
            /\ UNCHANGED <<hurt, events, dead, told, spilt, refused, cut, crashes>>

(* What part of a write may leave: a piece of the record, or all but its
   newline. *)
Tears(p) == /\ torn' = TRUE /\ hurt' = TRUE
            /\ \E l \in {Junk, Record(p)} : file' = Extended(l)

Swallowed(p) == /\ thread[p].pc = "write" /\ "open" \in Faults
                /\ chained' = chained \cup {thread[p].event}
                /\ Ends(p) /\ Release(p)
                /\ UNCHANGED <<file, torn, hurt, events, dead, told, spilt, refused, cut, crashes>>
(* OSError: the lock is released, and append_async writes the dead letter. *)
WriteFails(p) == /\ thread[p].pc = "write"
                 /\ \/ "open" \in Faults /\ UNCHANGED <<file, torn, hurt>>
                    \/ "disk" \in Faults /\ Tears(p)
                 /\ thread' = [thread EXCEPT ![p].pc = "dead"] /\ Release(p)
                 /\ UNCHANGED <<events, ends, crashes>>

NoDeadLetter(p) == /\ thread[p].pc = "dead" /\ Ends(p)
                   /\ told' = told \cup {thread[p].event}
                   /\ UNCHANGED <<file, torn, hurt, lock, events, chained, dead, spilt, refused,
                                  cut, crashes>>
(* The caller is told that the event is preserved in the dead-letter file, also
   when that write failed as well and the log alone has a word of it. *)
DeadLetter(p) == /\ thread[p].pc = "dead"
                 /\ told' = told \cup {thread[p].event}
                 /\ \/ dead' = dead \cup {thread[p].event} /\ UNCHANGED spilt
                    \/ /\ "dead" \in Faults
                       /\ spilt' = spilt \cup {thread[p].event} /\ UNCHANGED dead
                 /\ Ends(p)
                 /\ UNCHANGED <<file, torn, hurt, lock, events, chained, refused, cut, crashes>>

(* A process dies, perhaps in the middle of a write, and is started again. *)
Crash(x) == /\ "crash" \in Faults /\ crashes < MaxCrashes
            /\ crashes' = crashes + 1
            /\ \/ UNCHANGED <<file, torn, hurt>>
               \/ \E p \in Threads : Home[p] = x /\ thread[p].pc = "write" /\ Tears(p)
            /\ thread' = [p \in Threads |-> IF Home[p] = x THEN Idle ELSE thread[p]]
            /\ lock' = [lock EXCEPT ![x] = NoThread]
            /\ cut' = cut \cup {thread[p].event : p \in
                          {q \in Threads : Home[q] = x /\ thread[q].pc # "idle"}}
            /\ UNCHANGED <<events, chained, dead, told, spilt, refused>>

Step(p) == \/ Begin(p) \/ Acquire(p) \/ ReadLast(p) \/ ReadFails(p) \/ Write(p)
           \/ WriteFails(p) \/ DeadLetter(p)
Next == (\E p \in Threads : Step(p)) \/ (\E x \in Processes : Crash(x))

Spec == Init /\ [][Next]_vars

-----------------------------------------------------------------------------
(* What verify_chain asks of a line, and a file it has nothing to report of. *)
Linked(i) == file[i].ok /\ file[i].prev = (IF i = 1 THEN Genesis ELSE file[i - 1].cur)
Verifies == \A i \in 1..Len(file) : Linked(i)

(* The hash of the last record commits to every event whose append returned:
   dropping or altering any of them would show. *)
Commits(h) == {h[j] : j \in 1..Len(h)}
Covered == chained \subseteq Commits(HashOf(file))

(* What an append reported as written can be read back. *)
InFile(e) == \E i \in 1..Len(file) :
  file[i].ok /\ file[i].cur # Genesis /\ file[i].cur[Len(file[i].cur)] = e
ChainedIsReadable == \A e \in chained : InFile(e)

(* However writes were torn: if verification finds nothing, no record that was
   reported as written is missing. *)
LossIsReported == Verifies => ChainedIsReadable

(* What the caller was told of an event, the files bear out.  An append that
   returned left a record that can be read from the chain, if verification finds
   nothing; one that said the event is preserved left it in the dead-letter file,
   except where that write failed too, which the caller is not told (spilt).  Only a
   crash or an integrity error ends an append otherwise. *)
Running == {thread[p].event : p \in {q \in Threads : thread[q].pc # "idle"}}
NothingLost == \A e \in 1..events :
  \/ e \in Running \cup cut \cup refused
  \/ e \in chained /\ (Verifies => InFile(e))
  \/ e \in told /\ e \in dead \cup spilt

(* While no write was torn, and the threads share one lock as the class asks,
   verification finds nothing, and what was reported as written is committed
   to by the last hash and can be read back. *)
Whole == \A p, q \in Threads : Home[p] = Home[q]
ChainIntact == Whole /\ ~hurt => Verifies /\ Covered /\ ChainedIsReadable

(* The inductive invariant: whoever is past the lock holds it, and the hash a
   writer read is still that of the last line. *)
UnderLock == \A p \in Threads : thread[p].pc \in {"read", "write"} => Holds(p)
PrevIsLast == \A p \in Threads : thread[p].pc = "write" => thread[p].prev = HashOf(file)
Intact == ~torn /\ PrevIsLast /\ Verifies /\ Covered /\ ChainedIsReadable
IInv == TypeOK /\ UnderLock /\ (Whole /\ ~hurt => Intact)
=============================================================================
