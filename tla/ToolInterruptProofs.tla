------------------------ MODULE ToolInterruptProofs ------------------------
(***************************************************************************)
(* Proofs about ToolInterrupt, for any number of questions, revisions and  *)
(* faults: its invariant is inductive, and the safety properties follow.   *)
(* Kept, Counted, Alone and Gone say once what every step of a handler has *)
(* in common; each action is then a lemma.                                 *)
(***************************************************************************)
EXTENDS ToolInterrupt, TLAPS

LEMMA Sets == /\ Asks \subseteq Runs /\ 0 \in Runs /\ Asks \subseteq Nat
              /\ 0 \notin Asks /\ Runs \subseteq Nat
              /\ MaxRevisions \in Nat /\ MaxAsks \in Nat /\ MaxFaults \in Nat
  BY InterruptAssumption DEF Asks, Runs

LEMMA Idle == NoRun \in Run /\ Request \in Run
  <1>1. NoRun \in Run
    BY DEF NoRun, Run, Actions
  <1> QED
    BY <1>1 DEF Request, NoRun, Run, Actions

(* r is the only handler that a step touches. *)
Only(r) == /\ run' \in [Runs -> Run]
           /\ \A j \in Runs : j # r => run'[j] = run[j]

-----------------------------------------------------------------------------
(* The types of the successor state. *)

LEMMA HandleTypes ==
  ASSUME TypeOK, NEW r \in Runs, Handle(r)
  PROVE  TypeOK'
  <1> USE Sets DEF TypeOK
  <1>1. run[r] \in Run /\ run[r].ask \in Nat /\ run[r].revisions \in Nat
    BY DEF Run
  <1>2. CASE Ask(r)
    <2>1. asks' \in 0..MaxAsks /\ asks + 1 \in Asks
      BY <1>2 DEF Ask, Asks
    <2>2. turn' \in Turn
      BY <1>1, <1>2, <2>1 DEF Ask, Turn
    <2>3. run' \in [Runs -> Run]
      BY <1>1, <1>2, <2>1 DEF Ask, Run
    <2>4. ignored' \subseteq Nat
      BY <1>2, <2>1 DEF Ask
    <2> QED
      BY <1>2, <2>1, <2>2, <2>3, <2>4 DEF Ask, cards
  <1>3. CASE NoQuestion(r) \/ Read(r) \/ Record(r)
    <2>1. run' \in [Runs -> Run]
      BY <1>3 DEF NoQuestion, Read, Record, Goto, Run
    <2> QED
      BY <1>3, <2>1 DEF NoQuestion, Read, Record, cards, history
  <1>4. CASE Work(r)
    <2>1. run' \in [Runs -> Run]
      BY <1>4 DEF Work, Goto, Run
    <2>2. calls' \in [Asks -> Nat]
      BY <1>4 DEF Work
    <2>3. unasked' \in BOOLEAN
      BY <1>4 DEF Work
    <2> QED
      BY <1>4, <2>1, <2>2, <2>3 DEF Work, cards
  <1>5. CASE Commit(r)
    <2>1. run' \in [Runs -> Run]
      BY <1>5 DEF Commit, Goto, Run
    <2>2. turn' \in Turn
      BY <1>1, <1>5 DEF Commit, Turn
    <2> QED
      BY <1>5, <2>1, <2>2 DEF Commit, cards, history
  <1>6. CASE Pass(r)
    <2>1. run' \in [Runs -> Run]
      BY <1>6 DEF Pass, Goto, Run
    <2>2. turn' \in Turn
      BY <1>6 DEF Pass, Turn
    <2> QED
      BY <1>6, <2>1, <2>2 DEF Pass, cards, history
  <1>7. CASE Revise(r)
    <2>1. run' \in [Runs -> Run]
      BY <1>1, <1>7 DEF Revise, Run
    <2> QED
      BY <1>7, <2>1 DEF Revise, cards, history
  <1>8. CASE Load(r)
    <2>1. turn.ask \in Nat /\ turn.revisions \in Nat
      BY DEF Turn
    <2>2. run' \in [Runs -> Run]
      BY <1>8, <2>1 DEF Load, Goto, Run
    <2> QED
      BY <1>8, <2>2 DEF Load, cards, history
  <1>9. CASE Mint(r)
    <2>1. run' \in [Runs -> Run]
      BY <1>9 DEF Mint, Goto, Run
    <2>2. status' \in [Asks -> L!Status] /\ verdict' = verdict
      BY <1>9 DEF Mint, L!Mint, L!Move, L!Status
    <2> QED
      BY <1>9, <2>1, <2>2 DEF Mint, history
  <1>10. CASE Refuse(r)
    <2>1. run' \in [Runs -> Run]
      BY <1>10 DEF Refuse, Goto, Run
    <2>2. ignored' \subseteq Nat
      BY <1>1, <1>10 DEF Refuse
    <2> QED
      BY <1>10, <2>1, <2>2 DEF Refuse, cards
  <1> QED
    BY <1>2, <1>3, <1>4, <1>5, <1>6, <1>7, <1>8, <1>9, <1>10 DEF Handle

LEMMA FaultTypes ==
  ASSUME TypeOK, NEW r \in Runs, Fail(r) \/ Crash(r)
  PROVE  TypeOK'
  <1> USE Sets DEF TypeOK
  <1>1. run' \in [Runs -> Run]
    BY DEF Fail, Failing, Crash, Goto, Run, Actions
  <1>2. faults' \in Nat
    BY DEF Fail, Failing, Crash
  <1>3. exposed' \in BOOLEAN
    BY Zenon DEF Fail, Failing, Crash
  <1>4. ignored' \subseteq Nat
    <2>1. turn.ask \in Nat /\ run[r].ask \in Nat
      BY DEF Turn, Run
    <2>2. Drops(r) \subseteq Nat
      BY <2>1 DEF Drops
    <2> QED
      BY <2>2 DEF Fail, Failing, Crash
  <1> QED
    BY <1>1, <1>2, <1>3, <1>4 DEF Fail, Failing, Crash, cards

LEMMA CardTypes ==
  ASSUME TypeOK, NEW k \in Asks, Click(k) \/ Escalate(k) \/ Expire(k)
  PROVE  TypeOK'
  <1> USE Sets DEF TypeOK
  <1>1. ASSUME NEW by \in {"click", "system"}, NEW a \in Actions, Starts(k, by, a)
        PROVE  run' \in [Runs -> Run]
    <2>1. [NoRun EXCEPT !.pc = "read", !.by = by, !.says = a] \in Run
      BY DEF NoRun, Run, Actions
    <2> QED
      BY <1>1, <2>1 DEF Starts
  <1>2. status' \in [Asks -> L!Status] /\ verdict' \in [Asks -> L!Verdicts]
    BY DEF Click, Escalate, Expire, L!Close, L!Escalate, L!AutoReject, L!DeadLetter,
           L!Move, L!Status, L!Verdicts
  <1>3. run' \in [Runs -> Run]
    BY <1>1 DEF Click, Escalate, Expire, Actions
  <1> QED
    BY <1>2, <1>3 DEF Click, Escalate, Expire, history

LEMMA TypeStep == TypeOK /\ [Next]_vars => TypeOK'
  <1>1. ASSUME TypeOK, UNCHANGED vars PROVE TypeOK'
    BY <1>1 DEF TypeOK, vars, cards, history
  <1> QED
    BY <1>1, HandleTypes, FaultTypes, CardTypes DEF Next

-----------------------------------------------------------------------------
(* What the steps of a handler have in common. *)

LEMMA Kept ==
  ASSUME IInv, TypeOK', NEW r \in Runs, Only(r), run[r].pc # "idle",
         status' = status, asks' >= asks, Paused' => turn'.ask \in 1..asks',
         turn'.revisions <= MaxRevisions,
         run'[r].ask <= asks', run'[r].revisions <= MaxRevisions
  PROVE  Numbering'
  <1> USE Sets DEF IInv, TypeOK
  <1>1. \A k \in Asks : /\ run'[k].pc # "idle" => Closed(k)'
                        /\ k > asks' => status'[k] = "none"
    <2> SUFFICES ASSUME NEW k \in Asks
                 PROVE  /\ run'[k].pc # "idle" => Closed(k)'
                        /\ k > asks' => status'[k] = "none"
      OBVIOUS
    <2>1. run'[k].pc # "idle" => Closed(k)'
      BY DEF Numbering, Closed, Only, L!Terminal
    <2>2. k \in Nat /\ asks \in Nat /\ asks' \in Nat
      OBVIOUS
    <2> QED
      BY <2>1, <2>2 DEF Numbering
  <1>2. \A j \in Runs : run'[j].ask <= asks' /\ run'[j].revisions <= MaxRevisions
    <2> SUFFICES ASSUME NEW j \in Runs, j # r
                 PROVE  run'[j].ask <= asks' /\ run'[j].revisions <= MaxRevisions
      OBVIOUS
    <2>1. run'[j] = run[j] /\ run[j].ask \in Nat /\ run[j].ask <= asks /\ run[j].revisions <= MaxRevisions
      BY DEF Only, Numbering, Run
    <2> QED
      BY <2>1
  <1> QED
    BY <1>1, <1>2 DEF Numbering

LEMMA Counted ==
  ASSUME IInv, TypeOK', NEW r \in Runs, Only(r), verdict' = verdict, calls' = calls,
         \/ run'[r].says = "reject" /\ run'[r].by = "system"
         \/ /\ run'[r].says = run[r].says /\ run'[r].by = run[r].by
            /\ run'[r].pc \in {"read", "load", "worker"} =>
                  run[r].pc \in {"read", "load", "worker"}
  PROVE  Approvals'
  BY Sets DEF IInv, TypeOK, Approvals, Only

Covers(r, k) == \/ run[r].pc \in {"read", "load"}
                \/ run[r].ask = k /\ run[r].pc \in {"worker", "commit", "mint"}

LEMMA Covered ==
  ASSUME IInv, TypeOK', NEW r \in Runs, Only(r), turn' = turn, status' = status,
         ignored \subseteq ignored',
         Paused /\ Covers(r, turn.ask) => Covers(r, turn.ask)' \/ turn.ask \in ignored'
  PROVE  Attended'
  <1> SUFFICES ASSUME Paused, ~Open(turn.ask), turn.ask \notin ignored'
               PROVE  \E j \in Runs : Covers(j, turn.ask)'
    BY DEF Attended, Paused, Open, OnItsWay, Covers
  <1>1. PICK j \in Runs : Covers(j, turn.ask)
    BY DEF IInv, Attended, OnItsWay, Covers
  <1>2. CASE j = r
    BY <1>1, <1>2
  <1>3. CASE j # r
    BY <1>1, <1>3 DEF Only, Covers
  <1> QED
    BY <1>2, <1>3

LEMMA Alone ==
  ASSUME IInv, TypeOK', NEW r \in Runs, Only(r), Calm, Acting(r),
         UNCHANGED cards, Paused' => asks' <= turn'.revisions + 1,
         Stage(r)', ~unasked', asks' <= 1 + MaxRevisions
  PROVE  Calm'
  <1> USE Sets DEF IInv, TypeOK
  <1>1. \A j \in Runs : j # r => ~Acting(j)
    BY DEF Calm
  <1>2. \A j \in Runs : j # r => ~Acting(j)'
    BY <1>1 DEF Acting, Minted, At, Only, cards
  <1>3. \A k \in Asks : ~Open(k)'
    BY DEF Calm, Open, cards
  <1>4. \A j \in Runs : Stage(j)'
    <2> SUFFICES ASSUME NEW j \in Runs, j # r
                 PROVE  Stage(j)'
      OBVIOUS
    <2>1. run'[j].pc \in {"idle", "done", "record"}
      BY <1>2 DEF Acting, Minted, At
    <2> QED
      BY <2>1 DEF Stage
  <1> QED
    BY <1>2, <1>3, <1>4 DEF Calm

LEMMA Gone ==
  ASSUME IInv, TypeOK', NEW r \in Runs, Only(r), Calm, run'[r].pc = "done",
         UNCHANGED <<turn, asks, cards, unasked>>
  PROVE  Calm'
  <1> USE Sets DEF IInv, TypeOK
  <1>1. \A j \in Runs : Acting(j)' => Acting(j) /\ j # r
    BY DEF Acting, Minted, At, Only, cards
  <1>2. \A k \in Asks : Open(k)' <=> Open(k)
    BY DEF Open, cards
  <1>3. \A j \in Runs : Stage(j)'
    <2> SUFFICES ASSUME NEW j \in Runs, j # r
                 PROVE  Stage(j)'
      BY DEF Stage
    <2> QED
      BY DEF Calm, Stage, Only, Holds, Waits, Paused, cards
  <1> QED
    BY <1>1, <1>2, <1>3 DEF Calm, Waits, Paused

-----------------------------------------------------------------------------
(* The steps of the graph. *)

(* A new question has no card yet, and is the last one. *)
LEMMA AskKeeps ==
  ASSUME IInv, TypeOK', NEW r \in Runs, Ask(r)
  PROVE  IInv'
  <1> USE Sets DEF IInv, TypeOK
  <1>1. /\ Only(r) /\ asks' = asks + 1 /\ asks \in Nat /\ asks + 1 \in Asks
        /\ run[r].pc = "ask" /\ run[r].revisions \in Nat
        /\ run'[r].ask = asks + 1 /\ run'[r].revisions = run[r].revisions
        /\ run'[r].says = run[r].says /\ run'[r].by = run[r].by
        /\ run'[r].pc = (IF run[r].by = "system" THEN "record" ELSE "mint")
    BY DEF Ask, At, Only, Run, Asks
  <1>2. /\ turn' = [at |-> "paused", ask |-> asks + 1, revisions |-> run[r].revisions]
        /\ UNCHANGED <<cards, calls, unasked, exposed>>
    BY DEF Ask
  <1>3. Numbering'
    BY <1>1, <1>2, Kept DEF Numbering, cards
  <1>4. Approvals'
    BY <1>1, <1>2, Counted DEF cards
  <1>5. Attended'
    <2>1. run[r].by = "system" => asks + 1 \in ignored'
      BY DEF Ask
    <2> QED
      BY <1>1, <1>2, <2>1 DEF Attended, OnItsWay
  <1>6. ~exposed => Calm'
    <2> SUFFICES ASSUME ~exposed
                 PROVE  Calm'
      OBVIOUS
    <2>1. Acting(r) /\ Calm /\ asks <= run[r].revisions /\ run[r].revisions <= MaxRevisions
      BY <1>1 DEF Acting, Minted, At, Calm, Stage, Numbering
    <2>2. status'[asks + 1] = "none"
      BY <1>1, <1>2 DEF Numbering, cards
    <2>3. Stage(r)'
      BY <1>1, <1>2, <2>2 DEF Stage, Holds, Paused
    <2> QED
      BY <1>1, <1>2, <2>1, <2>3, Alone DEF Calm
  <1> QED
    BY <1>2, <1>3, <1>4, <1>5, <1>6

LEMMA NoQuestionKeeps ==
  ASSUME IInv, TypeOK', NEW r \in Runs, NoQuestion(r)
  PROVE  IInv'
  <1> USE Sets DEF IInv, TypeOK
  <1>1. /\ Only(r) /\ run[r].pc = "ask" /\ run' = [run EXCEPT ![r].pc = "critic"]
        /\ run'[r] = [run[r] EXCEPT !.pc = "critic"]
        /\ UNCHANGED <<turn, asks, cards, history>>
    BY DEF NoQuestion, Goto, At, Only
  <1>2. /\ run'[r].ask = run[r].ask /\ run'[r].revisions = run[r].revisions
        /\ run'[r].says = run[r].says /\ run'[r].by = run[r].by /\ run'[r].pc = "critic"
        /\ run[r].revisions \in Nat /\ asks \in Nat
    BY <1>1 DEF Run
  <1>3. Numbering'
    BY <1>1, <1>2, Kept DEF Numbering, cards, Paused
  <1>4. Approvals'
    BY <1>1, <1>2, Counted DEF cards, history
  <1>5. Attended'
    BY <1>1, Covered DEF Covers, cards, history
  <1>6. ~exposed => Calm'
    <2> SUFFICES ASSUME ~exposed
                 PROVE  Calm'
      OBVIOUS
    <2>1. Acting(r) /\ Calm
      BY <1>1 DEF Acting, Minted, At
    <2>2. Stage(r)'
      BY <1>1, <1>2, <2>1 DEF Stage, Calm
    <2> QED
      BY <1>1, <2>1, <2>2, Alone DEF Calm, Paused, history
  <1> QED
    BY <1>1, <1>3, <1>4, <1>5, <1>6 DEF history

(* A click that reaches the worker holds the question of its own card, and its
   call is the first. *)
LEMMA WorkKeeps ==
  ASSUME IInv, TypeOK', NEW r \in Runs, Work(r)
  PROVE  IInv'
  <1> USE Sets DEF IInv, TypeOK
  <1>1. /\ Only(r) /\ run[r].pc = "worker"
        /\ UNCHANGED <<turn, asks, cards, ignored, exposed>>
    BY DEF Work, Goto, At, Only
  <1>2. /\ run'[r].ask = run[r].ask /\ run'[r].revisions = run[r].revisions
        /\ run'[r].says = run[r].says /\ run'[r].by = run[r].by /\ run'[r].pc = "commit"
    BY DEF Work, Goto, Run
  <1>3. Numbering'
    BY <1>1, <1>2, Kept DEF Numbering, cards, Paused
  <1>4. Approvals'
    <2>1. CASE run[r].says = "approve" /\ calls' = [calls EXCEPT ![r] = @ + 1]
      <3>1. r \in Asks /\ r # 0
        BY <2>1 DEF Approvals, Runs, Asks
      <3>2. calls[r] = 0 /\ verdict[r] = "approve"
        BY <1>1, <2>1, <3>1 DEF Approvals
      <3>3. calls'[r] = 1 /\ \A k \in Asks : k # r => calls'[k] = calls[k]
        BY <2>1, <3>1, <3>2
      <3>4. \A k \in Asks : calls'[k] > 0 => verdict'[k] = "approve" /\ calls'[k] = 1
        BY <1>1, <3>2, <3>3 DEF Approvals, cards
      <3> QED
        BY <1>1, <1>2, <3>1, <3>2, <3>3, <3>4 DEF Approvals, Only, cards
    <2>2. CASE calls' = calls
      BY <1>1, <1>2, <2>2, Counted DEF cards
    <2> QED
      BY <2>1, <2>2 DEF Work
  <1>5. Attended'
    BY <1>1, <1>2, Covered DEF Covers, cards
  <1>6. ~exposed => Calm'
    <2> SUFFICES ASSUME ~exposed
                 PROVE  Calm'
      OBVIOUS
    <2>1. Acting(r) /\ Calm /\ Stage(r)
      BY <1>1 DEF Acting, Minted, At, Calm
    <2>2. Holds(r)'
      BY <1>1, <1>2, <2>1 DEF Stage, Holds, Paused
    <2>3. Stage(r)'
      BY <1>2, <2>2 DEF Stage
    <2>4. run[r].says = "approve" => run[r].ask = r
      <3> SUFFICES ASSUME run[r].says = "approve"
                   PROVE  run[r].ask = r
        OBVIOUS
      <3>1. r \in Asks /\ run[r].by = "click"
        BY DEF Approvals, Runs, Asks
      <3> QED
        BY <1>1, <2>1, <3>1 DEF Stage, Holds, Waits
    <2>5. ~unasked'
      BY <2>1, <2>4 DEF Work, Calm
    <2> QED
      BY <1>1, <2>1, <2>3, <2>5, Alone DEF Calm, Paused
  <1> QED
    BY <1>1, <1>3, <1>4, <1>5, <1>6

LEMMA CommitKeeps ==
  ASSUME IInv, TypeOK', NEW r \in Runs, Commit(r)
  PROVE  IInv'
  <1> USE Sets DEF IInv, TypeOK
  <1>1. /\ Only(r) /\ run[r].pc = "commit"
        /\ turn' = [at |-> "running", ask |-> 0, revisions |-> run[r].revisions]
        /\ UNCHANGED <<asks, cards, history>>
    BY DEF Commit, Goto, At, Only
  <1>2. /\ run'[r].ask = run[r].ask /\ run'[r].revisions = run[r].revisions
        /\ run'[r].says = run[r].says /\ run'[r].by = run[r].by /\ run'[r].pc = "critic"
    BY DEF Commit, Goto, Run
  <1>3. Numbering'
    BY <1>1, <1>2, Kept DEF Numbering, cards, Paused
  <1>4. Approvals'
    BY <1>1, <1>2, Counted DEF cards, history
  <1>5. Attended'
    BY <1>1 DEF Attended, Paused
  <1>6. ~exposed => Calm'
    <2> SUFFICES ASSUME ~exposed
                 PROVE  Calm'
      OBVIOUS
    <2>1. Acting(r) /\ Calm /\ Holds(r)
      BY <1>1 DEF Acting, Minted, At, Calm, Stage
    <2>2. asks <= run[r].revisions + 1
      BY <2>1 DEF Calm, Holds
    <2>3. Stage(r)'
      BY <1>1, <1>2, <2>2 DEF Stage
    <2> QED
      BY <1>1, <2>1, <2>3, Alone DEF Calm, Paused, history
  <1> QED
    BY <1>1, <1>3, <1>4, <1>5, <1>6 DEF history

LEMMA PassKeeps ==
  ASSUME IInv, TypeOK', NEW r \in Runs, Pass(r)
  PROVE  IInv'
  <1> USE Sets DEF IInv, TypeOK
  <1>1. /\ Only(r) /\ run[r].pc = "critic" /\ turn' = [turn EXCEPT !.at = "ended"]
        /\ UNCHANGED <<asks, cards, history>>
    BY DEF Pass, Goto, At, Only
  <1>2. /\ run'[r].ask = run[r].ask /\ run'[r].revisions = run[r].revisions
        /\ run'[r].says = run[r].says /\ run'[r].by = run[r].by /\ run'[r].pc = "record"
    BY DEF Pass, Goto, Run
  <1>3. turn'.at = "ended" /\ turn'.revisions = turn.revisions
    BY <1>1 DEF Turn
  <1>4. Numbering'
    BY <1>1, <1>2, <1>3, Kept DEF Numbering, cards, Paused
  <1>5. Approvals'
    BY <1>1, <1>2, Counted DEF cards, history
  <1>6. Attended'
    BY <1>3 DEF Attended, Paused
  <1>7. ~exposed => Calm'
    <2> SUFFICES ASSUME ~exposed
                 PROVE  Calm'
      OBVIOUS
    <2>1. Acting(r) /\ Calm
      BY <1>1 DEF Acting, Minted, At
    <2>2. Stage(r)'
      BY <1>2 DEF Stage
    <2> QED
      BY <1>1, <1>3, <2>1, <2>2, Alone DEF Calm, Paused, history
  <1> QED
    BY <1>1, <1>4, <1>5, <1>6, <1>7 DEF history

LEMMA ReviseKeeps ==
  ASSUME IInv, TypeOK', NEW r \in Runs, Revise(r)
  PROVE  IInv'
  <1> USE Sets DEF IInv, TypeOK
  <1>1. /\ Only(r) /\ run[r].pc = "critic" /\ run[r].revisions < MaxRevisions
        /\ UNCHANGED <<turn, asks, cards, history>>
    BY DEF Revise, At, Only
  <1>2. /\ run'[r].ask = run[r].ask /\ run'[r].revisions = run[r].revisions + 1
        /\ run'[r].says = run[r].says /\ run'[r].by = run[r].by /\ run'[r].pc = "ask"
        /\ run[r].revisions \in Nat /\ asks \in Nat
    BY DEF Revise, Run
  <1>3. Numbering'
    BY <1>1, <1>2, Kept DEF Numbering, cards, Paused
  <1>4. Approvals'
    BY <1>1, <1>2, Counted DEF cards, history
  <1>5. Attended'
    BY <1>1, Covered DEF Covers, cards, history
  <1>6. ~exposed => Calm'
    <2> SUFFICES ASSUME ~exposed
                 PROVE  Calm'
      OBVIOUS
    <2>1. Acting(r) /\ Calm
      BY <1>1 DEF Acting, Minted, At
    <2>2. Stage(r)'
      BY <1>1, <1>2, <2>1 DEF Stage, Calm
    <2> QED
      BY <1>1, <2>1, <2>2, Alone DEF Calm, Paused, history
  <1> QED
    BY <1>1, <1>3, <1>4, <1>5, <1>6 DEF history

-----------------------------------------------------------------------------
(* The steps of the handlers. *)

LEMMA ReadKeeps ==
  ASSUME IInv, TypeOK', NEW r \in Runs, Read(r)
  PROVE  IInv'
  <1> USE Sets DEF IInv, TypeOK
  <1>1. /\ Only(r) /\ run[r].pc = "read" /\ UNCHANGED <<turn, asks, cards, history>>
    BY DEF Read, Goto, At, Only
  <1>2. /\ run'[r].ask = run[r].ask /\ run'[r].revisions = run[r].revisions
        /\ run'[r].says = run[r].says /\ run'[r].by = run[r].by
        /\ run'[r].pc = (IF Paused THEN "load" ELSE "done")
    BY DEF Read, Goto, Run, AwaitsResume
  <1>3. Numbering'
    BY <1>1, <1>2, Kept DEF Numbering, cards, Paused
  <1>4. Approvals'
    BY <1>1, <1>2, Counted DEF cards, history
  <1>5. Attended'
    BY <1>1, <1>2, Covered DEF Covers, cards, history
  <1>6. ~exposed => Calm'
    <2> SUFFICES ASSUME ~exposed
                 PROVE  Calm'
      OBVIOUS
    <2>1. Acting(r) /\ Calm
      BY <1>1 DEF Acting, Minted, At
    <2>2. Stage(r)'
      BY <1>1, <1>2, <2>1 DEF Stage, Calm, Waits, Paused
    <2> QED
      BY <1>1, <2>1, <2>2, Alone DEF Calm, Paused, history
  <1> QED
    BY <1>1, <1>3, <1>4, <1>5, <1>6 DEF history

LEMMA LoadKeeps ==
  ASSUME IInv, TypeOK', NEW r \in Runs, Load(r)
  PROVE  IInv'
  <1> USE Sets DEF IInv, TypeOK
  <1>1. /\ Only(r) /\ run[r].pc = "load" /\ UNCHANGED <<turn, asks, cards, history>>
        /\ run'[r].says = run[r].says /\ run'[r].by = run[r].by
    BY DEF Load, Goto, At, Only, Run
  <1>2. CASE Paused
    <2>1. /\ run'[r].pc = "worker" /\ run'[r].ask = turn.ask
          /\ run'[r].revisions = turn.revisions
      BY <1>2 DEF Load, Run, AwaitsResume
    <2>2. turn.ask \in 1..asks /\ turn.revisions <= MaxRevisions
      BY <1>2 DEF Numbering
    <2>3. Numbering'
      BY <1>1, <2>1, <2>2, Kept DEF cards
    <2>4. Approvals'
      BY <1>1, <2>1, Counted DEF cards, history
    <2>5. Attended'
      BY <1>1, <2>1, Covered DEF Covers, cards, history
    <2>6. ~exposed => Calm'
      <3> SUFFICES ASSUME ~exposed
                   PROVE  Calm'
        OBVIOUS
      <3>1. Acting(r) /\ Calm
        BY <1>1 DEF Acting, Minted, At
      <3>2. Stage(r)'
        BY <1>1, <1>2, <2>1, <3>1 DEF Stage, Calm, Waits, Holds, Paused
      <3> QED
        BY <1>1, <3>1, <3>2, Alone DEF Calm, Paused, history
    <2> QED
      BY <1>1, <2>3, <2>4, <2>5, <2>6 DEF history
  <1>3. CASE ~Paused
    <2>1. /\ run'[r].pc = "record" /\ run'[r].ask = run[r].ask
          /\ run'[r].revisions = run[r].revisions
      BY <1>3 DEF Load, Goto, Run, AwaitsResume
    <2>2. Numbering'
      BY <1>1, <1>3, <2>1, Kept DEF Numbering, cards, Paused
    <2>3. Approvals'
      BY <1>1, <2>1, Counted DEF cards, history
    <2>4. Attended'
      BY <1>1, <1>3 DEF Attended, Paused
    <2>5. ~exposed => Calm'
      <3> SUFFICES ASSUME ~exposed
                   PROVE  Calm'
        OBVIOUS
      <3>1. Acting(r) /\ Calm
        BY <1>1 DEF Acting, Minted, At
      <3>2. Stage(r)'
        BY <2>1 DEF Stage
      <3> QED
        BY <1>1, <1>3, <3>1, <3>2, Alone DEF Calm, Paused, history
    <2> QED
      BY <1>1, <2>2, <2>3, <2>4, <2>5 DEF history
  <1> QED
    BY <1>2, <1>3

(* The card that is minted is the one of the question the turn is paused at, and
   the handler that mints it acts no more: the card is not its own. *)
LEMMA MintKeeps ==
  ASSUME IInv, TypeOK', NEW r \in Runs, Mint(r)
  PROVE  IInv'
  <1> USE Sets DEF IInv, TypeOK
  <1> DEFINE q == run[r].ask
  <1>1. /\ Only(r) /\ run[r].pc = "mint" /\ UNCHANGED <<turn, asks, history>>
        /\ verdict' = verdict /\ q \in Nat
    BY DEF Mint, Goto, At, Only, L!Mint, L!Move, Run
  <1>2. /\ run'[r].ask = run[r].ask /\ run'[r].revisions = run[r].revisions
        /\ run'[r].says = run[r].says /\ run'[r].by = run[r].by /\ run'[r].pc = "record"
    BY DEF Mint, Goto, Run
  <1>3. /\ q \in Asks => status[q] = "none" /\ status'[q] = "pending"
        /\ \A k \in Asks : k # q => status'[k] = status[k]
    BY DEF Mint, L!Mint, L!Move
  <1>4. q \in Asks => run[q].pc = "idle" /\ q # r
    BY <1>1, <1>3 DEF Numbering, Closed, L!Terminal
  <1>5. Numbering'
    <2>1. ASSUME NEW k \in Asks
          PROVE  /\ run'[k].pc # "idle" => Closed(k)'
                 /\ k > asks' => status'[k] = "none"
      <3>1. CASE k = q
        BY <1>1, <1>4, <3>1 DEF Numbering, Only
      <3>2. CASE k # q
        BY <1>1, <1>3, <3>2 DEF Numbering, Closed, L!Terminal, Only
      <3> QED
        BY <3>1, <3>2
    <2>2. \A j \in Runs : run'[j].ask <= asks' /\ run'[j].revisions <= MaxRevisions
      BY <1>1, <1>2 DEF Numbering, Only
    <2> QED
      BY <1>1, <2>1, <2>2 DEF Numbering, Paused
  <1>6. Approvals'
    BY <1>1, <1>2, Counted DEF history
  <1>7. Attended'
    <2> SUFFICES ASSUME Paused, ~Open(turn.ask)', turn.ask \notin ignored
                 PROVE  \E j \in Runs : Covers(j, turn.ask)'
      BY <1>1 DEF Attended, Paused, OnItsWay, Covers, history, Open
    <2>1. turn.ask \in Asks
      BY DEF Numbering, Asks
    <2>2. turn.ask # q /\ ~Open(turn.ask)
      BY <1>1, <1>3, <2>1 DEF Open
    <2>3. PICK j \in Runs : Covers(j, turn.ask)
      BY <2>2 DEF Attended, OnItsWay, Covers
    <2>4. j # r
      BY <1>1, <2>2, <2>3 DEF Covers
    <2> QED
      BY <1>1, <2>3, <2>4 DEF Only, Covers
  <1>8. ~exposed => Calm'
    <2> SUFFICES ASSUME ~exposed
                 PROVE  Calm'
      OBVIOUS
    <2>1. Acting(r) /\ Calm /\ Stage(r)
      BY <1>1 DEF Acting, Minted, At, Calm
    <2>2. q \in Asks /\ Holds(r)
      BY <1>1, <2>1 DEF Stage
    <2>3. ASSUME NEW j \in Runs
          PROVE  ~Acting(j)'
      <3>1. CASE j = r
        BY <1>2, <1>3, <1>4, <2>2, <3>1 DEF Acting, Minted, At
      <3>2. CASE j # r
        <4>1. ~Acting(j) /\ run'[j] = run[j]
          BY <1>1, <2>1, <3>2 DEF Calm, Only
        <4>2. \A k \in Asks : status[k] # "none" => status'[k] # "none"
          BY <1>3
        <4> QED
          BY <4>1, <4>2 DEF Acting, Minted, At
      <3> QED
        BY <3>1, <3>2
    <2>4. \A j \in Runs : Stage(j)'
      BY <2>3 DEF Acting, Minted, At, Stage
    <2>5. \A k \in Asks : Open(k)' => Waits(k)'
      <3> SUFFICES ASSUME NEW k \in Asks, Open(k)'
                   PROVE  Waits(k)'
        OBVIOUS
      <3>1. k = q
        BY <1>3, <2>1 DEF Calm, Open
      <3> QED
        BY <1>1, <2>2, <3>1 DEF Waits, Holds, Paused
    <2> QED
      BY <1>1, <2>1, <2>3, <2>4, <2>5 DEF Calm, Paused, history
  <1> QED
    BY <1>1, <1>5, <1>6, <1>7, <1>8 DEF history

LEMMA RefuseKeeps ==
  ASSUME IInv, TypeOK', NEW r \in Runs, Refuse(r)
  PROVE  IInv'
  <1> USE Sets DEF IInv, TypeOK
  <1>1. /\ Only(r) /\ run[r].pc = "mint" /\ ignored' = ignored \cup {run[r].ask}
        /\ UNCHANGED <<turn, asks, cards, calls, unasked, exposed>>
    BY DEF Refuse, Goto, At, Only
  <1>2. /\ run'[r].ask = run[r].ask /\ run'[r].revisions = run[r].revisions
        /\ run'[r].says = run[r].says /\ run'[r].by = run[r].by /\ run'[r].pc = "done"
    BY DEF Refuse, Goto, Run
  <1>3. Numbering'
    BY <1>1, <1>2, Kept DEF Numbering, cards, Paused
  <1>4. Approvals'
    BY <1>1, <1>2, Counted DEF cards
  <1>5. Attended'
    BY <1>1, Covered DEF Covers, cards
  <1>6. ~exposed => Calm'
    BY <1>1, <1>2, Gone
  <1> QED
    BY <1>1, <1>3, <1>4, <1>5, <1>6

LEMMA RecordKeeps ==
  ASSUME IInv, TypeOK', NEW r \in Runs, Record(r)
  PROVE  IInv'
  <1> USE Sets DEF IInv, TypeOK
  <1>1. /\ Only(r) /\ run[r].pc = "record" /\ UNCHANGED <<turn, asks, cards, history>>
    BY DEF Record, Goto, At, Only
  <1>2. /\ run'[r].ask = run[r].ask /\ run'[r].revisions = run[r].revisions
        /\ run'[r].says = run[r].says /\ run'[r].by = run[r].by /\ run'[r].pc = "done"
    BY DEF Record, Goto, Run
  <1>3. Numbering'
    BY <1>1, <1>2, Kept DEF Numbering, cards, Paused
  <1>4. Approvals'
    BY <1>1, <1>2, Counted DEF cards, history
  <1>5. Attended'
    BY <1>1, Covered DEF Covers, cards, history
  <1>6. ~exposed => Calm'
    BY <1>1, <1>2, Gone DEF history
  <1> QED
    BY <1>1, <1>3, <1>4, <1>5, <1>6 DEF history

(* A compensation takes over the question of the resume that failed; it exposes
   the turn if that resume had minted a card. *)
LEMMA FaultKeeps ==
  ASSUME IInv, TypeOK', NEW r \in Runs, Fail(r) \/ Crash(r)
  PROVE  IInv'
  <1> USE Sets DEF IInv, TypeOK
  <1>1. /\ Only(r) /\ run[r].pc \notin {"idle", "done"}
        /\ UNCHANGED <<turn, asks, cards, calls, unasked>>
    BY DEF Fail, Failing, Crash, Goto, Only
  <1>2. /\ run'[r].ask = run[r].ask /\ run'[r].revisions = run[r].revisions
        /\ \/ /\ run'[r].pc = "read" /\ run'[r].by = "system" /\ run'[r].says = "reject"
              /\ ignored' = ignored /\ (exposed' <=> exposed \/ Minted(r))
           \/ /\ run'[r].pc = "done" /\ ignored' = ignored \cup Drops(r)
              /\ (exposed' <=> exposed)
    BY DEF Fail, Failing, Crash, Goto, Run
  <1>3. Numbering'
    BY <1>1, <1>2, Kept DEF Numbering, cards, Paused
  <1>4. Approvals'
    <2>1. CASE run'[r].pc = "read"
      BY <1>1, <1>2, <2>1, Counted DEF cards
    <2>2. CASE run'[r].pc = "done"
      <3>1. /\ run'[r].by \in {run[r].by, "system"} /\ run'[r].says \in {run[r].says, "reject"}
            /\ run'[r].says = "approve" => run'[r].by = run[r].by
        BY <2>2 DEF Fail, Failing, Crash, Goto, Run
      <3> QED
        BY <1>1, <2>2, <3>1 DEF Approvals, Only, cards
    <2> QED
      BY <1>2, <2>1, <2>2
  <1>5. Attended'
    <2>1. Paused /\ Covers(r, turn.ask) => turn.ask \in Drops(r)
      BY DEF Covers, Drops
    <2> QED
      BY <1>1, <1>2, <2>1, Covered DEF Covers, cards
  <1>6. ~exposed' => Calm'
    <2> SUFFICES ASSUME ~exposed'
                 PROVE  Calm'
      OBVIOUS
    <2>1. ~exposed /\ Calm
      BY <1>2
    <2>2. CASE run'[r].pc = "done"
      BY <1>1, <2>1, <2>2, Gone
    <2>3. CASE run'[r].pc = "read"
      <3>1. Acting(r)
        BY <1>1, <1>2, <2>3 DEF Acting
      <3>2. Stage(r)'
        BY <1>2, <2>3 DEF Stage
      <3> QED
        BY <1>1, <2>1, <3>1, <3>2, Alone DEF Calm, Paused
    <2> QED
      BY <1>2, <2>2, <2>3
  <1> QED
    BY <1>3, <1>4, <1>5, <1>6

-----------------------------------------------------------------------------
(* The cards. *)

(* To close a card starts the handler of its number, which was idle: the only one
   that acts, for the card was the only one open. *)
LEMMA CloseKeeps ==
  ASSUME IInv, TypeOK', NEW k \in Asks, Click(k) \/ Expire(k)
  PROVE  IInv'
  <1> USE Sets DEF IInv, TypeOK
  <1>1. /\ Open(k) /\ verdict[k] = "none"
        /\ status'[k] \in L!Terminal /\ ~Open(k)'
        /\ \A j \in Asks : j # k => status'[j] = status[j] /\ verdict'[j] = verdict[j]
        /\ UNCHANGED <<turn, asks, history>>
    BY DEF Click, Expire, L!Close, L!AutoReject, L!DeadLetter, L!Terminal, Open
  <1>2. PICK by \in {"click", "system"}, a \in Actions :
          Starts(k, by, a) /\ verdict'[k] = a /\ (a = "approve" => by = "click")
    BY DEF Click, Expire, L!Close, L!AutoReject, L!DeadLetter, Actions
  <1>3. /\ Only(k) /\ run'[k].pc = "read" /\ run'[k].by = by /\ run'[k].says = a
        /\ run'[k].ask = 0 /\ run'[k].revisions = 0
    BY <1>2 DEF Starts, NoRun, Only
  <1>4. run[k].pc = "idle" /\ k # 0
    BY <1>1 DEF Numbering, Closed, Open, L!Terminal
  <1>5. Numbering'
    <2>1. ASSUME NEW j \in Asks
          PROVE  /\ run'[j].pc # "idle" => Closed(j)'
                 /\ j > asks' => status'[j] = "none"
      <3>1. CASE j = k
        <4>1. ~(k > asks)
          BY <1>1 DEF Numbering, Open
        <4>2. Closed(k)'
          BY <1>1 DEF Closed, L!Terminal
        <4> QED
          BY <1>1, <3>1, <4>1, <4>2
      <3>2. CASE j # k
        BY <1>1, <1>3, <3>2 DEF Numbering, Closed, L!Terminal, Only
      <3> QED
        BY <3>1, <3>2
    <2>2. \A j \in Runs : run'[j].ask <= asks' /\ run'[j].revisions <= MaxRevisions
      <3>1. asks \in Nat
        OBVIOUS
      <3> QED
        BY <1>1, <1>3, <3>1 DEF Numbering, Only
    <2> QED
      BY <1>1, <2>1, <2>2 DEF Numbering, Paused
  <1>6. Approvals'
    <2>1. calls[k] = 0
      BY <1>1 DEF Approvals
    <2>2. run'[0] = run[0]
      BY <1>3, <1>4 DEF Only
    <2>3. ASSUME NEW j \in Asks
          PROVE  /\ calls'[j] > 0 => verdict'[j] = "approve" /\ calls'[j] = 1
                 /\ run'[j].says = "approve" =>
                       /\ run'[j].by = "click" /\ verdict'[j] = "approve"
                       /\ run'[j].pc \in {"read", "load", "worker"} => calls'[j] = 0
      <3>1. CASE j = k
        BY <1>1, <1>2, <1>3, <2>1, <3>1 DEF history
      <3>2. CASE j # k
        BY <1>1, <1>3, <3>2 DEF Approvals, Only, history
      <3> QED
        BY <3>1, <3>2
    <2> QED
      BY <2>2, <2>3 DEF Approvals
  <1>7. Attended'
    BY <1>3 DEF Attended, OnItsWay
  <1>8. ~exposed => Calm'
    <2> SUFFICES ASSUME ~exposed
                 PROVE  Calm'
      OBVIOUS
    <2>1. Calm /\ Waits(k) /\ \A j \in Runs : ~Acting(j)
      BY <1>1 DEF Calm
    <2>2. \A j \in Asks : ~Open(j)'
      <3>1. \A j \in Asks : Open(j) => j = k
        BY <2>1 DEF Calm, Waits
      <3> QED
        BY <1>1, <3>1 DEF Open
    <2>3. \A j \in Runs : j # k => ~Acting(j)'
      <3>1. \A j \in Asks : status[j] # "none" => status'[j] # "none"
        BY <1>1 DEF L!Terminal
      <3> QED
        BY <1>3, <2>1, <3>1 DEF Acting, Minted, At, Only
    <2>4. \A j \in Runs : Stage(j)'
      <3>1. Stage(k)'
        BY <1>1, <1>3, <2>1 DEF Stage, Waits, Paused
      <3>2. \A j \in Runs : j # k => Stage(j)'
        BY <2>3 DEF Acting, Minted, At, Stage
      <3> QED
        BY <3>1, <3>2
    <2> QED
      BY <1>1, <2>1, <2>2, <2>3, <2>4 DEF Calm, Paused, history
  <1> QED
    BY <1>1, <1>5, <1>6, <1>7, <1>8 DEF history

LEMMA EscalateKeeps ==
  ASSUME IInv, TypeOK', NEW k \in Asks, Escalate(k)
  PROVE  IInv'
  <1> USE Sets DEF IInv, TypeOK
  <1>1. /\ status[k] = "pending" /\ status'[k] = "escalated"
        /\ \A j \in Asks : j # k => status'[j] = status[j]
        /\ UNCHANGED <<verdict, turn, asks, run, history>>
    BY DEF Escalate, L!Escalate, L!Move
  <1>2. \A j \in Asks : /\ Open(j)' <=> Open(j)
                        /\ Closed(j)' <=> Closed(j)
                        /\ status'[j] = "none" <=> status[j] = "none"
    BY <1>1 DEF Open, Closed, L!Terminal
  <1>3. Numbering'
    BY <1>1, <1>2 DEF Numbering, Paused
  <1>4. Approvals'
    BY <1>1 DEF Approvals, history
  <1>5. Attended'
    BY <1>1, <1>2 DEF Attended, OnItsWay, Paused, Numbering, Asks, history
  <1>6. Calm => Calm'
    <2> SUFFICES ASSUME Calm
                 PROVE  Calm'
      OBVIOUS
    <2>1. \A j \in Runs : Acting(j)' <=> Acting(j)
      BY <1>1, <1>2 DEF Acting, Minted, At
    <2>2. \A j \in Runs : Stage(j)'
      BY <1>1, <1>2 DEF Calm, Stage, Holds, Waits, Paused
    <2> QED
      BY <1>1, <1>2, <2>1, <2>2 DEF Calm, Waits, Paused, history
  <1> QED
    BY <1>1, <1>3, <1>4, <1>5, <1>6 DEF history

-----------------------------------------------------------------------------
LEMMA Initially == Init => IInv
  <1> SUFFICES ASSUME Init
               PROVE  IInv
    OBVIOUS
  <1> USE Sets, Idle DEF Init, L!Init
  <1>1. TypeOK
    <2>1. turn \in Turn /\ asks \in 0..MaxAsks /\ faults \in Nat
      BY DEF Turn
    <2>2. status \in [Asks -> L!Status] /\ verdict \in [Asks -> L!Verdicts]
      BY DEF L!Status, L!Verdicts
    <2>3. run \in [Runs -> Run]
      OBVIOUS
    <2> QED
      BY <2>1, <2>2, <2>3 DEF TypeOK
  <1>2. /\ run[0].pc = "ask" /\ run[0].by = "turn" /\ run[0].says = "reject"
        /\ \A r \in Runs : run[r].ask = 0 /\ run[r].revisions = 0
        /\ \A r \in Runs : r # 0 => run[r].pc = "idle" /\ run[r].says = "reject"
    BY DEF Request, NoRun
  <1>3. \A k \in Asks : run[k].pc = "idle" /\ run[k].says = "reject" /\ ~Open(k)
    BY <1>2 DEF Open
  <1>4. Numbering /\ Approvals /\ Attended
    BY <1>2, <1>3 DEF Numbering, Approvals, Attended, Paused
  <1>5. Calm
    <2>1. \A r \in Runs : Stage(r)
      BY <1>2 DEF Stage
    <2> QED
      BY <1>2, <1>3, <2>1 DEF Calm, Acting, Paused
  <1> QED
    BY <1>1, <1>4, <1>5 DEF IInv

LEMMA Step == IInv /\ [Next]_vars => IInv'
  <1> SUFFICES ASSUME IInv, [Next]_vars
               PROVE  IInv'
    OBVIOUS
  <1>1. TypeOK'
    BY TypeStep DEF IInv
  <1>2. CASE UNCHANGED vars
    <2>1. UNCHANGED <<turn, asks, status, verdict, run, faults, calls, ignored, unasked, exposed>>
      BY <1>2 DEF vars, cards, history
    <2> QED
      BY <1>1, <2>1 DEF IInv, Numbering, Approvals, Attended, Calm, Closed, Paused, Open,
             OnItsWay, Acting, Minted, At, Stage, Holds, Waits, L!Terminal
  <1>3. ASSUME NEW r \in Runs, Handle(r) PROVE IInv'
    BY <1>1, <1>3, AskKeeps, NoQuestionKeeps, WorkKeeps, CommitKeeps, PassKeeps,
       ReviseKeeps, ReadKeeps, LoadKeeps, MintKeeps, RefuseKeeps, RecordKeeps DEF Handle
  <1> QED
    BY <1>1, <1>2, <1>3, FaultKeeps, CloseKeeps, EscalateKeeps DEF Next

(* The invariant holds however handlers, cards and failures interleave. *)
THEOREM InvariantHolds == Spec => []IInv
  BY Initially, Step, PTL DEF Spec

(* A click sends its call at most once, and only if it approves. *)
THEOREM AtMostOneCall == Spec => []OneCallPerApproval
  <1>1. IInv => OneCallPerApproval
    BY DEF IInv, TypeOK, Approvals, OneCallPerApproval
  <1> QED
    BY <1>1, InvariantHolds, PTL

(* No call is sent for a question on another one's card, unless the turn was
   exposed by the compensation of a resume. *)
THEOREM NothingUnasked == Spec => []OnlyAskedIsSent
  <1>1. IInv => OnlyAskedIsSent
    BY DEF IInv, Calm, OnlyAskedIsSent
  <1> QED
    BY <1>1, InvariantHolds, PTL

(* A turn that is not exposed asks at most once for each pass of its worker. *)
THEOREM BoundedAsks == Spec => []AsksBounded
  <1>1. IInv => AsksBounded
    BY DEF IInv, Calm, AsksBounded
  <1> QED
    BY <1>1, InvariantHolds, PTL

(* A paused turn has an open card or a handler, or its question was given up. *)
THEOREM AlwaysAttended == Spec => []Attended
  <1>1. IInv => Attended
    BY DEF IInv
  <1> QED
    BY <1>1, InvariantHolds, PTL

(* A turn that has answered stays answered, unless it was exposed. *)
THEOREM AnswerIsFinal == Spec => AnswerStands
  <1>1. IInv /\ [Next]_vars => [turn.at = "ended" => turn'.at = "ended" \/ exposed]_vars
    <2> SUFFICES ASSUME IInv, Next, turn.at = "ended", ~exposed
                 PROVE  turn'.at = "ended"
      OBVIOUS
    <2>1. ASSUME NEW r \in Runs, Ask(r) \/ Commit(r) PROVE FALSE
      BY <2>1 DEF IInv, Calm, Stage, Holds, Paused, Ask, Commit, At
    <2>2. ASSUME NEW r \in Runs, Pass(r) PROVE turn'.at = "ended"
      BY <2>2 DEF Pass, IInv, TypeOK, Turn
    <2> QED
      BY <2>1, <2>2 DEF Next, Handle, NoQuestion, Work, Revise, Read, Load, Mint, Refuse,
             Record, Fail, Failing, Crash, Click, Escalate, Expire
  <1> QED
    BY <1>1, InvariantHolds, PTL DEF Spec, AnswerStands

-----------------------------------------------------------------------------
(* A handler mints no card but that of a question: not even after a resume was
   exposed and Stage no longer speaks of it. *)
Asked == \A r \in Runs : At(r, "mint") => run[r].ask \in Asks

LEMMA AskedKeeps == TypeOK /\ TypeOK' /\ Asked /\ [Next]_vars => Asked'
  <1> SUFFICES ASSUME TypeOK, TypeOK', Asked, [Next]_vars, NEW r \in Runs, At(r, "mint")'
               PROVE  run'[r].ask \in Asks
    BY DEF Asked
  <1> USE Sets DEF TypeOK, At, Goto
  <1>1. CASE run'[r] = run[r]
    BY <1>1 DEF Asked
  <1>2. CASE run'[r] # run[r]
    <2>1. ASSUME NEW s \in Runs, Ask(s) PROVE run'[r].ask \in Asks
      <3>1. s = r
        BY <1>2, <2>1 DEF Ask
      <3>2. asks + 1 \in Asks /\ run'[r].ask = asks + 1
        BY <2>1, <3>1 DEF Ask, Asks, Run
      <3> QED
        BY <3>2
    <2>2. ASSUME NEW s \in Runs, Handle(s), ~Ask(s) PROVE FALSE
      BY <1>2, <2>2 DEF Handle, NoQuestion, Work, Commit, Pass, Revise, Read, Load, Mint, Refuse,
         Record, Run
    <2>3. ASSUME NEW s \in Runs, Fail(s) \/ Crash(s) PROVE FALSE
      BY <1>2, <2>3 DEF Fail, Failing, Crash, Run
    <2>4. ASSUME NEW k \in Asks, Click(k) \/ Escalate(k) \/ Expire(k) PROVE FALSE
      <3>1. ASSUME NEW by, NEW says, Starts(k, by, says) PROVE FALSE
        BY <1>2, <3>1 DEF Starts, NoRun
      <3> QED
        BY <1>2, <2>4, <3>1 DEF Click, Escalate, Expire
    <2>5. ~UNCHANGED vars
      BY <1>2 DEF vars
    <2> QED
      BY <2>1, <2>2, <2>3, <2>4, <2>5 DEF Next
  <1> QED
    BY <1>1, <1>2

(* Each step moves one card as HitlLifecycle says, or none. *)
LEMMA CardMoves == Asked /\ [Next]_vars => [L!Next]_L!vars
  <1> SUFFICES ASSUME Asked, [Next]_vars PROVE L!Next \/ UNCHANGED cards
    BY DEF cards, L!vars
  <1>1. ASSUME NEW r \in Runs, Mint(r) PROVE L!Next
    <2>1. run[r].ask \in Asks /\ L!Mint(run[r].ask)
      BY <1>1 DEF Asked, Mint
    <2> QED
      BY <2>1 DEF L!Next
  <1>2. ASSUME NEW r \in Runs, Handle(r), ~Mint(r) PROVE UNCHANGED cards
    BY <1>2 DEF Handle, Ask, NoQuestion, Work, Commit, Pass, Revise, Read, Load, Refuse, Record
  <1>3. ASSUME NEW r \in Runs, Fail(r) \/ Crash(r) PROVE UNCHANGED cards
    BY <1>3 DEF Fail, Failing, Crash
  <1>4. ASSUME NEW k \in Asks, Click(k) PROVE L!Next
    <2>1. L!Decide(k)
      BY <1>4 DEF Click, L!Decide
    <2> QED
      BY <2>1 DEF L!Next
  <1>5. ASSUME NEW k \in Asks, Escalate(k) \/ Expire(k) PROVE L!Next
    BY <1>5 DEF Escalate, Expire, L!Next
  <1>6. UNCHANGED vars => UNCHANGED cards
    BY DEF vars
  <1> QED
    BY <1>1, <1>2, <1>3, <1>4, <1>5, <1>6 DEF Next

(* The cards of paused turns are cards of HitlLifecycle: no handler mints, closes
   or escalates one in a way that HitlCard does not implement. *)
THEOREM CardsFollowLifecycle == Spec => L!Spec
  <1>1. Init => L!Init /\ Asked
    BY Sets DEF Init, Asked, At, NoRun, Request
  <1>2. IInv => TypeOK
    BY DEF IInv
  <1> QED
    BY <1>1, <1>2, AskedKeeps, CardMoves, InvariantHolds, PTL DEF Spec, L!Spec
=============================================================================
