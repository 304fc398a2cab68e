------------------------ MODULE ParkedMutationProofs ------------------------
(***************************************************************************)
(* Proofs about ParkedMutation for any tasks, workers, clicks, deadlines   *)
(* and faults: the inductive invariant IInv and what follows from it.      *)
(*                                                                         *)
(* The argument: the card gives its verdict to one click; that click       *)
(* alone reaches the tool, once, because a retry stops in Resume.  Parking *)
(* and losing payloads only decides whether it gets there.                 *)
(***************************************************************************)
EXTENDS ParkedMutation, TLAPS

LEMMA InitTyped == Init => TypeOK
<1> SUFFICES ASSUME Init PROVE TypeOK
  OBVIOUS
<1>1. NoWorker \in Workers
  BY TasksAssumption DEF NoWorker
<1>2. NoClick \in Click
  BY <1>1, TasksAssumption DEF NoClick, Click, Actions
<1>3. req \in [Tasks -> Request] /\ click \in [Clicks -> Click]
  BY <1>1, <1>2 DEF Init, Request
<1>4. status \in [Tasks -> L!Status] /\ verdict \in [Tasks -> L!Verdicts]
  BY DEF Init, L!Init, L!Status, L!Verdicts
<1>5. deadline \in [Tasks -> Nat] /\ shared \in [Keys -> Nat]
      /\ local \in [Workers -> SUBSET Keys] /\ runs \in [Tasks -> Nat] /\ now \in Nat
  BY DEF Init
<1> QED BY <1>3, <1>4, <1>5 DEF TypeOK

LEMMA InitInv == Init => IInv
<1> SUFFICES ASSUME Init PROVE IInv
  OBVIOUS
<1>1. TypeOK
  BY InitTyped
<1>2. \A k \in Clicks : click[k].pc = "idle" /\ ~click[k].replayed
  BY DEF Init, NoClick
<1>3. \A t \in Tasks : runs[t] = 0
  BY DEF Init
<1> QED BY <1>1, <1>2, <1>3 DEF IInv, Won, WinnerHoldsVerdict, OneWinner, ReplayStops,
          FollowsVerdict, NotYetRun, HasRun, AtMostOnce, OnlyApproved

-----------------------------------------------------------------------------
(* Steps that touch neither clicks, nor runs, nor a verdict already given. *)

LEMMA KeepsClicks ==
  ASSUME IInv, TypeOK', UNCHANGED <<click, runs>>,
         \A t \in Tasks : status[t] = "resolved" =>
            status'[t] = "resolved" /\ verdict'[t] = verdict[t]
  PROVE  IInv'
<1>1. \A k \in Clicks : click[k] \in Click
  BY DEF IInv, TypeOK
<1>2. \A k \in Clicks : click[k].t \in Tasks
  BY <1>1 DEF Click
<1>3. \A k \in Clicks : Won(k)' = Won(k) /\ Served(k)' = Served(k)
  BY DEF Won, Served
<1>4. WinnerHoldsVerdict' /\ OneWinner' /\ ReplayStops' /\ FollowsVerdict'
  BY <1>2, <1>3 DEF IInv, WinnerHoldsVerdict, OneWinner, ReplayStops, FollowsVerdict
<1>5. NotYetRun' /\ HasRun' /\ AtMostOnce' /\ OnlyApproved'
  BY <1>3 DEF IInv, NotYetRun, HasRun, AtMostOnce, OnlyApproved
<1> QED BY <1>4, <1>5 DEF IInv

(* Steps of one handler that leave the cards and the counts alone. *)
LEMMA KeepsCards ==
  ASSUME IInv, TypeOK', UNCHANGED <<status, verdict, runs>>,
         NEW k \in Clicks, NEW pc, Goto(k, pc),
         click[k].pc # "idle", pc # "idle",
         click[k].replayed => pc \in {"resolved", "done", "lost"},
         pc \in {"fetch", "loaded", "missing", "called"} => click[k].action = "approve",
         pc = "drop" => click[k].action = "reject",
         ~click[k].replayed /\ pc \in {"resolved", "fetch", "drop", "loaded", "missing"}
           => runs[click[k].t] = 0,
         ~click[k].replayed /\ Served(k) /\ click[k].action = "approve"
           /\ pc \in {"called", "done"} => runs[click[k].t] = 1
  PROVE  IInv'
<1>1. \A j \in Clicks : click[j] \in Click /\ click'[j] \in Click
  BY DEF IInv, TypeOK
<1>2. /\ click'[k].pc = pc
      /\ \A j \in Clicks \ {k} : click'[j] = click[j]
      /\ \A j \in Clicks : /\ click'[j].t = click[j].t
                           /\ click'[j].action = click[j].action
                           /\ click'[j].replayed = click[j].replayed
                           /\ Served(j)' = Served(j)
  BY <1>1 DEF Goto, IInv, TypeOK, Click, Served
<1>3. \A j \in Clicks : Won(j)' = Won(j)
  BY <1>2 DEF Won
<1>4. WinnerHoldsVerdict' /\ OneWinner'
  BY <1>2, <1>3 DEF IInv, WinnerHoldsVerdict, OneWinner
<1>5. ReplayStops' /\ FollowsVerdict'
  BY <1>2 DEF IInv, ReplayStops, FollowsVerdict
<1>6. NotYetRun' /\ HasRun'
  BY <1>2, <1>3 DEF IInv, NotYetRun, HasRun, Won
<1>7. AtMostOnce' /\ OnlyApproved'
  BY DEF IInv, AtMostOnce, OnlyApproved
<1> QED BY <1>4, <1>5, <1>6, <1>7 DEF IInv

-----------------------------------------------------------------------------
(* Types, one lemma per group of actions. *)

LEMMA RequestTyped ==
  ASSUME TypeOK, NEW t \in Tasks, RequestStep(t) \/ Expire(t) PROVE TypeOK'
<1>1. PayloadTtl \in [Keys -> Nat] /\ CardTtl \in Nat /\ ManagerTtl \in Nat /\ now \in Nat
      /\ Doc \in Keys /\ t \in Keys
  BY TimeAssumption DEF Keys, TypeOK
<1>2. ASSUME NEW w \in Workers, Park(t, w) PROVE TypeOK'
  BY <1>1, <1>2 DEF Park, Begin, Store, Cache, TypeOK, Request, cards
<1>3. ASSUME NEW w \in Workers, LoadPrepared(t, w) PROVE TypeOK'
  BY <1>1, <1>3 DEF LoadPrepared, Begin, Load, Cache, TypeOK, Request, cards
<1>4. CASE Mint(t)
  <2>1. req' \in [Tasks -> Request]
    BY <1>4 DEF Mint, Await, TypeOK, Request
  <2>2. status' \in [Tasks -> L!Status] /\ verdict' \in [Tasks -> L!Verdicts]
    BY <1>4 DEF Mint, L!Mint, L!Move, L!Status, TypeOK
  <2>3. deadline' \in [Tasks -> Nat]
    BY <1>1, <1>4 DEF Mint, TypeOK
  <2>4. UNCHANGED <<now, shared, local, click, runs>>
    BY <1>4 DEF Mint, store
  <2> QED BY <2>1, <2>2, <2>3, <2>4 DEF TypeOK
<1>5. CASE MintRefused(t)
  BY <1>5 DEF MintRefused, Await, TypeOK, Request, cards, store
<1>6. CASE MoveOut(t)
  BY <1>1, <1>6 DEF MoveOut, Drop, Await, TypeOK, Request, cards
<1>7. CASE MoveIn(t)
  BY <1>1, <1>7 DEF MoveIn, Store, Await, TypeOK, Request, cards
<1>8. CASE Expire(t)
  <2>1. status' \in [Tasks -> L!Status] /\ verdict' \in [Tasks -> L!Verdicts]
    BY <1>8 DEF Expire, L!Escalate, L!DeadLetter, L!Move, L!Close, L!Status, L!Verdicts, TypeOK
  <2> QED BY <1>1, <1>8, <2>1 DEF Expire, TypeOK, store
<1> QED BY <1>2, <1>3, <1>4, <1>5, <1>6, <1>7, <1>8 DEF RequestStep

LEMMA AnswerTyped ==
  ASSUME TypeOK, NEW k \in Clicks, NEW t \in Tasks, NEW w \in Workers, NEW a \in Actions,
         Win(k, t, w, a) \/ Replay(k, t, w, a)
  PROVE  TypeOK'
<1>1. CASE Win(k, t, w, a)
  <2>1. status' \in [Tasks -> L!Status] /\ verdict' \in [Tasks -> L!Verdicts]
    BY <1>1 DEF Win, L!Close, L!Status, L!Verdicts, TypeOK
  <2>2. click' \in [Clicks -> Click]
    BY <1>1 DEF Win, Holder, TypeOK, Click
  <2> QED BY <1>1, <2>1, <2>2 DEF Win, TypeOK, store
<1>2. CASE Replay(k, t, w, a)
  BY <1>2 DEF Replay, TypeOK, Click, cards, store
<1> QED BY <1>1, <1>2

LEMMA ClickTyped ==
  ASSUME TypeOK, NEW k \in Clicks, ClickStep(k) PROVE TypeOK'
<1>1. ASSUME NEW pc, Goto(k, pc),
             pc \in {"idle", "resolved", "fetch", "drop", "loaded", "called",
                     "done", "missing", "raised", "lost"}
      PROVE  click' \in [Clicks -> Click]
  BY <1>1 DEF Goto, TypeOK, Click
<1>2. click[k].t \in Keys /\ click[k].t \in Tasks /\ click[k].w \in Workers
  BY DEF TypeOK, Click, Keys
<1>3. CASE Resume(k)
  BY <1>1, <1>3 DEF Resume, ToRun, TypeOK, cards, store
<1>4. CASE AuditRaises(k)
  BY <1>1, <1>4 DEF AuditRaises, TypeOK, cards, store
<1>5. CASE Fetch(k)
  <2>1. click' \in [Clicks -> Click]
    BY <1>1, <1>5 DEF Fetch
  <2>2. shared' \in [Keys -> Nat] /\ local' \in [Workers -> SUBSET Keys]
    BY <1>2, <1>5 DEF Fetch, Load, Cache, TypeOK, store
  <2> QED BY <1>5, <2>1, <2>2 DEF Fetch, TypeOK, cards
<1>6. CASE Call(k)
  <2>1. click' \in [Clicks -> Click]
    BY <1>1, <1>6 DEF Call
  <2>2. runs' \in [Tasks -> Nat]
    BY <1>2, <1>6 DEF Call, TypeOK
  <2> QED BY <1>6, <2>1, <2>2 DEF Call, TypeOK, cards, store
<1>7. CASE Discard(k)
  <2>1. click' \in [Clicks -> Click]
    BY <1>1, <1>7 DEF Discard
  <2>2. shared' \in [Keys -> Nat] /\ local' \in [Workers -> SUBSET Keys]
    BY <1>2, <1>7 DEF Discard, Drop, TypeOK
  <2> QED BY <1>7, <2>1, <2>2 DEF Discard, TypeOK, cards
<1> QED BY <1>3, <1>4, <1>5, <1>6, <1>7 DEF ClickStep

LEMMA EnvironmentTyped ==
  ASSUME TypeOK, Prepare \/ Tick \/ \E w \in Workers : Crash(w) PROVE TypeOK'
<1>1. CASE Prepare
  <2>1. Doc \in Keys /\ PayloadTtl[Doc] \in Nat
    BY TimeAssumption DEF Keys
  <2> QED BY <1>1, <2>1 DEF Prepare, Store, TypeOK, cards
<1>2. CASE Tick
  BY <1>2 DEF Tick, TypeOK, cards, store
<1>3. ASSUME NEW w \in Workers, Crash(w) PROVE TypeOK'
  <2>1. req' \in [Tasks -> Request]
    BY <1>3 DEF Crash, TypeOK, Request
  <2>2. click' \in [Clicks -> Click]
    BY <1>3 DEF Crash, TypeOK, Click
  <2> QED BY <1>3, <2>1, <2>2 DEF Crash, TypeOK, cards
<1> QED BY <1>1, <1>2, <1>3

-----------------------------------------------------------------------------
(* The invariant. *)

LEMMA WinKeeps ==
  ASSUME IInv, TypeOK', NEW k \in Clicks, NEW t \in Tasks, NEW w \in Workers,
         NEW a \in Actions, Win(k, t, w, a)
  PROVE  IInv'
<1>1. /\ status[t] \in {"pending", "escalated"} /\ verdict[t] = "none"
      /\ status' = [status EXCEPT ![t] = "resolved"]
      /\ verdict' = [verdict EXCEPT ![t] = a]
      /\ runs' = runs
  BY DEF Win, L!Close
<1>2. /\ click[k].pc = "idle"
      /\ click'[k].pc = "resolved" /\ click'[k].t = t
      /\ click'[k].action = a /\ ~click'[k].replayed
      /\ \A j \in Clicks \ {k} : click'[j] = click[j]
  BY DEF Win, IInv, TypeOK
<1>3. \A j \in Clicks : click[j].t \in Tasks
  BY DEF IInv, TypeOK, Click
<1>4. \A j \in Clicks : Won(j) => click[j].t # t
  BY <1>1 DEF IInv, WinnerHoldsVerdict
<1>5. runs[t] = 0
  <2>1. runs[t] \in Nat /\ ~(runs[t] > 0)
    BY <1>1 DEF IInv, TypeOK, OnlyApproved
  <2> QED BY <2>1
<1>6. Won(k)' /\ \A j \in Clicks \ {k} : Won(j)' = Won(j) /\ Served(j)' = Served(j)
  BY <1>2 DEF Won, Served
<1>7. status \in [Tasks -> L!Status] /\ verdict \in [Tasks -> L!Verdicts]
  BY DEF IInv, TypeOK
<1>8. WinnerHoldsVerdict'
  BY <1>1, <1>2, <1>3, <1>4, <1>6, <1>7 DEF IInv, WinnerHoldsVerdict
<1>9. OneWinner'
  BY <1>2, <1>4, <1>6 DEF IInv, OneWinner
<1>10. ReplayStops' /\ FollowsVerdict'
  BY <1>2 DEF IInv, ReplayStops, FollowsVerdict
<1>11. NotYetRun' /\ HasRun'
  BY <1>1, <1>2, <1>5, <1>6 DEF IInv, NotYetRun, HasRun
<1>12. AtMostOnce' /\ OnlyApproved'
  BY <1>1, <1>5, <1>7 DEF IInv, AtMostOnce, OnlyApproved
<1> QED BY <1>8, <1>9, <1>10, <1>11, <1>12 DEF IInv

LEMMA ReplayKeeps ==
  ASSUME IInv, TypeOK', NEW k \in Clicks, NEW t \in Tasks, NEW w \in Workers,
         NEW a \in Actions, Replay(k, t, w, a)
  PROVE  IInv'
<1>1. UNCHANGED <<status, verdict, runs>>
  BY DEF Replay, cards
<1>2. /\ click'[k].pc = "resolved" /\ click'[k].replayed
      /\ \A j \in Clicks \ {k} : click'[j] = click[j]
  BY DEF Replay, IInv, TypeOK
<1>3. ~Won(k)' /\ \A j \in Clicks \ {k} : Won(j)' = Won(j) /\ Served(j)' = Served(j)
  BY <1>2 DEF Won, Served
<1>4. WinnerHoldsVerdict' /\ OneWinner'
  BY <1>1, <1>2, <1>3 DEF IInv, WinnerHoldsVerdict, OneWinner
<1>5. ReplayStops' /\ FollowsVerdict'
  BY <1>2 DEF IInv, ReplayStops, FollowsVerdict
<1>6. NotYetRun' /\ HasRun' /\ AtMostOnce' /\ OnlyApproved'
  BY <1>1, <1>2, <1>3 DEF IInv, NotYetRun, HasRun, AtMostOnce, OnlyApproved
<1> QED BY <1>4, <1>5, <1>6 DEF IInv

LEMMA CallKeeps ==
  ASSUME IInv, TypeOK', NEW k \in Clicks, Call(k) PROVE IInv'
<1> DEFINE t == click[k].t
<1>1. /\ t \in Tasks /\ Won(k) /\ click[k].pc = "loaded" /\ click[k].action = "approve"
  BY DEF Call, IInv, TypeOK, Click, Won, ReplayStops, FollowsVerdict
<1>2. PICK pc \in {"called", "raised"} : Goto(k, pc)
  BY DEF Call
<1>3. /\ click'[k].pc = pc
      /\ \A j \in Clicks \ {k} : click'[j] = click[j]
      /\ \A j \in Clicks : /\ click'[j].t = click[j].t
                           /\ click'[j].action = click[j].action
                           /\ click'[j].replayed = click[j].replayed
                           /\ Served(j)' = Served(j)
  BY <1>2 DEF Goto, IInv, TypeOK, Click, Served
<1>4. UNCHANGED <<status, verdict>> /\ runs' = [runs EXCEPT ![t] = @ + 1]
  BY DEF Call, cards
<1>5. runs[t] = 0 /\ status[t] = "resolved" /\ verdict[t] = "approve"
  BY <1>1 DEF IInv, NotYetRun, WinnerHoldsVerdict
<1>6. runs'[t] = 1 /\ \A u \in Tasks \ {t} : runs'[u] = runs[u]
  BY <1>1, <1>4, <1>5 DEF IInv, TypeOK
<1>7. Won(k)' /\ \A j \in Clicks : Won(j)' = Won(j)
  BY <1>1, <1>2, <1>3 DEF Won
<1>8. \A j \in Clicks \ {k} : Won(j) => click[j].t # t /\ click[j].t \in Tasks
  BY <1>1 DEF IInv, OneWinner, TypeOK, Click
<1>9. WinnerHoldsVerdict' /\ OneWinner'
  BY <1>3, <1>4, <1>7 DEF IInv, WinnerHoldsVerdict, OneWinner
<1>10. ReplayStops' /\ FollowsVerdict'
  BY <1>1, <1>2, <1>3 DEF IInv, ReplayStops, FollowsVerdict, Won
<1>11. NotYetRun' /\ HasRun'
  BY <1>2, <1>3, <1>6, <1>7, <1>8 DEF IInv, NotYetRun, HasRun
<1>12. AtMostOnce' /\ OnlyApproved'
  BY <1>4, <1>5, <1>6 DEF IInv, AtMostOnce, OnlyApproved
<1> QED BY <1>9, <1>10, <1>11, <1>12 DEF IInv

LEMMA ClickKeeps ==
  ASSUME IInv, TypeOK', NEW k \in Clicks, ClickStep(k) PROVE IInv'
<1>0. click[k].action \in Actions /\ click[k].replayed \in BOOLEAN
  BY DEF IInv, TypeOK, Click
<1>1. CASE Resume(k)
  <2>1. UNCHANGED <<status, verdict, runs>> /\ Goto(k, ToRun(k)) /\ click[k].pc = "resolved"
    BY <1>1 DEF Resume, cards
  <2>2. CASE click[k].replayed
    <3>1. ToRun(k) = "done"
      BY <2>2 DEF ToRun
    <3> QED BY <2>1, <2>2, <3>1, KeepsCards
  <2>3. CASE ~click[k].replayed /\ ~Served(k)
    <3>1. ToRun(k) = "done"
      BY <2>3 DEF ToRun
    <3> QED BY <2>1, <2>3, <3>1, KeepsCards
  <2>4. CASE ~click[k].replayed /\ Served(k)
    <3>1. runs[click[k].t] = 0
      BY <2>1, <2>4 DEF IInv, NotYetRun, Won
    <3>2. ToRun(k) = IF click[k].action = "approve" THEN "fetch" ELSE "drop"
      BY <2>4 DEF ToRun
    <3>3. CASE click[k].action = "approve"
      BY <2>1, <2>4, <3>1, <3>2, <3>3, KeepsCards
    <3>4. CASE click[k].action = "reject"
      BY <2>1, <2>4, <3>1, <3>2, <3>4, KeepsCards
    <3> QED BY <1>0, <3>3, <3>4 DEF Actions
  <2> QED BY <2>2, <2>3, <2>4
<1>2. CASE AuditRaises(k)
  <2>1. UNCHANGED <<status, verdict, runs>> /\ Goto(k, "raised")
        /\ click[k].pc = "resolved" /\ ~click[k].replayed
    BY <1>2 DEF AuditRaises, cards
  <2> QED BY <2>1, KeepsCards
<1>3. CASE Fetch(k)
  <2>1. UNCHANGED <<status, verdict, runs>> /\ click[k].pc = "fetch"
    BY <1>3 DEF Fetch, cards
  <2>2. ~click[k].replayed /\ click[k].action = "approve" /\ runs[click[k].t] = 0
    BY <2>1 DEF IInv, ReplayStops, FollowsVerdict, NotYetRun, Won
  <2>3. CASE Goto(k, "loaded")
    BY <2>1, <2>2, <2>3, KeepsCards
  <2>4. CASE Goto(k, "missing")
    BY <2>1, <2>2, <2>4, KeepsCards
  <2> QED BY <1>3, <2>3, <2>4 DEF Fetch
<1>4. CASE Call(k)
  BY <1>4, CallKeeps
<1>5. CASE Discard(k)
  <2>1. UNCHANGED <<status, verdict, runs>> /\ Goto(k, "done")
        /\ click[k].pc \in {"called", "drop"}
    BY <1>5 DEF Discard, cards
  <2>2. ~click[k].replayed
        /\ (Served(k) /\ click[k].action = "approve" => runs[click[k].t] = 1)
    BY <2>1 DEF IInv, ReplayStops, FollowsVerdict, HasRun, Won
  <2> QED BY <2>1, <2>2, KeepsCards
<1> QED BY <1>1, <1>2, <1>3, <1>4, <1>5 DEF ClickStep

LEMMA CrashKeeps ==
  ASSUME IInv, TypeOK', NEW w \in Workers, Crash(w) PROVE IInv'
<1>1. UNCHANGED <<status, verdict, runs>>
  BY DEF Crash, cards
<1>2. \A j \in Clicks : \/ click'[j] = click[j]
                        \/ /\ click[j].pc # "idle" /\ click'[j].pc = "lost"
                           /\ click'[j].t = click[j].t
                           /\ click'[j].action = click[j].action
                           /\ click'[j].replayed = click[j].replayed
  <2> SUFFICES ASSUME NEW j \in Clicks
               PROVE  \/ click'[j] = click[j]
                      \/ /\ click[j].pc # "idle" /\ click'[j].pc = "lost"
                         /\ click'[j].t = click[j].t
                         /\ click'[j].action = click[j].action
                         /\ click'[j].replayed = click[j].replayed
    OBVIOUS
  <2>1. click[j] \in Click
    BY DEF IInv, TypeOK
  <2>2. click'[j] = IF click[j].w = w /\ click[j].pc \in {"resolved", "fetch", "drop", "loaded", "called"}
                    THEN [click[j] EXCEPT !.pc = "lost"] ELSE click[j]
    BY DEF Crash
  <2> QED BY <2>1, <2>2 DEF Click
<1>3. \A j \in Clicks : Won(j)' = Won(j) /\ (click'[j] = click[j] => Served(j)' = Served(j))
  BY <1>2 DEF Won, Served
<1>4. WinnerHoldsVerdict' /\ OneWinner'
  BY <1>1, <1>2, <1>3 DEF IInv, WinnerHoldsVerdict, OneWinner
<1>5. ReplayStops' /\ FollowsVerdict'
  BY <1>2 DEF IInv, ReplayStops, FollowsVerdict
<1>6. NotYetRun' /\ HasRun' /\ AtMostOnce' /\ OnlyApproved'
  BY <1>1, <1>2, <1>3 DEF IInv, NotYetRun, HasRun, AtMostOnce, OnlyApproved
<1> QED BY <1>4, <1>5, <1>6 DEF IInv

LEMMA RequestKeeps ==
  ASSUME IInv, TypeOK', NEW t \in Tasks, RequestStep(t) \/ Expire(t) PROVE IInv'
<1>1. UNCHANGED <<click, runs>>
  BY DEF RequestStep, Expire, Park, LoadPrepared, Mint, MintRefused, MoveOut, MoveIn
<1>2. \A u \in Tasks : status[u] = "resolved" =>
         status'[u] = "resolved" /\ verdict'[u] = verdict[u]
  <2>1. CASE Mint(t)
    BY <2>1 DEF Mint, L!Mint, L!Move, IInv, TypeOK
  <2>2. CASE Expire(t)
    BY <2>2 DEF Expire, L!Escalate, L!DeadLetter, L!Move, L!Close, IInv, TypeOK
  <2>3. CASE RequestStep(t) /\ ~Mint(t)
    BY <2>3 DEF RequestStep, Park, LoadPrepared, MintRefused, MoveOut, MoveIn, cards
  <2> QED BY <2>1, <2>2, <2>3
<1> QED BY <1>1, <1>2, KeepsClicks

LEMMA StepInv == IInv /\ [Next]_vars => IInv'
<1> SUFFICES ASSUME IInv, [Next]_vars PROVE IInv'
  OBVIOUS
<1>0. TypeOK
  BY DEF IInv
<1>1. ASSUME Prepare \/ Tick PROVE IInv'
  <2>1. TypeOK'
    BY <1>0, <1>1, EnvironmentTyped
  <2>2. UNCHANGED <<click, runs, status, verdict>>
    BY <1>1 DEF Prepare, Tick, cards
  <2> QED BY <2>1, <2>2, KeepsClicks
<1>2. ASSUME NEW t \in Tasks, RequestStep(t) \/ Expire(t) PROVE IInv'
  BY <1>0, <1>2, RequestTyped, RequestKeeps
<1>3. ASSUME NEW k \in Clicks, NEW t \in Tasks, NEW w \in Workers, NEW a \in Actions,
             Win(k, t, w, a) \/ Replay(k, t, w, a)
      PROVE  IInv'
  BY <1>0, <1>3, AnswerTyped, WinKeeps, ReplayKeeps
<1>4. ASSUME NEW k \in Clicks, ClickStep(k) PROVE IInv'
  BY <1>0, <1>4, ClickTyped, ClickKeeps
<1>5. ASSUME NEW w \in Workers, Crash(w) PROVE IInv'
  BY <1>0, <1>5, EnvironmentTyped, CrashKeeps
<1>6. CASE UNCHANGED vars
  <2>1. UNCHANGED <<now, status, verdict, deadline, shared, local, req, click, runs>>
    BY <1>6 DEF vars, cards, store
  <2>2. TypeOK'
    BY <1>0, <2>1 DEF TypeOK
  <2> QED BY <2>1, <2>2, KeepsClicks
<1> QED BY <1>1, <1>2, <1>3, <1>4, <1>5, <1>6 DEF Next

(* The invariant of the facade over parked payloads. *)
THEOREM InvariantHolds == Spec => []IInv
<1> QED BY InitInv, StepInv, PTL DEF Spec

(* Whatever is clicked, retried, lost or expires in whatever process, an
   approved write reaches its tool at most once. *)
THEOREM RunsAtMostOnce == Spec => []AtMostOnce
<1>1. IInv => AtMostOnce
  BY DEF IInv
<1> QED BY <1>1, InvariantHolds, PTL

(* Nothing is sent to a tool without a human's approval of its card. *)
THEOREM RunsOnlyApproved == Spec => []OnlyApproved
<1>1. IInv => OnlyApproved
  BY DEF IInv
<1> QED BY <1>1, InvariantHolds, PTL

(* An approval that is answered with success by a process that has the service has
   been sent, whatever services the other processes have. *)
THEOREM SuccessIsRun == Spec => []SuccessMeansRun
<1>1. IInv => SuccessMeansRun
  BY DEF IInv, HasRun, SuccessMeansRun
<1> QED BY <1>1, InvariantHolds, PTL

-----------------------------------------------------------------------------
(* What a refused card leaves behind.  A payload that is parked before its card
   exists is not parked again once there is one. *)

Begun == \A t \in Tasks \ Commits :
  /\ status[t] # "none" => req[t].pc # "idle"
  /\ req[t].pc \notin {"minted", "moved"}

LEMMA BegunStep == TypeOK /\ Begun /\ [Next]_vars => Begun'
<1> SUFFICES ASSUME TypeOK, Begun, [Next]_vars, NEW u \in Tasks \ Commits
             PROVE  /\ status'[u] # "none" => req'[u].pc # "idle"
                    /\ req'[u].pc \notin {"minted", "moved"}
  BY DEF Begun
<1>0. /\ status[u] # "none" => req[u].pc # "idle"
      /\ req[u].pc \notin {"minted", "moved"}
      /\ req \in [Tasks -> Request] /\ req[u] \in Request
  BY DEF Begun, TypeOK
<1>1. ASSUME UNCHANGED <<status, req>> PROVE (status'[u] # "none" => req'[u].pc # "idle")
                                             /\ req'[u].pc \notin {"minted", "moved"}
  BY <1>0, <1>1
<1>2. ASSUME NEW t \in Tasks, RequestStep(t)
      PROVE  (status'[u] # "none" => req'[u].pc # "idle") /\ req'[u].pc \notin {"minted", "moved"}
  <2>1. ASSUME NEW w \in Workers, Park(t, w) \/ LoadPrepared(t, w)
        PROVE  req'[u].pc \in {req[u].pc, "parked"} /\ UNCHANGED status
    BY <1>0, <2>1 DEF Park, LoadPrepared, Begin, cards
  <2>2. CASE Mint(t)
    <3>1. req'[t].pc \in {"done", "failed"} \/ t \in Commits
      BY <2>2, <1>0 DEF Mint, Await, Request
    <3>2. t # u => req'[u] = req[u] /\ status'[u] = status[u]
      BY <2>2, <1>0 DEF Mint, Await, L!Mint, L!Move, TypeOK
    <3> QED BY <1>0, <3>1, <3>2
  <2>3. CASE MintRefused(t) \/ MoveOut(t) \/ MoveIn(t)
    <3>1. UNCHANGED status
      BY <2>3 DEF MintRefused, MoveOut, MoveIn, cards
    <3>2. req'[u].pc \in {req[u].pc, "failed", "done"} \/ (t = u /\ MoveOut(t))
      <4>1. CASE MintRefused(t) \/ MoveIn(t)
        <5>1. PICK pc \in {"failed", "done"} : req' = [req EXCEPT ![t].pc = pc]
          BY <4>1 DEF MintRefused, MoveIn, Await
        <5>2. t # u => req'[u] = req[u]
          BY <1>0, <5>1
        <5>3. t = u => req'[u].pc = pc
          BY <1>0, <5>1 DEF Request
        <5> QED BY <5>1, <5>2, <5>3
      <4>2. CASE MoveOut(t)
        BY <1>0, <4>2 DEF MoveOut, Await
      <4> QED BY <2>3, <4>1, <4>2
    <3>3. ~(t = u /\ MoveOut(t))
      BY <1>0 DEF MoveOut
    <3> QED BY <1>0, <3>1, <3>2, <3>3
  <2> QED BY <1>0, <1>2, <2>1, <2>2, <2>3 DEF RequestStep
<1>3. ASSUME NEW t \in Tasks, Expire(t)
      PROVE  (status'[u] # "none" => req'[u].pc # "idle") /\ req'[u].pc \notin {"minted", "moved"}
  <2>1. UNCHANGED req /\ (status'[u] # "none" => status[u] # "none")
    BY <1>3 DEF Expire, L!Escalate, L!DeadLetter, L!Move, L!Close, TypeOK
  <2> QED BY <1>0, <2>1
<1>4. ASSUME NEW k \in Clicks, NEW t \in Tasks, NEW w \in Workers, NEW a \in Actions,
             Win(k, t, w, a) \/ Replay(k, t, w, a)
      PROVE  (status'[u] # "none" => req'[u].pc # "idle") /\ req'[u].pc \notin {"minted", "moved"}
  <2>1. UNCHANGED req /\ (status'[u] # "none" => status[u] # "none")
    BY <1>4 DEF Win, Replay, L!Close, TypeOK, cards
  <2> QED BY <1>0, <2>1
<1>5. ASSUME NEW w \in Workers, Crash(w)
      PROVE  (status'[u] # "none" => req'[u].pc # "idle") /\ req'[u].pc \notin {"minted", "moved"}
  <2>1. req'[u].pc \in {req[u].pc, "failed"} /\ UNCHANGED status
    BY <1>0, <1>5 DEF Crash, cards, Request
  <2> QED BY <1>0, <2>1
<1>6. CASE Prepare \/ Tick \/ UNCHANGED vars \/ \E k \in Clicks : ClickStep(k)
  <2>1. UNCHANGED <<status, req>>
    BY <1>6 DEF Prepare, Tick, vars, cards, ClickStep, Resume, AuditRaises, Fetch, Call, Discard
  <2> QED BY <1>1, <2>1
<1> QED BY <1>2, <1>3, <1>4, <1>5, <1>6 DEF Next

(* Once its card is decided, a payload is only dropped, and time only passes. *)
LEMMA OnlyDropped ==
  ASSUME TypeOK, Begun, [Next]_vars, NEW u \in Tasks \ Commits, status[u] = "resolved"
  PROVE  shared'[u] \in {shared[u], 0} /\ now \in Nat /\ now' \in Nat /\ now' >= now
<1>1. /\ req[u].pc \notin {"idle", "minted", "moved"} /\ u # Doc
      /\ u \in Keys /\ shared \in [Keys -> Nat] /\ now \in Nat
  BY TasksAssumption DEF Begun, TypeOK, Keys
<1>2. ASSUME NEW t \in Tasks, RequestStep(t) \/ Expire(t)
      PROVE  shared'[u] \in {shared[u], 0} /\ now' = now
  BY <1>1, <1>2 DEF RequestStep, Expire, Park, Begin, LoadPrepared, Load, Mint, MintRefused,
                    MoveOut, MoveIn, Store, Drop, store
<1>3. ASSUME NEW k \in Clicks, ClickStep(k)
      PROVE  shared'[u] \in {shared[u], 0} /\ now' = now
  BY <1>1, <1>3 DEF ClickStep, Resume, AuditRaises, Fetch, Load, Call, Discard, Drop, store
<1>4. ASSUME NEW k \in Clicks, NEW t \in Tasks, NEW w \in Workers, NEW a \in Actions,
             Win(k, t, w, a) \/ Replay(k, t, w, a)
      PROVE  shared'[u] = shared[u] /\ now' = now
  BY <1>4 DEF Win, Replay, store
<1>5. CASE Prepare
  BY <1>1, <1>5 DEF Prepare, Store
<1>6. CASE Tick
  BY <1>1, <1>6 DEF Tick, store
<1>7. ASSUME NEW w \in Workers, Crash(w) PROVE shared'[u] = shared[u] /\ now' = now
  BY <1>7 DEF Crash
<1>8. CASE UNCHANGED vars
  BY <1>1, <1>8 DEF vars, store
<1> QED BY <1>1, <1>2, <1>3, <1>4, <1>5, <1>6, <1>7, <1>8 DEF Next

LEMMA RefusedStep == IInv /\ IInv' /\ Begun /\ RefusedIsDropped /\ [Next]_vars => RefusedIsDropped'
<1> SUFFICES ASSUME IInv, IInv', Begun, RefusedIsDropped, [Next]_vars, NEW k \in Clicks,
                    Won(k)', Served(k)', click'[k].pc = "done", click'[k].action = "reject",
                    click'[k].t \notin Commits
             PROVE  ~(now' < shared'[click'[k].t])
  BY DEF RefusedIsDropped, InRedis
<1>1. click[k] \in Click /\ click \in [Clicks -> Click] /\ click'[k] \in Click /\ TypeOK
  BY DEF IInv, TypeOK
<1>2. CASE click'[k] = click[k]
  <2>1. click[k].t \in Tasks \ Commits /\ status[click[k].t] = "resolved"
        /\ ~(now < shared[click[k].t])
    BY <1>1, <1>2 DEF IInv, WinnerHoldsVerdict, Won, Served, RefusedIsDropped, InRedis, Click
  <2>2. shared[click[k].t] \in Nat
    BY <1>1, <2>1 DEF TypeOK, Keys
  <2> QED BY <1>1, <1>2, <2>1, <2>2, OnlyDropped
<1>3. CASE click'[k] # click[k]
  <2>1. ~click'[k].replayed
    BY DEF Won
  <2>2. ASSUME NEW j \in Clicks, ClickStep(j) PROVE Discard(k)
    <3>1. j = k
      BY <1>1, <1>3, <2>2 DEF ClickStep, Resume, AuditRaises, Fetch, Call, Discard, Goto
    <3>2. ~AuditRaises(k) /\ ~Fetch(k) /\ ~Call(k)
      BY <1>1 DEF AuditRaises, Fetch, Call, Goto, Click
    <3>3. ~Resume(k)
      BY <1>1, <2>1 DEF Resume, ToRun, Served, Goto, Click
    <3> QED BY <2>2, <3>1, <3>2, <3>3 DEF ClickStep
  <2>3. \A j \in Clicks, t \in Tasks, w \in Workers, a \in Actions :
          ~Win(j, t, w, a) /\ ~Replay(j, t, w, a)
    BY <1>1, <1>3 DEF Win, Replay
  <2>4. \A w \in Workers : ~Crash(w)
    BY <1>1, <1>3 DEF Crash, Click
  <2>5. ~Prepare /\ ~Tick /\ ~UNCHANGED vars
        /\ \A t \in Tasks : ~RequestStep(t) /\ ~Expire(t)
    BY <1>3 DEF Prepare, Tick, vars, RequestStep, Expire, Park, LoadPrepared, Mint, MintRefused,
                MoveOut, MoveIn
  <2>6. Discard(k)
    BY <2>2, <2>3, <2>4, <2>5 DEF Next
  <2>7. click'[k].t = click[k].t /\ click[k].t \in Keys /\ shared \in [Keys -> Nat] /\ now' \in Nat
    BY <1>1, <2>6 DEF Discard, Goto, Click, Keys, IInv, TypeOK
  <2>8. shared'[click'[k].t] = 0
    BY <2>6, <2>7 DEF Discard, Drop
  <2> QED BY <2>7, <2>8
<1> QED BY <1>2, <1>3

(* When a process that has the service has answered a refusal, no process can load
   the payload from the store they share, whoever else parked, retried or crashed meanwhile. *)
THEOREM RefusalDrops == Spec => []RefusedIsDropped
<1>1. Init => Begun /\ RefusedIsDropped
  BY DEF Init, L!Init, Begun, RefusedIsDropped, NoClick, Won
<1>2. IInv /\ Begun /\ [Next]_vars => Begun'
  BY BegunStep DEF IInv
<1> QED BY <1>1, <1>2, InvariantHolds, RefusedStep, PTL DEF Spec

-----------------------------------------------------------------------------
(* Whatever requests, clicks and crashes do, each card moves as HitlLifecycle
   says: what HitlCard implements is all that these writes ask of a card. *)
LEMMA CardMoves == TypeOK /\ [Next]_vars => [L!Next]_L!vars
<1> SUFFICES ASSUME TypeOK, [Next]_vars PROVE [L!Next]_L!vars
  OBVIOUS
<1>1. ASSUME NEW t \in Tasks, Mint(t) PROVE L!Next
  BY <1>1 DEF Mint, L!Next
<1>2. ASSUME NEW t \in Tasks, Expire(t) PROVE L!Next
  BY <1>2 DEF Expire, L!Next
<1>3. ASSUME NEW k \in Clicks, NEW t \in Tasks, NEW w \in Workers, NEW a \in Actions,
             Win(k, t, w, a)
      PROVE  L!Next
  <2>1. L!Decide(t)
    BY <1>3 DEF Win, L!Decide
  <2> QED BY <2>1 DEF L!Next
<1>4. ASSUME UNCHANGED cards PROVE UNCHANGED L!vars
  BY <1>4 DEF cards, L!vars
<1>5. ASSUME NEW t \in Tasks, RequestStep(t) PROVE L!Next \/ UNCHANGED cards
  BY <1>1, <1>5 DEF RequestStep, Park, LoadPrepared, MintRefused, MoveOut, MoveIn
<1>6. ASSUME NEW k \in Clicks, ClickStep(k) PROVE UNCHANGED cards
  BY <1>6 DEF ClickStep, Resume, AuditRaises, Fetch, Call, Discard
<1>7. Prepare \/ Tick \/ UNCHANGED vars \/ (\E w \in Workers : Crash(w)) => UNCHANGED cards
  BY DEF Prepare, Tick, vars, Crash
<1>8. ASSUME NEW k \in Clicks, NEW t \in Tasks, NEW w \in Workers, NEW a \in Actions,
             Replay(k, t, w, a)
      PROVE  UNCHANGED cards
  BY <1>8 DEF Replay
<1> QED BY <1>2, <1>3, <1>4, <1>5, <1>6, <1>7, <1>8 DEF Next

(* The cards of parked writes are cards of HitlLifecycle. *)
THEOREM CardsFollowLifecycle == Spec => L!Spec
<1>1. Init => L!Init
  BY DEF Init
<1>2. TypeOK /\ [Next]_vars => [L!Next]_L!vars
  BY CardMoves
<1>3. IInv => TypeOK
  BY DEF IInv
<1> QED BY <1>1, <1>2, <1>3, InvariantHolds, PTL DEF Spec, L!Spec
=============================================================================
