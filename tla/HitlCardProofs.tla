--------------------------- MODULE HitlCardProofs ---------------------------
(* Proofs that the card protocol of HitlCard is safe for any number of cards,
   clients, keys and for any deadlines. *)
EXTENDS HitlCard, TLAPS

USE CardsAssumption, KeysAssumption, TimeAssumption DEF Procs

(* A handler record built from typed parts is a handler. *)
LEMMA IdleType == Idle \in Handler
  BY DEF Idle, Handler, PC, Ops, Outcomes, Verdicts, NoToken, NoCard, Tokens, Subjects,
         CardView, Status, Stored, Terminal

LEMMA ReplyType ==
  ASSUME NEW h \in Handler, NEW o \in Outcomes
  PROVE  Reply(h, o) \in Handler /\ Won(h, o) \in Handler
  BY DEF Reply, Won, Forgetting, Handler, PC, NoToken, NoCard, Tokens, Subjects,
         CardView, Status, Stored, Terminal, Verdicts

(* The parts of a typed handler. *)
LEMMA HandlerParts ==
  ASSUME NEW h \in Handler
  PROVE  /\ h.seen \in CardView /\ h.seen.nonce \in Nat /\ h.seen.expires \in Nat
         /\ h.c \in Cards /\ h.tok \in Tokens /\ h.now \in Nat
         /\ h.key \in Keys \cup {NoKey} /\ h.action \in Verdicts /\ h.op \in Ops
<1>1. h.seen \in CardView
  BY DEF Handler
<1>2. QED
  BY <1>1 DEF Handler, CardView

(* A card version written from a typed copy is a card version. *)
LEMMA CardViewType ==
  ASSUME NEW v \in CardView, NEW s \in Status, NEW a \in Verdicts, NEW e \in Nat, NEW n \in Nat
  PROVE  /\ [v EXCEPT !.status = s, !.action = a, !.nonce = n] \in CardView
         /\ [v EXCEPT !.status = s, !.nonce = n, !.expires = e] \in CardView
  BY DEF CardView

(* A fresh nonce is one above the stored one. *)
LEMMA NewNonceType ==
  ASSUME TypeOK, NEW c \in Cards
  PROVE  NewNonce(c) \in Nat /\ NewNonce(c) = card[c].nonce + 1
<1>1. card[c] \in CardView
  BY DEF TypeOK
<1>2. QED
  BY <1>1 DEF NewNonce, CardView

(* Moving one handler to a typed record keeps the type of the whole state. *)
LEMMA HandlerOnlyType ==
  ASSUME TypeOK, NEW p \in Procs, NEW h \in Handler, HandlerOnly(p, h)
  PROVE  TypeOK'
  BY DEF TypeOK, HandlerOnly, To, store

(* The state has its type in every behaviour of the handlers. *)
THEOREM TypeCorrect == Spec => []TypeOK
<1>1. Init => TypeOK
  BY IdleType DEF Init, TypeOK, NoCard, CardView, Status, Stored, Terminal, Verdicts
<1>2. TypeOK /\ [Next]_vars => TypeOK'
  <2> SUFFICES ASSUME TypeOK, [Next]_vars PROVE TypeOK'
    OBVIOUS
  <2> USE DEF TypeOK
  <2>1. CASE Environment
    <3>1. CASE Tick
      BY <3>1 DEF Tick, store
    <3>2. ASSUME NEW c \in Cards, Evict(c) PROVE TypeOK'
      BY <3>2 DEF Evict, CardView, Status
    <3>3. ASSUME NEW p \in Procs, Crash(p) PROVE TypeOK'
      BY <3>3, IdleType DEF Crash, store
    <3>4. QED
      BY <2>1, <3>1, <3>2, <3>3 DEF Environment
  <2>2. ASSUME NEW c \in Cards, Create(c) PROVE TypeOK'
    BY <2>2 DEF Create, CardView, Status, Stored, Verdicts, Tokens, Subjects
  <2>3. ASSUME NEW p \in Procs, Resume(p) PROVE TypeOK'
    <3> DEFINE h == proc[p]
    <3>0. h \in Handler
      OBVIOUS
    <3>1. CASE ApplyTtl(p)
      <4> DEFINE now == IF h.op = "sweep" THEN h.now ELSE clock
      <4>1. [h EXCEPT !.now = now, !.pc = IF h.seen.status = "pending"
                                        THEN "expire" ELSE "bury"] \in Handler
        BY <3>0 DEF Handler, PC
      <4>2. QED
        BY <3>1, <4>1, IdleType, HandlerOnlyType DEF ApplyTtl
    <3>2. CASE Escalate(p)
      <4>1. Won(h, "escalated") \in Handler
        BY <3>0, ReplyType DEF Outcomes
      <4>2. [h.seen EXCEPT !.status = "escalated", !.nonce = NewNonce(h.c),
                           !.expires = h.now + ManagerTTL] \in CardView
        <5>1. h.now + ManagerTTL \in Nat
          BY <3>0, HandlerParts
        <5>2. QED
          BY <3>0, <5>1, HandlerParts, CardViewType, NewNonceType DEF Status, Stored
      <4>3. QED
        <5>1. TokenOf([h.seen EXCEPT !.status = "escalated", !.nonce = NewNonce(h.c),
                        !.expires = h.now + ManagerTTL], "manager") \in Tokens
          BY <4>2 DEF TokenOf, Tokens, Subjects, CardView
        <5>2. h.c \in Cards
          BY <3>0, HandlerParts
        <5>3. QED
          BY <3>2, <4>1, <4>2, <5>1, <5>2 DEF Escalate, EscalateFrom, CompareAndSet, To
    <3>3. CASE AutoReject(p) \/ DeadLetter(p)
      <4> SUFFICES ASSUME NEW at \in {"expire", "bury"}, NEW expected, NEW status \in Status,
                          TimeoutClose(p, at, expected, status)
                   PROVE TypeOK'
        BY <3>3 DEF AutoReject, DeadLetter, Status, Stored, Terminal
      <4>1. Won(h, "closed") \in Handler
        BY <3>0, ReplyType DEF Outcomes
      <4>2. [h.seen EXCEPT !.status = status, !.action = "reject",
                           !.nonce = NewNonce(h.c)] \in CardView
        BY <3>0, HandlerParts, CardViewType, NewNonceType DEF Verdicts
      <4>3. [by |-> at, action |-> "reject", key |-> NoKey, tok |-> NoToken] \in Entry
        BY DEF Entry, Verdicts, NoToken, Tokens, Subjects
      <4>4. QED
        BY <3>0, <4>1, <4>2, <4>3, HandlerParts DEF TimeoutClose, CompareAndSet, To
    <3>4. CASE CloseLose(p)
      BY <3>0, <3>4, ReplyType, HandlerOnlyType DEF CloseLose, Outcomes
    <3>5. CASE Audit(p)
      <4>1. [h EXCEPT !.pc = "post"] \in Handler
        BY <3>0 DEF Handler, PC
      <4>2. QED
        BY <3>5, <4>1, HandlerOnlyType DEF Audit
    <3>6. CASE AuditFail(p)
      BY <3>0, <3>6, ReplyType, HandlerOnlyType DEF AuditFail, Outcomes
    <3>7. CASE Return(p)
      BY <3>7, IdleType, HandlerOnlyType DEF Return
    <3>8. QED
      BY <2>3, <3>1, <3>2, <3>3, <3>4, <3>5, <3>6, <3>7 DEF Resume
  <2>4. ASSUME NEW p \in Clients, ClientStep(p) PROVE TypeOK'
    <3> DEFINE h == proc[p]
    <3>0. h \in Handler /\ p \in Procs
      OBVIOUS
    <3>1. CASE Request(p)
      <4>1. PICK c \in Cards, op \in {"respond", "manage"}, k \in Keys, a \in Actions,
                 t \in Tokens :
               HandlerOnly(p, [Idle EXCEPT !.pc = "key", !.op = op, !.c = c, !.key = k,
                                 !.action = a, !.tok = t, !.seen = card[c]])
        BY <3>1 DEF Request
      <4>2. [Idle EXCEPT !.pc = "key", !.op = op, !.c = c, !.key = k, !.action = a,
                         !.tok = t, !.seen = card[c]] \in Handler
        BY IdleType, <4>1 DEF Handler, PC, Ops, Verdicts
      <4>3. QED
        BY <3>0, <4>1, <4>2, HandlerOnlyType
    <3>2. CASE View(p)
      <4>1. PICK c \in Cards : HandlerOnly(p, [Idle EXCEPT !.pc = "apply", !.c = c,
                                                 !.seen = card[c]])
        BY <3>2 DEF View
      <4>2. [Idle EXCEPT !.pc = "apply", !.c = c, !.seen = card[c]] \in Handler
        BY IdleType DEF Handler, PC
      <4>3. QED
        BY <3>0, <4>1, <4>2, HandlerOnlyType
    <3>3. CASE CheckKey(p)
      <4>1. /\ [h EXCEPT !.now = clock, !.pc = IF h.op = "respond" THEN "expire"
                                             ELSE "bury"] \in Handler
            /\ [h EXCEPT !.pc = "cas"] \in Handler
        BY <3>0 DEF Handler, PC
      <4>2. \A o \in Outcomes : Reply(h, o) \in Handler
        BY <3>0, ReplyType
      <4>3. QED
        BY <3>0, <3>3, <4>1, <4>2, HandlerOnlyType DEF CheckKey, Outcomes
    <3>4. CASE DecideWin(p)
      <4>1. Won(h, "decided") \in Handler
        BY <3>0, ReplyType DEF Outcomes
      <4>2. [h.seen EXCEPT !.status = "resolved", !.action = h.action,
                           !.nonce = NewNonce(h.c)] \in CardView
        BY <3>0, HandlerParts, CardViewType, NewNonceType DEF Status, Stored, Terminal
      <4>3. [by |-> h.op, action |-> h.action, key |-> h.key, tok |-> h.tok] \in Entry
        BY <3>0 DEF Entry, Handler
      <4>4. QED
        BY <3>0, <3>4, <4>1, <4>2, <4>3, HandlerParts DEF DecideWin, CompareAndSet, To
    <3>5. CASE DecideLose(p)
      <4>1. [h EXCEPT !.pc = "latest"] \in Handler
        BY <3>0 DEF Handler, PC
      <4>2. QED
        BY <3>0, <3>5, <4>1, HandlerOnlyType DEF DecideLose
    <3>6. CASE Latest(p)
      <4>1. h.c \in Cards /\ [h EXCEPT !.pc = "latestKey", !.seen = card[h.c]] \in Handler
        BY <3>0 DEF Handler, PC
      <4>2. QED
        BY <3>0, <3>6, <4>1, HandlerOnlyType DEF Latest
    <3>7. CASE LatestKey(p)
      BY <3>0, <3>7, ReplyType, HandlerOnlyType DEF LatestKey, Outcomes
    <3>8. QED
      BY <2>3, <2>4, <3>0, <3>1, <3>2, <3>3, <3>4, <3>5, <3>6, <3>7 DEF ClientStep
  <2>5. ASSUME NEW c \in Cards, SweepStep(c) PROVE TypeOK'
    <3>1. CASE Sweep(c)
      <4>1. [Idle EXCEPT !.pc = "list", !.op = "sweep", !.c = c, !.now = clock] \in Handler
        BY IdleType DEF Handler, PC, Ops
      <4>2. QED
        BY <3>1, <4>1, HandlerOnlyType DEF Sweep
    <3>2. CASE List(c)
      <4>0. proc[c] \in Handler /\ card[c] \in CardView
        OBVIOUS
      <4>1. [proc[c] EXCEPT !.pc = "apply", !.seen = card[c]] \in Handler
        BY <4>0 DEF Handler, PC
      <4>2. QED
        BY <3>2, <4>1, IdleType, HandlerOnlyType DEF List
    <3>3. QED
      BY <2>3, <2>5, <3>1, <3>2 DEF SweepStep
  <2>6. ASSUME NEW p \in Procs, Finish(p) PROVE TypeOK'
    <3>0. proc[p] \in Handler
      OBVIOUS
    <3>1. [proc[p] EXCEPT !.pc = "done"] \in Handler
      BY <3>0 DEF Handler, PC
    <3>2. QED
      BY <2>6, <3>1, HandlerOnlyType DEF Finish
  <2>7. CASE UNCHANGED vars
    BY <2>7 DEF vars
  <2>8. QED
    BY <2>1, <2>2, <2>4, <2>5, <2>6, <2>7 DEF Next
<1>3. QED
  BY <1>1, <1>2, PTL DEF Spec
-----------------------------------------------------------------------------
(* The inductive invariant. *)

LEMMA IdleOK == HandlerOK(Idle)
  BY DEF HandlerOK, Idle

(* A handler that has answered or been dropped carries no assumption other than
   the one about its answer. *)
LEMMA ReplyOK ==
  ASSUME NEW h \in Handler, NEW o \in Outcomes,
         o = "replayed" => /\ log[h.c] # <<>>
                           /\ log[h.c][1].by \in {"respond", "manage"}
                           /\ log[h.c][1].key = h.key
  PROVE  HandlerOK(Reply(h, o))
  BY DEF HandlerOK, Reply, Forgetting, Handler

(* The winner of a write carries no assumption either, whatever the step does. *)
LEMMA WonOK ==
  ASSUME NEW h \in Handler, NEW o \in {"decided", "escalated", "closed"}
  PROVE  Won(h, o) \in Handler /\ HandlerOK(Won(h, o))'
<1>1. Won(h, o) \in Handler
  BY ReplyType DEF Outcomes
<1>2. Won(h, o).pc = "audit" /\ Won(h, o).out = o
  BY DEF Won, Forgetting, Handler
<1>3. HandlerOK(Won(h, o))'
  BY <1>2 DEF HandlerOK
<1>4. QED
  BY <1>1, <1>3

(* A step that only moves one handler keeps the invariant when the handler's new
   record satisfies it. *)
LEMMA HandlerOnlyInv ==
  ASSUME IInv, NEW p \in Procs, NEW h \in Handler, HandlerOK(h), HandlerOnly(p, h)
  PROVE  IInv'
<1>1. TypeOK'
  BY HandlerOnlyType DEF IInv
<1>2. \A c \in Cards : CardOK(c)' /\ VerdictOK(c)'
  BY DEF IInv, HandlerOnly, store, CardOK, VerdictOK
<1>3. \A q \in Procs : HandlerOK(proc[q])'
  BY DEF IInv, TypeOK, HandlerOnly, To, store, HandlerOK
<1>4. QED
  BY <1>1, <1>2, <1>3 DEF IInv

(* What a winning write does to the other cards and handlers: the log of a card
   only ever grows from empty, so no replay already answered is contradicted. *)
LEMMA WriteFrame ==
  ASSUME IInv, TypeOK', NEW p \in Procs, NEW h \in Handler, To(p, h), NEW d \in Cards,
         \A c \in Cards \ {d} : /\ card'[c] = card[c] /\ idem'[c] = idem[c]
                                /\ issued'[c] = issued[c] /\ log'[c] = log[c],
         log[d] = <<>> \/ log'[d] = log[d],
         CardOK(d)', VerdictOK(d)', HandlerOK(h)'
  PROVE  IInv'
<1>1. \A c \in Cards : CardOK(c)' /\ VerdictOK(c)'
  <2> TAKE c \in Cards
  <2>1. CASE c = d
    BY <2>1
  <2>2. CASE c # d
    BY <2>2 DEF IInv, CardOK, VerdictOK
  <2>3. QED
    BY <2>1, <2>2
<1>2. \A q \in Procs : HandlerOK(proc[q])'
  <2> TAKE q \in Procs
  <2>1. CASE q = p
    BY <2>1 DEF IInv, TypeOK, To
  <2>2. CASE q # p
    <3>1. proc'[q] = proc[q] /\ HandlerOK(proc[q]) /\ proc[q].c \in Cards
      BY <2>2, HandlerParts DEF IInv, TypeOK, To
    <3>2. log'[proc[q].c] = log[proc[q].c] \/ log[proc[q].c] = <<>>
      BY <3>1
    <3>3. QED
      BY <3>1, <3>2 DEF HandlerOK
  <2>3. QED
    BY <2>1, <2>2
<1>3. QED
  BY <1>1, <1>2 DEF IInv
(* The steps that write the store. *)

LEMMA EnvironmentInv == ASSUME IInv, TypeOK', Environment PROVE IInv'
<1>1. CASE Tick
  BY <1>1 DEF IInv, TypeOK, Tick, store, CardOK, VerdictOK, HandlerOK
<1>2. ASSUME NEW c \in Cards, Evict(c) PROVE IInv'
  <2>1. \A q \in Procs : HandlerOK(proc[q])'
    BY <1>2 DEF IInv, Evict, HandlerOK
  <2>2. \A d \in Cards : CardOK(d)' /\ VerdictOK(d)'
    <3> TAKE d \in Cards
    <3>1. CASE d # c
      BY <1>2, <3>1 DEF IInv, TypeOK, Evict, CardOK, VerdictOK
    <3>2. CASE d = c
      <4>1. card'[c].status = "gone" /\ idem'[c] = NoKey /\ log' = log /\ issued' = issued
        BY <1>2 DEF IInv, TypeOK, Evict, CardView
      <4>2. CardOK(c)' /\ (VerdictOK(c) => VerdictOK(c)')
        BY <4>1 DEF IInv, CardOK, VerdictOK, Terminal
      <4>3. QED
        BY <3>2, <4>2 DEF IInv
    <3>3. QED
      BY <3>1, <3>2
  <2>3. QED
    BY <2>1, <2>2 DEF IInv
<1>3. ASSUME NEW p \in Procs, Crash(p) PROVE IInv'
  <2>1. \A d \in Cards : CardOK(d)' /\ VerdictOK(d)'
    BY <1>3 DEF IInv, Crash, store, CardOK, VerdictOK
  <2>2. \A q \in Procs : HandlerOK(proc[q])'
    BY <1>3, IdleOK DEF IInv, TypeOK, Crash, store, HandlerOK
  <2>3. QED
    BY <2>1, <2>2 DEF IInv
<1>4. QED
  BY <1>1, <1>2, <1>3 DEF Environment

LEMMA CreateInv == ASSUME IInv, TypeOK', NEW c \in Cards, Create(c) PROVE IInv'
<1>1. \A q \in Procs : HandlerOK(proc[q])'
  BY DEF IInv, Create, HandlerOK
<1>2. \A d \in Cards : CardOK(d)' /\ VerdictOK(d)'
  <2> TAKE d \in Cards
  <2>1. CASE d # c
    BY <2>1 DEF IInv, TypeOK, Create, CardOK, VerdictOK
  <2>2. CASE d = c
    <3>1. /\ card'[c].status = "pending" /\ card'[c].nonce = 0
          /\ issued'[c] = {OwnerToken} /\ log'[c] = <<>> /\ idem'[c] = NoKey
      BY DEF IInv, TypeOK, Create, VerdictOK, OwnerToken
    <3>2. QED
      BY <2>2, <3>1 DEF CardOK, VerdictOK, Terminal
  <2>3. QED
    BY <2>1, <2>2
<1>3. QED
  BY <1>1, <1>2 DEF IInv

(* The click that wins: its card was open and undecided when the write landed. *)
LEMMA DecideWinInv == ASSUME IInv, TypeOK', NEW p \in Procs, DecideWin(p) PROVE IInv'
<1>0. PICK h \in Handler, d \in Cards : h = proc[p] /\ d = h.c
  BY HandlerParts DEF IInv, TypeOK
<1>1. /\ h \in Handler /\ d \in Cards /\ h.pc = "cas" /\ HandlerOK(h)
      /\ h.seen \in CardView /\ h.key \in Keys /\ h.tok \in Tokens
      /\ h.op \in {"respond", "manage"}
  BY <1>0, HandlerParts DEF IInv, TypeOK, DecideWin, HandlerOK
<1>2. /\ card[d].status = Expected(h.op) /\ log[d] = <<>> /\ CardOK(d)
      /\ h.seen.nonce = NonceOf(h.seen.status) /\ h.tok = TokenOf(h.seen, Subject(h.op))
      /\ h.seen.status = Expected(h.op)
  BY <1>0, <1>1 DEF IInv, DecideWin, CompareAndSet, HandlerOK, VerdictOK, Expected, Fits
<1>3. /\ card'[d].status = "resolved" /\ card'[d].action = h.action
      /\ card'[d].nonce = card[d].nonce + 1
      /\ idem'[d] = h.key /\ issued' = issued
  BY <1>0, <1>1, NewNonceType DEF IInv, TypeOK, DecideWin, CompareAndSet, CardView
<1>4. /\ Len(log'[d]) = 1
      /\ log'[d] # <<>>
      /\ log'[d][1] = [by |-> h.op, action |-> h.action, key |-> h.key, tok |-> h.tok]
  BY <1>0, <1>1, <1>2 DEF IInv, TypeOK, DecideWin
<1>5. CardOK(d)'
  BY <1>0, <1>2, <1>3 DEF CardOK, Terminal, NonceOf, Expected, OwnerToken, ManagerToken
<1>6. VerdictOK(d)'
  BY <1>0, <1>1, <1>2, <1>3, <1>4
     DEF CardOK, VerdictOK, Terminal, NonceOf, Expected, Subject, TokenOf, OwnerToken, ManagerToken
<1>7. HandlerOK(Won(h, "decided"))' /\ Won(h, "decided") \in Handler
  BY <1>0, WonOK
<1>8. QED
  BY <1>0, <1>1, <1>2, <1>5, <1>6, <1>7, WriteFrame
     DEF DecideWin, CompareAndSet, IInv, TypeOK

LEMMA EscalateInv == ASSUME IInv, TypeOK', NEW p \in Procs, Escalate(p) PROVE IInv'
<1>0. PICK h \in Handler, d \in Cards : h = proc[p] /\ d = h.c
  BY HandlerParts DEF IInv, TypeOK
<1>1. /\ h \in Handler /\ d \in Cards /\ HandlerOK(h) /\ h.seen \in CardView
      /\ h.now \in Nat /\ d \in HighRisk
  BY <1>0, HandlerParts DEF IInv, TypeOK, Escalate
<1>2. /\ card[d].status = "pending" /\ card[d].nonce = 0
      /\ issued[d] = {OwnerToken} /\ VerdictOK(d)
  BY <1>0, <1>1 DEF IInv, Escalate, EscalateFrom, CompareAndSet, CardOK
<1>3. /\ card'[d].status = "escalated" /\ card'[d].nonce = 1
      /\ idem' = idem /\ log' = log
      /\ issued'[d] = {OwnerToken, ManagerToken}
  <2> DEFINE new == [h.seen EXCEPT !.status = "escalated", !.nonce = NewNonce(d),
                                   !.expires = h.now + ManagerTTL]
  <2>1. /\ card' = [card EXCEPT ![d] = new]
        /\ issued' = [issued EXCEPT ![d] = @ \cup {TokenOf(new, "manager")}]
        /\ idem' = idem /\ log' = log
    BY <1>0 DEF Escalate, EscalateFrom, CompareAndSet
  <2>2. new.status = "escalated" /\ new.nonce = 1
    BY <1>1, <1>2, NewNonceType DEF IInv, CardView
  <2>3. TokenOf(new, "manager") = ManagerToken
    BY <2>2 DEF TokenOf, ManagerToken
  <2> QED
    BY <1>1, <1>2, <2>1, <2>2, <2>3 DEF IInv, TypeOK
<1>4. CardOK(d)' /\ VerdictOK(d)'
  BY <1>0, <1>1, <1>2, <1>3 DEF CardOK, VerdictOK, Terminal
<1>5. HandlerOK(Won(h, "escalated"))' /\ Won(h, "escalated") \in Handler
  BY <1>0, WonOK
<1>6. QED
  BY <1>0, <1>1, <1>3, <1>4, <1>5, WriteFrame
     DEF Escalate, EscalateFrom, CompareAndSet, IInv, TypeOK

LEMMA TimeoutCloseInv ==
  ASSUME IInv, TypeOK', NEW p \in Procs, AutoReject(p) \/ DeadLetter(p)
  PROVE  IInv'
<1> SUFFICES ASSUME NEW at \in {"expire", "bury"}, NEW expected, NEW status \in Terminal,
                    at = "expire" => expected = "pending",
                    at = "bury" => expected = "escalated",
                    status # "resolved",
                    TimeoutClose(p, at, expected, status)
             PROVE  IInv'
  BY DEF AutoReject, DeadLetter, Terminal
<1>0. PICK h \in Handler, d \in Cards : h = proc[p] /\ d = h.c
  BY HandlerParts DEF IInv, TypeOK
<1>1. h \in Handler /\ d \in Cards /\ HandlerOK(h) /\ h.seen \in CardView
  BY <1>0, HandlerParts DEF IInv, TypeOK
<1>2. /\ card[d].status = expected /\ log[d] = <<>> /\ CardOK(d) /\ idem[d] = NoKey
      /\ card[d].nonce \in Nat /\ expected \in {"pending", "escalated"}
  BY <1>0, <1>1 DEF IInv, TypeOK, CardView, TimeoutClose, CompareAndSet, VerdictOK
<1>3. /\ card'[d].status = status /\ card'[d].action = "reject"
      /\ card'[d].nonce = card[d].nonce + 1
      /\ idem' = idem /\ issued' = issued
  BY <1>0, <1>1, NewNonceType DEF IInv, TypeOK, TimeoutClose, CompareAndSet, CardView
<1>4. /\ Len(log'[d]) = 1
      /\ log'[d] # <<>>
      /\ log'[d][1] = [by |-> at, action |-> "reject", key |-> NoKey, tok |-> NoToken]
  BY <1>0, <1>1, <1>2 DEF IInv, TypeOK, TimeoutClose
<1>5. CardOK(d)'
  BY <1>0, <1>2, <1>3 DEF CardOK, Terminal, NonceOf, OwnerToken, ManagerToken
<1>6. VerdictOK(d)'
  BY <1>0, <1>2, <1>3, <1>4 DEF VerdictOK, Terminal
<1>7. HandlerOK(Won(h, "closed"))' /\ Won(h, "closed") \in Handler
  BY <1>0, WonOK
<1>8. QED
  BY <1>0, <1>1, <1>2, <1>5, <1>6, <1>7, WriteFrame DEF TimeoutClose, CompareAndSet, IInv, TypeOK
(* The steps that only move a handler. *)

LEMMA ResumeInv == ASSUME IInv, TypeOK', NEW p \in Procs, Resume(p) PROVE IInv'
<1>0. PICK h \in Handler : h = proc[p] /\ HandlerOK(h)
  BY DEF IInv, TypeOK
<1>1. CASE ApplyTtl(p)
  <2> DEFINE now == IF h.op = "sweep" THEN h.now ELSE clock
             g == [h EXCEPT !.now = now, !.pc = IF h.seen.status = "pending"
                                                THEN "expire" ELSE "bury"]
  <2>1. CASE HandlerOnly(p, Idle)
    BY <2>1, IdleType, IdleOK, HandlerOnlyInv
  <2>2. CASE HandlerOnly(p, g)
    <3>1. g \in Handler
      BY DEF IInv, TypeOK, Handler, PC
    <3>2. HandlerOK(g)
      BY <1>0, <1>1 DEF HandlerOK, Handler, ApplyTtl
    <3>3. QED
      BY <2>2, <3>1, <3>2, HandlerOnlyInv
  <2>3. QED
    BY <1>0, <1>1, <2>1, <2>2 DEF ApplyTtl
<1>2. CASE Escalate(p)
  BY <1>2, EscalateInv
<1>3. CASE AutoReject(p) \/ DeadLetter(p)
  BY <1>3, TimeoutCloseInv
<1>4. CASE CloseLose(p)
  BY <1>0, <1>4, ReplyType, ReplyOK, HandlerOnlyInv DEF CloseLose, Outcomes
<1>5. CASE Audit(p)
  <2>1. [h EXCEPT !.pc = "post"] \in Handler /\ HandlerOK([h EXCEPT !.pc = "post"])
    BY <1>0 DEF Handler, PC, HandlerOK
  <2>2. QED
    BY <1>0, <1>5, <2>1, HandlerOnlyInv DEF Audit
<1>6. CASE AuditFail(p)
  BY <1>0, <1>6, ReplyType, ReplyOK, HandlerOnlyInv DEF AuditFail, Outcomes
<1>7. CASE Return(p)
  BY <1>7, IdleType, IdleOK, HandlerOnlyInv DEF Return
<1>8. QED
  BY <1>1, <1>2, <1>3, <1>4, <1>5, <1>6, <1>7 DEF Resume

(* A replay is answered from the key stored with the verdict. *)
LEMMA ReplayJustified ==
  ASSUME IInv, NEW c \in Cards, NEW k \in Keys, idem[c] = k
  PROVE  log[c] # <<>> /\ log[c][1].by \in {"respond", "manage"} /\ log[c][1].key = k
<1>1. VerdictOK(c) /\ idem[c] # NoKey
  BY DEF IInv
<1>2. log[c] # <<>> /\ log[c][1].key = k
  BY <1>1 DEF VerdictOK
<1>3. log[c][1].by \in {"respond", "manage", "expire", "bury"}
  BY <1>1, <1>2 DEF VerdictOK
<1>4. log[c][1].by \notin {"expire", "bury"}
  BY <1>1, <1>2 DEF VerdictOK
<1>5. QED
  BY <1>2, <1>3, <1>4

LEMMA CheckKeyInv == ASSUME IInv, NEW p \in Procs, CheckKey(p) PROVE IInv'
<1>0. PICK h \in Handler, d \in Cards : h = proc[p] /\ d = h.c /\ HandlerOK(h)
  BY HandlerParts DEF IInv, TypeOK
<1>1. h.pc = "key" /\ h.op \in {"respond", "manage"} /\ h.key \in Keys
  BY <1>0 DEF CheckKey, HandlerOK
<1>2. ASSUME idem[d] = h.key, HandlerOnly(p, Reply(h, "replayed")) PROVE IInv'
  BY <1>0, <1>1, <1>2, ReplayJustified, ReplyType, ReplyOK, HandlerOnlyInv DEF Outcomes
<1>3. ASSUME NEW o \in {"conflict", "refused"}, HandlerOnly(p, Reply(h, o)) PROVE IInv'
  BY <1>0, <1>3, ReplyType, ReplyOK, HandlerOnlyInv DEF Outcomes
<1>4. ASSUME h.seen.status = Expected(h.op),
             HandlerOnly(p, [h EXCEPT !.now = clock,
                               !.pc = IF h.op = "respond" THEN "expire" ELSE "bury"])
      PROVE IInv'
  <2> DEFINE g == [h EXCEPT !.now = clock,
                            !.pc = IF h.op = "respond" THEN "expire" ELSE "bury"]
  <2>1. g \in Handler
    BY <1>0 DEF IInv, TypeOK, Handler, PC
  <2>2. HandlerOK(g)
    BY <1>0, <1>1, <1>4 DEF HandlerOK, Handler, Expected
  <2>3. QED
    BY <1>4, <2>1, <2>2, HandlerOnlyInv
<1>5. ASSUME h.seen.status = Expected(h.op), Fits(h),
             HandlerOnly(p, [h EXCEPT !.pc = "cas"])
      PROVE IInv'
  <2>1. [h EXCEPT !.pc = "cas"] \in Handler
    BY <1>0 DEF Handler, PC
  <2>2. HandlerOK([h EXCEPT !.pc = "cas"])
    BY <1>0, <1>1, <1>5 DEF HandlerOK, Handler, Fits
  <2>3. QED
    BY <1>5, <2>1, <2>2, HandlerOnlyInv
<1>6. QED
  BY <1>0, <1>2, <1>3, <1>4, <1>5 DEF CheckKey, Replay

LEMMA LatestInv ==
  ASSUME IInv, NEW p \in Procs, DecideLose(p) \/ Latest(p) \/ LatestKey(p)
  PROVE  IInv'
<1>0. PICK h \in Handler, d \in Cards : h = proc[p] /\ d = h.c /\ HandlerOK(h)
  BY HandlerParts DEF IInv, TypeOK
<1>1. CASE DecideLose(p)
  <2>1. [h EXCEPT !.pc = "latest"] \in Handler /\ HandlerOK([h EXCEPT !.pc = "latest"])
    BY <1>0, <1>1 DEF DecideLose, Handler, PC, HandlerOK
  <2>2. QED
    BY <1>0, <1>1, <2>1, HandlerOnlyInv DEF DecideLose
<1>2. CASE Latest(p)
  <2> DEFINE g == [h EXCEPT !.pc = "latestKey", !.seen = card[d]]
  <2>1. g \in Handler
    BY <1>0 DEF IInv, TypeOK, Handler, PC
  <2>2. HandlerOK(g)
    BY <1>0, <1>2 DEF Latest, Handler, HandlerOK
  <2>3. QED
    BY <1>0, <1>2, <2>1, <2>2, HandlerOnlyInv DEF Latest
<1>3. CASE LatestKey(p)
  <2>1. h.key \in Keys
    BY <1>0, <1>3 DEF LatestKey, HandlerOK
  <2>2. ASSUME idem[d] = h.key, HandlerOnly(p, Reply(h, "replayed")) PROVE IInv'
    BY <1>0, <2>1, <2>2, ReplayJustified, ReplyType, ReplyOK, HandlerOnlyInv DEF Outcomes
  <2>3. ASSUME HandlerOnly(p, Reply(h, "conflict")) PROVE IInv'
    BY <1>0, <2>3, ReplyType, ReplyOK, HandlerOnlyInv DEF Outcomes
  <2>4. QED
    BY <1>0, <1>3, <2>2, <2>3 DEF LatestKey, Replay
<1>4. QED
  BY <1>1, <1>2, <1>3

(* A copy of an open card just read carries the nonce of its status. *)
LEMMA ReadOK ==
  ASSUME IInv, NEW c \in Cards
  PROVE  /\ card[c] \in CardView
         /\ \/ card[c].status \notin {"pending", "escalated"}
            \/ card[c].nonce = NonceOf(card[c].status)
  BY DEF IInv, TypeOK, CardOK, NonceOf

LEMMA ReadInv ==
  ASSUME IInv, NEW p \in Procs, Request(p) \/ View(p) PROVE IInv'
<1>1. CASE Request(p)
  <2>1. PICK c \in Cards, op \in {"respond", "manage"}, k \in Keys, a \in Actions,
             t \in Tokens :
           HandlerOnly(p, [Idle EXCEPT !.pc = "key", !.op = op, !.c = c, !.key = k,
                             !.action = a, !.tok = t, !.seen = card[c]])
    BY <1>1 DEF Request, IInv, TypeOK
  <2> DEFINE g == [Idle EXCEPT !.pc = "key", !.op = op, !.c = c, !.key = k,
                               !.action = a, !.tok = t, !.seen = card[c]]
  <2>2. g \in Handler
    BY IdleType, ReadOK, <2>1 DEF Handler, PC, Ops, Verdicts
  <2>3. HandlerOK(g)
    BY ReadOK, <2>1 DEF Idle, HandlerOK
  <2>4. QED
    BY <2>1, <2>2, <2>3, HandlerOnlyInv
<1>2. CASE View(p)
  <2>1. PICK c \in Cards :
           /\ card[c].status \in {"pending", "escalated"}
           /\ HandlerOnly(p, [Idle EXCEPT !.pc = "apply", !.c = c, !.seen = card[c]])
    BY <1>2 DEF View, Live
  <2> DEFINE g == [Idle EXCEPT !.pc = "apply", !.c = c, !.seen = card[c]]
  <2>2. g \in Handler
    BY IdleType, ReadOK DEF Handler, PC
  <2>3. HandlerOK(g)
    BY ReadOK, <2>1 DEF Idle, HandlerOK
  <2>4. QED
    BY <2>1, <2>2, <2>3, HandlerOnlyInv
<1>3. QED
  BY <1>1, <1>2

LEMMA SweepInv == ASSUME IInv, NEW c \in Cards, Sweep(c) \/ List(c) PROVE IInv'
<1>1. CASE Sweep(c)
  <2> DEFINE g == [Idle EXCEPT !.pc = "list", !.op = "sweep", !.c = c, !.now = clock]
  <2>1. g \in Handler /\ HandlerOK(g)
    BY IdleType DEF IInv, TypeOK, Handler, PC, Ops, Idle, HandlerOK
  <2>2. QED
    BY <1>1, <2>1, HandlerOnlyInv DEF Sweep
<1>2. CASE List(c)
  <2>0. PICK h \in Handler : h = proc[c] /\ HandlerOK(h)
    BY DEF IInv, TypeOK
  <2>1. CASE HandlerOnly(c, Idle)
    BY <2>1, IdleType, IdleOK, HandlerOnlyInv
  <2>2. ASSUME card[c].status \in {"pending", "escalated"},
               HandlerOnly(c, [h EXCEPT !.pc = "apply", !.seen = card[c]])
        PROVE IInv'
    <3> DEFINE g == [h EXCEPT !.pc = "apply", !.seen = card[c]]
    <3>1. g \in Handler
      BY ReadOK DEF Handler, PC
    <3>2. HandlerOK(g)
      BY <2>0, <2>2, ReadOK DEF Handler, HandlerOK
    <3>3. QED
      BY <2>2, <3>1, <3>2, HandlerOnlyInv
  <2>3. QED
    BY <1>2, <2>0, <2>1, <2>2 DEF List, Live
<1>3. QED
  BY <1>1, <1>2

LEMMA FinishInv == ASSUME IInv, NEW p \in Procs, Finish(p) PROVE IInv'
<1>0. PICK h \in Handler : h = proc[p] /\ HandlerOK(h)
  BY DEF IInv, TypeOK
<1>1. [h EXCEPT !.pc = "done"] \in Handler /\ HandlerOK([h EXCEPT !.pc = "done"])
  BY <1>0 DEF Finish, Handler, PC, HandlerOK
<1>2. QED
  BY <1>0, <1>1, HandlerOnlyInv DEF Finish

LEMMA StepInv == ASSUME IInv, TypeOK', Next PROVE IInv'
<1>1. ASSUME NEW p \in Clients, ClientStep(p) PROVE IInv'
  BY <1>1, ReadInv, CheckKeyInv, DecideWinInv, LatestInv, ResumeInv DEF ClientStep
<1>2. ASSUME NEW c \in Cards, SweepStep(c) PROVE IInv'
  BY <1>2, SweepInv, ResumeInv DEF SweepStep
<1>3. QED
  BY <1>1, <1>2, EnvironmentInv, CreateInv, FinishInv DEF Next

LEMMA InitInv == Init => IInv
<1> SUFFICES ASSUME Init PROVE IInv
  OBVIOUS
<1>1. TypeOK
  BY IdleType DEF Init, TypeOK, NoCard, CardView, Status, Stored, Terminal, Verdicts
<1>2. \A c \in Cards : CardOK(c) /\ VerdictOK(c)
  <2> TAKE c \in Cards
  <2>1. card[c].status = "none" /\ idem[c] = NoKey /\ issued[c] = {} /\ log[c] = <<>>
    BY DEF Init, NoCard
  <2>2. Len(log[c]) = 0
    BY <2>1
  <2>3. QED
    BY <2>1, <2>2 DEF CardOK, VerdictOK, Terminal
<1>3. \A p \in Procs : HandlerOK(proc[p])
  BY IdleOK DEF Init
<1>4. QED
  BY <1>1, <1>2, <1>3 DEF IInv

LEMMA StutterInv == ASSUME IInv, UNCHANGED vars PROVE IInv'
  BY DEF IInv, TypeOK, vars, CardOK, VerdictOK, HandlerOK

(* The inductive invariant holds in every behaviour of the handlers. *)
THEOREM InvariantHolds == Spec => []IInv
<1>1. IInv /\ TypeOK' /\ [Next]_vars => IInv'
  BY StepInv, StutterInv
<1>2. QED
  BY <1>1, InitInv, TypeCorrect, PTL DEF Spec
-----------------------------------------------------------------------------
(* What the invariant is for. *)

(* However clicks, expiries and sweeps race, a card gets one verdict and the
   stored card shows it. *)
THEOREM VerdictIsSingle == Spec => []SingleVerdict
<1>1. IInv => SingleVerdict
  BY DEF IInv, VerdictOK, SingleVerdict
<1>2. QED
  BY <1>1, InvariantHolds, PTL

(* A replay is only ever answered to the key that decided the card. *)
THEOREM ReplayIsFaithful == Spec => []ReplayFaithful
<1>1. IInv => ReplayFaithful
  BY DEF IInv, HandlerOK, ReplayFaithful
<1>2. QED
  BY <1>1, InvariantHolds, PTL

(* The owner's click never decides a card the managers hold, and no printed token
   fits a closed card. *)
THEOREM AuthorityIsMatched == Spec => []AuthorityMatches
<1>1. IInv => AuthorityMatches
  <2> SUFFICES ASSUME IInv, NEW c \in Cards
               PROVE  /\ log[c] # <<>> =>
                           /\ log[c][1].by = "respond" =>
                                \A t \in issued[c] : t.subject = "owner"
                           /\ log[c][1].by = "manage" => log[c][1].tok.subject = "manager"
                      /\ card[c].status \in Terminal =>
                           \A t \in issued[c] : t.nonce # card[c].nonce
    BY DEF AuthorityMatches
  <2>1. VerdictOK(c) /\ CardOK(c) /\ issued[c] \subseteq Tokens /\ card[c].nonce \in Nat
    BY DEF IInv, TypeOK, CardView
  <2>2. \A t \in issued[c] : t.nonce \in Nat
    BY <2>1 DEF Tokens
  <2>3. QED
    BY <2>1, <2>2 DEF VerdictOK, CardOK, OwnerToken, ManagerToken
<1>2. QED
  BY <1>1, InvariantHolds, PTL

(* A card is handed to the managers at most once. *)
THEOREM EscalationIsSingle == Spec => []OneEscalation
<1>1. IInv => OneEscalation
  BY DEF IInv, CardOK, OneEscalation, OwnerToken, ManagerToken
<1>2. QED
  BY <1>1, InvariantHolds, PTL

(* A closed card is not written again. *)
LEMMA StoreChanges ==
  ASSUME IInv, [Next]_vars, NEW c \in Cards, card[c].status \in Terminal
  PROVE  card'[c] \in {card[c], [card[c] EXCEPT !.status = "gone"]}
<1> USE DEF IInv, TypeOK
<1>1. CASE Environment
  BY <1>1 DEF Environment, Tick, Evict, Crash, store
<1>2. ASSUME NEW d \in Cards, Create(d) PROVE card'[c] = card[c]
  BY <1>2 DEF Create, Terminal
<1>3. ASSUME NEW p \in Procs, DecideWin(p) \/ Escalate(p) \/ AutoReject(p) \/ DeadLetter(p)
      PROVE card'[c] = card[c]
  BY <1>3 DEF DecideWin, Escalate, EscalateFrom, AutoReject, DeadLetter, TimeoutClose, CompareAndSet,
              Expected, Terminal
<1>4. ASSUME NEW p \in Procs, NEW h, HandlerOnly(p, h) PROVE card'[c] = card[c]
  BY <1>4 DEF HandlerOnly, store
<1>5. ASSUME NEW p \in Procs, Resume(p) PROVE card'[c] = card[c]
  BY <1>3, <1>4, <1>5 DEF Resume, ApplyTtl, CloseLose, Audit, AuditFail, Return
<1>6. ASSUME NEW p \in Procs, ClientStep(p) PROVE card'[c] = card[c]
  BY <1>3, <1>4, <1>5, <1>6 DEF ClientStep, Request, View, CheckKey, DecideLose, Latest, LatestKey
<1>7. ASSUME NEW d \in Cards, SweepStep(d) \/ Finish(d) PROVE card'[c] = card[c]
  BY <1>4, <1>5, <1>7 DEF SweepStep, Sweep, List, Finish
<1>8. ASSUME NEW p \in Procs, Finish(p) PROVE card'[c] = card[c]
  BY <1>4, <1>8 DEF Finish
<1>9. CASE UNCHANGED vars
  BY <1>9 DEF vars
<1>10. QED
  BY <1>1, <1>2, <1>5, <1>6, <1>7, <1>8, <1>9 DEF Next

THEOREM TerminalIsFinal == Spec => TerminalFinal
<1>1. IInv /\ [Next]_vars =>
        [\A c \in Cards : card[c].status \in Terminal =>
           card'[c] \in {card[c], [card[c] EXCEPT !.status = "gone"]}]_card
  BY StoreChanges
<1>2. QED
  BY <1>1, InvariantHolds, PTL DEF Spec, TerminalFinal
-----------------------------------------------------------------------------
(* The refinement: every step of the handlers is a step of HitlLifecycle or
   leaves its variables alone. *)

StatusOf == [c \in Cards |-> card[c].status]
VerdictOf == [c \in Cards |-> IF log[c] = <<>> THEN "none" ELSE log[c][1].action]

(* A step that writes neither a status nor the log is a stutter. *)
LEMMA Stutters ==
  ASSUME card' = card, log' = log
  PROVE  UNCHANGED LC!vars
  BY DEF LC!vars

(* A write that leaves the log alone moves one status. *)
LEMMA MoveStep ==
  ASSUME TypeOK, TypeOK', NEW c \in Cards, NEW v, NEW from, NEW to,
         card[c].status = from, v.status = to, card' = [card EXCEPT ![c] = v], log' = log
  PROVE  LC!Move(c, from, to)
<1>1. StatusOf' = [StatusOf EXCEPT ![c] = to]
  BY DEF TypeOK, StatusOf
<1>2. UNCHANGED VerdictOf
  BY DEF VerdictOf
<1>3. QED
  BY <1>1, <1>2 DEF LC!Move, StatusOf, VerdictOf

(* A write that puts the first verdict in the log closes one card. *)
LEMMA CloseStep ==
  ASSUME TypeOK, TypeOK', NEW c \in Cards, NEW v, NEW e \in Entry, log[c] = <<>>,
         NEW from, NEW to, NEW a,
         card[c].status = from, v.status = to, e.action = a,
         card' = [card EXCEPT ![c] = v], log' = [log EXCEPT ![c] = Append(@, e)]
  PROVE  LC!Close(c, from, to, a)
<1>1. StatusOf' = [StatusOf EXCEPT ![c] = to]
  BY DEF TypeOK, StatusOf
<1>2. log'[c] # <<>> /\ log'[c][1] = e
  BY DEF TypeOK
<1>3. VerdictOf' = [VerdictOf EXCEPT ![c] = a]
  BY <1>2 DEF TypeOK, VerdictOf
<1>4. QED
  BY <1>1, <1>3 DEF LC!Close, StatusOf, VerdictOf

LEMMA StepSimulation == ASSUME IInv, TypeOK', Next PROVE [LC!Next]_LC!vars
<1> USE DEF IInv
<1>1. CASE Environment
  <2>1. CASE \E c \in Cards : Evict(c)
    <3>1. PICK c \in Cards : Evict(c)
      BY <2>1
    <3>2. /\ StatusOf' = [StatusOf EXCEPT ![c] = "gone"]
          /\ UNCHANGED VerdictOf
      BY <3>1 DEF Evict, TypeOK, CardView, StatusOf, VerdictOf
    <3>3. LC!Forget(c)
      BY <3>1, <3>2 DEF Evict, Stored, Terminal, LC!Forget, LC!Terminal, StatusOf, VerdictOf
    <3>4. QED
      BY <3>3 DEF LC!Next
  <2>2. CASE card' = card /\ log' = log
    BY <2>2, Stutters
  <2>3. QED
    BY <1>1, <2>1, <2>2 DEF Environment, Tick, Crash, store
<1>2. ASSUME NEW c \in Cards, Create(c) PROVE [LC!Next]_LC!vars
  <2> DEFINE v == [status |-> "pending", expires |-> clock + TTL,
                   nonce |-> 0, action |-> "none"]
  <2>0. card[c].status = "none" /\ card' = [card EXCEPT ![c] = v] /\ log' = log
    BY <1>2 DEF Create
  <2>1. LC!Move(c, "none", "pending")
    <3>1. v.status = "pending"
      OBVIOUS
    <3>2. HIDE DEF v
    <3>3. QED
      BY <2>0, <3>1, MoveStep
  <2>2. QED
    BY <2>1 DEF LC!Next, LC!Mint
<1>3. ASSUME NEW p \in Procs, DecideWin(p) PROVE [LC!Next]_LC!vars
  <2>0. PICK h \in Handler, d \in Cards : h = proc[p] /\ d = h.c /\ HandlerOK(h)
    BY HandlerParts DEF TypeOK
  <2> DEFINE v == [h.seen EXCEPT !.status = "resolved", !.action = h.action,
                                 !.nonce = NewNonce(h.c)]
             e == [by |-> h.op, action |-> h.action, key |-> h.key, tok |-> h.tok]
  <2>1. /\ h.action \in Actions /\ e \in Entry /\ v.status = "resolved"
        /\ h.op \in {"respond", "manage"}
    BY <1>3, <2>0, HandlerParts DEF DecideWin, HandlerOK, Entry, CardView
  <2>2. /\ card[d].status = Expected(h.op) /\ log[d] = <<>>
        /\ card' = [card EXCEPT ![d] = v] /\ log' = [log EXCEPT ![d] = Append(@, e)]
    BY <1>3, <2>0, <2>1 DEF DecideWin, CompareAndSet, VerdictOK, Expected
  <2>3. LC!Close(d, Expected(h.op), "resolved", h.action)
    <3>1. e.action = h.action
      OBVIOUS
    <3>2. HIDE DEF v, e
    <3>3. QED
      BY <2>0, <2>1, <2>2, <3>1, CloseStep
  <2>4. QED
    BY <2>1, <2>3 DEF LC!Next, LC!Decide, Expected
<1>4. ASSUME NEW p \in Procs, Escalate(p) PROVE [LC!Next]_LC!vars
  <2>0. PICK h \in Handler, d \in Cards : h = proc[p] /\ d = h.c
    BY HandlerParts DEF TypeOK
  <2> DEFINE v == [h.seen EXCEPT !.status = "escalated", !.nonce = NewNonce(h.c),
                                 !.expires = h.now + ManagerTTL]
  <2>1. v.status = "escalated"
    BY <2>0, HandlerParts DEF CardView
  <2>2. LC!Move(d, "pending", "escalated")
    <3>1. card[d].status = "pending" /\ card' = [card EXCEPT ![d] = v] /\ log' = log
      BY <1>4, <2>0 DEF Escalate, EscalateFrom, CompareAndSet
    <3>2. HIDE DEF v
    <3>3. QED
      BY <2>0, <2>1, <3>1, MoveStep
  <2>3. QED
    BY <1>4, <2>0, <2>2 DEF Escalate, LC!Next, LC!Escalate
<1>5. ASSUME NEW p \in Procs, AutoReject(p) \/ DeadLetter(p) PROVE [LC!Next]_LC!vars
  <2>0. PICK h \in Handler, d \in Cards : h = proc[p] /\ d = h.c
    BY HandlerParts DEF TypeOK
  <2>1. ASSUME NEW at \in {"expire", "bury"}, NEW expected \in {"pending", "escalated"},
               NEW status, TimeoutClose(p, at, expected, status)
        PROVE  LC!Close(d, expected, status, "reject")
    <3> DEFINE v == [h.seen EXCEPT !.status = status, !.action = "reject",
                                   !.nonce = NewNonce(h.c)]
               e == [by |-> at, action |-> "reject", key |-> NoKey, tok |-> NoToken]
    <3>1. v.status = status /\ e \in Entry
      BY <2>0, HandlerParts DEF CardView, Entry, Verdicts, NoToken, Tokens, Subjects
    <3>2. /\ card[d].status = expected /\ log[d] = <<>>
          /\ card' = [card EXCEPT ![d] = v] /\ log' = [log EXCEPT ![d] = Append(@, e)]
      BY <2>0, <2>1 DEF TimeoutClose, CompareAndSet, VerdictOK
    <3>3. e.action = "reject"
      OBVIOUS
    <3>4. HIDE DEF v, e
    <3>5. QED
      BY <2>0, <3>1, <3>2, <3>3, CloseStep
  <2>2. QED
    BY <1>5, <2>0, <2>1 DEF AutoReject, DeadLetter, LC!Next, LC!AutoReject, LC!DeadLetter
<1>6. ASSUME NEW p \in Procs, NEW h, HandlerOnly(p, h) PROVE [LC!Next]_LC!vars
  BY <1>6, Stutters DEF HandlerOnly, store
<1>7. ASSUME NEW p \in Procs, Resume(p) PROVE [LC!Next]_LC!vars
  BY <1>4, <1>5, <1>6, <1>7 DEF Resume, ApplyTtl, CloseLose, Audit, AuditFail, Return
<1>8. ASSUME NEW p \in Procs, ClientStep(p) PROVE [LC!Next]_LC!vars
  BY <1>3, <1>6, <1>7, <1>8
     DEF ClientStep, Request, View, CheckKey, DecideLose, Latest, LatestKey
<1>9. ASSUME NEW c \in Cards, SweepStep(c) PROVE [LC!Next]_LC!vars
  BY <1>6, <1>7, <1>9 DEF SweepStep, Sweep, List
<1>10. ASSUME NEW p \in Procs, Finish(p) PROVE [LC!Next]_LC!vars
  BY <1>6, <1>10 DEF Finish
<1>11. QED
  BY <1>1, <1>2, <1>8, <1>9, <1>10 DEF Next

(* The compare-and-set protocol implements the lifecycle. *)
THEOREM ImplementsLifecycle == Spec => LifecycleSpec
<1>1. Init => LC!Init
  BY DEF Init, NoCard, LC!Init
<1>2. IInv /\ TypeOK' /\ [Next]_vars => [LC!Next]_LC!vars
  <2>1. UNCHANGED vars => UNCHANGED LC!vars
    BY Stutters DEF vars
  <2>2. QED
    BY <2>1, StepSimulation
<1>3. QED
  BY <1>1, <1>2, InvariantHolds, TypeCorrect, PTL DEF Spec, LifecycleSpec, LC!Spec
=============================================================================
