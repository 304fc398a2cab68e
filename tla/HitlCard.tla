------------------------------ MODULE HitlCard ------------------------------
(***************************************************************************)
(* HitlService over the shared card store: the concurrent handlers that    *)
(* read a card, decide on the copy they read, and write it back with a     *)
(* compare-and-set that looks at nothing but the status.                   *)
(*                                                                         *)
(* Every await of the Python code is a boundary between two actions, so    *)
(* any number of handlers (requests of the owner, of a manager, readers    *)
(* that apply the TTL lazily, the periodic sweep) interleave there, and a  *)
(* handler may be lost at any of them.  The client and its token check are *)
(* kept as far as they depend on the state: a request carries a token that *)
(* was printed on some stored version of the card; what the request alone  *)
(* decides (unknown option, wrong principal, missing step-up assertion) is *)
(* the free choice in CheckKey to refuse.                                  *)
(*                                                                         *)
(* KeptNonce, ReplayByStatus, BlindSet, LivePending and AutoRejectAny are  *)
(* wrong variants of the definition that follows them; no action uses      *)
(* them.  They show that each property below can be broken by a plausible  *)
(* slip.                                                                   *)
(***************************************************************************)
EXTENDS Naturals, Sequences, FiniteSets

CONSTANTS Cards,       \* card ids
          HighRisk,    \* cards above HitlTimeoutPolicy.RISK_ESCALATION_THRESHOLD
          Clients,     \* concurrent request handlers
          Actions,     \* option ids printed on a card
          Keys,        \* idempotency keys a client may send
          NoKey,       \* no key stored
          TTL,         \* owner's deadline after creation
          ManagerTTL,  \* manager's deadline after escalation
          Retention,   \* how long the store keeps a card after its deadline
          MaxCards,    \* bound: cards created in a behaviour
          MaxClock,    \* bound: the clock stops here
          MaxCrashes   \* bound: handlers lost in a behaviour

ASSUME CardsAssumption == /\ Cards # {} /\ HighRisk \subseteq Cards
                          /\ Clients \cap Cards = {}
ASSUME KeysAssumption == NoKey \notin Keys /\ "none" \notin Actions
ASSUME TimeAssumption == /\ TTL \in Nat \ {0} /\ ManagerTTL \in Nat \ {0}
                         /\ Retention \in Nat
                         /\ MaxCards \in Nat /\ MaxClock \in Nat /\ MaxCrashes \in Nat

VARIABLES clock,    \* wall clock, in ticks
          card,     \* [Cards -> CardView]: the store
          idem,     \* [Cards -> Keys \cup {NoKey}]: the store's idempotency keys
          proc,     \* [Procs -> Handler]: what each running handler holds
          issued,   \* history: tokens printed on stored versions of a card
          log,      \* history: the verdicts a compare-and-set ever won
          crashes   \* handlers lost so far

vars == <<clock, card, idem, proc, issued, log, crashes>>

(* The sweep visits every card; its visit to card c is the handler named c. *)
Procs == Clients \cup Cards

Terminal == {"resolved", "auto_rejected", "dead_letter"}
Stored == Terminal \cup {"pending", "escalated"}
Status == Stored \cup {"none", "gone"}
Verdicts == Actions \cup {"reject", "none"}
Subjects == {"owner", "manager"}
Tokens == [subject : Subjects, nonce : Nat]
CardView == [status : Status, expires : Nat, nonce : Nat, action : Verdicts]

NoToken == [subject |-> "owner", nonce |-> 0]
NoCard == [status |-> "none", expires |-> 0, nonce |-> 0, action |-> "none"]

PC == {"idle", "list", "apply", "key", "cas", "latest", "latestKey",
       "expire", "bury", "audit", "post", "done"}
Ops == {"respond", "manage", "view", "sweep"}
Entry == [by : Ops \cup {"expire", "bury"}, action : Verdicts,
          key : Keys \cup {NoKey}, tok : Tokens]
Outcomes == {"none", "decided", "replayed", "conflict", "refused",
             "escalated", "closed", "failed"}
Handler == [pc : PC, op : Ops, c : Cards, key : Keys \cup {NoKey},
            action : Verdicts, tok : Tokens, now : Nat,
            seen : CardView, out : Outcomes]

(* What is left of a handler that is not running: the card is irrelevant. *)
Idle == [pc |-> "idle", op |-> "view", c |-> CHOOSE c \in Cards : TRUE,
         key |-> NoKey, action |-> "none", tok |-> NoToken, now |-> 0,
         seen |-> NoCard, out |-> "none"]

TypeOK == /\ clock \in Nat
          /\ card \in [Cards -> CardView]
          /\ idem \in [Cards -> Keys \cup {NoKey}]
          /\ proc \in [Procs -> Handler]
          /\ issued \in [Cards -> SUBSET Tokens]
          /\ log \in [Cards -> Seq(Entry)]
          /\ crashes \in Nat

Init == /\ clock = 0
        /\ card = [c \in Cards |-> NoCard]
        /\ idem = [c \in Cards |-> NoKey]
        /\ proc = [p \in Procs |-> Idle]
        /\ issued = [c \in Cards |-> {}]
        /\ log = [c \in Cards |-> <<>>]
        /\ crashes = 0

-----------------------------------------------------------------------------
(* The environment: time, the store's own expiry, the loss of a handler. *)

store == <<card, idem, issued, log>>

Tick == /\ clock < MaxClock
        /\ clock' = clock + 1
        /\ UNCHANGED <<store, proc, crashes>>

Evict(c) == /\ card[c].status \in Stored
            /\ clock >= card[c].expires + Retention
            /\ card' = [card EXCEPT ![c].status = "gone"]
            /\ idem' = [idem EXCEPT ![c] = NoKey]
            /\ UNCHANGED <<clock, proc, issued, log, crashes>>

Crash(p) == /\ proc[p].pc # "idle"
            /\ crashes < MaxCrashes
            /\ crashes' = crashes + 1
            /\ proc' = [proc EXCEPT ![p] = Idle]
            /\ UNCHANGED <<clock, store>>

-----------------------------------------------------------------------------
(* Handlers.  To(p, h) moves handler p to record h and nothing else. *)

To(p, h) == proc' = [proc EXCEPT ![p] = h]
Forgetting(h) == [h EXCEPT !.seen = NoCard, !.tok = NoToken, !.now = 0]
Reply(h, o) == [Forgetting(h) EXCEPT !.pc = "done", !.out = o]
Won(h, o) == [Forgetting(h) EXCEPT !.pc = "audit", !.out = o]
HandlerOnly(p, h) == To(p, h) /\ UNCHANGED <<clock, store, crashes>>

TokenOf(v, s) == [subject |-> s, nonce |-> v.nonce]

(* new_token_nonce: a value no earlier version of the card had.  Nonces are named
   by the order of the writes that store them. *)
KeptNonce(c) == card[c].nonce
NewNonce(c) == card[c].nonce + 1

(* create_choice_card, create_review_card, create_tool_approval_card *)
Create(c) ==
  /\ card[c].status = "none"
  /\ Cardinality({d \in Cards : card[d].status # "none"}) < MaxCards
  /\ card' = [card EXCEPT ![c] = [status |-> "pending", expires |-> clock + TTL,
                                   nonce |-> 0, action |-> "none"]]
  /\ issued' = [issued EXCEPT ![c] = {[subject |-> "owner", nonce |-> 0]}]
  /\ UNCHANGED <<clock, idem, proc, log, crashes>>

(* The status a click is meant for, and the subject its token is bound to. *)
Expected(op) == IF op = "respond" THEN "pending" ELSE "escalated"
Subject(op) == IF op = "respond" THEN "owner" ELSE "manager"

(* resolve / resolve_escalated: store.get, the first await. *)
Request(p) ==
  /\ proc[p].pc = "idle"
  /\ \E c \in Cards, op \in {"respond", "manage"}, k \in Keys, a \in Actions :
       \E t \in issued[c] :
         /\ card[c].status \in Stored
         /\ HandlerOnly(p, [Idle EXCEPT !.pc = "key", !.op = op, !.c = c, !.key = k,
                              !.action = a, !.tok = t, !.seen = card[c]])

(* An answer repeated: the card was resolved with this very key. *)
ReplayByStatus(h) == h.seen.status = "resolved"
Replay(h) == h.seen.status = "resolved" /\ idem[h.c] = h.key

(* verify_action_token: the token printed on the version the handler holds. *)
Fits(h) == h.tok = TokenOf(h.seen, Subject(h.op))

(* get_idempotency_key, then every check up to the next await: the replay,
   the conflict, the deadline, and the verification of the click. *)
CheckKey(p) ==
  LET h == proc[p]
      open == h.seen.status = Expected(h.op)
      due == h.seen.expires <= clock
  IN /\ h.pc = "key"
     /\ \/ Replay(h) /\ HandlerOnly(p, Reply(h, "replayed"))
        \/ ~Replay(h) /\ ~open /\ HandlerOnly(p, Reply(h, "conflict"))
        \/ /\ open /\ due
           /\ HandlerOnly(p, [h EXCEPT !.now = clock,
                 !.pc = IF h.op = "respond" THEN "expire" ELSE "bury"])
        \/ open /\ ~due /\ HandlerOnly(p, Reply(h, "refused"))
        \/ /\ open /\ ~due
           /\ Fits(h)
           /\ HandlerOnly(p, [h EXCEPT !.pc = "cas"])

(* compare_and_set: the write happens only if the stored status is the expected
   one; the rest of the stored card is overwritten unseen. *)
BlindSet(c, expected, new) == card' = [card EXCEPT ![c] = new]
CompareAndSet(c, expected, new) ==
  /\ card[c].status = expected
  /\ card' = [card EXCEPT ![c] = new]

(* _finalize_resolve: the one-time consumption of the click. *)
DecideWin(p) ==
  LET h == proc[p] IN
  /\ h.pc = "cas"
  /\ CompareAndSet(h.c, Expected(h.op),
       [h.seen EXCEPT !.status = "resolved", !.action = h.action,
                      !.nonce = NewNonce(h.c)])
  /\ idem' = [idem EXCEPT ![h.c] = h.key]
  /\ log' = [log EXCEPT ![h.c] = Append(@, [by |-> h.op, action |-> h.action,
                                            key |-> h.key, tok |-> h.tok])]
  /\ To(p, Won(h, "decided"))
  /\ UNCHANGED <<clock, issued, crashes>>

DecideLose(p) ==
  LET h == proc[p] IN
  /\ h.pc = "cas"
  /\ card[h.c].status # Expected(h.op)
  /\ HandlerOnly(p, [h EXCEPT !.pc = "latest"])

Latest(p) == /\ proc[p].pc = "latest"
             /\ HandlerOnly(p, [proc[p] EXCEPT !.pc = "latestKey",
                                               !.seen = card[proc[p].c]])

LatestKey(p) ==
  LET h == proc[p]
  IN /\ h.pc = "latestKey"
     /\ HandlerOnly(p, Reply(h, IF Replay(h) THEN "replayed" ELSE "conflict"))

(* The cards a TTL check may still close. *)
LivePending(c) == card[c].status = "pending"
Live(c) == card[c].status \in {"pending", "escalated"}

(* get_card, list_escalated, issue_step_up_challenge: read, then TTL if due. *)
View(p) ==
  /\ proc[p].pc = "idle"
  /\ \E c \in Cards :
       /\ Live(c)
       /\ HandlerOnly(p, [Idle EXCEPT !.pc = "apply", !.c = c, !.seen = card[c]])

(* sweep_expired takes `now`, lists the store, and closes card by card from
   that listing: both may be old when card c's turn comes. *)
Sweep(c) == /\ proc[c].pc = "idle"
            /\ HandlerOnly(c, [Idle EXCEPT !.pc = "list", !.op = "sweep",
                                           !.c = c, !.now = clock])

List(c) ==
  LET h == proc[c]
  IN /\ h.pc = "list"
     /\ \/ Live(c) /\ HandlerOnly(c, [h EXCEPT !.pc = "apply", !.seen = card[c]])
        \/ ~Live(c) /\ HandlerOnly(c, Idle)

(* _apply_ttl_if_due and the body of the sweep loop. *)
ApplyTtl(p) ==
  LET h == proc[p]
      now == IF h.op = "sweep" THEN h.now ELSE clock
  IN /\ h.pc = "apply"
     /\ \/ h.seen.expires > now /\ HandlerOnly(p, Idle)
        \/ /\ h.seen.expires <= now
           /\ HandlerOnly(p, [h EXCEPT !.now = now,
                 !.pc = IF h.seen.status = "pending" THEN "expire" ELSE "bury"])

(* _expire_card: a risky card goes to the managers with fresh tokens and a new
   deadline, a safe one is rejected. *)
EscalateFrom(p, at, expected) ==
  LET h == proc[p]
      new == [h.seen EXCEPT !.status = "escalated", !.nonce = NewNonce(h.c),
                            !.expires = h.now + ManagerTTL]
  IN /\ h.pc = at
     /\ CompareAndSet(h.c, expected, new)
     /\ issued' = [issued EXCEPT ![h.c] = @ \cup {TokenOf(new, "manager")}]
     /\ To(p, Won(h, "escalated"))
     /\ UNCHANGED <<clock, idem, log, crashes>>

Escalate(p) == proc[p].c \in HighRisk /\ EscalateFrom(p, "expire", "pending")

(* The close by timeout shared by _expire_card and _dead_letter_escalated. *)
TimeoutClose(p, at, expected, status) ==
  LET h == proc[p] IN
  /\ h.pc = at
  /\ CompareAndSet(h.c, expected, [h.seen EXCEPT !.status = status,
                      !.action = "reject", !.nonce = NewNonce(h.c)])
  /\ log' = [log EXCEPT ![h.c] = Append(@, [by |-> at, action |-> "reject",
                                            key |-> NoKey, tok |-> NoToken])]
  /\ To(p, Won(h, "closed"))
  /\ UNCHANGED <<clock, idem, issued, crashes>>

AutoRejectAny(p) == TimeoutClose(p, "expire", "pending", "auto_rejected")
AutoReject(p) == /\ proc[p].c \notin HighRisk
                 /\ TimeoutClose(p, "expire", "pending", "auto_rejected")

DeadLetter(p) == TimeoutClose(p, "bury", "escalated", "dead_letter")

(* A close that lost the race returns the card as it now is. *)
CloseLose(p) ==
  LET h == proc[p] IN
  /\ \/ h.pc = "expire" /\ card[h.c].status # "pending"
     \/ h.pc = "bury" /\ card[h.c].status # "escalated"
  /\ HandlerOnly(p, Reply(h, "conflict"))

(* The winner writes the audit record after its write to the store.  The
   append may raise, and nothing in HitlService catches it. *)
Audit(p) == /\ proc[p].pc = "audit"
            /\ HandlerOnly(p, [proc[p] EXCEPT !.pc = "post"])

AuditFail(p) == /\ proc[p].pc = "audit"
                /\ HandlerOnly(p, Reply(proc[p], "failed"))

(* The rest of a winner's handler (resume or deny) is HitlResume's; here it
   ends. *)
Finish(p) == /\ proc[p].pc = "post"
             /\ HandlerOnly(p, [proc[p] EXCEPT !.pc = "done"])

Return(p) == /\ proc[p].pc = "done"
             /\ HandlerOnly(p, Idle)

-----------------------------------------------------------------------------
(* Steps of a handler after its first read, and of the two kinds of handler. *)
Resume(p) == \/ ApplyTtl(p) \/ Escalate(p) \/ AutoReject(p) \/ DeadLetter(p)
             \/ CloseLose(p) \/ Audit(p) \/ AuditFail(p) \/ Return(p)

ClientStep(p) == \/ Request(p) \/ View(p) \/ CheckKey(p) \/ DecideWin(p)
                 \/ DecideLose(p) \/ Latest(p) \/ LatestKey(p) \/ Resume(p)

SweepStep(c) == Sweep(c) \/ List(c) \/ Resume(c)

Environment == \/ Tick
               \/ \E c \in Cards : Evict(c)
               \/ \E p \in Procs : Crash(p)

Next == \/ Environment
        \/ \E c \in Cards : Create(c)
        \/ \E p \in Clients : ClientStep(p)
        \/ \E c \in Cards : SweepStep(c)
        \/ \E p \in Procs : Finish(p)

Spec == Init /\ [][Next]_vars

(* The sweep loop of bootstrap restarts after every failure and time passes;
   clients owe nothing. *)
Fairness == /\ WF_vars(Tick)
            /\ \A c \in Cards : WF_vars(SweepStep(c) \/ Finish(c))

FairSpec == Spec /\ Fairness
-----------------------------------------------------------------------------
(* Properties *)

(* A card is decided at most once, by whichever handler's compare-and-set came
   first, and the stored card carries exactly that verdict and, for a click,
   the key that will recognise its retries (the CAS of _finalize_resolve,
   _expire_card and _dead_letter_escalated against one another). *)
SingleVerdict ==
  \A c \in Cards :
    /\ Len(log[c]) <= 1
    /\ card[c].status \in Terminal =>
         /\ Len(log[c]) = 1
         /\ card[c].action = log[c][1].action
         /\ card[c].status = "resolved" => idem[c] = log[c][1].key
    /\ card[c].status \in {"none", "pending", "escalated"} => log[c] = <<>>

(* A caller is told "replayed" only if the click that decided the card carried
   the caller's own idempotency key, although resolve reads the card and the key
   in two separate awaits, before the CAS and again after losing it. *)
ReplayFaithful ==
  \A p \in Procs : proc[p].out = "replayed" =>
    /\ log[proc[p].c] # <<>>
    /\ log[proc[p].c][1].by \in {"respond", "manage"}
    /\ log[proc[p].c][1].key = proc[p].key

(* A card that was handed to the managers is never decided by a click its owner
   still had in flight, a manager decides only with the manager's token, and once
   a card is closed no printed token fits it any more. *)
AuthorityMatches ==
  \A c \in Cards :
    /\ log[c] # <<>> =>
         /\ log[c][1].by = "respond" => \A t \in issued[c] : t.subject = "owner"
         /\ log[c][1].by = "manage" => log[c][1].tok.subject = "manager"
    /\ card[c].status \in Terminal =>
         \A t \in issued[c] : t.nonce # card[c].nonce

(* Concurrent expiries of one card (a reader, the sweep, a late click) hand it to
   the managers once: there is one manager token and one extension of the
   deadline. *)
OneEscalation ==
  \A c \in Cards : \A t, u \in issued[c] : t.subject = u.subject => t = u

(* A closed card never changes again; the store may only forget it. *)
TerminalFinal ==
  [][\A c \in Cards : card[c].status \in Terminal =>
        card'[c] \in {card[c], [card[c] EXCEPT !.status = "gone"]}]_card

(* The handlers implement the promise of HitlLifecycle. *)
LC == INSTANCE HitlLifecycle
        WITH status <- [c \in Cards |-> card[c].status],
             verdict <- [c \in Cards |-> IF log[c] = <<>> THEN "none"
                                         ELSE log[c][1].action]

LifecycleSpec == LC!Spec

(* Why the properties above survive a step: how each stored status fixes the
   card's nonce, tokens and verdict, and what a handler may still assume about
   the copy it read (its status may be old, but a nonce goes with a status). *)
OwnerToken == [subject |-> "owner", nonce |-> 0]
ManagerToken == [subject |-> "manager", nonce |-> 1]
NonceOf(status) == IF status = "pending" THEN 0 ELSE 1

CardOK(c) ==
  /\ card[c].status = "none" => issued[c] = {}
  /\ card[c].status = "pending" => issued[c] = {OwnerToken} /\ card[c].nonce = 0
  /\ card[c].status = "escalated" => c \in HighRisk /\ card[c].nonce = 1
  /\ issued[c] \subseteq {OwnerToken, ManagerToken}
  /\ card[c].status \in Terminal => \A t \in issued[c] : t.nonce < card[c].nonce

VerdictOK(c) ==
  /\ card[c].status \in {"none", "pending", "escalated"} => log[c] = <<>>
  /\ card[c].status \in Terminal => Len(log[c]) = 1 /\ card[c].action = log[c][1].action
  /\ card[c].status = "resolved" => idem[c] = log[c][1].key
  /\ Len(log[c]) <= 1
  /\ log[c] # <<>> =>
       /\ log[c][1].by \in {"respond", "manage", "expire", "bury"}
       /\ log[c][1].by = "respond" => issued[c] \subseteq {OwnerToken}
       /\ log[c][1].by = "manage" => log[c][1].tok = ManagerToken
       /\ log[c][1].by \in {"expire", "bury"} => idem[c] = NoKey
  /\ idem[c] # NoKey => log[c] # <<>> /\ log[c][1].key = idem[c]

HandlerOK(h) ==
  /\ h.pc \in {"key", "cas", "latest", "latestKey"} =>
       h.op \in {"respond", "manage"} /\ h.key \in Keys /\ h.action \in Actions
  /\ h.pc \in {"key", "apply", "cas", "expire", "bury"} =>
       \/ h.seen.status \notin {"pending", "escalated"}
       \/ h.seen.nonce = NonceOf(h.seen.status)
  /\ h.pc = "apply" => h.seen.status \in {"pending", "escalated"}
  /\ h.pc = "cas" => /\ h.seen.status = Expected(h.op)
                     /\ h.tok = TokenOf(h.seen, Subject(h.op))
  /\ h.pc = "expire" => h.seen.status = "pending"
  /\ h.pc = "bury" => h.seen.status = "escalated"
  /\ h.out = "replayed" => /\ log[h.c] # <<>>
                           /\ log[h.c][1].by \in {"respond", "manage"}
                           /\ log[h.c][1].key = h.key

IInv == /\ TypeOK
        /\ \A c \in Cards : CardOK(c) /\ VerdictOK(c)
        /\ \A p \in Procs : HandlerOK(proc[p])

(* The sweep closes every card whose owner and managers stay silent, unless the
   model's clock stops before the deadline. *)
EveryCardCloses ==
  \A c \in Cards :
    card[c].status = "pending" ~>
      \/ card[c].status \in Terminal \cup {"gone"}
      \/ card[c].expires > MaxClock
=============================================================================
