--------------------------- MODULE ParkedMutation ---------------------------
(***************************************************************************)
(* Writes that wait for a human outside the graph: memory save, forget and *)
(* extract, attachment index, restore and analyze, document ingest.  A     *)
(* request parks the payload of the write under a task id, in Redis with a *)
(* TTL and in a dictionary of the worker process, and mints a card; the    *)
(* click that decides the card executes or drops the payload, in whatever  *)
(* worker process serves it (HitlRespondFacade).                           *)
(*                                                                         *)
(* The card itself is the abstract one of HitlLifecycle, which HitlCard    *)
(* implements.  These cards carry HitlRiskPolicy.for_mcp_tool, above the   *)
(* escalation threshold, so all of them are high-risk.  What a parsed      *)
(* payload contains does not matter here, and a task's failures (MCP error *)
(* outcome, wrong attachment status) are the fault "tool".                 *)
(*                                                                         *)
(* The services behind document, extraction and attachment writes are      *)
(* optional: a process may be without the one that a card belongs to, when *)
(* the processes are configured differently or one restarts with other     *)
(* settings while cards and payloads wait in Redis.                        *)
(*                                                                         *)
(* ToRunAny, LoadOrSkip and DropLocal are wrong variants of the definition *)
(* that follows them; no action uses them.                                 *)
(***************************************************************************)
EXTENDS Naturals, FiniteSets

CONSTANTS Tasks,       \* parked writes, each with a card of its own
          Commits,     \* the tasks that commit the prepared document Doc
          Doc,         \* the key a prepared document is parked under
          Workers,     \* server processes
          Serves,      \* [Workers -> SUBSET Tasks]: whose service a process has
          Clicks,      \* concurrent respond handlers
          CardTtl, ManagerTtl,  \* deadlines, in ticks of five minutes
          PayloadTtl,  \* [Tasks \cup {Doc} -> ticks]
          MaxTime,     \* bound: the clock stops here
          Faults       \* which failures happen: "audit", "tool", "crash"

ASSUME TasksAssumption == /\ Commits \subseteq Tasks /\ Doc \notin Tasks
                          /\ Tasks # {} /\ Workers # {}
                          /\ Serves \in [Workers -> SUBSET Tasks]
                          /\ Faults \subseteq {"audit", "tool", "crash"}
ASSUME TimeAssumption == /\ CardTtl \in Nat \ {0} /\ ManagerTtl \in Nat \ {0}
                         /\ PayloadTtl \in [Tasks \cup {Doc} -> Nat \ {0}]
                         /\ MaxTime \in Nat

VARIABLES now,      \* the clock
          status, verdict,  \* the cards, see HitlLifecycle
          deadline, \* [Tasks -> Nat]: when a card's present holder is too late
          shared,   \* [Keys -> Nat]: when a payload in Redis expires, 0 if absent
          local,    \* [Workers -> SUBSET Keys]: the dictionary of each process
          req,      \* [Tasks -> Request]: the handler that parks and mints
          click,    \* [Clicks -> Click]: the handlers that answer a card
          runs      \* [Tasks -> Nat]: how often the write was sent to its tool

cards == <<status, verdict, deadline>>
store == <<shared, local>>
vars == <<now, cards, store, req, click, runs>>

Keys == Tasks \cup {Doc}
Actions == {"approve", "reject"}
Request == [pc : {"idle", "parked", "minted", "moved", "done", "failed"}, w : Workers]
Click == [pc : {"idle", "resolved", "fetch", "drop", "loaded", "called",
                "done", "missing", "raised", "lost"},
          t : Tasks, w : Workers, by : {"owner", "manager"},
          action : Actions, replayed : BOOLEAN]

(* A handler that has not begun: everything but pc is irrelevant. *)
NoWorker == CHOOSE w \in Workers : TRUE
NoClick == [pc |-> "idle", t |-> CHOOSE t \in Tasks : TRUE, w |-> NoWorker,
            by |-> "owner", action |-> "reject", replayed |-> FALSE]

L == INSTANCE HitlLifecycle WITH Cards <- Tasks, HighRisk <- Tasks

TypeOK == /\ now \in Nat
          /\ status \in [Tasks -> L!Status]
          /\ verdict \in [Tasks -> L!Verdicts]
          /\ deadline \in [Tasks -> Nat]
          /\ shared \in [Keys -> Nat]
          /\ local \in [Workers -> SUBSET Keys]
          /\ req \in [Tasks -> Request]
          /\ click \in [Clicks -> Click]
          /\ runs \in [Tasks -> Nat]

Init == /\ now = 0
        /\ L!Init
        /\ deadline = [t \in Tasks |-> 0]
        /\ shared = [x \in Keys |-> 0]
        /\ local = [w \in Workers |-> {}]
        /\ req = [t \in Tasks |-> [pc |-> "idle", w |-> NoWorker]]
        /\ click = [k \in Clicks |-> NoClick]
        /\ runs = [t \in Tasks |-> 0]

-----------------------------------------------------------------------------
(* The two places a payload is parked in. *)

InRedis(x) == now < shared[x]
Found(x, w) == InRedis(x) \/ x \in local[w]

Store(x) == shared' = [shared EXCEPT ![x] = now + PayloadTtl[x]]
Cache(x, w) == local' = [local EXCEPT ![w] = @ \cup {x}]

(* _load_pending reads Redis first and keeps what it read. *)
Load(x, w) == /\ Found(x, w)
              /\ Cache(x, w)
              /\ UNCHANGED shared

(* _delete_pending reaches Redis and the dictionary of this process only. *)
DropLocal(x, w) == /\ local' = [local EXCEPT ![w] = @ \ {x}]
                   /\ UNCHANGED shared
Drop(x, w) == /\ local' = [local EXCEPT ![w] = @ \ {x}]
              /\ shared' = [shared EXCEPT ![x] = 0]

-----------------------------------------------------------------------------
(* Requests. *)

Await(t, pc) == req' = [req EXCEPT ![t].pc = pc]
Begin(t, w) == /\ req[t].pc = "idle"
               /\ req' = [req EXCEPT ![t] = [pc |-> "parked", w |-> w]]

(* request_save and its like: the payload is parked before the card exists.
   The routes answer 503 in a process that has not got the service. *)
Park(t, w) == /\ t \notin Commits /\ t \in Serves[w] /\ Begin(t, w)
              /\ Store(t) /\ Cache(t, w)
              /\ UNCHANGED <<now, cards, click, runs>>

(* DocumentIngestService.prepare_chunks parks the document, in Redis only. *)
Prepare == /\ \E w \in Workers : Commits \cap Serves[w] # {}
           /\ shared[Doc] = 0 /\ \A t \in Commits : req[t].pc = "idle"
           /\ Store(Doc)
           /\ UNCHANGED <<now, cards, local, req, click, runs>>

(* request_commit first loads the prepared document, *)
LoadPrepared(t, w) == /\ t \in Commits /\ t \in Serves[w] /\ Begin(t, w)
                      /\ Load(Doc, w)
                      /\ UNCHANGED <<now, cards, click, runs>>

(* create_tool_approval_card stores the card and then writes an audit record,
   whose failure ends the request; or it refuses for want of an organisation. *)
Mint(t) == /\ req[t].pc = "parked"
           /\ L!Mint(t)
           /\ deadline' = [deadline EXCEPT ![t] = now + CardTtl]
           /\ \/ Await(t, IF t \in Commits THEN "minted" ELSE "done")
              \/ "audit" \in Faults /\ Await(t, "failed")
           /\ UNCHANGED <<now, store, click, runs>>

MintRefused(t) == /\ req[t].pc = "parked" /\ Await(t, "failed")
                  /\ UNCHANGED <<now, cards, store, click, runs>>

(* and only when the card is there moves the payload to the card's task. *)
MoveOut(t) == /\ req[t].pc = "minted"
              /\ Drop(Doc, req[t].w) /\ Await(t, "moved")
              /\ UNCHANGED <<now, cards, click, runs>>

MoveIn(t) == /\ req[t].pc = "moved"
             /\ Store(t) /\ Await(t, "done")
             /\ UNCHANGED <<now, cards, local, click, runs>>

-----------------------------------------------------------------------------
(* HitlRespondFacade.respond. *)

Goto(k, pc) == click' = [click EXCEPT ![k].pc = pc]

Holder(t) == IF status[t] = "escalated" THEN "manager" ELSE "owner"

(* The click wins the card: HitlService.resolve or resolve_escalated. *)
Win(k, t, w, a) ==
  /\ click[k].pc = "idle"
  /\ status[t] \in {"pending", "escalated"} /\ now < deadline[t]
  /\ L!Close(t, status[t], "resolved", a)
  /\ click' = [click EXCEPT ![k] = [pc |-> "resolved", t |-> t, w |-> w,
                 by |-> Holder(t), action |-> a, replayed |-> FALSE]]
  /\ UNCHANGED <<now, deadline, store, req, runs>>

(* A retry with the key that won: the card is answered again.  The action in
   its body is not compared with the one that won, and who sends it makes no
   difference from here on. *)
Replay(k, t, w, a) ==
  /\ click[k].pc = "idle" /\ status[t] = "resolved"
  /\ click' = [click EXCEPT ![k] = [pc |-> "resolved", t |-> t, w |-> w,
                 by |-> "owner", action |-> a, replayed |-> TRUE]]
  /\ UNCHANGED <<now, cards, store, req, runs>>

(* Only the click that won goes on, and by the action in its own body.  Where the
   process has not got the service, _resolve_pending_mutation returns and the click
   is answered like any other, with nothing run or dropped. *)
Served(k) == click[k].t \in Serves[click[k].w]
ToRunAny(k) == IF ~Served(k) THEN "done"
               ELSE IF click[k].action = "approve" THEN "fetch" ELSE "drop"
ToRun(k) == IF click[k].replayed \/ ~Served(k) THEN "done"
            ELSE IF click[k].action = "approve" THEN "fetch" ELSE "drop"

Resume(k) == /\ click[k].pc = "resolved" /\ Goto(k, ToRun(k))
             /\ UNCHANGED <<now, cards, store, req, runs>>

(* The audit record of the resolve is written after the card is closed, and
   its failure is not caught. *)
AuditRaises(k) == /\ "audit" \in Faults
                  /\ click[k].pc = "resolved" /\ ~click[k].replayed
                  /\ Goto(k, "raised")
                  /\ UNCHANGED <<now, cards, store, req, runs>>

(* execute_after_approval: load, *)
LoadOrSkip(k) == /\ click[k].pc = "fetch"
                 /\ \/ Load(click[k].t, click[k].w) /\ Goto(k, "loaded")
                    \/ /\ ~Found(click[k].t, click[k].w)
                       /\ Goto(k, "done") /\ UNCHANGED store
                 /\ UNCHANGED <<now, cards, req, runs>>
Fetch(k) == /\ click[k].pc = "fetch"
            /\ \/ Load(click[k].t, click[k].w) /\ Goto(k, "loaded")
               \/ /\ ~Found(click[k].t, click[k].w)
                  /\ Goto(k, "missing") /\ UNCHANGED store
            /\ UNCHANGED <<now, cards, req, runs>>

(* send the write, which may raise and leave the payload where it is, *)
Call(k) == /\ click[k].pc = "loaded"
           /\ runs' = [runs EXCEPT ![click[k].t] = @ + 1]
           /\ \/ Goto(k, "called")
              \/ "tool" \in Faults /\ Goto(k, "raised")
           /\ UNCHANGED <<now, cards, store, req>>

(* and drop the payload; a refused card comes here at once. *)
Discard(k) == /\ click[k].pc \in {"called", "drop"}
              /\ Drop(click[k].t, click[k].w) /\ Goto(k, "done")
              /\ UNCHANGED <<now, cards, req, runs>>

-----------------------------------------------------------------------------
(* The environment. *)

Tick == /\ now < MaxTime /\ now' = now + 1
        /\ UNCHANGED <<cards, store, req, click, runs>>

(* A reader or the sweep finds a card past its deadline.  The denial that
   follows a dead letter finds no paused turn under the task and ends. *)
Expire(t) == /\ now >= deadline[t]
             /\ \/ /\ L!Escalate(t)
                   /\ deadline' = [deadline EXCEPT ![t] = now + ManagerTtl]
                \/ /\ L!DeadLetter(t)
                   /\ UNCHANGED deadline
             /\ UNCHANGED <<now, store, req, click, runs>>

(* A process dies with its dictionary and the handlers it was running. *)
Crash(w) ==
  /\ "crash" \in Faults
  /\ local' = [local EXCEPT ![w] = {}]
  /\ req' = [t \in Tasks |->
       IF req[t].w = w /\ req[t].pc \in {"parked", "minted", "moved"}
       THEN [req[t] EXCEPT !.pc = "failed"] ELSE req[t]]
  /\ click' = [k \in Clicks |->
       IF click[k].w = w /\ click[k].pc \in {"resolved", "fetch", "drop", "loaded", "called"}
       THEN [click[k] EXCEPT !.pc = "lost"] ELSE click[k]]
  /\ UNCHANGED <<now, cards, shared, runs>>

RequestStep(t) == \/ \E w \in Workers : Park(t, w) \/ LoadPrepared(t, w)
                  \/ Mint(t) \/ MintRefused(t) \/ MoveOut(t) \/ MoveIn(t)
ClickStep(k) == \/ Resume(k) \/ AuditRaises(k) \/ Fetch(k) \/ Call(k) \/ Discard(k)
Next == \/ Prepare \/ Tick
        \/ \E t \in Tasks : RequestStep(t) \/ Expire(t)
        \/ \E k \in Clicks, t \in Tasks, w \in Workers, a \in Actions :
              Win(k, t, w, a) \/ Replay(k, t, w, a)
        \/ \E k \in Clicks : ClickStep(k)
        \/ \E w \in Workers : Crash(w)

Spec == Init /\ [][Next]_vars

-----------------------------------------------------------------------------
(* What the parking is for. *)

Won(k) == click[k].pc # "idle" /\ ~click[k].replayed

(* However many clicks, retries and processes there are, an approved write is
   sent to its tool at most once. *)
AtMostOnce == \A t \in Tasks : runs[t] <= 1

(* A write is sent only for a card that a human resolved with approve: not for
   one that was refused, that ran out, or whose retry carries another action. *)
OnlyApproved == \A t \in Tasks :
  runs[t] > 0 => status[t] = "resolved" /\ verdict[t] = "approve"

(* The inductive invariant: a click that won holds the verdict of its card,
   alone; what it has done by its pc is what runs counts. *)
WinnerHoldsVerdict == \A k \in Clicks : Won(k) =>
  status[click[k].t] = "resolved" /\ verdict[click[k].t] = click[k].action
OneWinner == \A j, k \in Clicks :
  Won(j) /\ Won(k) /\ click[j].t = click[k].t => j = k
ReplayStops == \A k \in Clicks :
  click[k].replayed => click[k].pc \in {"idle", "resolved", "done", "lost"}
FollowsVerdict == \A k \in Clicks :
  /\ click[k].pc \in {"fetch", "loaded", "missing", "called"} => click[k].action = "approve"
  /\ click[k].pc = "drop" => click[k].action = "reject"
NotYetRun == \A k \in Clicks :
  Won(k) /\ click[k].pc \in {"resolved", "fetch", "drop", "loaded", "missing"}
    => runs[click[k].t] = 0
HasRun == \A k \in Clicks :
  Won(k) /\ Served(k) /\ click[k].action = "approve" /\ click[k].pc \in {"called", "done"}
    => runs[click[k].t] = 1
IInv == /\ TypeOK /\ WinnerHoldsVerdict /\ OneWinner /\ ReplayStops
        /\ FollowsVerdict /\ NotYetRun /\ HasRun /\ AtMostOnce /\ OnlyApproved

(* An approval that is answered with success by a process that has the service was
   sent: a payload that ran out or was never moved is an error (a retry answers for
   the first).  A process without the service ends quietly with nothing done. *)
SuccessMeansRun == \A k \in Clicks :
  Won(k) /\ Served(k) /\ click[k].pc = "done" /\ click[k].action = "approve"
    => runs[click[k].t] = 1

(* When a refusal is answered by a process that has the service, the payload is gone
   from the store all processes share.  A document being committed is exempt: its
   payload may be parked after its card is refused. *)
RefusedIsDropped == \A k \in Clicks :
  Won(k) /\ Served(k) /\ click[k].pc = "done" /\ click[k].action = "reject"
    => click[k].t \in Commits \/ ~InRedis(click[k].t)
=============================================================================
