--------------------------- MODULE ToolInterrupt ---------------------------
(***************************************************************************)
(* One turn that wants to call a tool which needs a human's approval.  The *)
(* researcher raises an interrupt, the graph library keeps the turn in a   *)
(* checkpoint, IntentHitlFlow mints a card, and whoever closes the card    *)
(* resumes the turn: the click that decides it, or the system, which       *)
(* denies when the card ran out or when a resume failed.  A resumed turn   *)
(* may be sent back by the critic and ask again, with a card of its own.   *)
(* Nothing ties a resume to a question: it answers the one it finds.       *)
(*                                                                         *)
(* The cards are those of HitlLifecycle.  A question and its card have the *)
(* same number.  Of the library we assume what src/ relies on: a paused    *)
(* turn stays paused until the resumed worker's step is committed, and to  *)
(* resume a turn that is not paused has no effect.                         *)
(*                                                                         *)
(* NotRunning, FailRetries, EscalateDenies, ExpireSilent and ClickApprove  *)
(* are wrong variants of a later definition; nothing uses them.            *)
(***************************************************************************)
EXTENDS Naturals

CONSTANTS MaxRevisions,  \* max_quality_revisions
          MaxAsks,       \* bound: questions a turn may raise
          MaxFaults,     \* bound: handlers that raise or are lost
          Risky          \* the questions of high risk, which managers see

ASSUME InterruptAssumption == /\ MaxRevisions \in Nat /\ MaxAsks \in Nat
                              /\ MaxFaults \in Nat

Asks == 1..MaxAsks
Runs == 0..MaxAsks  \* 0 is the turn's request, k whoever closed card k
Actions == {"approve", "reject"}

VARIABLES turn,             \* the checkpoint
          asks,             \* questions raised so far
          status, verdict,  \* the cards, see HitlLifecycle
          run,
          faults,
          calls,    \* [Asks -> Nat]: tool calls sent on the approval of a card
          ignored,  \* questions that no card or handler will answer: a denial
                    \* raised them, their card was refused, a handler was lost
          unasked,  \* a call was sent for a question on another one's card
          exposed   \* a resume failed after it had minted the next card

cards == <<status, verdict>>
history == <<calls, ignored, unasked, exposed>>
vars == <<turn, asks, cards, run, faults, history>>

Turn == [at : {"running", "paused", "ended"}, ask : Nat, revisions : Nat]
Run == [pc : {"idle", "read", "load", "worker", "commit", "critic", "ask",
              "mint", "record", "done"},
        by : {"turn", "click", "system"}, says : Actions,
        ask : Nat, revisions : Nat]
NoRun == [pc |-> "idle", by |-> "system", says |-> "reject", ask |-> 0, revisions |-> 0]
Request == [NoRun EXCEPT !.pc = "ask", !.by = "turn"]

L == INSTANCE HitlLifecycle WITH Cards <- Asks, HighRisk <- Risky

TypeOK == /\ turn \in Turn /\ asks \in 0..MaxAsks
          /\ status \in [Asks -> L!Status] /\ verdict \in [Asks -> L!Verdicts]
          /\ run \in [Runs -> Run] /\ faults \in Nat
          /\ calls \in [Asks -> Nat] /\ ignored \subseteq Nat
          /\ unasked \in BOOLEAN /\ exposed \in BOOLEAN

Init == /\ turn = [at |-> "running", ask |-> 0, revisions |-> 0]
        /\ asks = 0
        /\ L!Init
        /\ run = [r \in Runs |-> IF r = 0 THEN Request ELSE NoRun]
        /\ faults = 0
        /\ calls = [k \in Asks |-> 0]
        /\ ignored = {} /\ unasked = FALSE /\ exposed = FALSE

At(r, pc) == run[r].pc = pc
Goto(r, pc) == run' = [run EXCEPT ![r].pc = pc]
Paused == turn.at = "paused"
NotRunning == turn.at # "running"
(* snapshot_awaits_resume: the checkpoint holds an interrupt. *)
AwaitsResume == Paused
Open(k) == status[k] \in {"pending", "escalated"}

-----------------------------------------------------------------------------
(* The graph, run by the request or by a resume. *)

(* A worker that has no decision yet builds the arguments and interrupts.  The
   system, when it denies, does not look at what the run returned. *)
Ask(r) ==
  /\ At(r, "ask") /\ asks < MaxAsks
  /\ asks' = asks + 1
  /\ turn' = [at |-> "paused", ask |-> asks + 1, revisions |-> run[r].revisions]
  /\ run' = [run EXCEPT ![r].ask = asks + 1,
                        ![r].pc = IF run[r].by = "system" THEN "record" ELSE "mint"]
  /\ ignored' = IF run[r].by = "system" THEN ignored \cup {asks + 1} ELSE ignored
  /\ UNCHANGED <<cards, faults, calls, unasked, exposed>>

(* No tool is bound, the arguments do not validate, or the worker's own
   exception handler swallows the interrupt: the worker fails unasked. *)
NoQuestion(r) ==
  /\ At(r, "ask")
  /\ Goto(r, "critic")
  /\ UNCHANGED <<turn, asks, cards, faults, history>>

(* The resumed worker builds its arguments again, which may fail too, takes the
   decision as the answer to its question and calls the tool. *)
Work(r) ==
  /\ At(r, "worker")
  /\ \/ /\ run[r].says = "approve"
        /\ calls' = [calls EXCEPT ![r] = @ + 1]
        /\ unasked' = (unasked \/ run[r].ask # r)
     \/ UNCHANGED <<calls, unasked>>
  /\ Goto(r, "commit")
  /\ UNCHANGED <<turn, asks, cards, faults, ignored, exposed>>

Commit(r) ==
  /\ At(r, "commit")
  /\ turn' = [at |-> "running", ask |-> 0, revisions |-> run[r].revisions]
  /\ Goto(r, "critic")
  /\ UNCHANGED <<asks, cards, faults, history>>

(* The critic lets the draft pass to the formatter, or sends it back. *)
Pass(r) ==
  /\ At(r, "critic")
  /\ turn' = [turn EXCEPT !.at = "ended"]
  /\ Goto(r, "record")
  /\ UNCHANGED <<asks, cards, faults, history>>
Revise(r) ==
  /\ At(r, "critic") /\ run[r].revisions < MaxRevisions
  /\ run' = [run EXCEPT ![r].pc = "ask", ![r].revisions = @ + 1]
  /\ UNCHANGED <<turn, asks, cards, faults, history>>

-----------------------------------------------------------------------------
(* What the handlers do around a run of the graph. *)

Read(r) ==
  /\ At(r, "read")
  /\ Goto(r, IF AwaitsResume THEN "load" ELSE "done")
  /\ UNCHANGED <<turn, asks, cards, faults, history>>

(* ainvoke takes the checkpoint as it is now. *)
Load(r) ==
  /\ At(r, "load")
  /\ IF AwaitsResume
     THEN run' = [run EXCEPT ![r].pc = "worker", ![r].ask = turn.ask,
                             ![r].revisions = turn.revisions]
     ELSE Goto(r, "record")
  /\ UNCHANGED <<turn, asks, cards, faults, history>>

Mint(r) ==
  /\ At(r, "mint")
  /\ L!Mint(run[r].ask)
  /\ Goto(r, "record")
  /\ UNCHANGED <<turn, asks, faults, history>>

(* Without an organisation no manager could take a risky card: none is minted,
   and the answer says that the tool was not executed. *)
Refuse(r) ==
  /\ At(r, "mint") /\ run[r].ask \in Risky
  /\ ignored' = ignored \cup {run[r].ask}
  /\ Goto(r, "done")
  /\ UNCHANGED <<turn, asks, cards, faults, calls, unasked, exposed>>

(* The dialog, the scratchpad, the session and the audit log. *)
Record(r) ==
  /\ At(r, "record")
  /\ Goto(r, "done")
  /\ UNCHANGED <<turn, asks, cards, faults, history>>

(* The question r would have dealt with. *)
Drops(r) == CASE run[r].pc \in {"read", "load"} -> IF Paused THEN {turn.ask} ELSE {}
              [] run[r].pc \in {"worker", "commit", "mint"} -> {run[r].ask}
              [] OTHER -> {}
Minted(r) == /\ At(r, "record") /\ run[r].ask \in Asks \ {r}
             /\ status[run[r].ask] # "none"

(* The kill switch, a node or a store raises: the facade denies the turn that a
   click was to resume; the request and the system end there. *)
Failing(r, denies, says) ==
  /\ run[r].pc \notin {"idle", "done"}
  /\ faults < MaxFaults /\ faults' = faults + 1
  /\ run' = [run EXCEPT ![r].pc = IF denies THEN "read" ELSE "done",
                        ![r].by = IF denies THEN "system" ELSE @,
                        ![r].says = says]
  /\ exposed' = (exposed \/ (denies /\ Minted(r)))
  /\ ignored' = IF denies THEN ignored ELSE ignored \cup Drops(r)
  /\ UNCHANGED <<turn, asks, cards, calls, unasked>>
FailRetries(r) == Failing(r, run[r].by = "click", run[r].says)
Fail(r) == Failing(r, run[r].by = "click", "reject")

Crash(r) ==
  /\ run[r].pc \notin {"idle", "done"}
  /\ faults < MaxFaults /\ faults' = faults + 1
  /\ Goto(r, "done")
  /\ ignored' = ignored \cup Drops(r)
  /\ UNCHANGED <<turn, asks, cards, calls, unasked, exposed>>

-----------------------------------------------------------------------------
(* The cards, and who resumes the turn when one is closed. *)

Starts(k, by, says) ==
  run' = [run EXCEPT ![k] = [NoRun EXCEPT !.pc = "read", !.by = by, !.says = says]]

ClickApprove(k) ==
  \E a \in Actions :
     /\ \E from \in {"pending", "escalated"} : L!Close(k, from, "resolved", a)
     /\ IF a = "approve" THEN Starts(k, "click", a) ELSE UNCHANGED run
     /\ UNCHANGED <<turn, asks, faults, history>>
Click(k) ==
  \E a \in Actions :
     /\ \E from \in {"pending", "escalated"} : L!Close(k, from, "resolved", a)
     /\ Starts(k, "click", a)
     /\ UNCHANGED <<turn, asks, faults, history>>

EscalateDenies(k) == /\ L!Escalate(k)
                     /\ Starts(k, "system", "reject")
                     /\ UNCHANGED <<turn, asks, faults, history>>
Escalate(k) == /\ L!Escalate(k)
               /\ UNCHANGED <<turn, asks, run, faults, history>>

ExpireSilent(k) == /\ L!AutoReject(k) \/ L!DeadLetter(k)
                   /\ UNCHANGED <<turn, asks, run, faults, history>>
Expire(k) == /\ L!AutoReject(k) \/ L!DeadLetter(k)
             /\ Starts(k, "system", "reject")
             /\ UNCHANGED <<turn, asks, faults, history>>

-----------------------------------------------------------------------------
Handle(r) == \/ Ask(r) \/ NoQuestion(r) \/ Work(r) \/ Commit(r)
             \/ Pass(r) \/ Revise(r)
             \/ Read(r) \/ Load(r) \/ Mint(r) \/ Refuse(r) \/ Record(r)

Next == \/ \E r \in Runs : Handle(r)
        \/ \E r \in Runs : Fail(r)
        \/ \E r \in Runs : Crash(r)
        \/ \E k \in Asks : Click(k)
        \/ \E k \in Asks : Escalate(k)
        \/ \E k \in Asks : Expire(k)

(* Handlers run on; the sweep reaches every card that nobody answers. *)
Fairness == /\ \A r \in Runs : WF_vars(Handle(r))
            /\ \A k \in Asks : WF_vars(Escalate(k)) /\ WF_vars(Expire(k))

Spec == Init /\ [][Next]_vars
FairSpec == Spec /\ Fairness

-----------------------------------------------------------------------------
(* A click sends its tool call at most once, and only if it approves, whatever
   fails and is compensated (mcp_path.py, HitlRespondFacade). *)
OneCallPerApproval == \A k \in Asks : calls[k] <= IF verdict[k] = "approve" THEN 1 ELSE 0

(* No call is sent for a question on the card of another one, unless a resume
   failed after it had minted a card and denied the turn with that card open. *)
OnlyAskedIsSent == unasked => exposed

(* A turn asks at most once for each pass of the worker that the critic may order,
   however resumes fail and are repeated (_MAX_QUALITY_REVISIONS). *)
AsksBounded == exposed \/ asks <= 1 + MaxRevisions

(* A paused turn has an open card, or a handler that will deal with its question,
   or the question is one that a denial raised, that was refused a card or whose
   handler was lost. *)
OnItsWay(k) == \E r \in Runs : \/ run[r].pc \in {"read", "load"}
                               \/ run[r].ask = k /\ run[r].pc \in {"worker", "commit", "mint"}
Attended == Paused => Open(turn.ask) \/ OnItsWay(turn.ask) \/ turn.ask \in ignored

(* A turn that has answered is not paused or run again by a late resume. *)
AnswerStands == [][turn.at = "ended" => turn'.at = "ended" \/ exposed]_vars

(* Every question that was given a card is settled: by a click, or by the deadline
   of its card (_maybe_deny_resume_interrupt). *)
Waits(k) == Paused /\ turn.ask = k
Settles == \A k \in Asks : Waits(k) ~> (~Waits(k) \/ k \in ignored)

-----------------------------------------------------------------------------
(* The inductive invariant.  Closing a card starts its run; a card is new until
   its question has been raised. *)
Closed(k) == status[k] \in L!Terminal
Numbering == /\ \A k \in Asks : /\ run[k].pc # "idle" => Closed(k)
                                /\ k > asks => status[k] = "none"
             /\ Paused => turn.ask \in 1..asks
             /\ turn.revisions <= MaxRevisions
             /\ \A r \in Runs : run[r].ask <= asks /\ run[r].revisions <= MaxRevisions

(* The verdict a run carries is that of its card, and it was not used before. *)
Approvals == /\ run[0].says = "reject" /\ run[0].by # "click"
             /\ \A k \in Asks :
                  /\ calls[k] > 0 => verdict[k] = "approve" /\ calls[k] = 1
                  /\ run[k].says = "approve" =>
                        /\ run[k].by = "click" /\ verdict[k] = "approve"
                        /\ run[k].pc \in {"read", "load", "worker"} => calls[k] = 0

(* While no resume was exposed one run at a time acts on the checkpoint, and none
   does while a card is open. *)
Acting(r) == run[r].pc \notin {"idle", "done"} /\ ~Minted(r)
Holds(r) == Paused /\ turn.ask = run[r].ask /\ turn.revisions = run[r].revisions
Stage(r) == /\ run[r].pc \in {"worker", "commit"} => Holds(r)
            /\ run[r].pc = "mint" => /\ Holds(r) /\ run[r].ask \in Asks
                                     /\ status[run[r].ask] = "none"
            /\ run[r].pc \in {"critic", "ask"} => turn.at = "running"
            /\ run[r].pc = "critic" => asks <= run[r].revisions + 1
            /\ run[r].pc = "ask" => asks <= run[r].revisions
            /\ run[r].by = "click" /\ run[r].pc \in {"read", "load", "worker"} => Waits(r)
Calm == /\ \A r, s \in Runs : Acting(r) /\ Acting(s) => r = s
        /\ \A r \in Runs : Acting(r) => \A k \in Asks : ~Open(k)
        /\ \A k \in Asks : Open(k) => Waits(k)
        /\ Paused => asks <= turn.revisions + 1
        /\ \A r \in Runs : Stage(r)
        /\ ~unasked
        /\ asks <= 1 + MaxRevisions

IInv == TypeOK /\ Numbering /\ Approvals /\ Attended /\ (exposed \/ Calm)
=============================================================================
