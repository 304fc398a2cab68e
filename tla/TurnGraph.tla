----------------------------- MODULE TurnGraph -----------------------------
(***************************************************************************)
(* One turn on its way through the graph of agents: the planner chooses    *)
(* who drafts the answer, the workers draft it, the critic passes it or    *)
(* sends it back, the formatter publishes it.  The turn starts here when   *)
(* it has been classified, continued and routed.  A worker may retrieve or *)
(* call a tool first; what that call brought decides whether the turn      *)
(* answers, answers with a disclaimer, asks the user for a source or says  *)
(* that nothing was found, and whether it may be revised.                  *)
(*                                                                         *)
(* The drafts, the critic's opinion and what tools find are chosen freely; *)
(* found and drafter remember the past for the properties.                 *)
(*                                                                         *)
(* MergeDrops, ResearchUnasked, TerminalEmpty, AfterRevisionSwapped and    *)
(* ReviseUncounted are wrong variants of a later definition; nothing uses  *)
(* them.                                                                   *)
(***************************************************************************)
EXTENDS Naturals

CONSTANTS MaxRevisions,   \* max_quality_revisions
          RecursionLimit  \* GRAPH_RECURSION_LIMIT: nodes run in one invocation

(* Three nodes before the planner, three after it, and three for each revision. *)
ASSUME TurnAssumption == /\ MaxRevisions \in Nat /\ RecursionLimit \in Nat
                         /\ 7 + 3 * MaxRevisions <= RecursionLimit

VARIABLES turn,       \* what the intent, the continuity policy and the entry decided
          at,         \* the node to run next, or how the turn ended
          plan,
          execution,  \* what the workers made
          clarify,    \* requires_clarification
          revisions, steps,
          formatted,  \* what the formatter published
          calls,      \* tool calls sent
          found,      \* what the last call brought
          drafter     \* the node that made the execution

vars == <<turn, at, plan, execution, clarify, revisions, steps, formatted, calls, found, drafter>>

(* multi_step_workflow and tool_execution count as knowledge: the planner treats
   the three alike.  bound says whether a capability can be discovered. *)
Turn == [kind : {"knowledge", "discovery", "formatting", "social", "clarification"},
         caps : SUBSET {"research", "analysis", "code", "generation"},
         mcp : BOOLEAN, bound : BOOLEAN,
         source : {"none", "attachment", "prior"},
         grounding : {"required", "optional", "none"}, adaptive : BOOLEAN]

Tooled == {"direct_tool_call", "retrieve_then_reason"}
ResearcherStrategies == Tooled \cup {"reason_only"}
WorkerStrategies == ResearcherStrategies \cup {"code_sandbox", "data_analysis"}
Plan == [strategy : WorkerStrategies \cup {"clarify", "format_only"}, parallel : BOOLEAN]

(* The errors of several workers are joined into one string, here a set: only a
   string of one error is recognised.  "ungrounded" is prose the model wrote
   after its retrieval came back empty. *)
Execution == [errors : SUBSET {"empty", "tool_error", "required_empty", "other"},
              text : SUBSET {"draft", "grounded", "ungrounded", "notice", "question"},
              degraded : BOOLEAN, cannot : BOOLEAN]
Nothing == [errors |-> {}, text |-> {}, degraded |-> FALSE, cannot |-> FALSE]

Workers == {"researcher", "coder", "analyst", "parallel_workers"}
Nodes == Workers \cup {"weaving", "critic", "quality_revision", "formatter"}
(* What the formatter published, whether the text it was handed began with the
   disclaimer and whether the published one does.  A copied text is what the formatter
   was handed; a rewritten one is the model's. *)
Formatted == [what : {"none", "question", "stub", "copied", "rewritten", "failed"},
              handed : BOOLEAN, shown : BOOLEAN]

TypeOK == /\ turn \in Turn /\ plan \in Plan /\ execution \in Execution
          /\ at \in Nodes \cup {"done", "failed", "cut_off"}
          /\ clarify \in BOOLEAN /\ formatted \in Formatted
          /\ revisions \in Nat /\ steps \in Nat /\ calls \in Nat
          /\ found \in {"nothing", "hit", "empty", "error"}
          /\ drafter \in Workers \cup {"nobody"}

-----------------------------------------------------------------------------
(* ExecutionPlanner. *)

Executable(t) == IF t.kind = "social" /\ t.mcp THEN "knowledge" ELSE t.kind
Route(t) == CASE Executable(t) = "clarification" -> "clarification"
              [] Executable(t) \in {"social", "formatting"} -> "formatter"
              [] OTHER -> "researcher"
Parallel(t) == Route(t) = "researcher" /\ {"research", "analysis"} \subseteq t.caps
Discovered(t) == Route(t) = "researcher" /\ t.mcp /\ t.bound

PriorSuffices(t) == t.source = "prior" /\ (t.adaptive => t.grounding # "required")
ResearchStep(t) ==
  CASE Discovered(t) -> "direct_tool_call"
    [] \/ t.mcp \/ t.source = "attachment" \/ PriorSuffices(t)
       \/ t.adaptive /\ t.grounding = "none" -> "reason_only"
    [] OTHER -> "retrieve_then_reason"
PrimaryStep(t) ==
  CASE Route(t) = "clarification" -> "clarify"
    [] Route(t) = "formatter" -> "format_only"
    [] Discovered(t) -> "direct_tool_call"
    [] "code" \in t.caps -> "code_sandbox"
    [] "analysis" \in t.caps -> "data_analysis"
    [] Executable(t) # "knowledge" \/ "generation" \in t.caps -> "reason_only"
    [] OTHER -> ResearchStep(t)
Build(t) == [parallel |-> Parallel(t),
             strategy |-> IF Parallel(t) THEN ResearchStep(t) ELSE PrimaryStep(t)]
Unplanned == [parallel |-> FALSE, strategy |-> "reason_only"]

-----------------------------------------------------------------------------
(* The routers of the graph. *)

Worker(p) == CASE p.parallel -> "parallel_workers"
               [] p.strategy = "code_sandbox" -> "coder"
               [] p.strategy = "data_analysis" -> "analyst"
               [] OTHER -> "researcher"
Drafted(p) == p.parallel \/ p.strategy \in WorkerStrategies

AfterContext(p) ==
  CASE \/ clarify \/ p.strategy = "clarify"
       \/ p.strategy = "format_only" /\ turn.kind = "formatting" -> "formatter"
    [] Drafted(p) -> Worker(p)
    [] OTHER -> "critic"

TerminalEmpty == execution.cannot \/ execution.errors = {"empty"}
Terminal == \/ execution.cannot
            \/ execution.errors \in {{"empty"}, {"tool_error"}, {"required_empty"}}

AfterCritic(review) ==
  IF review /\ ~clarify /\ ~Terminal /\ revisions < MaxRevisions /\ Drafted(plan)
  THEN "quality_revision" ELSE "formatter"

AfterRevisionSwapped(p) == CASE p.strategy = "code_sandbox" -> "coder"
                             [] p.strategy = "data_analysis" -> "analyst"
                             [] p.strategy \in ResearcherStrategies -> "researcher"
                             [] OTHER -> "parallel_workers"
AfterRevision(p) == Worker(p)

-----------------------------------------------------------------------------
(* What the workers make. *)

Failure(text) == [Nothing EXCEPT !.errors = {"other"}, !.text = text]
Prose(text) == [Nothing EXCEPT !.text = {text}]

(* GroundingPolicy.decide_empty_retrieval and what follows: a stub, a question,
   or the model's own answer, which may fail. *)
Empty(t) ==
  CASE ~t.adaptive -> {[Nothing EXCEPT !.errors = {"empty"}, !.degraded = TRUE]}
    [] t.adaptive /\ t.grounding = "required" ->
          {[errors |-> {"required_empty"}, text |-> {"question"},
            degraded |-> TRUE, cannot |-> TRUE]}
    [] OTHER -> {[Prose("ungrounded") EXCEPT !.degraded = TRUE], Failure({})}

Outcome(sent, brought, made) == [sent |-> sent, brought |-> brought, made |-> made]
Fails == {Failure({}), Failure({"notice"})}

(* A tool that is not there, may not be called or raises, or an agent that runs out
   of time, before the call or after it, leaves an error the graph does not know. *)
Tool(t) ==
  {Outcome(sent, "nothing", made) : sent \in {0, 1}, made \in Fails}
    \cup {Outcome(1, "error", [Nothing EXCEPT !.errors = {"tool_error"}])}
    \cup {Outcome(1, "empty", made) : made \in Empty(t)}
    \cup {Outcome(1, "hit", made) : made \in {Prose("grounded"), Failure({})}}
Model == {Outcome(0, "nothing", made) : made \in {Prose("draft"), Failure({})}}
Outcomes(t, p) == IF p.strategy \in Tooled THEN Tool(t) ELSE Model
Drafts == {Prose("draft"), Failure({"notice"})}

(* merge_parallel_worker_results: an empty half is replaced by its error. *)
MergeDrops(r, a) == [errors |-> r.errors \cup a.errors,
                     text |-> (IF r.text = {} THEN {"notice"} ELSE r.text) \cup a.text,
                     degraded |-> FALSE, cannot |-> FALSE]
Merge(r, a) == [errors |-> r.errors \cup a.errors,
                text |-> (IF r.text = {} THEN {"notice"} ELSE r.text) \cup a.text,
                degraded |-> r.degraded \/ a.degraded \/ r.cannot \/ a.cannot,
                cannot |-> r.cannot \/ a.cannot]

-----------------------------------------------------------------------------
(* The nodes. *)

Published(what, handed, shown) == [what |-> what, handed |-> handed, shown |-> shown]
Unmarked(what) == Published(what, FALSE, FALSE)

Init == /\ turn \in Turn
        /\ at = "weaving" /\ steps = 3
        /\ plan = Unplanned /\ execution = Nothing
        /\ clarify = FALSE /\ revisions = 0
        /\ formatted = Unmarked("none")
        /\ calls = 0 /\ found = "nothing" /\ drafter = "nobody"

(* GraphRecursionError: a node is due when the bound is reached. *)
Enter(node) == at = node /\ steps' = steps + 1
Goto(node) == at' = IF node \in Nodes /\ steps' = RecursionLimit THEN "cut_off" ELSE node

(* Without a plan the graph falls back on reasoning.  The node's handler of ClarifyError
   has no action: nothing raises that error. *)
Weave == /\ Enter("weaving")
         /\ plan' \in {Build(turn), Unplanned}
         /\ Goto(AfterContext(plan'))
         /\ UNCHANGED <<turn, execution, clarify, revisions, formatted, calls, found, drafter>>

Made(o, made) == /\ execution' = made
                 /\ found' = o.brought /\ calls' = calls + o.sent
                 /\ drafter' = at /\ Goto("critic")
                 /\ UNCHANGED <<turn, plan, revisions, formatted>>

ResearchUnasked == /\ Enter("researcher")
                   /\ \E o \in Outcomes(turn, plan) : Made(o, o.made)
                   /\ UNCHANGED clarify
Research == /\ Enter("researcher")
            /\ \E o \in Outcomes(turn, plan) :
                  Made(o, o.made) /\ clarify' = (clarify \/ o.made.cannot)

Draft == /\ Enter("coder") \/ Enter("analyst")
         /\ \E made \in Drafts : Made(Outcome(0, "nothing", made), made)
         /\ UNCHANGED clarify

ParallelWorkers == /\ Enter("parallel_workers")
                   /\ \E o \in Outcomes(turn, plan), made \in Drafts :
                         Made(o, Merge(o.made, made))
                   /\ UNCHANGED clarify

Critic == /\ Enter("critic")
          /\ \E review \in BOOLEAN : Goto(AfterCritic(review))
          /\ UNCHANGED <<turn, plan, execution, clarify, revisions, formatted, calls, found, drafter>>

ReviseUncounted == /\ Enter("quality_revision")
                   /\ Goto(AfterRevision(plan))
                   /\ UNCHANGED <<turn, plan, execution, clarify, revisions, formatted, calls, found, drafter>>
QualityRevision == /\ Enter("quality_revision")
                   /\ revisions' = revisions + 1
                   /\ Goto(AfterRevision(plan))
                   /\ UNCHANGED <<turn, plan, execution, clarify, formatted, calls, found, drafter>>

(* A worker that made nothing leaves the floor to the answer of an earlier turn. *)
Summary == IF execution.text = {} /\ turn.source = "prior" THEN {"draft"} ELSE execution.text
Stubbed == \/ execution.errors = {"tool_error"}
           \/ execution.errors = {"empty"} /\ ~turn.adaptive
Marked == execution.degraded /\ Summary # {} /\ ~execution.cannot

(* The disclaimer is text before the summary.  It stays when the summary is published
   as it is: a short plain answer, one asked for word for word, the fallback for a
   model that fails.  A text the model or its repair wrote, or an earlier one from the
   cache, may have it or not: nothing looks. *)
Answers == {Published("copied", Marked, Marked), Published("failed", Marked, FALSE)}
             \cup {Published("rewritten", Marked, shown) : shown \in BOOLEAN}

(* The stub of a failed call exists in two scripts. *)
Formats == CASE clarify -> {Unmarked("question")}
             [] ~clarify /\ Stubbed -> {Unmarked("stub")} \cup Answers
             [] OTHER -> Answers

Format == /\ Enter("formatter")
          /\ formatted' \in Formats
          /\ Goto("done")
          /\ UNCHANGED <<turn, plan, execution, clarify, revisions, calls, found, drafter>>

(* The circuit of a node is open, or the process is lost. *)
Fail == /\ at \in Nodes
        /\ at' = "failed"
        /\ UNCHANGED <<turn, plan, execution, clarify, revisions, steps, formatted, calls, found, drafter>>

Next == \/ Weave \/ Research \/ Draft \/ ParallelWorkers \/ Critic
        \/ QualityRevision \/ Format \/ Fail

Spec == Init /\ [][Next]_vars

-----------------------------------------------------------------------------
Required(t) == t.adaptive /\ t.grounding = "required"

(* A turn that must rest on a source and found none, in its last pass, is answered
   by a question only, unless two workers drafted it: parallel_workers_node does
   not ask (researcher_node, route_after_critic, formatter_node). *)
RequiredIsAsked ==
  at = "done" /\ Required(turn) /\ found = "empty" /\ ~plan.parallel => formatted.what = "question"

(* Prose written after an empty retrieval reaches the formatter with the disclaimer,
   in whichever pass and beside whichever other draft it was written, and keeps it
   where the formatter copies (merge_parallel_worker_results, build_formatter_input).
   That the formatter's model keeps it is not claimed: nothing checks. *)
DisclaimerIsHanded ==
  formatted.what \in {"copied", "rewritten"} /\ "ungrounded" \in execution.text =>
    formatted.handed /\ (formatted.what = "copied" => formatted.shown)

(* A turn whose call failed, or found nothing that the model may replace, does not
   call again, unless the other half of a parallel draft failed as well
   (_terminal_mcp_worker_failure). *)
Closed == \/ found = "error"
          \/ found = "empty" /\ (~turn.adaptive \/ turn.grounding = "required")
Escaped == \E e, f \in execution.errors : e # f
FailureStands == [][Closed /\ ~Escaped => calls' = calls]_vars

(* A revision goes back to the workers whose draft was refused
   (route_after_context, route_after_quality_revision). *)
SameWorkersAgain ==
  [][at = "quality_revision" /\ at' \in Workers => at' = drafter]_vars

(* The graph's bound on nodes never ends a turn (GRAPH_RECURSION_LIMIT). *)
NotCutOff == at # "cut_off"

-----------------------------------------------------------------------------
(* The inductive invariant. *)
Pace == CASE at = "weaving" -> 3
          [] at \in Workers -> 4
          [] at = "critic" -> 5
          [] OTHER -> 6
Paced == /\ at \in Nodes => steps <= Pace + 3 * revisions
         /\ revisions <= MaxRevisions
         /\ at = "quality_revision" => revisions < MaxRevisions
         /\ at # "cut_off"
Drafters == /\ at \in Workers => at = Worker(plan)
            /\ at = "quality_revision" => drafter = Worker(plan)
            /\ at = "critic" /\ Drafted(plan) => drafter = Worker(plan)
Provenance == "ungrounded" \in execution.text => execution.degraded /\ ~execution.cannot
Endings == /\ Closed /\ ~Escaped => at \notin Workers \cup {"quality_revision"} /\ Terminal
           /\ Required(turn) /\ found = "empty" /\ ~plan.parallel => clarify
           /\ at = "weaving" => found = "nothing"
           /\ at \in Nodes => formatted.what = "none"

IInv == TypeOK /\ Paced /\ Drafters /\ Provenance /\ Endings
        /\ RequiredIsAsked /\ DisclaimerIsHanded
=============================================================================
