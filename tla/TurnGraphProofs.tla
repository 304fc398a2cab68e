-------------------------- MODULE TurnGraphProofs --------------------------
(***************************************************************************)
(* Proofs about TurnGraph, for any number of revisions within the bound on *)
(* nodes: its invariant is inductive, and every safety and action property *)
(* the run checks follows.  What the planner and the workers may return is *)
(* said once, in Plans, Makes and Merges; each node is then a lemma.       *)
(***************************************************************************)
EXTENDS TurnGraph, TLAPS

Ungrounded(e) == "ungrounded" \in e.text
Last(e) == e.errors \in {{"empty"}, {"tool_error"}, {"required_empty"}}
Final(t, brought) == \/ brought = "error"
                     \/ brought = "empty" /\ (~t.adaptive \/ t.grounding = "required")

-----------------------------------------------------------------------------
(* What the operators return. *)

LEMMA Plans ==
  ASSUME NEW t
  PROVE  Build(t) \in Plan /\ Unplanned \in Plan
  BY DEF Build, Unplanned, Plan, Parallel, ResearchStep, PrimaryStep, WorkerStrategies,
         ResearcherStrategies, Tooled

LEMMA Workplaces ==
  ASSUME NEW p \in Plan
  PROVE  /\ Worker(p) \in Workers
         /\ AfterContext(p) \in Workers \cup {"critic", "formatter"}
         /\ AfterContext(p) \in Workers => AfterContext(p) = Worker(p)
         /\ AfterContext(p) = "critic" => ~Drafted(p)
  BY DEF Worker, AfterContext, Workers, Drafted

(* The record a worker makes, and what it says of the call. *)
Honest(t, o) == /\ o.made \in Execution /\ o.sent \in {0, 1}
                /\ o.brought \in {"nothing", "hit", "empty", "error"}
                /\ Ungrounded(o.made) => o.made.degraded /\ ~o.made.cannot
                /\ Final(t, o.brought) => Last(o.made)
                /\ Required(t) /\ o.brought = "empty" => o.made.cannot

LEMMA Written ==
  ASSUME NEW text \in SUBSET {"draft", "grounded", "ungrounded", "notice", "question"}
  PROVE  LET f == Failure(text)
         IN  f \in Execution /\ f.text = text /\ f.errors = {"other"} /\ ~f.degraded /\ ~f.cannot
  BY DEF Failure, Nothing, Execution

LEMMA Told ==
  ASSUME NEW word \in {"draft", "grounded", "ungrounded"}
  PROVE  LET d == Prose(word)
         IN  d \in Execution /\ d.text = {word} /\ d.errors = {} /\ ~d.degraded /\ ~d.cannot
  BY DEF Prose, Nothing, Execution

LEMMA Parts == /\ \A made \in Fails \cup Drafts \cup {Failure({}), Prose("grounded"), Prose("draft")} :
                     made \in Execution /\ ~Ungrounded(made)
               /\ [Nothing EXCEPT !.errors = {"tool_error"}] \in Execution
               /\ ~Ungrounded([Nothing EXCEPT !.errors = {"tool_error"}])
               /\ Last([Nothing EXCEPT !.errors = {"tool_error"}])
  <1>1. \A made \in Fails \cup Drafts \cup {Failure({}), Prose("grounded"), Prose("draft")} :
           made \in {Failure({}), Failure({"notice"}), Prose("draft"), Prose("grounded")}
    BY DEF Fails, Drafts
  <1>2. \A made \in {Failure({}), Failure({"notice"})} : made \in Execution /\ ~Ungrounded(made)
    BY Written DEF Ungrounded
  <1>3. \A made \in {Prose("draft"), Prose("grounded")} : made \in Execution /\ ~Ungrounded(made)
    BY Told DEF Ungrounded
  <1>4. [Nothing EXCEPT !.errors = {"tool_error"}] \in Execution
    BY DEF Nothing, Execution
  <1>5. /\ ~Ungrounded([Nothing EXCEPT !.errors = {"tool_error"}])
        /\ Last([Nothing EXCEPT !.errors = {"tool_error"}])
    BY DEF Nothing, Ungrounded, Last
  <1> QED
    BY <1>1, <1>2, <1>3, <1>4, <1>5

LEMMA Empties ==
  ASSUME NEW t \in Turn, NEW made \in Empty(t)
  PROVE  Honest(t, Outcome(1, "empty", made))
  <1>1. CASE ~t.adaptive
    BY <1>1 DEF Empty, Outcome, Honest, Nothing, Execution, Ungrounded, Final, Last, Required
  <1>2. CASE t.adaptive /\ t.grounding = "required"
    <2>1. made = [errors |-> {"required_empty"}, text |-> {"question"},
                  degraded |-> TRUE, cannot |-> TRUE]
      BY <1>2 DEF Empty
    <2>2. made \in Execution /\ ~Ungrounded(made) /\ Last(made) /\ made.cannot
      BY <2>1 DEF Execution, Ungrounded, Last
    <2> QED
      BY <2>2 DEF Outcome, Honest
  <1>3. CASE t.adaptive /\ t.grounding # "required"
    <2>1. made \in {[Prose("ungrounded") EXCEPT !.degraded = TRUE], Failure({})}
      BY <1>3 DEF Empty
    <2>2. ~Final(t, "empty") /\ ~Required(t)
      BY <1>3 DEF Final, Required
    <2>3. made \in Execution /\ (Ungrounded(made) => made.degraded /\ ~made.cannot)
      BY <2>1 DEF Prose, Failure, Nothing, Execution, Ungrounded
    <2> QED
      BY <2>2, <2>3 DEF Outcome, Honest
  <1> QED
    BY <1>1, <1>2, <1>3 DEF Turn

LEMMA Makes ==
  ASSUME NEW t \in Turn, NEW p \in Plan, NEW o \in Outcomes(t, p)
  PROVE  Honest(t, o)
  <1>1. CASE \E sent \in {0, 1}, made \in Fails : o = Outcome(sent, "nothing", made)
    BY <1>1, Parts DEF Outcome, Honest, Final
  <1>2. CASE o = Outcome(1, "error", [Nothing EXCEPT !.errors = {"tool_error"}])
    BY <1>2, Parts DEF Outcome, Honest
  <1>3. CASE \E made \in Empty(t) : o = Outcome(1, "empty", made)
    BY <1>3, Empties
  <1>4. CASE \E made \in {Prose("grounded"), Failure({})} : o = Outcome(1, "hit", made)
    BY <1>4, Parts DEF Outcome, Honest, Final
  <1>5. CASE \E made \in {Prose("draft"), Failure({})} : o = Outcome(0, "nothing", made)
    BY <1>5, Parts DEF Outcome, Honest, Final
  <1>6. o \in Tool(t) \/ o \in Model
    BY DEF Outcomes
  <1>7. CASE o \in Tool(t)
    BY <1>7, <1>1, <1>2, <1>3, <1>4 DEF Tool
  <1>8. CASE o \in Model
    BY <1>8, <1>5 DEF Model
  <1> QED
    BY <1>6, <1>7, <1>8

LEMMA Merges ==
  ASSUME NEW t \in Turn, NEW o, Honest(t, o), NEW made \in Drafts
  PROVE  LET m == Merge(o.made, made)
         IN  /\ m \in Execution
             /\ Ungrounded(m) => m.degraded /\ ~m.cannot
             /\ Final(t, o.brought) => Last(m) \/ \E e, f \in m.errors : e # f
  <1>1. made \in Execution /\ ~Ungrounded(made) /\ made.errors \in {{}, {"other"}}
        /\ ~made.degraded /\ ~made.cannot
    BY Written, Told DEF Drafts, Ungrounded
  <1>2. o.made \in Execution
    BY DEF Honest
  <1>3. Merge(o.made, made) \in Execution
    BY <1>1, <1>2 DEF Merge, Execution
  <1>4. Ungrounded(Merge(o.made, made)) => Ungrounded(o.made)
    BY <1>1 DEF Merge, Ungrounded
  <1>5. Merge(o.made, made).cannot = o.made.cannot
    BY <1>1, <1>2 DEF Merge, Execution
  <1>6. o.made.degraded => Merge(o.made, made).degraded
    BY DEF Merge
  <1>7. ASSUME Final(t, o.brought)
        PROVE  \/ Last(Merge(o.made, made))
               \/ \E e, f \in Merge(o.made, made).errors : e # f
    <2>1. Last(o.made)
      BY <1>7 DEF Honest
    <2>2. Merge(o.made, made).errors = o.made.errors \cup made.errors
      BY DEF Merge
    <2>3. CASE made.errors = {}
      BY <2>1, <2>2, <2>3 DEF Last
    <2>4. CASE made.errors = {"other"}
      BY <2>1, <2>2, <2>4 DEF Last
    <2> QED
      BY <1>1, <2>3, <2>4
  <1> QED
    BY <1>3, <1>4, <1>5, <1>6, <1>7 DEF Honest

-----------------------------------------------------------------------------
(* The nodes.  Room is what keeps the bound on nodes away. *)

LEMMA Room ==
  ASSUME IInv, NEW node, at \in Nodes, steps' = steps + 1, Goto(node),
         node \in Nodes => revisions < MaxRevisions \/ Pace < 6
  PROVE  at' = node
  <1>1. steps \in Nat /\ revisions \in Nat /\ steps <= Pace + 3 * revisions /\ revisions <= MaxRevisions
    BY DEF IInv, TypeOK, Paced
  <1>2. Pace \in 3..6
    BY DEF Pace
  <1>3. node \in Nodes => steps' # RecursionLimit
    BY <1>1, <1>2, TurnAssumption
  <1> QED
    BY <1>3 DEF Goto

LEMMA Started == Init => IInv
  <1> SUFFICES ASSUME Init PROVE IInv
    OBVIOUS
  <1> USE DEF Init
  <1>1. TypeOK
    BY Plans DEF TypeOK, Nothing, Execution, Nodes, Formatted, Published, Unmarked
  <1>2. Paced
    BY TurnAssumption DEF Paced, Pace
  <1>3. Drafters
    BY DEF Drafters, Workers
  <1>4. Provenance
    BY DEF Provenance, Nothing
  <1>5. Endings
    BY DEF Endings, Closed, Nodes, Published, Unmarked
  <1> QED
    BY <1>1, <1>2, <1>3, <1>4, <1>5
       DEF IInv, RequiredIsAsked, DisclaimerIsHanded, Published, Unmarked

LEMMA Slack ==
  ASSUME NEW n \in Nat, NEW r \in Nat, NEW p \in 4..6, n <= 3 + 3 * r
  PROVE  n + 1 <= p + 3 * r
  OBVIOUS

LEMMA WeaveKeeps ==
  ASSUME IInv, Weave
  PROVE  IInv'
  <1> USE DEF Weave, Enter
  <1>1. plan' \in Plan
    BY Plans
  <1>2. AfterContext(plan') \in Workers \cup {"critic", "formatter"}
    BY <1>1, Workplaces
  <1>3. at' = AfterContext(plan')
    BY Room DEF Nodes, Pace
  <1>4. TypeOK'
    BY <1>1, <1>2, <1>3 DEF IInv, TypeOK, Nodes
  <1>5. Paced'
    <2>1. steps \in Nat /\ revisions \in Nat /\ steps <= 3 + 3 * revisions
      BY DEF IInv, TypeOK, Paced, Nodes, Pace, Workers
    <2>2. Pace' \in 4..6
      BY <1>2, <1>3 DEF Pace, Workers
    <2>3. steps' = steps + 1 /\ revisions' = revisions
      OBVIOUS
    <2>4. steps' <= Pace' + 3 * revisions'
      BY <2>1, <2>2, <2>3, Slack
    <2> QED
      BY <1>2, <1>3, <2>3, <2>4 DEF IInv, Paced, Workers
  <1>6. Drafters'
    BY <1>1, <1>2, <1>3, Workplaces DEF Drafters, Workers
  <1>7. Provenance'
    BY DEF IInv, Provenance
  <1>8. Endings'
    BY <1>2, <1>3 DEF IInv, Endings, Closed, Workers, Nodes
  <1>9. at' # "done" /\ formatted'.what = "none"
    BY <1>2, <1>3 DEF Workers, IInv, Endings, Nodes
  <1> QED
    BY <1>4, <1>5, <1>6, <1>7, <1>8, <1>9 DEF IInv, RequiredIsAsked, DisclaimerIsHanded

(* What the three worker nodes have in common. *)
LEMMA MadeKeeps ==
  ASSUME IInv, at \in Workers, steps' = steps + 1,
         NEW o, Honest(turn, o), NEW made, Made(o, made), clarify' \in BOOLEAN,
         made \in Execution, Ungrounded(made) => made.degraded /\ ~made.cannot,
         Final(turn, o.brought) => \/ Last(made)
                                   \/ \E e, f \in made.errors : e # f,
         Required(turn) /\ o.brought = "empty" /\ ~plan.parallel => clarify'
  PROVE  IInv'
  <1> USE DEF Made
  <1>1. at' = "critic"
    BY Room DEF Nodes, Pace, Workers
  <1>2. TypeOK'
    BY <1>1 DEF IInv, TypeOK, Nodes, Honest
  <1>3. Paced'
    <2>1. steps \in Nat /\ revisions \in Nat /\ steps <= 4 + 3 * revisions
      BY DEF IInv, TypeOK, Paced, Nodes, Pace, Workers
    <2> QED
      BY <1>1, <2>1 DEF IInv, Paced, Pace, Workers
  <1>4. Drafters'
    BY <1>1 DEF IInv, Drafters, Workers
  <1>5. Provenance'
    BY DEF Provenance, Ungrounded
  <1>6. Endings'
    <2>1. (Closed /\ ~Escaped)' => Terminal'
      BY DEF Closed, Final, Escaped, Terminal, Last
    <2>2. (Required(turn) /\ found = "empty" /\ ~plan.parallel)' => clarify'
      BY DEF Required
    <2> QED
      BY <1>1, <2>1, <2>2 DEF IInv, Endings, Workers, Nodes
  <1>7. at' # "done" /\ formatted'.what = "none"
    BY <1>1 DEF IInv, Endings, Nodes
  <1> QED
    BY <1>2, <1>3, <1>4, <1>5, <1>6, <1>7 DEF IInv, RequiredIsAsked, DisclaimerIsHanded

LEMMA ResearchKeeps ==
  ASSUME IInv, Research
  PROVE  IInv'
  <1>1. PICK o \in Outcomes(turn, plan) : Made(o, o.made) /\ clarify' = (clarify \/ o.made.cannot)
    BY DEF Research
  <1>2. Honest(turn, o)
    BY Makes DEF IInv, TypeOK
  <1>3. clarify' \in BOOLEAN
    BY <1>1, <1>2 DEF IInv, TypeOK, Honest, Execution
  <1>4. at \in Workers /\ steps' = steps + 1
    BY DEF Research, Enter, Workers
  <1>5. Required(turn) /\ o.brought = "empty" => clarify'
    BY <1>1, <1>2 DEF Honest
  <1> QED
    BY <1>1, <1>2, <1>3, <1>4, <1>5, MadeKeeps DEF Honest

LEMMA DraftKeeps ==
  ASSUME IInv, Draft
  PROVE  IInv'
  <1>1. PICK made \in Drafts : Made(Outcome(0, "nothing", made), made)
    BY DEF Draft
  <1>2. made \in Execution /\ ~Ungrounded(made)
    BY Parts
  <1>3. Honest(turn, Outcome(0, "nothing", made))
    BY <1>2 DEF Honest, Outcome, Final
  <1>4. at \in Workers /\ steps' = steps + 1 /\ clarify' \in BOOLEAN
    BY DEF Draft, Enter, Workers, IInv, TypeOK
  <1>5. Outcome(0, "nothing", made).brought = "nothing"
    BY DEF Outcome
  <1> QED
    BY <1>1, <1>2, <1>3, <1>4, <1>5, MadeKeeps DEF Final

LEMMA ParallelKeeps ==
  ASSUME IInv, ParallelWorkers
  PROVE  IInv'
  <1>1. PICK o \in Outcomes(turn, plan), made \in Drafts : Made(o, Merge(o.made, made))
    BY DEF ParallelWorkers
  <1>2. Honest(turn, o)
    BY Makes DEF IInv, TypeOK
  <1>3. at \in Workers /\ steps' = steps + 1 /\ clarify' \in BOOLEAN
    BY DEF ParallelWorkers, Enter, Workers, IInv, TypeOK
  <1>4. plan.parallel
    BY DEF ParallelWorkers, Enter, IInv, Drafters, Worker, Workers
  <1>5. turn \in Turn
    BY DEF IInv, TypeOK
  <1> QED
    BY <1>1, <1>2, <1>3, <1>4, <1>5, Merges, MadeKeeps

LEMMA CriticKeeps ==
  ASSUME IInv, Critic
  PROVE  IInv'
  <1>1. PICK review \in BOOLEAN : Goto(AfterCritic(review))
    BY DEF Critic
  <1>2. at = "critic" /\ steps' = steps + 1
        /\ UNCHANGED <<turn, plan, execution, clarify, revisions, formatted, calls, found, drafter>>
    BY DEF Critic, Enter
  <1>3. at' = AfterCritic(review)
    BY <1>1, <1>2, Room DEF Nodes, Pace, Workers
  <1>4. at' = "formatter" \/ (at' = "quality_revision" /\ ~Terminal /\ revisions < MaxRevisions /\ Drafted(plan))
    BY <1>3 DEF AfterCritic
  <1>5. TypeOK'
    BY <1>2, <1>4 DEF IInv, TypeOK, Nodes
  <1>6. Paced'
    <2>1. steps \in Nat /\ revisions \in Nat /\ steps <= 5 + 3 * revisions
      BY <1>2 DEF IInv, TypeOK, Paced, Nodes, Pace, Workers
    <2> QED
      BY <1>2, <1>4, <2>1 DEF IInv, Paced, Pace, Workers
  <1>7. Drafters'
    BY <1>2, <1>4 DEF IInv, Drafters, Workers
  <1>8. Provenance'
    BY <1>2 DEF IInv, Provenance
  <1>9. Endings'
    BY <1>2, <1>4 DEF IInv, Endings, Closed, Escaped, Terminal, Workers, Nodes
  <1>10. at' # "done" /\ formatted'.what = "none"
    BY <1>2, <1>4 DEF IInv, Endings, Nodes
  <1> QED
    BY <1>5, <1>6, <1>7, <1>8, <1>9, <1>10 DEF IInv, RequiredIsAsked, DisclaimerIsHanded

LEMMA RevisionKeeps ==
  ASSUME IInv, QualityRevision
  PROVE  IInv' /\ at' = Worker(plan)
  <1>1. at = "quality_revision" /\ steps' = steps + 1 /\ revisions' = revisions + 1
        /\ Goto(Worker(plan))
        /\ UNCHANGED <<turn, plan, execution, clarify, formatted, calls, found, drafter>>
    BY DEF QualityRevision, Enter, AfterRevision
  <1>2. steps \in Nat /\ revisions \in Nat /\ steps <= 6 + 3 * revisions /\ revisions < MaxRevisions
    BY <1>1 DEF IInv, TypeOK, Paced, Nodes, Pace, Workers
  <1>3. at' = Worker(plan)
    BY <1>1, <1>2, Room DEF Nodes
  <1>4. at' \in Workers
    BY <1>3, Workplaces DEF IInv, TypeOK
  <1>5. TypeOK'
    BY <1>1, <1>2, <1>4 DEF IInv, TypeOK, Nodes
  <1>6. Paced'
    <2>1. Pace' = 4
      BY <1>4 DEF Pace, Workers
    <2> QED
      BY <1>1, <1>2, <1>4, <2>1, TurnAssumption DEF IInv, Paced, Workers
  <1>7. Drafters'
    BY <1>1, <1>3, <1>4 DEF Drafters, Workers
  <1>8. Provenance'
    BY <1>1 DEF IInv, Provenance
  <1>9. Endings'
    BY <1>1, <1>4 DEF IInv, Endings, Closed, Escaped, Workers, Nodes
  <1>10. at' # "done" /\ formatted'.what = "none"
    BY <1>1, <1>4 DEF IInv, Endings, Nodes, Workers
  <1> QED
    BY <1>3, <1>5, <1>6, <1>7, <1>8, <1>9, <1>10 DEF IInv, RequiredIsAsked, DisclaimerIsHanded

LEMMA FormatKeeps ==
  ASSUME IInv, Format
  PROVE  IInv'
  <1>1. at = "formatter" /\ steps' = steps + 1
        /\ UNCHANGED <<turn, plan, execution, clarify, revisions, calls, found, drafter>>
    BY DEF Format, Enter
  <1>2. at' = "done"
    BY DEF Format, Goto, Nodes, Workers
  <1>3. formatted' \in Formats
    BY DEF Format
  <1>4. execution \in Execution /\ clarify \in BOOLEAN
    BY DEF IInv, TypeOK
  <1>5. Marked \in BOOLEAN
    BY <1>4 DEF Execution, Marked
  <1>6. Formats \subseteq Formatted
    <2>1. Answers \subseteq Formatted
      <3>1. Published("copied", Marked, Marked) \in Formatted
        BY <1>5 DEF Published, Formatted
      <3>2. Published("failed", Marked, FALSE) \in Formatted
        BY <1>5 DEF Published, Formatted
      <3>3. ASSUME NEW shown \in BOOLEAN
            PROVE  Published("rewritten", Marked, shown) \in Formatted
        BY <1>5 DEF Published, Formatted
      <3> QED
        BY <3>1, <3>2, <3>3 DEF Answers
    <2>2. Unmarked("question") \in Formatted /\ Unmarked("stub") \in Formatted
      BY DEF Published, Unmarked, Formatted
    <2> QED
      BY <2>1, <2>2 DEF Formats
  <1>7. TypeOK'
    <2>1. formatted' \in Formatted
      BY <1>3, <1>6
    <2> QED
      BY <1>1, <1>2, <2>1 DEF IInv, TypeOK, Nodes, Workers
  <1>8. Paced' /\ Drafters' /\ Provenance'
    BY <1>1, <1>2 DEF IInv, Paced, Drafters, Provenance, Workers, Nodes
  <1>9. Endings'
    BY <1>1, <1>2 DEF IInv, Endings, Closed, Escaped, Terminal, Workers, Nodes
  <1>10. RequiredIsAsked'
    <2>1. clarify => formatted'.what = "question"
      BY <1>3 DEF Formats, Published, Unmarked
    <2> QED
      BY <1>1, <2>1 DEF IInv, Endings, RequiredIsAsked, Required
  <1>11. DisclaimerIsHanded'
    <2> SUFFICES ASSUME formatted'.what \in {"copied", "rewritten"}, "ungrounded" \in execution.text
                 PROVE  formatted'.handed /\ (formatted'.what = "copied" => formatted'.shown)
      BY <1>1 DEF DisclaimerIsHanded
    <2>1. Marked
      <3>1. Summary # {}
        BY DEF Summary
      <3> QED
        BY <3>1 DEF IInv, Provenance, Marked
    <2>2. formatted' \in Answers
      BY <1>3 DEF Formats, Published, Unmarked
    <2> QED
      BY <2>1, <2>2 DEF Answers, Published
  <1> QED
    BY <1>7, <1>8, <1>9, <1>10, <1>11 DEF IInv

LEMMA FailKeeps ==
  ASSUME IInv, Fail
  PROVE  IInv'
  <1> USE DEF Fail
  <1>1. TypeOK'
    BY DEF IInv, TypeOK
  <1>2. Paced' /\ Drafters' /\ Provenance'
    BY DEF IInv, Paced, Drafters, Provenance, Workers, Nodes
  <1>3. Endings'
    BY DEF IInv, Endings, Closed, Escaped, Terminal, Workers, Nodes
  <1> QED
    BY <1>1, <1>2, <1>3 DEF IInv, RequiredIsAsked, DisclaimerIsHanded, Endings

LEMMA Stutters ==
  ASSUME IInv, UNCHANGED vars
  PROVE  IInv'
  BY DEF vars, IInv, TypeOK, Paced, Pace, Drafters, Provenance, Endings, Closed, Escaped,
         Terminal, RequiredIsAsked, DisclaimerIsHanded

LEMMA Keeps ==
  ASSUME IInv, [Next]_vars
  PROVE  IInv'
  BY WeaveKeeps, ResearchKeeps, DraftKeeps, ParallelKeeps, CriticKeeps, RevisionKeeps,
     FormatKeeps, FailKeeps, Stutters DEF Next

-----------------------------------------------------------------------------
(* The invariant of the turn holds in every state, whatever the workers make and
   the critic says (graph.py, nodes.py). *)
THEOREM InvariantHolds == Spec => []IInv
  BY Started, Keeps, PTL DEF Spec

(* A turn that must rest on a source and found none asks for one
   (researcher_node, formatter_node). *)
THEOREM RequiredAsks == Spec => []RequiredIsAsked
  <1>1. IInv => RequiredIsAsked
    BY DEF IInv
  <1> QED
    BY <1>1, InvariantHolds, PTL

(* What the model wrote after an empty retrieval is handed to the formatter with the
   disclaimer, and published with it where the formatter copies
   (merge_parallel_worker_results, build_formatter_input). *)
THEOREM DisclaimerReachesFormatter == Spec => []DisclaimerIsHanded
  <1>1. IInv => DisclaimerIsHanded
    BY DEF IInv
  <1> QED
    BY <1>1, InvariantHolds, PTL

(* Within the assumption on the constants no turn meets the graph's bound on nodes
   (GRAPH_RECURSION_LIMIT). *)
THEOREM NeverCutOff == Spec => []NotCutOff
  <1>1. IInv => NotCutOff
    BY DEF IInv, Paced, NotCutOff
  <1> QED
    BY <1>1, InvariantHolds, PTL

(* A call that failed or found nothing is not repeated by a revision
   (_terminal_mcp_worker_failure). *)
THEOREM FailuresStand == Spec => FailureStands
  <1>1. ASSUME IInv, [Next]_vars
        PROVE  [Closed /\ ~Escaped => calls' = calls]_vars
    <2> SUFFICES ASSUME Closed, ~Escaped PROVE calls' = calls
      OBVIOUS
    <2>1. at \notin Workers
      BY <1>1 DEF IInv, Endings
    <2> QED
      BY <1>1, <2>1 DEF Next, vars, Weave, Research, Draft, ParallelWorkers, Critic,
         QualityRevision, Format, Fail, Enter, Workers
  <1> QED
    BY <1>1, InvariantHolds, PTL DEF Spec, FailureStands

(* A revision is made by those whose draft was refused
   (route_after_quality_revision). *)
THEOREM RevisersAreDrafters == Spec => SameWorkersAgain
  <1>1. ASSUME IInv, [Next]_vars
        PROVE  [at = "quality_revision" /\ at' \in Workers => at' = drafter]_vars
    <2> SUFFICES ASSUME at = "quality_revision", at' \in Workers PROVE at' = drafter
      OBVIOUS
    <2>1. QualityRevision
      BY <1>1 DEF Next, vars, Weave, Research, Draft, ParallelWorkers, Critic,
         Format, Fail, Enter, Workers
    <2> QED
      BY <1>1, <2>1, RevisionKeeps DEF IInv, Drafters
  <1> QED
    BY <1>1, InvariantHolds, PTL DEF Spec, SameWorkersAgain
=============================================================================
