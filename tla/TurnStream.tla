------------------------------ MODULE TurnStream ------------------------------
(***************************************************************************)
(* One streamed turn: the nodes of the graph put deltas of their drafts    *)
(* into the turn's SSE bridge, IntentGraphRunner interleaves them with the *)
(* items of the graph, and the web client builds its previews from what it *)
(* receives.                                                               *)
(*                                                                         *)
(* Everything runs on one event loop.  The multiplexer gives it up only in *)
(* asyncio.wait and where it yields (the reader of the stream may suspend  *)
(* there), so the getter of the queue, the nodes and the watch for a late  *)
(* first token take their steps only at those places (LoopFree).           *)
(*                                                                         *)
(* A delta is the number of its emission, the draft it belongs to, its     *)
(* part of that draft and whether it replaces what is shown.  WakeOnAll,   *)
(* ItemRenewsGetter, DrainOne and FallbackAnyway are wrong variants of the *)
(* definition that follows them; no action uses them.                      *)
(***************************************************************************)
EXTENDS Naturals, Sequences, SequencesExt

CONSTANTS Chunks,      \* bound: deltas a draft is emitted in
          MaxDrafts,   \* worker drafts of a turn: the first and its revisions
          Providers    \* length of the LLM fallback chain

ASSUME StreamAssumption == {Chunks, MaxDrafts, Providers} \subseteq Nat \ {0}

VARIABLES turn,      \* where the graph is: node, items it still hands out, counters
          stream,    \* the formatter's LLM stream, its emitter and its watch
          bridge,    \* TurnSseBridge: the queue and has_emitted_answer
          graph,     \* graph_task: the pending __anext__ of the graph
          getter,    \* sse_task: the pending get of the queue, or what it took
          mux,       \* where _multiplex_astream_with_sse is
          got,       \* history: emission numbers in the order they were yielded
          client     \* the accumulators of processIntentStream

vars == <<turn, stream, bridge, graph, getter, mux, got, client>>

Delta == [n : Nat, kind : {"text", "answer"}, draft : Nat, part : Nat, replace : BOOLEAN]
Part == [draft : Nat, part : Nat]
Nodes == {"worker", "critic", "formatter", "stream", "over"}
Places == {"wait", "delta", "hop", "drain", "draining", "ended", "done", "failed", "closed"}
Ends == {"done", "failed", "closed"}

TypeOK ==
  /\ turn \in [node : Nodes, items : Seq({"updates", "values"}), drafts : Nat, tries : Nat]
  /\ stream \in [provider : Nat, token : Nat, draft : Nat, first : BOOLEAN,
                 replace : BOOLEAN, watch : {"off", "armed", "due"}, restarted : BOOLEAN]
  /\ bridge \in [queue : Seq(Delta), emitted : Nat, answered : BOOLEAN]
  /\ graph \in {"pending", "item", "over", "raised", "cancelled"}
  /\ getter \in Seq(Delta) /\ Len(getter) <= 1
  /\ mux \in [at : Places, graphDone : BOOLEAN]
  /\ got \in Seq(Nat)
  /\ client \in [answer : Seq(Part), text : Seq(Part), hasText : BOOLEAN]

Init ==
  /\ turn = [node |-> "worker", items |-> <<"values">>, drafts |-> 0, tries |-> 0]
  /\ stream = [provider |-> 1, token |-> 0, draft |-> 0, first |-> FALSE,
               replace |-> FALSE, watch |-> "off", restarted |-> FALSE]
  /\ bridge = [queue |-> <<>>, emitted |-> 0, answered |-> FALSE]
  /\ graph = "pending"
  /\ getter = <<>>
  /\ mux = [at |-> "wait", graphDone |-> FALSE]
  /\ got = <<>>
  /\ client = [answer |-> <<>>, text |-> <<>>, hasText |-> FALSE]

LoopFree == mux.at \in {"wait", "delta", "hop", "draining"}

-----------------------------------------------------------------------------
(* The producers: nodes, the formatter's stream, the watch. *)

Numbered(ds) == [i \in DOMAIN ds |-> [ds[i] EXCEPT !.n = bridge.emitted + i]]
Piece(kind, draft, part, replace) ==
  [n |-> 0, kind |-> kind, draft |-> draft, part |-> part, replace |-> replace]

(* emit_nowait of the deltas ds. *)
Emit(ds) ==
  bridge' = [queue |-> bridge.queue \o Numbered(ds),
             emitted |-> bridge.emitted + Len(ds),
             answered |-> bridge.answered \/ ds # <<>>]

(* emit_answer_deltas: k chunks of one draft, the first replaces what is shown. *)
Burst(k) == [i \in 1..k |-> Piece("answer", turn.drafts + 1, i, i = 1 /\ bridge.answered)]

(* A node runs while the graph's next item is awaited and all earlier ones were
   taken; when it returns the graph hands out its update and the new values. *)
Running(node) == LoopFree /\ graph = "pending" /\ turn.items = <<>> /\ turn.node = node
Returns(next, k) ==
  [turn EXCEPT !.node = next, !.items = <<"updates", "values">>,
               !.drafts = @ + (IF k > 0 THEN 1 ELSE 0)]

(* A worker shows its prose, if it has any, before the critic sees it; a turn
   that asks a human for a tool call ends here. *)
Worker ==
  /\ Running("worker")
  /\ \/ \E k \in 0..Chunks : Emit(Burst(k)) /\ turn' = Returns("critic", k)
     \/ Emit(<<>>) /\ turn' = Returns("over", 0)
  /\ UNCHANGED <<stream, graph, getter, mux, got, client>>

Critic ==
  /\ Running("critic")
  /\ \/ turn' = Returns("formatter", 0)
     \/ turn.tries + 1 < MaxDrafts /\ turn' = [Returns("worker", 0) EXCEPT !.tries = @ + 1]
  /\ UNCHANGED <<stream, bridge, graph, getter, mux, got, client>>

(* A clarification shows nothing; a tool's error, a cached answer and the fast
   path show a whole document's prose. *)
FormatterDirect ==
  /\ Running("formatter")
  /\ \E k \in 0..Chunks : Emit(Burst(k)) /\ turn' = Returns("over", k)
  /\ UNCHANGED <<stream, graph, getter, mux, got, client>>

(* FormatterMarkdownEmitter.bind: the first token replaces a draft already shown. *)
Bind(shown) == shown

(* The worker's prose is shown once more, the emitter is bound, and the watch is
   armed if there is prose to fall back to. *)
FormatterStream ==
  /\ Running("formatter")
  /\ \E k \in 0..Chunks :
       /\ Emit(Burst(k))
       /\ turn' = [turn EXCEPT !.node = "stream", !.drafts = @ + 2]
       /\ stream' = [stream EXCEPT !.draft = turn.drafts + 2,
                                   !.replace = Bind(bridge.answered \/ k > 0),
                                   !.watch = IF k > 0 THEN "armed" ELSE "off"]
  /\ UNCHANGED <<graph, getter, mux, got, client>>

(* on_delta: a token is shown twice, as text and as an answer.  (A token may be held
   back with an open tag; what is shown for both is then one piece.) *)
Token ==
  LET i == stream.token + 1 IN
  /\ Running("stream") /\ stream.token < Chunks
  /\ Emit(<<Piece("text", stream.draft, i, FALSE),
            Piece("answer", stream.draft, i, stream.replace)>>)
  /\ stream' = [stream EXCEPT !.token = i, !.first = TRUE, !.replace = FALSE]
  /\ UNCHANGED <<turn, graph, getter, mux, got, client>>

(* generate_stream goes on with the next provider, from the start of an answer of
   its own, whatever the failed one has already sent. *)
NextProvider ==
  /\ Running("stream") /\ stream.provider < Providers
  /\ stream' = [stream EXCEPT !.provider = @ + 1, !.token = 0, !.draft = turn.drafts + 1,
                              !.restarted = @ \/ stream.token > 0]
  /\ turn' = [turn EXCEPT !.drafts = @ + 1]
  /\ UNCHANGED <<bridge, graph, getter, mux, got, client>>

(* The stream ends, fails for good or times out; the watch is cancelled first and
   the formatter returns the parsed buffer or its deterministic fallback. *)
StreamEnds ==
  /\ Running("stream")
  /\ turn' = Returns("over", 0)
  /\ stream' = [stream EXCEPT !.watch = "off"]
  /\ UNCHANGED <<bridge, graph, getter, mux, got, client>>

WatchDue ==
  /\ Running("stream") /\ stream.watch = "armed" /\ ~stream.first
  /\ stream' = [stream EXCEPT !.watch = "due"]
  /\ UNCHANGED <<turn, bridge, graph, getter, mux, got, client>>

FallbackAnyway(first) == TRUE
(* The watch looks again at the event after its timeout. *)
FallbackWanted(first) == ~first

(* emit_fallback_prose. *)
Fallback ==
  LET d == turn.drafts + 1 IN
  /\ Running("stream") /\ stream.watch = "due" /\ FallbackWanted(stream.first)
  /\ Emit(<<Piece("text", d, 1, FALSE), Piece("answer", d, 1, TRUE)>>)
  /\ turn' = [turn EXCEPT !.drafts = d]
  /\ stream' = [stream EXCEPT !.watch = "off", !.replace = TRUE]
  /\ UNCHANGED <<graph, getter, mux, got, client>>

(* The graph answers the pending __anext__: an item, its end, or an exception. *)
GraphAnswers ==
  /\ LoopFree /\ graph = "pending"
  /\ \/ turn.items # <<>> /\ graph' = "item"
     \/ turn.items = <<>> /\ turn.node = "over" /\ graph' = "over"
     \/ turn.items = <<>> /\ turn.node # "over" /\ graph' = "raised"
  /\ UNCHANGED <<turn, stream, bridge, getter, mux, got, client>>

-----------------------------------------------------------------------------
(* The multiplexer and the client. *)

(* The pending get of the queue takes its head. *)
GetterTakes ==
  /\ LoopFree /\ mux.at # "delta" /\ getter = <<>> /\ bridge.queue # <<>>
  /\ getter' = <<Head(bridge.queue)>>
  /\ bridge' = [bridge EXCEPT !.queue = Tail(@)]
  /\ UNCHANGED <<turn, stream, graph, mux, got, client>>

(* flushBlock of the client. *)
Shown(d) ==
  LET p == [draft |-> d.draft, part |-> d.part] IN
  IF d.kind = "text"
    THEN [client EXCEPT !.text = Append(@, p), !.hasText = TRUE]
    ELSE [client EXCEPT
            !.answer = IF d.replace THEN <<p>> ELSE Append(@, p),
            !.text = IF d.replace /\ ~client.hasText THEN <<>> ELSE @]

Deliver(d) == got' = Append(got, d.n) /\ client' = Shown(d)

WakeOnAll == getter # <<>> /\ graph # "pending"
(* asyncio.wait, FIRST_COMPLETED. *)
Wakes == getter # <<>> \/ graph # "pending"

(* A delta goes first; the set of done tasks is fixed when the wait returns. *)
WakeDelta ==
  /\ mux.at = "wait" /\ Wakes /\ getter # <<>>
  /\ Deliver(getter[1])
  /\ mux' = [at |-> "delta", graphDone |-> graph # "pending"]
  /\ UNCHANGED <<turn, stream, bridge, graph, getter>>

ItemRenewsGetter == getter' = <<>>
ItemKeepsGetter == UNCHANGED getter

(* The hop of an update is yielded, values stay inside the runner and __anext__ is
   called again; the end of the graph starts the drain at once, and an exception
   leaves through the finally clause, which cancels both tasks. *)
TakeItem ==
  CASE graph = "item" ->
         /\ turn' = [turn EXCEPT !.items = Tail(@)]
         /\ IF Head(turn.items) = "updates"
              THEN mux' = [at |-> "hop", graphDone |-> FALSE] /\ UNCHANGED graph
              ELSE mux' = [at |-> "wait", graphDone |-> FALSE] /\ graph' = "pending"
    [] graph = "over" -> mux' = [at |-> "drain", graphDone |-> FALSE] /\ UNCHANGED <<turn, graph>>
    [] graph = "raised" -> mux' = [at |-> "failed", graphDone |-> FALSE] /\ UNCHANGED <<turn, graph>>

WakeItem ==
  /\ mux.at = "wait" /\ Wakes /\ getter = <<>> /\ graph # "pending"
  /\ TakeItem /\ ItemKeepsGetter
  /\ UNCHANGED <<stream, bridge, got, client>>

(* The reader asks for more after a delta: a new get is started, and the graph's
   item is taken if it was done when the wait returned. *)
AfterDelta ==
  /\ mux.at = "delta"
  /\ getter' = <<>>
  /\ \/ mux.graphDone /\ TakeItem
     \/ ~mux.graphDone /\ mux' = [mux EXCEPT !.at = "wait"] /\ UNCHANGED <<turn, graph>>
  /\ UNCHANGED <<stream, bridge, got, client>>

(* The reader asks for more after a hop. *)
AfterHop ==
  /\ mux.at = "hop"
  /\ graph' = "pending"
  /\ mux' = [mux EXCEPT !.at = "wait"]
  /\ ItemKeepsGetter
  /\ UNCHANGED <<turn, stream, bridge, got, client>>

DrainOne == mux.at = "draining" \/ bridge.queue = <<>>
Drained == bridge.queue = <<>>

(* _drain_sse_bridge yields what is queued.  sse_task is still alive: while the
   reader is suspended it may take a delta that nobody yields. *)
Drain ==
  /\ mux.at \in {"drain", "draining"} /\ ~Drained
  /\ Deliver(Head(bridge.queue))
  /\ bridge' = [bridge EXCEPT !.queue = Tail(@)]
  /\ mux' = [mux EXCEPT !.at = "draining"]
  /\ UNCHANGED <<turn, stream, graph, getter>>

(* Queue empty: the finally clause cancels sse_task and drops what it holds. *)
DrainEnds ==
  /\ mux.at \in {"drain", "draining"} /\ Drained
  /\ mux' = [mux EXCEPT !.at = "ended"]
  /\ getter' = <<>>
  /\ UNCHANGED <<turn, stream, bridge, graph, got, client>>

(* The turn is charged and finalized, its result and "done" are sent. *)
Result ==
  /\ mux.at = "ended"
  /\ mux' = [mux EXCEPT !.at = "done"]
  /\ UNCHANGED <<turn, stream, bridge, graph, getter, got, client>>

(* The client disconnects: the generator is closed where it yields or is
   cancelled where it waits, and takes both tasks with it. *)
Disconnect ==
  /\ LoopFree
  /\ mux' = [mux EXCEPT !.at = "closed"]
  /\ graph' = "cancelled" /\ getter' = <<>>
  /\ UNCHANGED <<turn, stream, bridge, got, client>>

Produce == Worker \/ Critic \/ FormatterDirect \/ FormatterStream \/ Token \/ NextProvider
           \/ StreamEnds \/ GraphAnswers
Multiplex == WakeDelta \/ WakeItem \/ AfterDelta \/ AfterHop \/ Drain \/ DrainEnds \/ Result
Next == Produce \/ Multiplex \/ WatchDue \/ Fallback \/ GetterTakes \/ Disconnect

Spec == Init /\ [][Next]_vars

(* Nodes end (every LLM call has a timeout), the reader asks for more or leaves, and
   the loop runs every task that is ready. *)
FairSpec == Spec /\ WF_vars(Produce) /\ WF_vars(Multiplex) /\ WF_vars(GetterTakes)

-----------------------------------------------------------------------------
(* Properties *)

Emissions == 1..bridge.emitted
Numbers(ds) == {ds[i].n : i \in DOMAIN ds}
InOrder == \A i \in 1..Len(got) - 1 : got[i] < got[i + 1]

(* Whatever task wakes first, deltas are yielded in the order they were emitted and
   none twice, and until the stream ends each is yielded, queued or in the hand of
   the pending get (two tasks share the queue: the get and the drain). *)
NothingDropped ==
  /\ InOrder
  /\ mux.at \notin Ends \cup {"ended"} =>
       ToSet(got) \cup Numbers(bridge.queue) \cup Numbers(getter) = Emissions

(* A turn that ends with its result has shown every delta but at most one: what the
   get that outlives the graph takes during the drain.  (That one is lost although
   _drain_sse_bridge is there to flush "any SSE events left in the bridge".) *)
LossBounded == mux.at \in {"ended", "done"} => Len(got) + 1 >= bridge.emitted

OneDraft(ps) == \A i \in DOMAIN ps : ps[i] = [draft |-> ps[1].draft, part |-> i]
Lossless == got = [i \in 1..Len(got) |-> i]

(* The client's answer preview is always the beginning of one draft, although up to
   five producers write it and the watch for a late first token races the stream:
   every new draft resets it.  The two exceptions are a delta the drain lost and a
   provider that failed after it had begun to answer. *)
ShownIsOneDraft == Lossless /\ ~stream.restarted => OneDraft(client.answer)

(* A streamed turn ends, with a result, an error or a client that left. *)
TurnEnds == <>(mux.at \in Ends)
-----------------------------------------------------------------------------
(* The inductive invariant.  Positions count what the history numbers: the queue
   holds the last emissions, the getter the one before them, and what was yielded
   is all the rest, but for the one the getter holds while the queue is drained. *)
Q == Len(bridge.queue)
Suffix == \A i \in 1..Q : bridge.queue[i].n = bridge.emitted - Q + i
Prefix == Lossless /\ bridge.emitted = Len(got) + Q
Skipping(g) == /\ g \in 1..bridge.emitted - Q
               /\ bridge.emitted = Len(got) + 1 + Q
               /\ \A i \in 1..Len(got) : got[i] = IF i < g THEN i ELSE i + 1
Conveyed ==
  CASE mux.at = "delta" -> Prefix /\ getter # <<>> /\ getter[1].n \in Emissions
    [] mux.at \in {"wait", "hop", "drain", "draining"} /\ getter = <<>> -> Prefix
    [] mux.at \in {"wait", "hop"} /\ getter # <<>> ->
          Skipping(getter[1].n) /\ getter[1].n = bridge.emitted - Q
    [] mux.at \in {"drain", "draining"} /\ getter # <<>> -> Skipping(getter[1].n)
    [] OTHER -> InOrder
(* What is still to come, if nothing is lost. *)
Pipe == IF mux.at = "delta" THEN bridge.queue ELSE getter \o bridge.queue

(* d goes on where the preview will stand once the first k deltas of the sequence s
   have been added to the answer shown. *)
Continues(s, shown, d, k) ==
  \/ d.replace /\ d.part = 1
  \/ /\ ~d.replace
     /\ \E i \in 1..k : /\ s[i].kind = "answer" /\ s[i].draft = d.draft /\ d.part = s[i].part + 1
                       /\ \A h \in i + 1..k : s[h].kind # "answer"
  \/ /\ ~d.replace
     /\ \A i \in 1..k : s[i].kind # "answer"
     /\ d.part = Len(shown) + 1 /\ (shown # <<>> => d.draft = shown[1].draft)
Chained(s, shown) ==
  \A j \in 1..Len(s) : s[j].kind = "answer" => Continues(s, shown, s[j], j - 1)

(* The next token of the formatter's stream goes on from all that was emitted. *)
NextToken == Piece("answer", stream.draft, stream.token + 1, FALSE)
Binding == /\ ~bridge.answered => bridge.emitted = 0
           /\ stream.token > 0 => stream.first /\ turn.node \in {"stream", "over"}
           /\ turn.node = "stream" /\ ~stream.restarted =>
                IF stream.token = 0 THEN stream.replace \/ bridge.emitted = 0 ELSE ~stream.replace
Previewed ==
  Lossless /\ ~stream.restarted =>
    /\ OneDraft(client.answer)
    /\ mux.at \notin Ends \cup {"ended"} =>
         /\ Chained(Pipe, client.answer)
         /\ turn.node = "stream" /\ stream.token > 0 =>
              Continues(Pipe, client.answer, NextToken, Len(Pipe))

Started == bridge.emitted = 0 => client.answer = <<>>

(* What the graph answered is there to be taken. *)
Handed == /\ graph = "item" /\ mux.at \in {"wait", "delta"} => turn.items # <<>>
          /\ mux.at = "delta" /\ mux.graphDone => graph # "pending"
          /\ graph = "cancelled" => mux.at = "closed"

IInv == TypeOK /\ Handed /\ Suffix /\ Conveyed /\ LossBounded /\ Binding /\ Started /\ Previewed
=============================================================================
