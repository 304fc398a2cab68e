# Verification of Palatium AI

TLA+ models, TLC runs and TLAPS proofs for the concurrent core of Palatium AI.
Paths below are relative to `src/palatium_ai/` of the repository unless they
start with `docs/` or `tests/`.

Palatium AI is a multi-agent assistant: a FastAPI service runs a LangGraph of
agents for each user turn, calls tools on MCP servers, keeps memory and
attachments, and asks a human before anything that writes.  It is mostly a
system of short asynchronous handlers over shared stores (Redis, Postgres, a
LangGraph checkpointer): each handler reads, awaits, and writes what it decided
on the copy it read.  What is hard to test in it is what happens between those
awaits, and that is what these models are about.

## Inventory

| Part | State it keeps | Operations | Correct when |
|---|---|---|---|
| HITL card protocol (`application/services/hitl_service.py`, `infrastructure/hitl/*_store.py`, `domain/hitl`) | a card per question (status, deadline, token nonce, verdict) and the idempotency key of the click that resolved it | create, get (applies the TTL), resolve, resolve_escalated, list, sweep | one verdict per card, never revised; a replay is answered only to the click that won; a card in the managers' hands is not decided by its owner; every card closes |
| HITL respond facade (`application/services/hitl_respond_facade.py`) | none of its own | resolve, then execute the parked mutation, resume the graph, revise, or acknowledge; compensate a failed resume | what a human approved happens at most once, what he refused or never answered does not happen, nothing stays parked for ever |
| Parked mutations (`memory_save_service.py`, `memory_forget_service.py`, `memory_extract_hitl_service.py`, `document_ingest_service.py`, `attachment_service.py`) | a payload per task, in Redis with a TTL and in a process-local dictionary | request (park and mint a card), execute_after_approval, discard_pending | as above |
| Tool interrupts (`agents/researcher/mcp_path.py`, `intent_hitl_flow.py`, `intent_graph_runner.py`) | the checkpoint of a paused turn, the card that stands for it | pause, finalize_tool_interrupt, resume_after_tool_approval, system_deny_tool_interrupt | no write tool runs unapproved or twice; a paused turn is attended and settled; a late resume does not run an answered turn |
| Quality review and revision (`intent_hitl_flow.py`, `orchestration/nodes.py`) | revision count of the turn and of the session, reviewed content hash | route_after_critic, quality_revision, acknowledge_quality_approve, revise_after_quality_reject | revisions are bounded; what is approved is what was shown |
| Turn orchestration (`application/orchestration`, `domain/policies/grounding`) | the agent graph state of a turn | planner, nodes and routers, the merge of parallel workers | every route ends in the formatter; the revision loop is bounded and returns to the drafters; what retrieval brought decides what is published |
| Node runtime and circuit breaker (`core/resilience`, `orchestration/node_runtime.py`) | failure count, open-until time, half-open probe flag | call, success, failure, probe | a failing node is shed and retried; one probe at a time; the probe is always given back |
| Memory extraction (`memory_extract.py`, `infrastructure/memory/extract_job_queue.py`) | a Postgres queue of jobs with leases, attempts and back-off | enqueue, claim, complete, fail | every job is done or dead after a bounded number of attempts; one worker's report does not undo another's |
| Memory (`memory_write_service.py`, `memory_promotion.py`, `infrastructure/memory`) | long-term entries by namespace | put, recall, promote, sweep | writes are scanned; scopes are kept apart |
| Attachments (`attachment_service.py`, `infrastructure/database`, `infrastructure/blob`) | a row per upload with a status, blobs, staged parts, quotas | init, chunk, finalize, complete, reingest, restore, index, delete, sweep | the last verdict stands; a removed row stays gone; a row's text is there; nothing is left behind |
| Kill switch and cost budget (`kill_switch.py`, `cost_budget.py`) | a flag, spend counters | engage, release, assert_clear; charge, check | no turn starts while engaged; spend stays near its cap |
| MCP client (`infrastructure/mcp`, `application/tools`) | tool registry, pins, sessions | get_tool, call | tools are pinned; a call's arguments are those approved |
| Sessions (`session_service.py`, dialog turns) | session rows with a JSON context, numbered dialog turns | touch, append, finalize | numbers are unique; no update of the context is lost |
| Streaming of turns (`turn_sse_bridge.py`, `intent_graph_runner.py`, `agents/formatter`, the socket endpoints, the accumulators of the web client) | the queue of a turn, the pending get and graph item, the emitter's buffer, what the client shows | emit, multiplex, drain, flushBlock | deltas in order and none lost; what is shown is one draft; the stream ends |
| Response cache (`response_cache_service.py`) | cached answers | get, put | an answer is served only in its scope |
| Audit log (`core/observability/audit.py`) | a file of records, each with the hash of the one before; a dead-letter file | append, verify_chain | appends do not fork the chain; a lost or torn record shows; no event vanishes |
| Retention (`application/services/retention`, `infrastructure/retention`) | none of its own | orchestrated deletes | a failed store does not stop the others |
| LLM access, prompt-injection scanning, parsing, embeddings, knowledge search, export, skills, web search, config, metrics | caches and clients | pure functions or external calls | out of scope: data transformations and I/O |
| The rest of the web client, MCP stub servers, jobs, deployment | | | out of scope: other programs |

How they meet: a turn (orchestration) pauses or parks a mutation and mints a
card; a click on the card goes through the respond facade, which consumes the
card first and acts second; the sweep loop and lazy readers close cards nobody
answered and deny what they stand for.  A streamed turn shows its drafts while the
graph still revises them.  All handlers of all processes share the
stores; nothing else synchronises them.

## What is modelled

| Module | Models | Proofs |
|---|---|---|
| `HitlLifecycle` | what a card promises, abstractly | |
| `HitlCard` (`MCHitlCard`) | `HitlService` over the compare-and-set store | `HitlCardProofs` |
| `ParkedMutation` (`MCParkedMutation`) | the off-graph writes and `HitlRespondFacade`, over `HitlLifecycle` | `ParkedMutationProofs` |
| `AuditChain` (`MCAuditChain`) | `AuditChainLogger` | `CoreProofs` |
| `JobLifecycle` | what the extraction queue promises of a job, abstractly | |
| `ExtractQueue` (`MCExtractQueue`) | `PostgresExtractJobQueue` and `MemoryExtractService.run_worker` | `ExtractQueueProofs` |
| `Circuit` (`MCCircuit`) | `ConsecutiveFailureCircuit` and its callers | `CoreProofs` |
| `UploadLifecycle` | what an attachment promises to a turn, abstractly | |
| `Attachment` | `AttachmentService`, its pipeline, lazy reads and retention, over row and store | `AttachmentProofs` |
| `ToolInterrupt` | a turn that asks for tool calls: pause, cards, resume, denial, compensation, over `HitlLifecycle` | `ToolInterruptProofs` |
| `TurnGraph` | the graph of agents in one turn: planner, routers, workers, merge, critic, formatter | `TurnGraphProofs` |
| `TurnStream` | a streamed turn: producers, bridge, multiplexer, client previews | `TurnStreamProofs` |

In all modules an action is what the code does between two awaits (or, for the
audit log, between two operations on the file), so that TLC interleaves handlers
where the event loop or another process can.  Operators that the header of a
module calls wrong variants (`BlindSet`, `ClaimRunning`, `PeekTakes`, ...) are
plausible slips of the definition that follows them.  No action uses them;
substituted for that definition they break a property, which shows that the
property says something about the code.

### HitlCard

`card` and `idem` are the store: the card view and the idempotency key of
`RedisHitlCardStore`.  `proc` is what each running handler holds between awaits:
the copy it read, its key and token, and `pc`, the await it stands at.
`Create` is the three create methods; `Request`, `CheckKey`, `DecideWin`,
`DecideLose`, `Latest` and `LatestKey` are `resolve`, `resolve_escalated` and
`_finalize_resolve`; `View` and `ApplyTtl` are the readers that apply the TTL;
`Sweep` and `List` are `sweep_expired`; `Escalate`, `AutoReject`, `DeadLetter`
and `CloseLose` are the ends of `_expire_card` and `_dead_letter_escalated`;
`Audit` and `AuditFail` the audit record after each.  `Evict` is Redis dropping
a card a day after its deadline.  `log` and `issued` are history: the verdicts
that won, the tokens that were printed.

Abstractions.  A token is its subject and its nonce, and nonces are named by the
order in which the store took them; what a request alone decides (unknown
option, wrong principal, missing step-up) is the free choice in `CheckKey` to
refuse.  The router reads the card before it resolves it; that read is a `View`.
A click checked before the deadline may land after it, as in the code.  The
in-memory store has the same semantics and needs no model of its own.  The
status `expired` exists in the enumeration, but no handler sets it.

### ParkedMutation

`shared` holds when a payload in Redis expires, `local` the dictionary of each
worker process: `_store_pending`, `_load_pending` and `_delete_pending` touch
both, and a click may be served by any process.  `Park` and `Mint` are
`request_save` and its like; `Prepare`, `LoadPrepared`, `MoveOut` and `MoveIn`
the document path, which mints first and moves the payload second; `Win` and
`Replay` the call of `resolve`; `Resume` and `ToRun` the facade's dispatch;
`Fetch`, `Call` and `Discard` are `execute_after_approval` and
`discard_pending`.  `Serves` says which process has the service of which write: those
of documents, extraction and attachments are optional (`application/bootstrap.py`).  A
click served where the service is missing is answered with nothing run or dropped
(`ToRun`).  The cards are those of `HitlLifecycle`: `HitlCard`
implements it, so what holds here does not depend on how.

Abstractions.  The check of the deadline and the compare-and-set are one step
(`Win`).  Denying an expired off-graph card finds no paused turn and changes
nothing.  What fails inside a write (an MCP error, an attachment in the wrong
status) is the fault `tool`; the payload is left in place then, although some
services drop it also after an error, which makes no difference once the click
is spent.  One prepared document at a time.

### AuditChain

`file` is the sequence of lines, `torn` says that the last one has no newline,
and `thread` is what each running `append` holds.  `Acquire`, `ReadLast`,
`Write` are the locked part of `append`; `WriteFails` and `DeadLetter` are what
`append_async` does on `OSError`; `ReadFails` is `AuditChainIntegrityError`.  Each
append ends in one of the sets `chained`, `told` (its caller got the error that says
the event is preserved in the dead-letter file), `refused` (an integrity error) or
`cut` (a crash); `dead` is the dead-letter file, and `spilt` the events told of that
could not be written there either.
`Verifies` is `verify_chain`.  A hash is the sequence of events it commits to,
which is what SHA-256 is used for; the HMAC and the scan for secrets (which may
refuse an event before the lock) are left out.  `Block` is the tail block of
8192 bytes, counted in lines.

### ExtractQueue

`row` is the table, by key; `table` the order of `created_at`.  `Count`, `Look`,
`Insert`, `Full`, `Known` and `Revive` are the statements of `enqueue`; `Claim`
is the single `UPDATE ... RETURNING`; `Process`, `Complete`, `FailRead` and
`FailWrite` an attempt and its report; `Lose` a worker that dies, or whose report
raises; `SchemaError` the worker's own error budget.  Times are counted down:
`wait` until the job is available, `lease` until it may be claimed again.
`Put` says that the ORM writes only the columns that changed since they were
read.  Schema errors are modelled where they occur first, at the claim.  What an
extraction does is one step: `worked` says that `_process_job` returned for the job,
which does not mean that facts were stored (see Findings).  The in-process queue has no await inside its
operations: it is the special case where each runs to its end.

`JobLifecycle` has no rows, leases or workers: a job waits, is in work, was abandoned,
is done or was given up.  `State` maps to it: a row that is `running` is in work if
some worker is at it, else abandoned; which of the two it is the table does not tell,
and the lease guesses it.

### Circuit

`state`, `failures`, `probe` and `cool` (the time left until `open_until`) are
the fields of the circuit, `call` the calls that were given permission.  `Peek`
is `is_open`, which the registry and the fallback chain call on its own; the
chain's `_acquire` is `Peek` and `Allow` with no await between.  `Allow`,
`Succeed` and `Fail` are `allow_request`, `record_success`, `record_failure`;
`EndSilently` is a call that nobody reports on; `Renew` is the MCP registry
forgetting its circuits.  A stale `Fail` is that of `list_tools` and
`list_tool_summaries`, which stamp a failure with the time the call began.
Failures beyond the threshold and ages beyond the cooldown are not told apart.

### Attachment

One attachment.  `row` is its row in Postgres; `blob`, `part` and `text` are the
original, the staged parts and the derived text in the store.  `handler` is what
each running handler holds: the copy of the row that it means to save, the bytes
it carries and `pc`, the access it comes to next.  `Upload`, `Stage`, `Finalize`,
`Complete`, `Reingest`, `Restore`, `Read`, `RequestIndex`, `MarkIndexed` and
`Delete` are the first steps of the service's methods (read the row, check it);
`Put`, `StagePart`, `Gather`, `DropParts` and `WriteText` their accesses to the
store; `Admit`, `Refuse`, `Mask`, `ForceMask` and `Parse` the ways the pipeline
ends; `Save` and `Stamp` the two updates of the row; `DelParts` to `DelRow` the
removal, which `delete`, `_purge` and the retention job do alike.  `TicketPut` is
the client that puts by the presigned URL.  `Swallow` is a deletion that the
MinIO adapter suppressed, `Crash` a handler lost, or ended by a store that raised.

Abstractions.  Malware, PII, secrets, size and format only decide between
admission and refusal, so the free choice in `Refuse` stands for them; the
injection gate keeps a content of its own (`flagged`), because a manager may
restore what it refused.  `quarantined` and `rejected` are one status: nothing in
these handlers tells them apart.  Parts are one object, and what is assembled from
them is one of the two contents.  A later deletion of all parts is one step, and
the row's other columns follow its status.  The attachment has a TTL (a row
without one is kept until its owner deletes it); an approved index or restore is
carried out by the client that began it.  `stray` is a history variable: it
records the four ways the code leaves objects without a row (a removal and a
writer overlap; a save from an old copy drops a key; a handler ends between text
and row; a deletion is swallowed), and `NothingLeft` claims the rest.

`UploadLifecycle` says what a turn may rely on, with one status, one text and no
copies; `U` in `Attachment` maps `status` and `named` to two columns of the row and
`text` to whether the derived text is in the store.  It also shows what the service
does not promise: a save from an old copy may undo a refusal, though never with
`ready`, and may forget a text's name.

### ToolInterrupt

One turn whose worker asks before it writes.  `turn` is its checkpoint (where the
graph stands, the question it is paused on, the revisions it has counted), `asks`
how many questions it has raised; question and card have the same number.  `run` is
what each handler does: run 0 is the turn's own request, run k is whoever closed
card k, a click or the system.  `Ask`, `NoQuestion`, `Work`, `Commit`, `Pass` and
`Revise` are the graph, run by any of them (`mcp_path.py` and the critic); `Read`,
`Load`, `Mint`, `Refuse` and `Record` are `IntentHitlFlow` and `IntentGraphRunner`
around it; `Click`, `Escalate` and `Expire` close the cards and start a run;
`Fail` is an exception anywhere, which the facade answers by denying the turn that
its click was to resume, and `Crash` a lost process.

`NoQuestion` contains more than its name says: at `mcp_path.py:307` an
`except Exception` stands around the interrupt, which the graph library also raises
as an exception.  Whether it passes depends on that library, which is not in `src/`;
the model allows both, and its properties hold either way.  `exposed` is a history
variable for the one case in which the code lets a resume act for a question that
is not its own: it failed after it had minted the next card, and its compensation
denied that question with the card open.  `ignored` lists the questions nobody is
left to answer.

Abstractions.  Of the checkpointer we assume what `src/` relies on: a paused turn
stays paused until the step of the resumed worker is committed, and resuming a turn
that is not paused does nothing.  The arguments of a call are not modelled: the
resumed worker builds them again, and nothing compares them with what was shown.
The human's own revision of an answer, which starts a new invocation, is not part
of this turn.

### TurnGraph

`turn` is what classification, continuity and routing decided, any value of it;
`at` the node that runs next; `plan`, `execution`, `clarify` (`requires_clarification`),
`revisions` and `formatted` the fields of the graph's state that decide anything;
`steps` the nodes run so far.  `Build` is `ExecutionPlanner`; `AfterContext`,
`AfterCritic` and `AfterRevision` are the routers; `Weave`, `Research`, `Draft`,
`ParallelWorkers`, `Critic`, `QualityRevision` and `Format` the nodes; `Outcomes`
what a worker may return, `Empty` what `GroundingPolicy.decide_empty_retrieval`
makes of a retrieval that found nothing, `Merge` is `merge_parallel_worker_results`.
`Answers` is what the formatter may make of a draft: a copy, a text of its model, an
earlier answer from the cache, or a failure.
`found`, `calls` and `drafter` are history variables.

Abstractions.  A text is where it came from (the model, a source, the model after an
empty retrieval); the critic's opinion is free.  The errors of several workers are
joined into one string in the code, a set here, so that only a string of a single
error is recognised, as in the code.  The disclaimer is words before the draft: a copy
keeps them, a rewritten answer may or may not (`formatted.shown`), so that
`DisclaimerIsHanded` speaks of what the formatter gets and of what it copies.  The
handler of `ClarifyError` in `weaving_node` (`nodes.py:394-402`) has no action, because
nothing in `src/` raises that error.  The three nodes before the planner only
count as steps.  `Escaped` in `FailureStands` is this joining; the exception for
parallel drafts in `RequiredIsAsked` is that `parallel_workers_node` publishes
without a question.

### TurnStream

`turn` is the graph as the multiplexer sees it: the node that runs and the items it
still hands out.  `bridge` is `TurnSseBridge`, `graph` and `getter` the two tasks
of `_multiplex_astream_with_sse`, `mux` the place where it stands, `client` the
accumulators of the web client.  `Worker`, `FormatterDirect`, `FormatterStream`,
`Token`, `NextProvider` and `Fallback` emit; `WatchDue` is the timeout of the watch for
a late first token; `GraphAnswers` and `GetterTakes` finish the two tasks;
`WakeDelta`, `WakeItem`, `AfterDelta`, `AfterHop`, `Drain`, `DrainEnds` and `Result`
are the multiplexer between its suspensions; `Disconnect` closes the generator.  One
event loop runs it all, hence `LoopFree`: the others move only where the multiplexer
waits or yields.

Abstractions.  A delta is its number, its draft and its part of it.  An open tag at
the end of a token, which the emitter holds back, only moves the border between two
parts.  An exception ends the turn (`raised`) before or between nodes.  The transport
keeps order and is not modelled.

## The runs

| Run | Shows | Bounds |
|---|---|---|
| `HitlCardRace` | `SingleVerdict`, `ReplayFaithful`, `AuthorityMatches`, and that `HitlCard` implements `HitlLifecycle` | one risky card, two client handlers of any kind beside its sweep, two keys; the clock passes the owner's deadline, the manager's and the retention |
| `HitlCardSweep` | `EveryCardCloses` | a risky and a safe card, one client, one lost handler |
| `ParkedWrite` | at most once, only approved, success means run, a refusal leaves nothing shared | a parked write and a commit, two processes, two clicks, all faults; the second process has only the service of the commit; document payloads live two ticks, all else one |
| `AuditFaults` | `ChainIntact`, `NothingLost`, `LossIsReported` | three threads, five events, two crashes, every fault; a tail block of two lines, so that files are shorter and longer than it |
| `QueueTimely` | `OneWorker`, `AttemptsBounded`, `OneRow`, that `ExtractQueue` implements `JobLifecycle` (`JobSpec`), `EveryJobEnds` | two jobs, two workers, two racing callers, capacity one (which the second job may exceed), two attempts, one lost report per job, schema errors, two calls (so that a dead job is revived, but by one caller) |
| `QueueLate` | violated: `Reclaimable` | attempts may outlast their lease; one job, one caller, two workers, two calls |
| `CircuitCalls` | `ProbeOwned`, `OneProbe`, `Heals` | three calls, threshold three, cooldown of three ticks, stale stamps and renewals |
| `CircuitWedged` | violated: `Recovers` | two calls |
| `AttachmentRace` | that `Attachment` implements `UploadLifecycle` (`UploadSpec`), `VerdictStands`, `KeyHasText`, `NothingLeft`, `Reclaimed` | one attachment, two handlers of any kind and a sweeper, three requests, one lost handler, all that the store may do |
| `ToolPaused` | `OneCallPerApproval`, `OnlyAskedIsSent`, `Attended`, `AnswerStands`, `Settles` | one turn, two revisions, four questions (one more than the critic can order; the fourth needs an exposed resume), one of them risky, two handlers that raise or are lost; 0.36 million states |
| `TurnAnswer` | `RequiredIsAsked`, `DisclaimerIsHanded`, `NotCutOff`, `FailureStands`, `SameWorkersAgain` | every turn, two revisions, and a bound on nodes of 13, the least that the assumption `7 + 3 * MaxRevisions <= RecursionLimit` admits; 0.97 million states |
| `StreamedTurn` | `NothingDropped`, `LossBounded`, `ShownIsOneDraft`, `TurnEnds` | drafts of up to three deltas, two worker drafts, two providers; 1.2 million states |

Why the bounds are enough.  A card goes through at most three stored versions
and each conflict is between two handlers and the sweep.  In `ParkedMutation` a
tick is five minutes, the shortest TTL; the longer ones only have to be longer,
and the managers' fifteen minutes are scaled to one tick.  In the audit log a third thread is the one that
appends between two others, and five events let a file outgrow its tail block.
Two attempts and one lost report give every order of claim, expiry, report and
revival of one job; a second job makes the order of claims matter.  A circuit
needs three calls: the probe, one left over from before it opened and one that
asks.  Two handlers and a sweeper
give every pair of copies under a removal, and a third request the upload that a
re-scan, a restore or a lazy read starts from.  Two revisions are the repository's
default for a turn; two faults are a failed resume and a failure of its compensation.
In `TurnStream` three deltas give a first, a middle and a last; one can be in the
hand of the getter while two are queued, and more only repeat this.  `MaxClock`, `MaxTime`, `MaxEvents`, `MaxCrashes`, `MaxCalls`, `MaxLost`,
`MaxCards`, `MaxAsks`, `MaxFaults`, `Chunks` and `MaxDrafts` only bound the search; the theorems hold for all their values.
`CHECK_DEADLOCK FALSE` is set where behaviours end because such a bound is
reached or everybody has been answered.

## Fairness

`HitlCard`: time passes and the sweep loop of `application/bootstrap.py`
(534-550), which catches every failure and sleeps, visits each card again.
Clients owe nothing.  `ExtractQueue`: time passes, and `run_worker` goes on,
since it never waits longer than a poll or a back-off; schema errors may end every
worker, which `EveryJobEnds` allows, and no attempt of its run outlasts its lease.  `Circuit`:
time passes, calls keep coming, and each ends, because every caller has a
timeout.  How it ends is not constrained; that failures stop and that probes
report are hypotheses of `Heals`.  `Attachment`: time passes, and retention comes
back to what it has left, since every listing and the scheduled job sweep again;
handlers of clients may stop anywhere.
`ToolInterrupt`: a handler runs on unless it raises or is lost, and the sweep reaches
every card that nobody answers; clicks are not owed.  `TurnStream`: nodes end, because
every call of a model has a timeout; the reader of the stream asks for more or leaves;
and the event loop runs what is ready.  A client that leaves is not owed, nor is
the watch.

## What is proved

TLAPS checks the safety properties of the passing runs that are listed in
`PROJECT.json`, for any sets of cards, tasks, workers, threads and calls and any
timing constants that satisfy the `ASSUME`s.

* Cards.  `CardOK` ties nonce, printed tokens and status together: a stored
  status fixes the nonce.  `VerdictOK` ties the status to the log of verdicts
  and the key.  `HandlerOK` says what an old copy is still good for: its status
  may be out of date, but its nonce goes with its status, so that a
  compare-and-set that finds the same status has found the same version.  From
  this follow `SingleVerdict`, `ReplayFaithful`, `AuthorityMatches`,
  `OneEscalation` and `TerminalFinal`.  `ImplementsLifecycle` maps each step to a
  move of the abstract card or to a stutter.
* Cards in use.  `ParkedMutation` and `ToolInterrupt` move their cards by the actions
  of `HitlLifecycle`.  `CardsFollowLifecycle`, a theorem of each, says that they keep
  its whole specification, so that what they assume of a card is what `HitlCard`
  implements.  For `ToolInterrupt` this needs `Asked`: what a handler is about to
  mint is the card of a question, also after an exposed resume.
* Parked writes.  The click that won a card is alone (`OneWinner`) and holds its
  verdict; its `pc` tells what `runs` counts.  A payload parked before its card
  exists is never parked again once there is one (`Begun`), so that what a
  refusal dropped stays dropped.
* Audit.  Who is past the lock holds it, and the hash a writer read is that of
  the last line (`PrevIsLast`), as long as all threads share one lock and no
  write was torn (`Whole /\ ~hurt`); then the file is one chain that commits to
  everything reported.  `LossShows` needs none of that: text that continues a torn
  line leaves a line that does not parse, for good (`Settled`).  `EventsAreAccounted`
  joins it to the dead-letter file (`Accounted`): what the caller was told of an event
  one of the two files bears out, except where both writes failed.  `EvidenceStands`, an
  action property, says that no append alters a finished record or makes a file that
  failed verification pass.
* Queue.  `Sound` is inductive with no assumption on time: rows are unique,
  reports go to rows that exist, and who reports `complete` has worked the job through.  `IInv`
  needs `Timely` (no attempt outlasts its lease) and `OneCaller` (revivals do not
  race): a job worked on is running under a live lease, so that a report writes
  what it read.  The theorems about workers and attempts have these two as
  hypotheses; without the first, `DoneIsFinal` is false (see Findings).  Under both,
  `ImplementsJobs` maps each step to a move of `JobLifecycle`: a claim of a running
  row is never one of a job in work, and what `fail` read is what it overwrites.
* Circuit.  A call that runs while the circuit is open will have outlasted the
  cooldown when it is over (`OldEnough`), so that a half-open circuit knows no
  call but its probe (`Alone`).  `late` and `dropped` record the two events that
  break this, and are hypotheses of the two properties, which say nothing after
  such an event.
* Attachments.  `CopyOK` says what an old copy is still good for: one that names
  a text names one that is there, or is about to write it, until a removal cut it.
  `Unnamed` is its converse: a text that the row does not name has a handler on
  its way to name it.  `RemovalOK` says that what a removal has passed stays away.
  All three hold for any number of handlers, and give `KeyHasText` and
  `NothingLeft`; `VerdictStands` and `GoneStays` need no more than that every
  update is either a whole copy of a live row or one column.  `ImplementsUpload`
  maps each step to a move of `UploadLifecycle` or to a stutter; it needs `Copies`
  as well: the place a handler stands at tells the status it will save, so that only
  a copy that was admitted, and whose text was written first, has the status ready.
* Tool interrupts.  `Approvals`: a run carries the verdict of its own card, and as
  long as it stands before the worker its call is unsent; it holds whatever fails,
  and gives `OneCallPerApproval`.  `Calm` holds until a resume is `exposed`: one run
  at a time acts on the checkpoint, none while a card is open, and each place it
  may stand at (`Stage`) fixes what the checkpoint says; the questions are counted by the
  revisions.  From it follow `OnlyAskedIsSent`, `AnswerStands` and `AsksBounded` (at
  most one question for each pass of the worker).  `Attended` is itself part of the
  invariant, and `Numbering` keeps cards from being minted before their questions.
* The graph of a turn.  `Paced` bounds the steps by the place and the revisions,
  so that the bound on nodes is never met; the theorem holds for every setting with
  `7 + 3 * MaxRevisions <= RecursionLimit` and needs it.  `Drafters` ties place, plan and drafter;
  `Provenance` says that prose from an empty retrieval carries the mark
  from which the disclaimer is made, through every merge, and gives
  `DisclaimerIsHanded`; `Endings` that a turn whose
  source failed for good is past its workers.
* A streamed turn.  `Suffix` and `Conveyed` say where each delta is: the queue holds
  the last ones emitted, the getter the one before them, and what was yielded is all
  the rest; only while the queue is drained may the delta in the getter's hand lie
  among those already yielded, and that one is lost (`Skipping`).  From this follow
  `NothingDropped` and `LossBounded`.  `ShownIsOneDraft` is about the client, so the
  invariant must reach from there to the producers: each answer delta on its way
  continues what will be shown when it arrives (`Pipe`, `Continues`, `Chained`), and
  so will the next token of the formatter's stream (`Previewed`); `Binding` ties the
  emitter's replace flag to its tokens and to what has been emitted, and `Handed` says
  that the graph hands out only what it has.

`CoreProofs` holds the proofs about two independent classes of `core`, `AuditChain`
and `Circuit`; nothing in either part uses the other.

Only model-checked: the liveness properties (`EveryCardCloses`, `EveryJobEnds`,
`Heals`, `Reclaimed`, `Settles`, `TurnEnds`), which are out of the prover's reach.

## Findings

`CircuitWedged`: a half-open probe that is cancelled, or ends with a `json_schema`
refusal, is never given back; the target is refused until the process restarts.

The other divergences we met have no run of their own: the models contain the
behaviour and state their properties around it.

* The payload of an attachment restore lives five minutes
  (`attachment_service.py:1352`), as long as the owner's card; the manager to whom
  the card then goes approves something that is no longer there, unless the same
  process serves it, while `docs/runbook.md:1633` promises the re-run
  (`SuccessMeansRun` says that this is at least not reported as success).
* `_read_last_current_hash` (`core/observability/audit.py:133-152`) drops a torn last
  line only in files longer than its tail block, contrary to its docstring; in a
  shorter file every later append raises (`ReadFails` in `AuditChain`).
* When the dead-letter write fails too (`core/observability/audit.py:331-338`), the caller
  is still told "event preserved in dead-letter" (`:305-307`); the event is on no disk
  (`spilt` in `AuditChain`, which `NothingLost` excepts).
* `complete` and `fail` of the job queue name the job only
  (`extract_job_queue.py:285`): the late failure of an attempt whose lease ran out
  reopens a job that its successor completed, where
  `tests/unit/test_memory_extract_queue.py:76-77` expects a completed job to be done.
  `JobSpec` is checked and `DoneIsFinal` proved for attempts that end within their lease.
  Such reports can also leave a row running without a lease, which no claim takes
  (`QueueLate`, a finding): if its worker dies, the job is stuck while `enqueue` says True.
* A failure of the model or of the parser in an extraction is turned into a success
  without facts (`memory_keeper/agent.py:80-93`), `_process_job` returns
  (`memory_extract.py:265-266`) and the job is `done`: it is not retried, and `done`
  says nothing of facts stored.
* The MinIO adapter suppresses every error of a deletion
  (`infrastructure/blob/minio_adapter.py:226-228`), so that a row goes while its
  objects stay, contrary to `docs/runbook.md:1655` (`Swallow` in `Attachment`).
* Two completes of one upload both run the pipeline, contrary to the docstring of
  `complete_upload`.
* A click served by a process without the service of its write
  (`hitl_respond_facade.py:213-214`) spends the card, runs nothing and is answered like
  any other; a refusal leaves the payload in Redis until it expires.
  `SuccessMeansRun` and `RefusedIsDropped` hold where the service is configured, as the
  docstring (`:209`) says.
* A failing audit write ends `HitlService`'s handler after the card was closed,
  contrary to `core/observability/audit.py:275-277`: the approval is spent and the
  write is not sent (`raised` in `ParkedMutation`).
* When the system denies a question and the worker it resumes asks again, the new question
  gets no card (`ignored` in `ToolInterrupt`), contrary to
  `intent_hitl_flow.py:403-404`; and a resume that fails after it minted the next card
  denies that question with the card open (`exposed`).
* `mcp_path.py:307` may swallow the interrupt that `docs/handbook.md:454-455` promises before a write
  (`NoQuestion`).
* Parallel workers publish without the question that required grounding asks for, and
  their joined errors escape the sets of terminal failures (the exceptions of
  `RequiredIsAsked` and `FailureStands`).
* The disclaimer of an answer without a source is only words before the draft that the
  formatter gets (`node_inputs.py:141-150`).  Its model and the repairs rewrite them
  (`formatter/agent.py:90-109`, `formatter/repair.py:123-169`) and nothing checks that they
  remain; the deltas that `nodes.py:470` and `:612` stream are sent before they are put
  there (`Answers` in `TurnGraph`).
* `max_quality_revisions` may be set up to ten, and the fixed bound of 32 nodes admits
  eight (`run_config.py:21-23`): the assumption of `TurnGraph`.
* The drain that is to flush what the bridge still holds can lose one delta to the
  getter that outlives the graph (`LossBounded` in `TurnStream`).
* A provider that fails in the middle of an answer leaves its beginning in the
  emitter's buffer, before the next one's whole answer (`infrastructure/llm/factory.py:367-380`,
  `restarted` in `TurnStream`).  After fallback prose the client's text preview keeps
  the prose in front of the real tokens, contrary to the comment at
  `stream_delta.py:76`; the answer preview is replaced.

## Not modelled

* The human's revision of an answer and its count in the session row; sessions and
  dialog turns (`seq` = max + 1, a read-modify-write of a JSON column).  Nothing
  protects either against a concurrent request of the same thread; what one would
  state of them holds only for requests that follow each other.
* Kill switch and cost budget: a flag and a counter, read before a turn.  Turns that
  began earlier all pass; a turn that failed, was resumed or lost its client is never
  charged.
* What an extraction job does inside, the in-process queue, the tool registry's caches
  and the provider chain around the circuit.
* Two audit loggers in two processes, which would fork the chain; the class asks for
  one writer per file, `AuditChain` has the constant `Home` for it, and no run uses
  two.
* The rest of the table is I/O, data transformation or another program, or state
  that one task owns.

## Plan

Done: 1. `HitlLifecycle`, `HitlCard`; 2. `ParkedMutation`; 3. `AuditChain`;
4. `ExtractQueue`; 5. `Circuit`; 6. `Attachment`; 7. `ToolInterrupt`;
8. `TurnGraph`; 9. `TurnStream`; 10. `UploadLifecycle`; 11. `JobLifecycle`; and proofs of
all their safety properties.

Next, in this order:

1. The requests of one thread: the human's revision count, the numbered dialog turns
   and the daily budget, with the bound on how far concurrent turns overspend, and that
   a revised text is never older than the card that asked for it.
2. An abstract log that `AuditChain` implements until a write is torn, and an abstract
   channel, which may lose one delta at the end, that `TurnStream` implements.
