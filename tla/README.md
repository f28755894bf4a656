# A formal model of the AI engineering learning agent

The repository is a web service that teaches system architecture: a user chats, an
agent answers and draws a diagram, the diagram is kept with its history; and a harness
that evaluates it. These modules model the control of both - conversations, turns,
diagrams and their edits, reviews, model calls, the page, the evaluation - and check or
prove what keeps them right.

Contents: [the system](#the-system), [modules](#the-modules),
[checks](#the-checks), [proofs](#the-proofs), [divergences](#divergences-found),
[further hazards](#further-hazards), [not modelled](#what-is-not-modelled),
[plan](#plan).

## The system

| part | state it keeps | operations | what is hard about it |
|---|---|---|---|
| thread store (`storage/thread_store.py`) | `chat_threads`, `chat_messages`: one row per conversation with the working diagram, its version, its review contract and the pointer to its active revision | `create_thread`, `persist_turn`, `save_graph`, `edit_graph_content`, `delete_thread` | a turn reads its base diagram, works for minutes, and commits; retries; the message limit; retention of other conversations in the same transaction |
| graph history (`storage/graph_history_store.py`) | `graph_revisions`: an append-only tree per conversation | `seed_current`, `append_revision`, `list_history`, `restore_revision` | checkpoints are taken lazily; an earlier release writes beside this one |
| active streams, search requests (`storage/runtime_state_store.py`) | one record per turn in flight, with an expiry; one row per search offer | register, release, read by retention; mark, read, delete | a cancelled registration, a dead process, a deletion between the checks; a click that races its waiter |
| WebSocket transport (`api/chat_websocket.py`) | per turn: command queue, receiver task, agent task, emit queue, deadline, preview shown | the turn loop, steer, stop, accept a preview, disconnect | four tasks of one turn and a client that may leave at any `await` |
| SSE transport (`api/sse_handler.py`) | per turn: agent task, emit queue, search waiter | post, stream, store, offer a search, use it | repeated and retried requests side by side, lost readers, a crash |
| routing (`agent/complexity.py`, `orchestrator_node.py`, `service_expansion_tool.py`) | none: it reads the stored messages and the diagram of the moment | classify a message, resume an expansion, continue a design | what is read was written by other turns, or changed by other tabs |
| agent workflow (`agent/graph.py`, `deadlines.py`, `graph_review_budget.py`) | the state of one run, the time left, the review budget | draft, render, review, correct, repair, reject, explain | loops bounded by counters; time reserved for later stages; a steer restarts it |
| staged pipeline (`agent/staged_graph_workflow.py`) | candidate, layer, attempt, review | generate, render, gate, review, correct, publish | the user's acceptance races the reviewer's answer |
| contracts and edits (`staged_graph_contract.py`, `staged_graph_generation.py`, `graph_worker.py`) | the saved diagram, from which the plan is read back | parse, assign IDs, project, reconstruct, apply a delta, admit | positions and IDs of one diagram used on the next |
| stage review (`staged_graph_gate.py`) | the last complete review | ask, audit, derive the verdict, correct by delta | verdicts that contradict their own audits; evidence of an earlier candidate |
| diagram evaluation channel (`api/diagram_evaluation_channel.py`) | waiters and chunk uploads by evaluation id | wait, chunk, complete, time out | chunks out of order, results after the timeout |
| chat guards (`api/chat_guards.py`) | a cache of input verdicts | classify, replay a stored turn | verdicts that race; weaker or stale ones |
| model calls (`adapters/llm_adapter.py`, `agent/explanation_blocks.py`) | permits, quota rows, telemetry rows | reserve, stream, retry, fall back, record | a caller that is cancelled at any `await`; work that was already accepted |
| analytics (`analytics/events.py`) | a bounded queue, one worker | enqueue, write, stop | a stop while the queue is full |
| page (`frontend/src/hooks`, `services`) | the conversation and diagram shown, one socket, queued steers | stream a turn, steer, stop, retry, switch, edit, restore | answers that arrive after the user moved on; broken links |
| evaluation harness (`eval/`) | attempts, checkpoints, evidence, budgets | run cases, retry, judge, account, resume | a deadline that cancels everything; evidence of two heads; two invocations that share one budget |

How they interact: the browser opens a WebSocket (or an SSE request) per turn. The
transport admits it (limits, replay of an answered request), registers a stream
record, looks the conversation up again, reads the base diagram and starts the agent.
The agent routes the message by what is stored; the staged pipeline sends previews
through the emit queue and shares one `GraphReviewControl` with the main loop, which
passes the user's acceptance on. The main loop waits for the agent, a command or the
deadline; a result goes to `persist_turn` in one transaction, which also evicts old
conversations; then the reply is sent, the agent is stopped, the record released.
Browser tabs read, edit, restore and lay out diagrams through `thread_route.py` at any
moment, with the version they last read. The harness drives the product through the
page and judges what it captured.

## The modules

| module | models | proofs |
|---|---|---|
| `ThreadGraph` | one conversation: working diagram, revisions, completed turns, generations in flight, tabs, an older release | `ThreadGraphProofs` |
| `StagedPipeline` | one run of the staged pipeline and its review control | `ChatTurnProofs` |
| `ChatTurn` | one steerable WebSocket turn; extends `StagedPipeline` with the main loop, the receiver, the deadline and the client | `ChatTurnProofs` |
| `ThreadRetention` | one user's threads: drafts, completions, evictions, stream records | `ThreadRetentionProofs` |
| `DiagramEvaluation` | the private rendering of candidates: agent, browser, frames, receiver | `PartsProofs` |
| `AnswerRegister` | abstract: one answer per request id, told to whoever is done | |
| `SseTurn` | requests over Server-Sent Events; implements `AnswerRegister` | `SseTurnProofs` |
| `AgentWorkflow` | one agent run: both lanes, deadlines, review budget, a steering restart | `AgentWorkflowProofs` |
| `DiagramContract` | operators: parsing, server IDs, checks of a plan, projection, reconstruction | |
| `DiagramEdits` | a diagram created and edited again and again, over `DiagramContract` and `ExpansionChecks` | |
| `DiagramPatches` | a diagram its user writes in by hand, patched under the critic's contract, selected again from concepts | |
| `StageReview`, `StageCorrections` | the verdict on a stage; the calls of a stage that is written, reviewed and corrected by delta | |
| `Conversation` | what a message is taken to ask for, from history and diagram | `PartsProofs` |
| `InputVerdicts` | the cache of verdicts on messages | |
| `ProviderCalls` | model calls: quota, permits, retries, fallback, telemetry; the explanation as their caller | `SpendingProofs` |
| `AnalyticsQueue` | the bounded queue, its worker, starting and stopping | `PartsProofs` |
| `AgentClient` | the page: transport, stream hook, thread session, editor, against a server | `AgentClientProofs` |
| `BrowserTurns`, `BrowserRuns` | the verdict on one evaluated turn; one run of the browser suite | `PartsProofs` |
| `ExpansionChecks`, `EvaluationCosts` | operators: checks of an expanded diagram; what an evaluation cost | |
| `LiveGate` | the semantic gate of a pull request and its failed-only resume | `SpendingProofs` |
| `MC...` | values for TLC; `MCParts`, `MCContracts`, `MCSpending` run several modules that share no state, one per behaviour | |

Comments that begin with "Mutant:" introduce a changed copy of the operator that
follows: a plausible mistake in that code. No specification uses them; each shows
that some property notices the mistake.

### ThreadGraph

Each storage function runs in one transaction that holds the thread's row (`FOR
UPDATE` in Postgres, `BEGIN IMMEDIATE` in SQLite), so each is one action:
`PersistTurn`, `SaveLayout`, `EditContent`, `RestoreRevision`, `ReadHistory`,
`DeleteThread`. A chat request is `Admit`, `ReadBase`, then `Commit`, `RejectInput` or
`Abandon`; between them anything may happen. `PersistTurn` includes the count of
messages, the look for an earlier commit of the request, the seeding of the history,
the inherited layout, the dropped oversized diagram, and the reply that may be lost.

A diagram is its content, layout and version. Titles, labels, timestamps are left
out. A version is a uuid in the code and the next natural number here - fresh
either way; 0 is a diagram saved without a version. `minted` remembers for which
content each version was created; no action reads it but to number the next.
Isolation between users is a `WHERE user_id` and is not modelled. Both transports
make the same storage calls, so they are modelled once. `OldWriterSavesGraph` and
`OldWriterSavesLayout` are an instance of the release before revisions, which the
comment at `graph_history_store.py:90` says may run beside this one.

### StagedPipeline

One action per call the pipeline makes and awaits: `Scope`, `Generate` (or
`GenerationFails`, `Clarify`), `Render`, `StartReview`, `ReviewerAnswers`,
`CloseReview`, for the component layer and then the connection layer. `Accept` is the
user's; it goes through `GraphReviewControl` and may come at any time for any preview
ever offered. What a model, a browser or a contract says of a diagram is a
nondeterministic outcome; a candidate is its version and whether it was simplified.
`Unwind` is the `finally` that closes an open review, used by `ChatTurn`, which extends
this module: its own `Init`, `Spec` and `TypeOK` are therefore called `PipelineInit`,
`PipelineSpec`, `PipelineTypeOK`.

### ChatTurn

The main loop is a program counter: `top`, `wait`, `classify` (the input checks of
a steer), `cancelling` (waiting for the cancelled agent), `store`, `reply`,
`teardown`, `ended`. The agent runs the pipeline's own actions and then
answers, says nothing, raises or notices its deadline. The receiver moves frames from
`inbox` to the bounded `queue` and replaces the queue by a disconnect when the
client has left. In the `wait` state the timeout wins over a command and a
command over the agent's result, as the order of the `if`s in the loop has it.
`screen` is the diagram last sent for display.

Assumed: reads of the database answer; only the completing transaction may fail.
Retries and replays are in `ThreadGraph`. `tries` starts at 0 (a retried request
brings its earlier steering, which only lowers the budget). The legacy graph route is
an answer without a diagram.

### ThreadRetention

`create_thread` and `persist_turn` lock the user's profile row, select what to remove,
and delete it: two actions, so that admissions, releases, deletions and edits, which do
not take that lock, happen in between. The completing transaction holds its own
thread's row as well. A registration takes the lock, a release does not. Times are
the starts of transactions (`CURRENT_TIMESTAMP` in Postgres). The record outlives the
turn: its life is `agent_timeout_s + 30` = 1530 s from the registration, and a turn
ends at most 5 input checks of 10 s and the 1470 s workflow later; so `Expire` is
for turns whose process died.

### DiagramEvaluation

`Request` creates the waiter; `Show` is the candidate arriving in the browser, `Await`
the end of the send, `Return` and `Leave` the two ways out with their `finally`
(`Forget`). `Abandon` cancels an awaited future at once while its task runs later,
which is when a second answer could raise in the receiver. `Submit` puts the start,
the chunks and the complete frame on the wire; `Receive` is `accept`, whole. A
WebSocket keeps the order of frames; the channel's docstring claims more, so `orderly`
is chosen once, and if it is false any frame sent may be received any number of times.
What the code checks of a report and a picture is one of four outcomes. The base
class's `request` and the transport's override of it have the same body.

### AnswerRegister and SseTurn

`AnswerRegister` is the promise both transports make about a request id: at most one
answer is stored for it, and whoever is told "done" is told that one. `SseTurn` is the
SSE transport in full, and `OneAnswerPerId` (= `Answers!Spec`) says that it implements
the promise under a refinement mapping of stored and shown texts.

Each request runs `Post`, its message checks, `Admit`, the drain loop, storing and
closing as actions of one stream, beside an agent that may draft, offer a search, wait
for the click, fail or hang. Readers leave or merely stop reading; the server may
crash once; the owner may delete the conversation or retention evict it. Time is in ticks
of ten seconds, kept as what remains of each limit, so that the record of a stream, its
checks, its agent and the terminal deadline can be compared. The rate limit is a
refusal at any `Post`. Left out: requests without a `client_request_id`, the
endpoint of a selected node, validation of the request, the deltas of the text. One thing seen
while modelling: without an id the notice at `sse_handler.py:820` would say a
diagram is in the history although none was stored; the page always sends an id.

### Conversation

What a message is taken to mean: the operation its words ask for (`Operation`), the
check before it is sent (`SubmitMessage`), the intent of the prelude (`Intent`), and
the orchestrator's route with the dialogue of a service expansion (`Route`, `Resumed`).
The patterns are abstracted to marks of each clause; the messages TLC uses are real sentences
and their marks are what the regular expressions of `complexity.py` find in them.
Between two messages another tab may change the diagram (`ChangeDiagram`). `exchange` and
`design` are histories: which of the user's messages belong to the open question and
to the design, told from what was said and not from how the code finds them again.
Redesigns and educational diagrams count as "lesson"; `diagram_requested`, which only
the API and retries send, is left out. A question asked right after a confirmation
does not carry the request it confirmed, so that the reply to it resumes nothing: `Opened`
says so, as the code does (`service_expansion_tool.py:71`).

### InputVerdicts, AnalyticsQueue

The cache of verdicts is a sequence, least recently used first. Checks of the same message begin
and end in any order and may end when their verdict is too old to be kept. The stricter verdict
wins and the earlier expiry stays; the entry that is evicted takes its verdict with it, so a
denial holds for as long as its entry does, which is what `ReuseIsSound` states.

The analytics queue has one worker. `StopMarks` gives up on a full queue after a
second and `StopEnds` on the worker after five; both limits are choices of the model, and a
write that has begun goes on in its thread. The application starts and stops the
worker once each, so a start does not interleave with a stop.

### ProviderCalls

`stream_response` and the explanation, its caller: reserve an attempt (in a thread that
outlives a cancelled caller), queue for a permit, open, stream, hand over each delta and
stand still meanwhile, retry or fall back as long as nothing was accepted, write the row.
Cancellations come at every await, the process may be killed once. Callers other
than the explanation are one generic call. The permit of an inner generator that its caller
abandons comes back with the step that abandons it; in the program it comes back when
the generator is collected, which is a little later.

### AgentWorkflow

The nodes of `graph.py` in their order, for every request of both lanes. A diagram is a
number, so that "the diagram that was reviewed" and "the diagram that is published" can be compared.
The stages of `deadlines.py` consume units of time, with the proportions of `config.py`
that decide comparisons (a review is longer than a render, and so on). The review
budget outlives the run that a steer cancels. LangGraph merges partial updates, so a
field that a node removes from its copy stays in the state: `graph_patch_validation_error`
does. The staged lane is one step here. Left out: gathering context,
search approval, and two branches that cannot be reached (the critic's own
re-render, an unreviewed diagram at synthesis).

### DiagramContract, DiagramEdits, ExpansionChecks

`DiagramContract` holds the pure part of `staged_graph_contract.py`: parsing a plan,
server IDs, the checks, the projection to what is saved, and the reconstruction of a plan
from what was saved. `DiagramEdits` saves a diagram and edits it again and again: scopes
compiled from the request, layers assembled onto the saved diagram, admission. The words
choose a scope, the model writes anything within bounds, and a refusal of the renderer or
reviewer is `GiveUp`. `ExpansionChecks` is an independent opinion: the checks the browser
evaluation makes of an expanded diagram, which every admitted expansion must pass
(`ExpansionsPassEvaluation`). Left out: edits of assumptions, title and composition, the
display of technologies.

### DiagramPatches

What happens to a stored diagram after it was drawn: `WriteByHand` is the editor
(`content_edit.py`), `Patch` a patch of the model under the local repair contract the critic
wrote (`graph_repair_contract.py`, the patches of `graph_worker.py`), `Reselect` a selection of
the book's concepts that keeps what the user wrote. A text is blank, tidy, or has more
spaces than it needs, because that is what the editor and the normalisation treat differently;
an ID is as a model writes it or as it is stored. A patch runs through every check in the
code's order (`Admitted`, `InScope`, `Referenced`, `Storable`, `Locked`); one that is refused
leaves the diagram as it was and is no step. The critic's contracts and the model's answers
are arbitrary up to bounds: what the contract says, in any arrangement of groups and steps, or
that with one thing amiss. Left out: title and assumptions, the scope a request in the
user's own words gives a patch, the review after a patch that is only logged.

The model shows two things no property claims otherwise. The editor may leave a technology
blank and a text untidy; the normalisation after a patch needs a technology and tidies
every text, so that from then on every patch is refused that does not write that very
field. And a reselection may give a connection a label that a relabelled neighbour
already carries.

### StageReview, StageCorrections

`StageReview` derives the verdict from an answer: which rules a request calls for, when an answer
is complete, which findings stand. `StageCorrections` is the loop around it: write, review,
correct by a delta that may touch what is cited, count the calls. Positions of one
candidate (parents, root, exchange pairs, cited records) are carried over to the next, which is what
the properties are about. Left out: the reasons of verdicts, groups, flow and
capability edits. Rendering is in `StagedPipeline`.

### AgentClient

The page: the transport singleton (socket, the retry before the turn has started, watchdog,
queued steers), the view of `useAgentStream`, and the answers of opened, deleted, edited, restored
and retried things that arrive while a turn runs. The server is what of `chat_websocket.py`
a client can tell apart, with links that break anywhere in either direction. Continuations
of a settled promise run in the step that settles it. Events that follow each other without a
wait are one burst of at most five, which the proofs show is enough for every burst that reaches the page.
The assistant messages of a request id are three fields of the view: `text`, the message that is being
streamed (`streamingIdRef`); `answers`, the one that `done` finished; and `partials`, those of
turns cut short. An error, a closed or lost link, a timeout and Stop finish the open message as it is and leave
it on the page (`Rested`), and a retry of the same request writes a new message beside it, since
`clearRetryForAttempt` takes only the Retry button away; a reset removes the open message; opening
a thread replaces all of them by what was fetched (`Hydrated`). A message is a sequence of texts so that a
delta that continues the wrong message is seen: it makes a message of two. A connection on which nothing was sent yet is dropped
at both ends at once. The shown and the durable diagram are one field; the edit epoch is the
identity of thread and version. Left out: explanation blocks, node selection, the
search offer, the grace for painting, the branch of an empty answer, the event `stopped` (never sent).

### BrowserTurns, BrowserRuns

`BrowserTurns` gives the verdict on a captured turn: which failure is named first and whom it
is held against. `BrowserRuns` is a run of the suite: cases under two semaphores, attempts and
retries, cleanup of the threads they created, progress reports merged into one
file, the suite's deadline that cancels everything. Semaphores need not be fair here, a
list of failures is kept as its worst, research and citations are abstracted, the deadline
cancels all tasks at once. Left out: screenshots, traces, latency, JUnit and
HTML. Any `TimeoutError` is taken for the suite's, as the code does.

### EvaluationCosts, LiveGate

`EvaluationCosts` adds up telemetry: which calls count, which make a cost unknown.
`LiveGate` is the gate of a pull request and the resume of what failed: capture,
judging in two phases that share a budget, exit status, saved evidence, a plan that
names the head it was made for, and pushes at any step. The books of an evaluation are computed once at
the start from the telemetry TLC chooses; that a total is the sum of its cases is stated by a
running total over them (`IsSumOf`). Left out: calibration and its replay, limits on the
cost of a case (not set), authentication of artifacts, unmetered judgments.

### How the runs combine modules

TLC explores several modules that share no state in one run: in `MCParts`, `MCContracts`
and `MCSpending` a variable `part` is chosen at first, only that part moves and the others
stay as they began. Fairness is conditioned on the part. In `MCThreadGraph` the
variable `scene` chooses what the conversation is used for and how much room
(`InScene`) it has for that.

## The checks

Every run is of the code as it is. TLC explores all states within the bounds.

| run | what is explored | bounds |
|---|---|---|
| `threads` | three scenes of a conversation: four chat requests, one of them sent twice, for its last places; two generations and a tab that edits, restores and lays out; a generation and a tab beside an earlier release | 5 messages; 2 contents, 1 layout, 4 versions, 5 revisions (3 and 3 beside the earlier release) |
| `turn` | a steerable turn: steers, stops, acceptances, a failing agent, a leaving client, a deadline | 2 commands, queue of 1, 1 steer, 1 generation call per layer |
| `retention` | drafts, completions and what they evict, while turns register, crash and end | 3 threads, 2 turns, room for 2, 5 timestamps |
| `contracts` | the staged pipeline; a stage under review and correction; a diagram created and edited; a diagram written in by hand, patched and selected again; the records of a thread | call limits of `config.py` (2 and 3); 3 requests in a row, 4 components, 3 connections; verdicts that cite 1 record, 1 added record per correction; 2 changes of a drawn diagram, 5 components, 4 connections |
| `parts` | the evaluation channel; racing verdicts; the analytics queue; the routing of a conversation; the browser suite | 2 evaluations in 2 chunks; 2 messages, 3 checks, room for 1; 4 events, queue of 2; 3 stored turns of 9 sentences, 2 changes of the diagram; 2 cases, 1 retry |
| `workflow` | every run of the agent, both lanes, with a steer | the limits of `config.py`, 3 amounts of time |
| `client` | the page against a server over breaking links | 2 threads, 2 turns, 3 sockets, 1 follow-up, edit, restore or switch |
| `spending` | model calls with quota, permits and a kill; the gate of a pull request and its resume | 2 calls, 3 attempts, 1 permit; 2 cases, budgets of 3 |
| `sse` | requests that repeat, retry and race over SSE, with lost readers, a crash, a lost conversation | 4 requests of 3 ids, 1 trouble, 1 preview |
| `gate_outages`, `edits_rebuild`, `client_follow_up` | disagreements with documentation and tests, below | as the run they belong to |

Most of the properties of a run are conjunctions, so that one walk of the state space answers for several:

| property | conjuncts |
|---|---|
| `TurnsAreStoredOnce` (threads) | `OneAnswerPerRequest`, `WithinMessageLimit` |
| `VersionsAreReliable` (threads) | `VersionNamesOneDiagram`, `AnswerKeepsItsDiagram` |
| `HistoryIsKept` (threads) | `HistoryOnlyGrows`, `ReplacedGraphIsCheckpointed` |
| `ReplacementsAreCurrent` (threads) | `CommitReplacesOnlyItsBase`, `ActivationsAreNew` |
| `CommandsAreHonoured` (turn) | `AcceptanceSurvives`, `AnswerFollowsSteers` |
| `ClientSeesTheStore` (turn) | `SteeringClearsPreviews`, `SavedDiagramShown`, `DoneMeansStored` |
| `TurnComesToAnEnd` (turn) | `TurnEnds`, `LeavingEndsTurn` |
| `ActiveThreadsAreKept` (retention) | `InFlightThreadKept`, `RecordsOwned` |
| `EvictionIsFair` (retention) | `OnlyCompletionsEvict`, `EvictsTheOldest`, `CapEnforced` |
| `PublicationIsEarned` (contracts) | `ApprovedMeansReviewed`, `AcceptanceHonoured`, `AcceptanceIsCurrent`, `SimplificationDisclosed` |
| `WorkComesToAnEnd` (contracts) | `PipelineEnds`, `RecordsEnd` |
| `PatchesKeepTheDiagram` (contracts) | `DrawnIsWhole`, `NoClaimOnHandwriting`, `PatchedCanBePatched`, `HandwritingIsKept`, `HandwrittenEdgesAreKept`, `PatchesAreConfined` |
| `SavedIsSound` (contracts) | `SavedIsWhole`, `SavedCanBeReopened` |
| `EditsAreConfined` (contracts) | `ScopeRespected`, `IdentityIsStable`, `ExpansionsPassEvaluation` |
| `ReviewsAreWhole` (contracts) | `AcceptedWasCleared`, `PairsAreReplies` |
| `CorrectionsAreConfined` (contracts) | `OnlyCitedChanges`, `OwnersAreKept`, `ChangesAreReported` |
| `MeasurementsAreSound` (parts) | `AnswersMatch`, `NothingLeftBehind`, `ReceiverSurvives` |
| `RequestsStayTheUsers` (parts) | `ExpansionIsTheUsers`, `DesignKeepsRequirements` |
| `AttemptsAreReported` (parts) | `AttemptsAreCounted`, `NoResultIsLost`, `VerdictsAreFinal` |
| `AttemptsAreFair` (parts) | `PassedLeavesNothing`, `SurroundingsAreNotTheProduct` |
| `SuiteComesToAnEnd` (parts) | `SuiteEnds` |
| `PaidWorkIsAccounted` (spending) | `SpendWithinQuota`, `AcceptedWorkIsNotReplayed`, `AcceptedWorkIsRecorded` |
| `ReviewsAreOfTheResult` (workflow) | `PublishedWasReviewed`, `ReviewSeesItsCandidate`, `ReturnIsWhole` |
| `BudgetsHold` (workflow) | `CallsWithinCeiling`, `ReservesHold` |
| `ShownIsTheUsers` (client) | `ViewIsOfThread`, `IdleIsClean`, `DoneShowsStored`, `MessagesAreWhole`, `PartialsAreKept` |
| `SteersReachTheirTurn` (client) | `SteersAgree`, `CommandsOfTheirTurn`, `AcknowledgedSteersSurvive` |
| `VerdictsFollowEvidence` (spending) | `CostsAreHonest`, `DecisionsFollowGrades`, `ReportIsHonest` |
| `ResumeIsEarned` (spending) | `SpendIsBounded`, `CombinedPassIsEarned` |
| `StreamsEndClean` (sse) | `NoPreviewLeft`, `NoDiagramLost`, `RowsFollowWaiter` |
| `StreamsRunTheirCourse` (sse) | `InFlightKept`, `StreamsEnd` |

The others stand alone: `ReviewsStayWithTheirContent`, `AgentCovered` (the stream record
covers the agent's whole life), `CaptureAnswers` (an orderly upload ends the wait), `ReuseIsSound`, `AcceptedIsKept`, `DrawsOnlyWhenAllowed`, `OwedSentenceIsTold`,
`RunEnds`, `TurnEnds` of `AgentClient`, `OneAnswerPerId`. Each is stated in words where it is defined.

Why the bounds are enough: a stale version needs one holder and one activation
behind its back, and a second activation to see a version come back: three
versions, four with a generation. Branching needs two generations from one base and a
checkpoint each. A late picture needs one evaluation after another, a lost or repeated
chunk two chunks. The races of a turn are between one command and one event of the
agent; the second command and the queue of one make the queue full, which in the
code takes many commands. A second steer is the first one over the budget.
Eviction needs one thread over the cap and one that is protected. An edit goes wrong on
what an earlier edit left: a creation and two edits, with an owned component and a
primary one. A correction goes wrong on positions when a record before the cited one is
dropped: three services and a component. A patch loses handwriting it does not name, or what an
earlier patch left: some histories start from a diagram already written in, and have two changes. A verdict may expire, be replaced or be
evicted: three checks of two messages. A dialogue is a request, a question and a
reply, with something in between: three stored turns. A retry of the suite merges one old and
one new result. A quota of three lets a retry and a fallback meet the last attempt. Four
requests over SSE are an original, its repetition, its retry and a stranger.

Fairness. `ThreadGraph` has none: its properties are of safety. `StagedPipeline`
assumes each call returns (they all carry timeouts). `ChatTurn` assumes that asyncio
runs the main loop and the receiver when they can run and that a cancelled agent
unwinds; nothing of the running agent's own calls, so a hung call is covered, and
not that the deadline passes. `DiagramEvaluation` assumes the same of the waiting
task and the receiver, nothing of the browser, and no timeout. `Fairness` of
`ThreadRetention` assumes that transactions end and turns take their next step; a
draft or a turn does not have to begin, nor a user to act. `AgentWorkflow` assumes that
the run goes on (`Work`: every call in it has a time limit), not that a user steers. `AgentClient`
assumes its two timers fire (`Watchdog`, `Reconnect`) and nothing of server, link or
user. `SseTurn` assumes that the event loop runs each stream and the waiter, and
that time passes; its agents may hang. `BrowserRuns` assumes its tasks run (its waits all
have limits). `AnalyticsQueue`, `ProviderCalls` and `LiveGate` state the fairness of their
own specifications, used when they are checked alone.

`CHECK_DEADLOCK FALSE` in every configuration: a run, a turn or a suite ends, a user may
do nothing, and the bounds stop the others.

## The proofs

TLAPS proves these for every value of the constants, from the modules' named
assumptions only, which TLC evaluates on every run. Most say that bounds are naturals and that
`None` is no member of a set (`ConstantsAssumption`, `PipelineAssumption`, `TurnAssumption`,
`RetentionAssumption`, `EvaluationAssumption`, `WorkflowAssumption`, `CallsAssumption`,
`GateAssumption`, `SuiteAssumption`; `SomeThread` and `Bounds` of `AgentClient`). Four say more:

- `SlackAssumption` (`SseTurn`): the record of a stream outlives the agent's limit by more
  than the five input checks take. The deadline lies 30 s before the agent's timeout and the
  record lives 30 s beyond it: 60 s, against five checks of 10 s.
- `ReserveAssumption` (`AgentWorkflow`): more time is reserved for a review than the browser
  check of a repaired diagram takes. `config.py` has 60 s and 15 s; its validation asks that
  both be positive but does not compare them, so another configuration could break it.
- `QueueAssumption` (`AnalyticsQueue`): the queue has a positive bound, and the events are
  finitely many and numbered from 1 in the order in which they are reported.
- `CaptureAssumption` (`LiveGate`): telemetry is a finite sequence of calls with at most two
  attempts each, and every case has its threads.

| module | theorem | property |
|---|---|---|
| `ThreadGraphProofs` | `TypeCorrect` | `TypeOK` |
| | `VersionsNamed` | `VersionsNameContents` (inductive with the types) |
| | `OneDiagramPerVersion`, `ActivationsAlwaysNew` | `VersionNamesOneDiagram`, `ActivationsAreNew`, which follow from it |
| | `RequestsStoredOnce`, `LimitHolds`, together `TurnsStoredOnce` | `OneAnswerPerRequest`, `WithinMessageLimit`: `TurnsAreStoredOnce` |
| | `HistoryGrows`, `ReplacedGraphsKept`, `CommitsReplaceTheirBase` | `HistoryOnlyGrows`, `ReplacedGraphIsCheckpointed`, `CommitReplacesOnlyItsBase` |
| | `AnswersKeepTheirDiagrams`, `ActiveRevisionShown`, `ReviewsStay` | `AnswerKeepsItsDiagram`, `MaterializationAgrees`, `ReviewsStayWithTheirContent` |
| | `VersionsReliable`, `HistoryKeeps`, `ReplacementsCurrent` | `VersionsAreReliable`, `HistoryIsKept`, `ReplacementsAreCurrent`, of the properties above |
| `ChatTurnProofs` | `TypeCorrect` | `PipelineTypeOK` |
| | `ApprovalsAreReviews`, `AcceptancesDecide`, `AcceptancesAreCurrent`, `SimplificationsDisclosed` | `ApprovedMeansReviewed`, `AcceptanceHonoured`, `AcceptanceIsCurrent`, `SimplificationDisclosed`: `PublicationIsEarned` by `PublicationsEarned` |
| | `TurnTypeCorrect` | `TypeOK` |
| | `CommandsHonoured`, `ClientToldTheStore`, `AgentAlwaysCovered` | `CommandsAreHonoured`, `ClientSeesTheStore`, `AgentCovered` |
| `SseTurnProofs` | `TypeCorrect` | `TypeOK` |
| | `StreamsImplementRegister` | `OneAnswerPerId`: `SseTurn` implements `AnswerRegister` |
| | `EndsAreClean`, `RunningStreamsAreKept` | `StreamsEndClean`, `InFlightKept` |
| `ThreadRetentionProofs` | `TypeCorrect`, `InFlightThreadsKept`, `RecordsAlwaysOwned` | `TypeOK`, `InFlightThreadKept`, `RecordsOwned`: `ActiveThreadsAreKept` by `ActiveThreadsKept` |
| | `DraftsEvictNothing`, `TheOldestGo`, `CapsAreEnforced` | `OnlyCompletionsEvict`, `EvictsTheOldest`, `CapEnforced`: `EvictionIsFair` by `EvictionsAreFair` |
| `PartsProofs` | `TypeCorrect`, `AnswersAreTheirOwn`, `RequestsCleanUp`, `ReceiverRuns` | `TypeOK`, `AnswersMatch`, `NothingLeftBehind`, `ReceiverSurvives`: `MeasurementsAreSound` by `MeasurementsSound` |
| | `QueueTypeCorrect`, `AcceptedEventsKept` | `QueueTypeOK`, `AcceptedIsKept` of `AnalyticsQueue` |
| | `DrawnOnlyWhenAllowed` | `DrawsOnlyWhenAllowed` of `Conversation` |
| | `SuiteTypeCorrect`, `AttemptsJudgedFairly` | `SuiteTypeOK`, `AttemptsAreFair` of `BrowserRuns` |
| | `VerdictsStand`, `EveryAttemptReported` | `VerdictsAreFinal`, `AttemptsAreReported` |
| `AgentClientProofs` | `PageTypeCorrect`, `PageShowsTheUsers`, `SteersReachTheTurn` | `TypeOK`, `ShownIsTheUsers`, `SteersReachTheirTurn` |
| | `PageFits` | `ClientInv`, the inductive invariant behind them |
| `AgentWorkflowProofs` | `WorkflowTypeCorrect`, `ResultsWereReviewed`, `BudgetsAreKept` | `TypeOK`, `ReviewsAreOfTheResult`, `BudgetsHold` |
| `SpendingProofs` | `CallsTypeCorrect`, `PaidWorkIsCounted`, `OwedSentencesAreTold` | `CallsTypeOK`, `PaidWorkIsAccounted`, `OwedSentenceIsTold` of `ProviderCalls` |
| | `GateTypeCorrect`, `VerdictsAreFounded`, `ResumesAreEarned` | `TypeOK`, `VerdictsFollowEvidence`, `ResumeIsEarned` of `LiveGate` |

The arguments:

- *Diagrams.* Every function that writes a revision or the working diagram seeds the
  history first and then may append to it; a lemma for each helper (`SeededNamed`,
  `HistoryAppended`, `TabsKept`) says what it keeps, and each action follows.
  `VersionsNameContents` says of the working diagram, every revision, base and
  tab at once that its version was minted for its content; a new version is
  outside `DOMAIN minted`, so nothing that exists changes its meaning.
- *Turns.* `TurnStep` lists the four things any step may do to the stored turns: say
  nothing about them, answer from them or give up, store one after both checks of
  the transaction, delete them with their conversation. Both invariants follow
  from the list; they are inductive with the types alone, because the
  transaction repeats the lookup and the limit that were first made at admission.
- *History.* `ThreadStep` lists what any step may do to the working diagram and its history:
  nothing, seed, lay out, replace, branch, activate an old revision, be the older
  release, delete. `HistoryInv` (no generation starts beyond the history, parents
  are older) makes the history grow; `AnswersLinked` ties each answer to the
  version stored with it; `ReviewInv` adds that the working contract has no
  version that is not minted yet, without which the next diagram of an older release could wake a
  stale review. `MaterializationAgrees` is inductive with the types.
- *Pipeline.* `PipelineInv` adds to the types: what was accepted is what was granted;
  the preview offered is the candidate shown and awaits its review; the component
  layer was decided by the user or the reviewer before the connections began; what
  is published is the last candidate on that layer; a saved diagram is not
  simplified. None of the theorems is inductive without it:
  the acceptance is granted by one task and read by another several steps later.
- *Turns over WebSocket.* `TurnInv` carries `PipelineInv` through cancellations and restarts
  (`Drawing`), says what the agent task can have come to at each place of the loop
  (`Running`), that a steer is merged only while nothing was accepted and that question, merged
  and acknowledged steers differ by at most the steer in progress (`Steering`), that a diagram
  on the screen is the saved one or a preview of this run (`Showing`), and that the turn is
  stored once by a run that answered all of the question (`Storing`). One lemma for each
  transition of the loop; the pipeline's own steps are lifted from its proofs.
- *Streams.* `Around` says what a step of one stream leaves alone in the others; with it each
  invariant is proved of the stream that moves. `PreviewsInv` and `ViewsKeep` say what
  each browser shows and was told, `TurnsInv` that a conversation keeps at most one turn per
  id. Refinement: every action is, under the mapping of stored and told texts, a step of
  `AnswerRegister` or a stutter - a turn is stored only when the lookup inside the same
  transaction found none (`StoresOnce`), and "done" is said with the text that is stored.
  `CoversInv` keeps the time left on a record above all the time its stream can still take.
- *Agent run.* `WorkInv` says at each node what the run knows: an unreviewed candidate is neither
  published nor withheld (`Candidate`), what was decided about it (`Decided`), that the picture
  beside it is its own (`Pictured`), and how much time must be left (`Timely`). The last one is
  the heart: a repair may begin only if the rounds, corrections and reviews that may
  follow it still fit before the explanation, which is linear arithmetic over the reserves
  and needs a review to be longer than a render.
- *Model calls.* `CallsInv` counts: requests sent and attempts queued are at most the
  reservations, permits free and attempts that hold one are all there are. Both are sets
  that gain or lose one element per step (`CountOne`). `LocalsInv` and `RepliesInv` are about
  one call each: nothing is retried once an answer was accepted, and what was stored is
  what was shown.
- *The gate.* `GateInv`: every decision rests on what was observed and a gate leaves no case
  behind it undecided (`Graded`), calls exceed the limit of an invocation by at most one refused
  attempt per case (`CallsBounded`), the two invocations of a resume share one budget (`Spent`),
  a resume has its plan (`Planned`), and only at the end is combined evidence passed (`Concluded`).
- *Retention.* `RetentionInv` adds that every live turn past its second lookup has a
  record, that the victims of a transaction in progress are disjoint from the
  threads with records, and that there are no victims when nobody holds the lock.
  The first turn that could break it would have to register inside the
  transaction. Two are about sizes. `TheOldestGo`: of the threads sorted by
  age, those beyond the cap have at least the cap behind them. `CapsAreEnforced`: of threads
  of different ages (`AgesDiffer`) at most the cap less one are not in excess, for the oldest
  of them has the others before it (`FewRemain`), and until the transaction commits nobody
  else can add to them (`RoomMade`).
- *Evaluations.* `ChannelInv` adds to the types: only the evaluation the agent is in has
  a waiter and an upload; the browser captured each evaluation at most once, so
  that every frame and every buffered piece of it belongs to that capture;
  a resolved future holds a complete answer for the one who waits. That an upload
  is complete when it has as many pieces as announced is an argument on
  cardinalities, of a subset of an interval.
- *Analytics.* `QueueInv` gives every accepted event one place (`Places`) and knows it
  (`Known`): in the queue once, with the worker, in a write that outlived its worker, in the log
  or given up. `WorkerInv` says when there is a worker and where its marker lies, so that a
  worker started anew never finds events of the one before.
- *Routing.* No invariant is needed, but every step of the argument: a plan that draws needs the
  services of the words or of a confirmed request (`PlansNeedServices`), and a route that
  draws has an intent that allows it (`IntentsFit`, `RoutesFit`), whatever the
  marks of the messages are.
- *The suite.* `SuiteInv` says what is recorded of a case in the batch it takes part in
  (`Counted`: what was recorded before and the result, each of the former a failure that
  earned the next), that after the last batch no result is unrecorded (`Staged`),
  and what an attempt may still pass with at each of its steps (`Judged`: only with its thread
  named until it is deleted). `OutcomeOf` a recorded case never changes, also not when the deadline
  cancels it. That the surroundings are not held against the product is an argument about the order
  in which a turn's failures are looked at (`BlamedIsNotTheProduct`).
- *The page.* `ClientInv` has a part for each piece of state, stated of the record alone (`ViewFits`,
  `LinkFits`, `Fits` of a connection, `CallFits`, `LoadFits`) and of the world around it, which only
  grows (`Grows`): lemmas carry each part over to a larger world, so that an action has to
  show only the parts it writes. The part that matters is `Bound`, of the connection the
  transport is attached to. It says what may be under way in each phase of the turn (`Waits`,
  `Begins`, `Runs`, `Ends`): news, then at most one burst that ends the turn, then `done`; and that a
  page that has seen the turn end has nothing but `done` before it, so a frame of a settled turn cannot write
  on the next. `TextArrives` says which text is on the screen once everything under way
  has arrived: what was stored, or nothing. `DoneShowsStored` is that sentence when nothing is under way any
  more. `Agrees` says the same of the follow-ups: the acknowledgements under way bring the page those it
  lacks, each once and in order. Answers of edits, restores and opened threads are
  caught by `CallFits` and `LoadFits`: what they bring is of their own thread (`IsCurrent` compares
  it with the open one), and a retry that is being checked knows all the acknowledged steers.
  What earlier attempts left on the page needs two arguments more. `TextArrives` is stated over `Writings`,
  nothing or the text of one run, so that no frame under way can append a second run's text
  to an open message. And `Moves` lists the five things a step can do to the messages: leave them
  (`Quieted`), leave the page (`PageLeft`), cut the turn short (`TurnCut`), hear a burst (`Heard`) or be done (`TurnDone`);
  every action does one of them (`MessagesMove`). From it follow `PageOwned`, that a kept message is
  what one run of its own turn wrote (`MessagesFit`), and `PartialsAreKept`, that no step in the thread takes one away.

Left to TLC. Liveness (`WorkComesToAnEnd`, `TurnComesToAnEnd`, `CaptureAnswers`, `RunEnds`,
`TurnEnds`, `StreamsEnd`, `SuiteComesToAnEnd`) and anything with ENABLED are out
of TLAPS's reach, and so is induction over data: `SavedIsSound`, `EditsAreConfined`,
`ReviewsAreWhole`, `CorrectionsAreConfined` and `PatchesKeepTheDiagram` rest on what folds and
recursive functions over a plan compute, which TLC evaluates on every diagram within the
bounds; so do `ReuseIsSound` and `RequestsStayTheUsers`, which filter sequences.

## Divergences found

Runs that TLC must find violated:

1. `gate_outages`: `docs/quality-system.md:337` says judge infrastructure failures replay
   their saved captures. The reason a judge that stays out of reach leaves behind does not
   match the pattern `pr_resume.py:176` asks for, and the resume is refused.
2. `edits_rebuild`: an explicit rebuild of a connected diagram is refused for every layer
   that renames or drops a connected component: the candidate carries the saved
   connections under IDs the rebuilt components do not have.
3. `client_follow_up`: a follow-up typed in the 250 ms between two attempts to connect
   does not steer the turn that is active; it opens a second one, and the first ends without an
   answer, an error or a way to retry.

Sentences of documentation that the code does not keep and that are stated in the modules; add the name to
the configuration to see it refuted:

| statement | configuration | the sentence and the code |
|---|---|---|
| `RestoreWaitsForGenerations` | `Threads.cfg` | `docs/graph-history-contract.md`: restoring shares the generation lease; `restore_revision` looks at no generation. Nothing is lost: the generation becomes a branch. |
| `BranchesComeFromOlderGraphs` | `Threads.cfg` | Reading the history of a diagram never checkpointed sets the revision pointer, and a generation that began before is stored as a branch though the diagram did not change. |
| `OneCorrectionPerStage` | `Contracts.cfg` | `README.md`: each stage allows one correction; `config.py:24` allows the connections three candidates. |
| `EveryCallIsAsked` | `Contracts.cfg` | A correction that cannot be compiled counts as a call without one (`staged_graph_generation.py:2032`). |
| `BillableWorkIsRecorded` | `Spending.cfg` | "Cancellation cannot discard a billable row": a caller that closes the generator while it holds a delta does (`llm_adapter.py:849`). |
| `RepairCanBeReviewed` | `AgentWorkflow.cfg` | Two reviewed repairs fit the ceiling of critic calls only while no protocol correction was charged to it (`graph_review_budget.py:43`). |
| `NotStartedCreatedNothing` | `Parts.cfg` | `docs/quality-system.md:416`: threads are attributed to their attempts; a case cancelled before its first report is called not started though its thread exists. |

`QueueMoves`, `GateEnds`, `AcceptedIsWritten` and `StopComesToAnEnd` hold for their
modules alone with the fairness stated there; no configuration repeats them.

## Further hazards

`PROJECT.json` lists the hazards that differ most. These share a property with one of them:

- `api/chat_websocket.py:326`: the base diagram is read before minutes of model calls and compared again only inside the commit.
- `api/chat_websocket.py:294`: the turn is committed and its reply lost with the connection; the resend must be told the stored answer.
- `storage/thread_store.py:623`: the message limit is counted at admission, and parallel turns of one thread each pass that count.
- `storage/graph_history_store.py:136`: the working diagram was replaced by a release that does not know revisions; the active revision no longer shows it.
- `storage/graph_history_store.py:137`: seeding rewrites the active snapshot with the working layout and contract; a long mix of restores, edits and layout writes must not rewrite its version or content.
- `storage/graph_history_store.py:247`: a restore runs while a generation of the same thread holds an older base, although the docs promise a shared lease.
- `storage/thread_store.py:650`: a diagram fits as generated and is too large once it inherits the saved layout; the turn is stored without it.
- `storage/graph_history_store.py:199`: reading the history writes: it sets the revision pointer a running generation compares with.
- `agent/graph_review_control.py:36`: an acceptance of an earlier candidate arrives while another one is under review.
- `agent/staged_graph_workflow.py:1023`: the component preview is accepted: connections are generated, rendered and published without a review two stages later, and must not be called approved.
- `agent/staged_graph_workflow.py:1748`: only the component layer was simplified for recovery and the connections succeeded at once; the diagram must still be disclosed as simplified.
- `api/chat_websocket.py:659`: the input checks of a steer await a model for seconds; the agent may finish, fail or pass its deadline meanwhile.
- `api/chat_websocket.py:674`: a steer replaces the review control while a preview of the abandoned run is on the screen and its acceptance in flight.
- `api/chat_websocket.py:583`: the deadline passes in the same round as a command, an answer or a failure of the agent.
- `api/chat_websocket.py:289`: the thread was looked up before the registration and removed since.
- `api/chat_websocket.py:94`: a turn is cancelled while a worker thread registers its stream; the id of the record never reaches the code that releases it.
- `storage/thread_store.py:134`: a draft chosen as a victim gets its first message before it is deleted.
- `api/diagram_evaluation_channel.py:198`: chunks come twice or out of order, or a second start replaces a half finished upload.
- `api/diagram_evaluation_channel.py:223`: the answer is set, and the wait is cancelled or a second answer comes before the waiting task runs again: setting a result twice raises in the receiver and ends the turn.
- `api/diagram_evaluation_channel.py:84`: a send fails or a steer comes in the middle of an upload; what was received of it must not stay.
- `adapters/llm_adapter.py:1074`: a retry or fallback after the provider accepted the request would bill the work twice and mix two texts in one answer.
- `adapters/llm_adapter.py:849`: a cancellation that arrives while the telemetry row is being written can lose the row or write it twice.
- `adapters/llm_adapter.py:625`: a stream its caller stops reading keeps a stream permit until it is closed; lost permits would leave every later call waiting.
- `agent/graph.py:404`: a patch that fails half way leaves candidate, contract, operation and publication marker to be put back together by the branch that noticed.
- `agent/deadlines.py:212`: each stage may use saved time up to its cap: a reserve that is one term short denies the review of a finished repair, or the explanation of an approved diagram.
- `agent/staged_graph_contract.py:835`: the plan of a saved diagram is not stored but guessed back from its walkthrough and groups, edit after edit; a diagram that can be saved but not read back cannot be edited again.
- `agent/nodes/staged_graph_generation.py:1857`: a removal shifts the positions by which parents and connections are named, in both layers and in the walkthrough.
- `frontend/services/agentTransport.ts:280`: a follow-up arrives between the two attempts to connect, when no socket is active and the turn is.
- `frontend/hooks/useAgentStream.ts:284`: the answer of an edit, a restore, a retry check or an opened thread arrives after the user moved to another thread or turn.
- `frontend/services/agentTransport.ts:287`: steers queued before the start frame outlive a failed attempt and a stopped turn in the same singleton.
- `frontend/hooks/useAgentStream.ts:704`: a turn ends by error, stop, close or timeout with half an answer and an unsaved preview or review on the screen: the text must be finished and kept, or the next answer is appended to it, and the diagram put back.
- `agent/staged_graph_workflow.py:415`: request and reply positions of one candidate are carried over to the corrected one, where records were dropped, changed and added.
- `agent/staged_graph_workflow.py:1630`: failed calls lie between two reviews; the later one is told what changed since the last review that was complete.
- `agent/nodes/staged_graph_generation.py:1857`: dropping a cited component moves the positions by which the others name their service and the plan its root.
- `eval/browser_runner.py:2095`: the results of a batch are reported anew after every case: merged with what was recorded since the batch began, an attempt counts twice.
- `eval/browser_runner.py:1261`: a provider failure also means that no diagram came; looked at in the other order, it is held against the product and never retried.
- `eval/pr_resume.py:499`: the pull request is pushed to between the plan, the fresh capture and the judging: evidence of the old head must not pass for the new one.
- `eval/cost_gate.py:127`: a call names a thread of no case or of two, or lacks its usage: the cost of the suite is still summed from the rest.
- `eval/semantic_gate.py:41`: borderline dimensions and a failure share beyond 15% meet in one judgment, and a second judgment disagrees with the first.
- `api/sse_handler.py:678`: the agent fails, the deadline comes or the turn cannot be stored after a preview has been shown.
- `storage/runtime_state_store.py:67`: a search request is read and updated in two statements; its waiter may time out and delete the row in between.
- `api/sse_handler.py:554`: a silent agent, an unanswered search offer or a reader that has gone must not keep a stream open.
- `agent/nodes/orchestrator_node.py:389`: a design is described over several messages; a question on another topic, a quoted message or a turn that was not stored lies between them.

- `agent/staged_graph_workflow.py:1526`: a rebuild starts from a diagram whose connections carry IDs of components that are renamed or dropped; the second divergence.

The three of them without a property: the restore beside a generation and the
reading that writes (the first two divergences of the table above), and the permit of an abandoned stream, which comes back
(`QueueMoves`).

## What is not modelled

The texts: prompts, answers, and what a model says of a diagram are outcomes wherever a module
calls a model. Of diagrams, only what the contracts compare is kept; layout, the
assumptions and the artifacts made from a diagram (`graph/build.py`) are left out, as are retrieval,
research and source references, sequential functions over data. External services are
outcomes as well. Accounts, dashboards, telemetry and the startup of the process share
no state between requests but single rows. Reports, screenshots, staging and calibration of
the evaluation, ingestion, CI and infrastructure run outside the service. Rendering in the
browser is layout. `PROJECT.json` lists each component and what is missing of those called partly modelled.

## Plan

Done: the diagram of a conversation (what a user can lose), the pipeline and the turn around it,
retention, the private rendering of candidates; then the second transport with its refinement,
the agent run, the contents of diagrams, their edits and patches, reviews and corrections, model calls, routing,
the caches and queues, the page, and the evaluation; and the proofs of all but what is left to TLC. Left, in this order:

1. `RateLimits`: reservation over several dimensions, all or nothing, and its release.
2. A working diagram as a register with compare-and-set, implemented by `ThreadGraph`.
3. Edits of title, assumptions and composition in `DiagramEdits`; the artifacts made from a diagram.
