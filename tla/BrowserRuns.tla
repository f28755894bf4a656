----------------------------- MODULE BrowserRuns -----------------------------
(***************************************************************************)
(* One run of the browser evaluation suite (backend/eval/browser_runner).  *)
(*                                                                         *)
(* Every case is a task.  A case that must draw takes a place in the graph *)
(* lane and then a general slot; any other case takes a slot.  An attempt  *)
(* signs in, holds its conversation on a thread of the backend, inspects   *)
(* what it got, deletes the thread and closes its browser context.  The    *)
(* main task writes a checkpoint of the report after every attempt, runs   *)
(* another batch for the cases whose failure was infrastructure's, and     *)
(* collects telemetry.  The suite's deadline cancels everything at any     *)
(* point: each task meets it at the await it stands at.  What survives is  *)
(* what the checkpoint holds.                                              *)
(***************************************************************************)
EXTENDS BrowserTurns, SequencesExt

CONSTANTS
  Cases,             \* the cases of the suite
  GraphCases,        \* the cases with deterministic.graph_emitted
  MaxConcurrency,    \* budgets.browser_case_concurrency
  GraphConcurrency,  \* budgets.browser_graph_case_concurrency
  RetryCount         \* budgets.browser_infrastructure_retry_count

\* _live_budgets: the budgets are positive, the number of repetitions may be zero.
ASSUME SuiteAssumption ==
  /\ GraphCases \subseteq Cases
  /\ {MaxConcurrency, GraphConcurrency} \subseteq Nat \ {0} /\ RetryCount \in Nat

VARIABLES
  main,      \* where the main task stands
  round,     \* number of the batch: the attempt number of its cases
  base,      \* base_results of the batch: the attempts recorded before it
  current,   \* the attempts recorded of every case, oldest first
  task,      \* where every case's task stands in the batch
  work,      \* the locals of every case's attempt
  recorded,  \* recorded_indices of the batch
  file,      \* the report on disk
  threads,   \* the threads of this run that the backend holds
  created    \* history: the threads the run created

suiteVars == <<main, round, base, current, task, work, recorded, file, threads, created>>

Queued == {"lane", "slot"}
Active == {"auth", "steps", "inspect", "cleanup", "trace"}

\* Mutant: an attempt that was given up is waited for.
EndedWithResult == {"done", "idle"}

Ended == {"done", "gone", "idle"}

\* An attempt's list of failures is kept as the failure that decides: one of the product
\* forbids another attempt, else a retryable one earns it.
Rank == [passed |-> 0, infra |-> 1, retry |-> 2, quality |-> 3]
Worst(verdict, failures) ==
  CHOOSE v \in {verdict} \cup failures : \A w \in {verdict} \cup failures : Rank[w] <= Rank[v]

\* "reply": what became of the response that created the thread; "named": the response or
\* a start frame told the runner the thread's id; "result": the attempt's result exists;
\* "blamed": the surroundings failed a turn and nothing was held against the product.
FreshWork == [verdict |-> "passed", state |-> "completed", reply |-> "none",
              named |-> FALSE, result |-> FALSE, blamed |-> FALSE]

SuiteInit ==
  /\ main = "preflight" /\ round = 0
  /\ base = [c \in Cases |-> <<>>] /\ current = base
  /\ task = [c \in Cases |-> "idle"] /\ work = [c \in Cases |-> FreshWork]
  /\ recorded = {}
  /\ file = [status |-> "running", results |-> [c \in Cases |-> <<>>]]
  /\ threads = {} /\ created = {}

(***************************************************************************)
(* The main task.                                                          *)
(***************************************************************************)
\* _should_retry: all of it is infrastructure's, and some of it may pass.
ShouldRetry(o) == o.verdict = "retry"

\* The tasks of a batch, and what they start from.
StartBatch(cases) ==
  /\ main' = "batch" /\ round' = round + 1
  /\ base' = current
  /\ task' = [c \in Cases |-> IF c \notin cases THEN "idle"
                              ELSE IF c \in GraphCases THEN "lane" ELSE "slot"]
  /\ work' = [c \in Cases |-> FreshWork]
  /\ recorded' = {}
  /\ UNCHANGED <<current, file, threads, created>>

\* Signing in and the history check, before the deadline runs.  A request's own
\* TimeoutError is caught where the suite's is.
Preflight ==
  /\ main = "preflight"
  /\ \E next \in {"bootstrap", "finalize", "failed"} : main' = next
  /\ UNCHANGED <<round, base, current, task, work, recorded, file, threads, created>>

Bootstrap ==
  /\ main = "bootstrap"
  /\ \/ StartBatch(Cases)
     \/ /\ main' = "failed"
        /\ UNCHANGED <<round, base, current, task, work, recorded, file, threads, created>>

OutcomeOf(c) ==
  [verdict |-> work[c].verdict, state |-> work[c].state,
   threads |-> IF work[c].named THEN {<<c, round>>} ELSE {}]

\* Mutant: an attempt is added to the attempts recorded so far.
MergedOnCurrent(cases) ==
  [c \in Cases |-> IF c \in cases THEN Append(current[c], OutcomeOf(c)) ELSE current[c]]

\* update_batch: every case of the batch that has a result, merged with what it had before
\* the batch.
Merged(cases) ==
  [c \in Cases |-> IF c \in cases THEN Append(base[c], OutcomeOf(c)) ELSE current[c]]

\* Mutant: the checkpoint is written from what the batch found.
CheckpointBatchOnly(cases) ==
  /\ current' = Merged(cases)
  /\ file' = [status |-> "partial",
              results |-> [c \in Cases |-> IF c \in cases THEN <<OutcomeOf(c)>> ELSE <<>>]]

\* on_result: the results of the batch so far become the checkpoint.
Checkpoint(cases) ==
  /\ current' = Merged(cases)
  /\ file' = [status |-> "partial", results |-> Merged(cases)]

Record(c) ==
  /\ main = "batch" /\ task[c] = "done" /\ c \notin recorded
  /\ recorded' = recorded \cup {c}
  /\ Checkpoint(recorded')
  /\ UNCHANGED <<main, round, base, task, work, threads, created>>

\* The cases that earn another attempt.
RetryCases == {c \in Cases : ShouldRetry(Last(current[c]))}

NextBatch ==
  /\ main = "batch" /\ \A c \in Cases : task[c] = "idle" \/ c \in recorded
  /\ IF round <= RetryCount /\ RetryCases # {}
     THEN StartBatch(RetryCases)
     ELSE /\ main' = "collect"
          /\ UNCHANGED <<round, base, current, task, work, recorded, file, threads, created>>

\* The page can start a turn, whose frame names the thread: it got the response.
CanStart(c) == work[c].reply \in {"seen", "unreadable"}

\* A task meets its cancellation at the await it stands at: in a queue or at signing in it
\* ends; a conversation ends as a failed one, and what the page sent until then counts; an
\* inspection is given up, without a result; a clean-up goes on; a context that was being
\* closed takes the result with it.
CancelledTask(c) ==
  CASE task[c] \in Queued \cup {"auth", "trace"} -> "gone"
    [] task[c] = "steps"                         -> "inspect"
    [] task[c] \in {"inspect", "cleanup"}        -> "cleanup"
    [] task[c] \in Ended                         -> task[c]

CancelledWork(c, started) ==
  IF task[c] \in {"steps", "cleanup"}
  THEN [work[c] EXCEPT !.verdict = Worst(@, {"infra"}), !.state = "cancelled",
                       !.named = @ \/ (started /\ task[c] = "steps" /\ CanStart(c))]
  ELSE work[c]

\* The suite's deadline: the tasks that have not ended are cancelled.
Deadline ==
  /\ \/ main = "bootstrap" /\ main' = "finalize" /\ UNCHANGED <<task, work>>
     \/ /\ main = "batch" /\ main' = "unwind"
        /\ task' = [c \in Cases |-> CancelledTask(c)]
        /\ \E started \in [Cases -> BOOLEAN] :
              work' = [c \in Cases |-> CancelledWork(c, started[c])]
  /\ UNCHANGED <<round, base, current, recorded, file, threads, created>>

\* Mutant: what ended while the suite unwound is not recorded.
RecoveredNone == {}

\* gather: the attempts that ended with a result and were not recorded yet.
Recovered == {c \in Cases : task[c] = "done" /\ c \notin recorded}

Gathered ==
  /\ main = "unwind" /\ \A c \in Cases : task[c] \in Ended
  /\ recorded' = recorded \cup Recovered
  /\ IF Recovered = {} THEN UNCHANGED <<current, file>> ELSE Checkpoint(recorded')
  /\ main' = "finalize"
  /\ UNCHANGED <<round, base, task, work, threads, created>>

\* _finalize_timed_out_browser: the checkpoint is read back; a case it does not hold is
\* reported with a failure of its own.
Finalize ==
  /\ main = "finalize" /\ main' = "ended"
  /\ file' = [file EXCEPT !.status = "timed_out"]
  /\ UNCHANGED <<round, base, current, task, work, recorded, threads, created>>

\* Signing in again, the telemetry, the dashboard and the complete report.
Collect ==
  /\ main = "collect"
  /\ \/ /\ main' = "ended"
        /\ file' = [status |-> "complete", results |-> current]
     \/ main' \in {"finalize", "failed"} /\ UNCHANGED file
  /\ UNCHANGED <<round, base, current, task, work, recorded, threads, created>>

(***************************************************************************)
(* An attempt.                                                             *)
(***************************************************************************)
MainAlone == UNCHANGED <<main, round, base, current, recorded, file>>

Running == {c \in Cases : task[c] \in Active}
InLane == {c \in GraphCases : task[c] \in Active \cup {"slot"}}

Become(c, phase) == task' = [task EXCEPT ![c] = phase]
Blame(c, failures) == work' = [work EXCEPT ![c].verdict = Worst(@, failures)]

TakeLane(c) ==
  /\ task[c] = "lane" /\ Cardinality(InLane) < GraphConcurrency
  /\ Become(c, "slot")
  /\ MainAlone /\ UNCHANGED <<work, threads, created>>

TakeSlot(c) ==
  /\ task[c] = "slot" /\ Cardinality(Running) < MaxConcurrency
  /\ Become(c, "auth")
  /\ MainAlone /\ UNCHANGED <<work, threads, created>>

\* Signing in and opening a context.  Failing is an outcome without a thread.
Authenticate(c) ==
  /\ task[c] = "auth"
  /\ \/ Become(c, "steps") /\ UNCHANGED work
     \/ Become(c, "done") /\ Blame(c, {"retry"})
  /\ MainAlone /\ UNCHANGED <<threads, created>>

\* The page creates its thread; the response may be read, unreadable, or lost on its way.
CreateThread(c) ==
  /\ task[c] = "steps" /\ work[c].reply = "none"
  /\ \E r \in {"seen", "unreadable", "lost"} :
        work' = [work EXCEPT ![c].reply = r, ![c].named = (r = "seen")]
  /\ threads' = threads \cup {<<c, round>>} /\ created' = created \cup {<<c, round>>}
  /\ MainAlone /\ UNCHANGED <<task>>

Inspecting(c, failures, named, blamed) ==
  /\ Become(c, "inspect")
  /\ work' = [work EXCEPT ![c].verdict = Worst(@, failures), ![c].named = named,
                          ![c].blamed = blamed]
  /\ MainAlone /\ UNCHANGED <<threads, created>>

\* What a conversation can come to, for a case that must draw and for one that need not.
Conversations ==
  [required \in BOOLEAN |->
     {[failures |-> TurnFailure(required, t), blamed |-> SurroundingsFailed(required, t)]
        : t \in Turns}]

\* The conversation ended: with its last turn, or with a turn that failed.
Converse(c) ==
  /\ task[c] = "steps" /\ CanStart(c)
  /\ \E e \in Conversations[(c \in GraphCases)] : Inspecting(c, e.failures, TRUE, e.blamed)

\* The page could not be opened, or its composer was never ready.
NotReady(c) ==
  /\ task[c] = "steps"
  /\ \E f \in {"retry", "quality"} : Inspecting(c, {f}, work[c].named, FALSE)

\* What each look at a conversation that was sound can find.  The drawn diagram: not ready,
\* or not readable.  The deterministic checks: the provider, the research or the hidden
\* render failed, and nothing else is looked at; or the product's failures.  The node's
\* follow-up.  What the backend stored: not readable, missing or different.
DrawnFindings == {{}, {"quality"}, {"infra"}}
CheckFindings == {{}, {"retry"}, {"quality"}}
FollowupFindings == {{}, {"quality"}}
StoredFindings == {{}, {"infra"}, {"quality"}}
ScreenshotFindings == {{}, {"infra"}}

\* A look is taken only while nothing was found before; the screenshot always, and
\* whether it fails has no say in the look at what was stored.
InspectionFindings(sound) ==
  IF ~sound THEN ScreenshotFindings
  ELSE LET looked == DrawnFindings \cup CheckFindings \cup FollowupFindings
           found == (looked \ {{}}) \cup StoredFindings
       IN  {f \cup s : f \in found, s \in ScreenshotFindings}

\* The attempt's result exists from here on.
Inspect(c) ==
  /\ task[c] = "inspect"
  /\ \E found \in InspectionFindings(work[c].verdict = "passed") :
        work' = [work EXCEPT ![c].verdict = Worst(@, found), ![c].result = TRUE,
                             ![c].blamed = FALSE]
  /\ Become(c, "cleanup")
  /\ MainAlone /\ UNCHANGED <<threads, created>>

\* The threads the attempt knows of: from the responses, and from its start frames.
NamedThreads(c) == IF work[c].named THEN {<<c, round>>} ELSE {}

\* Mutant: a deletion that fails is only logged.
CleanupFindingsSilent(c, deleted) == IF work[c].reply = "unreadable" THEN {"infra"} ELSE {}

\* A response that could not be read, and a deletion that failed, are failures.
CleanupFindings(c, deleted) ==
  IF work[c].reply = "unreadable" \/ (NamedThreads(c) # {} /\ ~deleted)
  THEN {"infra"} ELSE {}

\* finalize_threads: nothing interrupts it.  A deletion whose check fails is a failure,
\* whether the thread is gone or not.
Cleanup(c) ==
  /\ task[c] = "cleanup"
  /\ \E deleted \in BOOLEAN :
        /\ work' = [work EXCEPT ![c].verdict = Worst(@, CleanupFindings(c, deleted)),
                                ![c].reply = "none"]
        /\ \/ threads' = threads \ NamedThreads(c)
           \/ ~deleted /\ UNCHANGED threads
  /\ Become(c, "trace")
  /\ MainAlone /\ UNCHANGED <<created>>

\* Storing the trace and closing the context.  An attempt without a result raises here
\* the cancellation it met.
CloseContext(c) ==
  /\ task[c] = "trace"
  /\ \E found \in {{}, {"infra"}} : Blame(c, found)
  /\ Become(c, IF work[c].result THEN "done" ELSE "gone")
  /\ MainAlone /\ UNCHANGED <<threads, created>>

Attempt(c) ==
  \/ TakeLane(c) \/ TakeSlot(c) \/ Authenticate(c) \/ CreateThread(c)
  \/ Converse(c) \/ NotReady(c) \/ Inspect(c) \/ Cleanup(c) \/ CloseContext(c)

Over == main \in {"ended", "failed"}

Main ==
  Preflight \/ Bootstrap \/ (\E c \in Cases : Record(c)) \/ NextBatch \/ Gathered
  \/ Finalize \/ Collect

SuiteNext == Main \/ Deadline \/ (\E c \in Cases : Attempt(c))

\* The event loop runs what can run; the deadline may never come.
SuiteFairness ==
  /\ WF_suiteVars(Main) /\ \A c \in Cases : WF_suiteVars(Attempt(c))

SuiteSpec == SuiteInit /\ [][SuiteNext]_suiteVars /\ SuiteFairness

(***************************************************************************)
(* Properties.                                                             *)
(***************************************************************************)
Phases == Queued \cup Active \cup Ended
Attempts == RetryCount + 1

SuiteTypeOK ==
  /\ main \in {"preflight", "bootstrap", "batch", "unwind", "collect", "finalize",
               "ended", "failed"}
  /\ round \in 0..Attempts
  /\ task \in [Cases -> Phases] /\ recorded \subseteq Cases
  /\ \A c \in Cases : /\ work[c].verdict \in DOMAIN Rank
                      /\ Len(current[c]) \in 0..Attempts
  /\ threads \subseteq created /\ created \subseteq Cases \X (1..Attempts)

\* A case has one outcome per attempt at most, every outcome but the last of a case
\* earned the next attempt, and what the checkpoint tells of a case is what was recorded
\* of it.
AttemptsAreCounted ==
  \A c \in Cases :
    /\ Len(current[c]) <= round
    /\ \A i \in 1..(Len(current[c]) - 1) : ShouldRetry(current[c][i])
    /\ file.results[c] = current[c]

\* Once the suite has ended, the report holds every attempt that came to a result, also
\* one that came to it while the deadline unwound the suite.
NoResultIsLost ==
  main = "ended" =>
    \A c \in Cases : task[c] = "done" =>
      file.results[c] # <<>> /\ Last(file.results[c]) = OutcomeOf(c)

\* An attempt that passed left no thread in the backend, whatever became of the
\* response that created it and of the deletion.
PassedLeavesNothing ==
  \A t \in threads :
    t[2] <= Len(current[t[1]]) => current[t[1]][t[2]].verdict # "passed"

\* A provider's or the transport's failure in an otherwise sound turn is never held
\* against the product.
SurroundingsAreNotTheProduct ==
  \A c \in Cases : task[c] = "inspect" /\ work[c].blamed => work[c].verdict # "quality"

\* What the checkpoint tells of a case only grows, and a case that passed or showed a
\* failure of the product is never run again.
VerdictsAreFinal ==
  [][\A c \in Cases :
       /\ Len(file'.results[c]) >= Len(file.results[c])
       /\ SubSeq(file'.results[c], 1, Len(file.results[c])) = file.results[c]
       /\ file.results[c] # <<>> /\ ~ShouldRetry(Last(file.results[c]))
            => file'.results[c] = file.results[c]]_suiteVars

\* A case that the timed-out report calls not started created no thread: its attempts
\* are attributed to it (docs/quality-system.md:416).
NotStartedCreatedNothing ==
  main = "ended" /\ file.status = "timed_out" =>
    \A c \in Cases : file.results[c] = <<>> => \A t \in created : t[1] # c

\* Every attempt is in the report, once and for good, whatever the deadline interrupts
\* (_execute_browser).
AttemptsAreReported == [](AttemptsAreCounted /\ NoResultIsLost) /\ VerdictsAreFinal

\* An attempt is judged by what the product did: one that passed cleaned up, and none is
\* blamed for its surroundings (_run_browser_attempt).
AttemptsAreFair == PassedLeavesNothing /\ SurroundingsAreNotTheProduct
=============================================================================
