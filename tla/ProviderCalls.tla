---------------------------- MODULE ProviderCalls ----------------------------
(***************************************************************************)
(* One model call from its caller to the provider and back                 *)
(* (backend/adapters/llm_adapter.py, backend/agent/explanation_blocks.py). *)
(*                                                                         *)
(* stream_response is an asynchronous generator: it reserves an attempt of *)
(* the evaluation quota in a thread, waits for a stream permit, opens the  *)
(* provider's stream, hands every delta to its caller (and stands still    *)
(* while the caller works on it), retries or falls back while no provider  *)
(* has accepted the request, and writes one telemetry row.  Its caller can *)
(* be cancelled, or time out, at every await.  The caller modelled in full *)
(* is the explanation, which cuts the text into blocks and sends them.     *)
(***************************************************************************)
EXTENDS Integers, Sequences, FiniteSets, Functions

CONSTANTS
  Calls,          \* the calls of the process
  Explanations,   \* the calls whose caller is stream_explanation_blocks
  Quota,          \* settings.evaluation_provider_attempt_limit
  Permits,        \* settings.anthropic_max_concurrent_streams
  MaxRetries,     \* settings.llm_max_retries
  MaxBlocks,      \* bound: blocks a provider's text holds (_MAXIMUM_BLOCKS)
  MaxRestarts     \* bound: kills of the process

ASSUME CallsAssumption ==
  /\ Explanations \subseteq Calls
  /\ Quota \in Nat \ {0} /\ Permits \in Nat \ {0} /\ MaxRetries \in Nat \ {0}
  /\ MaxBlocks \in Nat /\ MaxRestarts \in Nat

VARIABLES
  call,       \* the generator's locals of every call
  permits,    \* free permits of the Anthropic stream semaphore
  taken,      \* reservations of the run in rate_limit_events: they are never deleted
  orphans,    \* reservation threads whose caller was cancelled
  requests,   \* history: requests sent to a provider
  restarts,   \* kills of the process so far
  reply       \* the blocks of every explanation

callVars == <<call, permits, taken, orphans, requests, restarts, reply>>

Routes == {"anthropic", "kimi", "openai"}
Phases == {"idle", "reserve", "queue", "open", "stream", "yielded", "switch", "backoff",
           "record", "done", "failed", "cancelled"}

\* A block is numbered by its position in the text; 0 is the fallback block.  "told":
\* the block sent last carried the required sentence.
None == -1
NoReply == [emitted |-> <<>>, pending |-> None, sent |-> {}, required |-> FALSE,
            told |-> FALSE, sending |-> None, late |-> FALSE, state |-> "open"]

Fresh == [phase |-> "idle", route |-> "anthropic", fallback |-> FALSE, tries |-> 0,
          once |-> FALSE, mayFall |-> FALSE, accepted |-> FALSE, rows |-> 0,
          outcome |-> "done", accepts |-> 0, letGo |-> FALSE]

CallsInit ==
  /\ call = [c \in Calls |-> Fresh]
  /\ permits = Permits /\ taken = 0 /\ orphans = 0 /\ requests = 0 /\ restarts = 0
  /\ reply = [c \in Explanations |-> NoReply]

\* A generator that ended has no locals any more: what is left is its history.
Gone(r, phase) ==
  [Fresh EXCEPT !.phase = phase, !.rows = r.rows, !.accepts = r.accepts, !.letGo = r.letGo]

Set(c, r) == call' = [call EXCEPT ![c] = r]
Ended(c) == call[c].phase \in {"done", "failed", "cancelled"}
HoldsPermit(c) == call[c].route = "anthropic" /\ call[c].phase \in {"open", "stream", "yielded"}

(***************************************************************************)
(* Attempts.                                                               *)
(***************************************************************************)

\* Attempts of the current route: Anthropic and a directly chosen Kimi model are
\* retried, OpenAI and every fallback are asked once.
AttemptLimit(c) ==
  IF call[c].route = "openai" \/ call[c].fallback \/ call[c].once THEN 1 ELSE MaxRetries

\* stream_response is entered: the model names the route, the caller says whether
\* there may be one attempt only and whether another provider may answer.
Begin(c) ==
  /\ call[c].phase = "idle"
  /\ \E route \in Routes, once, mayFall, required \in BOOLEAN :
       /\ once => route # "openai"          \* OpenAI is asked once anyway
       /\ mayFall => route = "anthropic"    \* and no other route is handed over
       /\ Set(c, [Fresh EXCEPT !.phase = "reserve", !.route = route, !.once = once,
                               !.mayFall = mayFall])
       /\ IF c \in Explanations
            THEN reply' = [reply EXCEPT ![c] = [NoReply EXCEPT !.required = required]]
            ELSE required /\ UNCHANGED reply
  /\ UNCHANGED <<permits, taken, orphans, requests, restarts>>

\* Mutant: the lifetime quota compared after the insertion.
QuotaInclusive == taken <= Quota

\* reserve_rate_limit for the run's lifetime quota: one transaction counts and inserts.
QuotaLeft == taken < Quota

\* The thread answers: without a reservation the call ends with an exception that no
\* handler records; with one, an Anthropic attempt waits for a permit.
ReserveAttempt(c) ==
  /\ call[c].phase = "reserve"
  /\ IF QuotaLeft
       THEN /\ taken' = taken + 1
            /\ Set(c, [call[c] EXCEPT
                 !.phase = IF call[c].route = "anthropic" THEN "queue" ELSE "open",
                 !.tries = @ + 1, !.accepted = FALSE])
            /\ requests' = IF call[c].route = "anthropic" THEN requests ELSE requests + 1
       ELSE /\ Set(c, Gone(call[c], "failed"))
            /\ UNCHANGED <<taken, requests>>
  /\ UNCHANGED <<permits, orphans, restarts, reply>>

\* A thread whose caller was cancelled still finishes its transaction.
OrphanReserves ==
  /\ orphans > 0
  /\ orphans' = orphans - 1
  /\ taken' = IF QuotaLeft THEN taken + 1 ELSE taken
  /\ UNCHANGED <<call, permits, requests, restarts, reply>>

\* The semaphore admits the attempt and messages.create is sent.
Acquire(c) ==
  /\ call[c].phase = "queue" /\ permits > 0
  /\ permits' = permits - 1
  /\ requests' = requests + 1
  /\ Set(c, [call[c] EXCEPT !.phase = "open"])
  /\ UNCHANGED <<taken, orphans, restarts, reply>>

\* message_start, or the first delta of a chat completion: the provider accepted.
Accept(c) ==
  /\ call[c].phase = "open"
  /\ Set(c, [call[c] EXCEPT !.phase = "stream", !.accepted = TRUE, !.accepts = @ + 1])
  /\ UNCHANGED <<permits, taken, orphans, requests, restarts, reply>>

\* Mutant: a stream left open by a caller that stopped reading keeps its permit.
ReleasedByReader(c) ==
  IF HoldsPermit(c) /\ call[c].phase # "yielded" THEN permits + 1 ELSE permits

\* The generator's stack below the handler unwinds: "async with semaphore".
Released(c) == IF HoldsPermit(c) THEN permits + 1 ELSE permits

\* The stream is exhausted, be it before the provider sent anything.
StreamEnds(c) ==
  /\ call[c].phase \in {"open", "stream"}
  /\ permits' = Released(c)
  /\ Set(c, [call[c] EXCEPT !.phase = "record", !.rows = @ + 1, !.outcome = "done"])
  /\ UNCHANGED <<taken, orphans, requests, restarts, reply>>

\* Mutant: a retry that looks at the class of the error only.
RetryAcceptedToo(c, retryable) == retryable /\ call[c].tries < AttemptLimit(c)

MayRetry(c, retryable) ==
  retryable /\ ~call[c].accepted /\ call[c].tries < AttemptLimit(c)

\* Only a call to Anthropic is taken over, by OpenAI and when the caller allows it.
MayFallBack(c) ==
  call[c].route = "anthropic" /\ ~call[c].accepted /\ call[c].mayFall

\* The attempt raises: accepted work is recorded and never replayed; otherwise the
\* attempt is repeated, handed to OpenAI, or recorded as the call's failure.
AttemptFails(c) ==
  /\ call[c].phase \in {"open", "stream"}
  /\ permits' = Released(c)
  /\ \E retryable \in BOOLEAN :
       Set(c, IF MayRetry(c, retryable) THEN [call[c] EXCEPT !.phase = "backoff"]
              ELSE IF MayFallBack(c)
                THEN [call[c] EXCEPT !.phase = "switch", !.route = "openai", !.fallback = TRUE,
                                     !.tries = 0]
              ELSE [call[c] EXCEPT !.phase = "record", !.rows = @ + 1, !.outcome = "failed"])
  /\ UNCHANGED <<taken, orphans, requests, restarts, reply>>

\* asyncio.sleep before the next attempt of the route ends.
BackoffEnds(c) ==
  /\ call[c].phase = "backoff"
  /\ Set(c, [call[c] EXCEPT !.phase = "reserve"])
  /\ UNCHANGED <<permits, taken, orphans, requests, restarts, reply>>

\* The caller has forwarded ("provider_switch", "openai").
Switched(c) ==
  /\ call[c].phase = "switch"
  /\ Set(c, [call[c] EXCEPT !.phase = "reserve"])
  /\ UNCHANGED <<permits, taken, orphans, requests, restarts, reply>>

\* The shielded row is written, or its failure logged; then the call ends.
RowWritten(c) ==
  /\ call[c].phase = "record"
  /\ Set(c, Gone(call[c], call[c].outcome))
  /\ UNCHANGED <<permits, taken, orphans, requests, restarts, reply>>

(***************************************************************************)
(* The caller: it takes one delta at a time and may be cancelled.          *)
(***************************************************************************)

\* Mutant: no block is held back for the sentence.
SentAtOnce(r, b) == [r EXCEPT !.emitted = Append(@, b), !.sending = b]

\* emit_parsed up to its await: the newest block is held back while the answer owes a
\* completion sentence, and the one held so far is sent instead.
Parsed(r, b) ==
  LET kept == [r EXCEPT !.emitted = Append(@, b)]
  IN  IF ~r.required THEN [kept EXCEPT !.sending = b]
      ELSE IF r.pending = None THEN [kept EXCEPT !.pending = b]
      ELSE [kept EXCEPT !.sending = r.pending]

\* emit_parsed after its await.
Emitted(r) ==
  IF r.sending = None THEN r
  ELSE [r EXCEPT !.sent = @ \cup {r.sending}, !.sending = None,
                 !.pending = IF r.required THEN r.emitted[Len(r.emitted)] ELSE @]

\* Whether the text read so far now holds one more valid block: its keys, length and
\* references are the model's business, as long as there is room for it.
EndsBlock(c) ==
  IF c \in Explanations /\ Len(reply[c].emitted) < MaxBlocks THEN BOOLEAN ELSE {FALSE}

\* The generator yields a delta: the caller of a plain answer forwards it, the
\* explanation may have read the end of a block.
Delta(c) ==
  /\ call[c].phase = "stream"
  /\ Set(c, [call[c] EXCEPT !.phase = "yielded"])
  /\ \E ends \in EndsBlock(c) :
       reply' = IF ends THEN [reply EXCEPT ![c] = Parsed(@, Len(@.emitted) + 1)] ELSE reply
  /\ UNCHANGED <<permits, taken, orphans, requests, restarts>>

\* The caller has finished with the delta and asks for the next event.
Resume(c) ==
  /\ call[c].phase = "yielded"
  /\ Set(c, [call[c] EXCEPT !.phase = "stream"])
  /\ reply' = IF c \in Explanations THEN [reply EXCEPT ![c] = Emitted(@)] ELSE reply
  /\ UNCHANGED <<permits, taken, orphans, requests, restarts>>

\* Mutant: a cancellation that does not see that the row is being written already.
RecordedTwice(c) ==
  CASE call[c].phase \in {"queue", "open", "stream", "record"} ->
         [call[c] EXCEPT !.phase = "record", !.rows = @ + 1, !.outcome = "cancelled"]
    [] OTHER -> Gone([call[c] EXCEPT !.letGo = call[c].phase \in {"yielded", "switch"}], "cancelled")

\* Where the cancellation of the caller reaches the generator.  Inside an attempt it is
\* recorded; a row being written is finished first; while the caller holds a delta the
\* generator is closed without being told why (GeneratorExit), and outside an attempt
\* no handler is there.
Cancelled(c) ==
  CASE call[c].phase \in {"queue", "open", "stream"} ->
         [call[c] EXCEPT !.phase = "record", !.rows = @ + 1, !.outcome = "cancelled"]
    [] call[c].phase = "record" -> [call[c] EXCEPT !.outcome = "cancelled"]
    [] call[c].phase \in {"yielded", "switch"} ->
         Gone([call[c] EXCEPT !.letGo = TRUE], "cancelled")
    [] OTHER -> Gone(call[c], "cancelled")

\* A send that was under way when the caller was cancelled may have gone out.
Interrupted(r) ==
  IF r.sending = None THEN {r}
  ELSE {[r EXCEPT !.sending = None],
        [r EXCEPT !.sending = None, !.sent = @ \cup {r.sending}]}

\* The caller's deadline passes ("late"), or its task is cancelled and nothing of it
\* goes on.  asyncio.timeout and Task.cancel raise at the same awaits.
Cancel(c) ==
  /\ call[c].phase # "idle" /\ ~Ended(c)
  /\ call[c].phase = "record" => call[c].outcome # "cancelled"
  /\ Set(c, Cancelled(c))
  /\ permits' = Released(c)
  /\ orphans' = IF call[c].phase = "reserve" THEN orphans + 1 ELSE orphans
  /\ IF c \in Explanations
       THEN \E late \in BOOLEAN, r \in Interrupted(reply[c]) :
              reply' = [reply EXCEPT ![c] =
                          [r EXCEPT !.late = late, !.state = IF late THEN @ ELSE "dropped"]]
       ELSE UNCHANGED reply
  /\ UNCHANGED <<taken, requests, restarts>>

\* The explanation after its stream: a fallback block when it has none, and the held
\* block last, with the sentence it owes.  A provider's failure is raised instead.
FinishReply(c) ==
  /\ reply[c].state = "open"
  /\ call[c].phase = "done" \/ (call[c].phase = "cancelled" /\ reply[c].late)
  /\ LET read == IF reply[c].emitted = <<>> THEN Emitted(Parsed(reply[c], 0)) ELSE reply[c]
         held == read.pending
     IN  reply' = [reply EXCEPT ![c] =
                     IF held = None THEN [read EXCEPT !.state = "finished"]
                     ELSE [read EXCEPT !.state = "finished", !.told = TRUE, !.pending = None,
                             !.sent = @ \cup {held}]]
  /\ UNCHANGED <<call, permits, taken, orphans, requests, restarts>>

\* The process is killed and started again: its threads may have reached the database,
\* its calls are gone, and the run's reservations are still counted.
Kill ==
  /\ restarts < MaxRestarts
  /\ restarts' = restarts + 1
  /\ LET open == orphans + Cardinality({c \in Calls : call[c].phase = "reserve"})
     IN  taken' \in {n \in taken .. Quota : n <= taken + open}
  /\ call' = [c \in Calls |-> Fresh]
  /\ permits' = Permits /\ orphans' = 0
  /\ reply' = [c \in Explanations |-> NoReply]
  /\ UNCHANGED requests

Step(c) ==
  \/ Begin(c) \/ ReserveAttempt(c) \/ Acquire(c) \/ Accept(c) \/ StreamEnds(c) \/ AttemptFails(c)
  \/ BackoffEnds(c) \/ Switched(c) \/ RowWritten(c) \/ Delta(c) \/ Resume(c) \/ Cancel(c)

CallsNext ==
  \/ \E c \in Calls : Step(c)
  \/ \E c \in Explanations : FinishReply(c)
  \/ OrphanReserves
  \/ Kill

\* The store answers, a provider ends its stream or the client gives up on it, callers
\* take their deltas, and asyncio.Semaphore wakes its waiters in turn.
CallsFairness ==
  \A c \in Calls :
    /\ WF_callVars(ReserveAttempt(c)) /\ WF_callVars(BackoffEnds(c)) /\ WF_callVars(Switched(c))
    /\ WF_callVars(RowWritten(c)) /\ WF_callVars(Resume(c))
    /\ SF_callVars(StreamEnds(c) \/ AttemptFails(c)) /\ SF_callVars(Acquire(c))

CallsSpec == CallsInit /\ [][CallsNext]_callVars /\ CallsFairness

(***************************************************************************)
(* Properties.                                                             *)
(***************************************************************************)

\* The variables stay in their ranges.
CallsTypeOK ==
  /\ \A c \in Calls :
       /\ call[c].phase \in Phases /\ call[c].route \in Routes
       /\ call[c].tries \in 0 .. MaxRetries /\ call[c].rows \in Nat /\ call[c].accepts \in Nat
  /\ permits \in 0 .. Permits /\ taken \in 0 .. Quota
  /\ orphans \in Nat /\ requests \in Nat /\ restarts \in 0 .. MaxRestarts

\* The lifetime quota of an evaluation bounds the requests really sent, whatever is
\* retried, handed over, cancelled while its reservation is under way, or restarted.
SpendWithinQuota == requests <= Quota

\* Work a provider accepted is never asked for again: no retry and no fallback repeats
\* it, so the text of one answer has one author.
AcceptedWorkIsNotReplayed == \A c \in Calls : call[c].accepts <= 1

\* A call writes one telemetry row at most, and one whose work was accepted and whose
\* caller did not close it between two deltas has written it when it ends.
AcceptedWorkIsRecorded ==
  \A c \in Calls :
    /\ call[c].rows <= 1
    /\ Ended(c) /\ call[c].accepts > 0 /\ ~call[c].letGo => call[c].rows = 1

\* An explanation that finishes, on time or late, has said what it owes: the last block
\* the reader sees carries the required sentence.  Every block shown is stored, and
\* unless the deadline interrupted it every stored block was shown.
OwedSentenceIsTold ==
  \A c \in Explanations :
    reply[c].state = "finished" =>
      /\ reply[c].required => reply[c].told
      /\ reply[c].sent \subseteq Range(reply[c].emitted)
      /\ ~reply[c].late => reply[c].sent = Range(reply[c].emitted)

\* A permit always comes back: an attempt in the queue is admitted or gives up.
QueueMoves == \A c \in Calls : call[c].phase = "queue" ~> call[c].phase # "queue"

\* "Cancellation cannot discard a billable row": what a provider accepted is recorded
\* whenever the call ends.  The generator does not see a caller that closes it while
\* holding a delta.
BillableWorkIsRecorded ==
  \A c \in Calls : Ended(c) /\ call[c].accepts > 0 => call[c].rows = 1

\* What is paid for is counted: requests stay within the quota, no accepted work is asked
\* for again, and accepted work is recorded once (llm_adapter.py).
PaidWorkIsAccounted ==
  SpendWithinQuota /\ AcceptedWorkIsNotReplayed /\ AcceptedWorkIsRecorded
=============================================================================
