------------------------------ MODULE LiveGate ------------------------------
(***************************************************************************)
(* The semantic gate of a pull request and its failed-only resume          *)
(* (backend/eval/live_runner.py, semantic_gate.py, judge_adapter.py,       *)
(* pr_resume.py).                                                          *)
(*                                                                         *)
(* A browser capture is evaluated case by case: the judge grades it, under *)
(* a budget of attempts.  A gate that failed may be resumed: "prepare"     *)
(* splits its cases into those to run again on the candidate, those whose  *)
(* saved capture is judged again, and those carried over; "judge" spends   *)
(* one shared budget, once, and combines the three.  A push may move the   *)
(* pull request at any time and the suite may run out of time at any       *)
(* await.                                                                  *)
(***************************************************************************)
EXTENDS EvaluationCosts, FiniteSetsExt

CONSTANTS
  CaseCount,        \* the cases of the suite are 1..CaseCount, in its order
  OtherDimensions,  \* the dimensions of a case that are not critical
  JudgeLimit,       \* live.budgets.judge_calls
  ApplicationLimit, \* live.budgets.application_calls
  SuiteLimit,       \* live.cost_policy.suite_limit_usd
  CostBlocks,       \* live.cost_policy.mode = "blocking"
  ThreadSets,       \* the threads of the cases of a capture
  Telemetries,      \* the calls the application can tell of
  FreshTelemetries  \* and those of a capture of the cases that are run again

ASSUME GateAssumption ==
  /\ CaseCount \in Nat \ {0} /\ OtherDimensions \in Nat /\ JudgeLimit \in Nat \ {0}
  /\ ApplicationLimit \in Nat /\ SuiteLimit \in Nat /\ CostBlocks \in BOOLEAN

\* The telemetry is a sequence of calls, each with two attempts at most; every case has its
\* threads.
ASSUME CaptureAssumption ==
  /\ \A threads \in ThreadSets : DOMAIN threads = 1..CaseCount
  /\ \A telemetry \in Telemetries \cup FreshTelemetries :
       /\ Len(telemetry) \in Nat /\ DOMAIN telemetry = 1..Len(telemetry)
       /\ \A i \in DOMAIN telemetry :
            /\ telemetry[i].complete \in BOOLEAN /\ telemetry[i].attempts \in Seq(Attempts)
            /\ Len(telemetry[i].attempts) <= 2

VARIABLES
  step,      \* where the work on the pull request stands
  review,    \* the manual-review policy
  book,      \* the accounts of the capture
  results,   \* what the browser found of every case
  run,       \* the invocation of evaluate
  source,    \* the evaluations of the failed gate
  groups,    \* the plan's partition
  remaining, \* the judge attempts the resume has left
  statuses,  \* the statuses of its phases
  reserved,  \* judge-reservation.json exists
  head,      \* the pull request's head: 0, or 1 once it moved
  combined,  \* combined-evidence.json: "none", "pass" or "fail"
  sent       \* history: the judge attempts that reached the provider

vars == <<step, review, book, results, run, source, groups, remaining, statuses, reserved,
          head, combined, sent>>

Cases == 1..CaseCount

(***************************************************************************)
(* The accounts of a capture: what the gate makes of its telemetry; whether*)
(* there is any; the application's calls; the cases that can be replayed.  *)
(* "made" and "sound" are history: the attempts of every case, and whether *)
(* every one of them is known, priced and attributed beyond doubt.         *)
(***************************************************************************)
Book(threads, telemetry) ==
  [cost |-> ApplicationCost(threads, telemetry), missing |-> telemetry = <<>>,
   calls |-> ApplicationCalls(telemetry),
   traceable |-> {c \in Cases : Traceable(threads, telemetry, c)},
   made |-> [c \in Cases |-> Charged(threads, telemetry, c)],
   sound |-> /\ \A i \in DOMAIN telemetry :
                  /\ Cardinality({c \in Cases : telemetry[i].thread \in threads[c]}) = 1
                  /\ telemetry[i].attempts # <<>> /\ telemetry[i].complete
                  /\ telemetry[i].search = "ok"
                  /\ \A k \in DOMAIN telemetry[i].attempts :
                        telemetry[i].attempts[k] = [usable |-> TRUE, complete |-> TRUE]
             /\ \A c \in Cases : threads[c] # {} =>
                  \E i \in DOMAIN telemetry : telemetry[i].thread \in threads[c]]

Books == {Book(threads, telemetry) : threads \in ThreadSets, telemetry \in Telemetries}
FreshBooks ==
  {Book(threads, telemetry) : threads \in ThreadSets, telemetry \in FreshTelemetries}

\* What later steps read of the accounts.
Archived(b) ==
  [b EXCEPT !.cost = [status |-> "pass", total |-> Unknown, cases |-> <<>>],
            !.calls = 0, !.made = <<>>, !.sound = TRUE]

(***************************************************************************)
(* The gate's rules.                                                       *)
(***************************************************************************)
Judgments == [critical : BOOLEAN, failed : 0..OtherDimensions, borderline : BOOLEAN]

\* More than 15% of the dimensions that are not critical failed.
Clear(j) == 100 * j.failed > 15 * OtherDimensions

\* Mutant: a borderline dimension is looked for first.
SingleStatusBorderline(j) ==
  IF j.critical THEN "fail"
  ELSE IF j.borderline THEN "manual_review"
  ELSE IF Clear(j) THEN "fail" ELSE "pass"

SingleStatus(j) ==
  IF j.critical \/ Clear(j) THEN "fail"
  ELSE IF j.borderline THEN "manual_review" ELSE "pass"

\* A failure that is not critical asks for a second judgment.
NeedsSecond(j) == ~j.critical /\ SingleStatus(j) = "fail"

DecideFirst(j) == SingleStatus(j)

DecideBoth(j) ==
  IF SingleStatus(j) = "fail" THEN "fail" ELSE "manual_review"

\* What the browser found: a sound case, one that failed, or one that passed there and
\* lacks the evidence of its service expansion.
Results == {"passed", "quality", "infra", "expansion"}

Deterministic(r) == IF r = "infra" THEN "infrastructure" ELSE "fail"

\* An evaluation: its decision, the judgments it keeps, what they said, and for a judge's
\* failure whether the provider was out of reach, failed by itself, or the call was wrong.
Evaluation(decision, reason, judged, critical, clear) ==
  [decision |-> decision, reason |-> reason, judged |-> judged, critical |-> critical,
   clear |-> clear]
Unjudged == Evaluation("none", "none", 0, FALSE, 0)

\* Mutant: an accounting failure comes before a failure of the product.
ExitStatusAccounting(decisions) ==
  IF "infrastructure" \in decisions THEN "infrastructure"
  ELSE IF "fail" \in decisions THEN "fail"
  ELSE IF "manual_review" \in decisions THEN "manual_review" ELSE "pass"

ExitStatus(decisions) ==
  IF "fail" \in decisions THEN "fail"
  ELSE IF "infrastructure" \in decisions THEN "infrastructure"
  ELSE IF "manual_review" \in decisions THEN "manual_review" ELSE "pass"

Accepted == IF review = "report-only" THEN {"pass", "manual_review"} ELSE {"pass"}

(***************************************************************************)
(* One invocation of evaluate.                                             *)
(***************************************************************************)
Included(mode, c) == mode = "gate" \/ groups[c] = mode

\* The first case from c on that the invocation covers.
NextCase(mode, c) ==
  LET left == {d \in c..CaseCount : Included(mode, d)}
  IN  IF left = {} THEN CaseCount + 1 ELSE CHOOSE d \in left : \A e \in left : d <= e

NoCost == [status |-> "pass", blocks |-> FALSE]
NewRun(mode, limit, cost) ==
  [mode |-> mode, at |-> NextCase(mode, 1), first |-> FALSE, tries |-> 0, calls |-> 0,
   limit |-> limit, cost |-> cost, evals |-> [c \in Cases |-> Unjudged]]

NoRun == [NewRun("gate", 0, NoCost) EXCEPT !.at = CaseCount + 1]

Init ==
  /\ step = "capture" /\ review \in {"blocking", "report-only"}
  /\ book = Book([c \in Cases |-> {}], <<>>) /\ results = [c \in Cases |-> "passed"]
  /\ run = NoRun
  /\ source = [c \in Cases |-> Unjudged] /\ groups = [c \in Cases |-> "none"]
  /\ remaining = JudgeLimit /\ statuses = {} /\ reserved = FALSE /\ head = 0
  /\ combined = "none" /\ sent = [gate |-> 0, resume |-> 0]

ResumeAlone ==
  UNCHANGED <<review, source, groups, remaining, statuses, reserved, head, combined>>

\* The browser run ends with results and telemetry.
Capture ==
  /\ step = "capture" /\ step' = "start"
  /\ results' \in [Cases -> Results] /\ book' \in Books
  /\ UNCHANGED <<run, sent>> /\ ResumeAlone

\* A report without evaluations: the invocation raised or ran out of time.  Inside the
\* resume the command fails, and may be given again.
Abort ==
  /\ run' = NoRun
  /\ step' = IF run.mode = "gate" THEN "reported" ELSE "judge"

\* The capture is accounted for; too many application calls are refused.
Start ==
  /\ step = "start"
  /\ IF book.calls > ApplicationLimit THEN Abort
     ELSE /\ run' = NewRun("gate", JudgeLimit, CostPolicy(book.cost, CostBlocks, SuiteLimit))
          /\ step' = "evaluate"
  /\ book' = Archived(book)
  /\ UNCHANGED <<results, sent>> /\ ResumeAlone

Settle(e) ==
  run' = [run EXCEPT !.evals[run.at] = e, !.first = FALSE, !.tries = 0,
                     !.at = NextCase(run.mode, run.at + 1)]

Here == step = "evaluate" /\ run.at <= CaseCount

\* The browser's failures decide without the judge.
DecideDeterministic ==
  /\ Here /\ results[run.at] # "passed"
  /\ Settle(Evaluation(Deterministic(results[run.at]), "browser", 0, FALSE, 0))
  /\ UNCHANGED <<step, book, results, sent>> /\ ResumeAlone

\* The application reported no call at all.
NoTelemetry == run.mode = "gate" /\ book.missing

DecideUnreported ==
  /\ Here /\ results[run.at] = "passed" /\ NoTelemetry
  /\ Settle(Evaluation("infrastructure", "telemetry", 0, FALSE, 0))
  /\ UNCHANGED <<step, book, results, sent>> /\ ResumeAlone

Asks == Here /\ results[run.at] = "passed" /\ ~NoTelemetry

\* What is recorded when the judge's second word, or its first, is missing.
JudgeFailed(reason) ==
  Evaluation("infrastructure", reason, IF run.first THEN 1 ELSE 0, FALSE,
             IF run.first THEN 1 ELSE 0)

\* record_judge_call refuses the attempt, and counts it.
OverBudget ==
  /\ Asks /\ run.calls >= run.limit
  /\ run' = [run EXCEPT !.calls = @ + 1, !.evals[run.at] = JudgeFailed("budget"),
                        !.first = FALSE, !.tries = 0, !.at = NextCase(run.mode, run.at + 1)]
  /\ UNCHANGED <<step, book, results, sent>> /\ ResumeAlone

\* What a judgment makes of the case.
Judged(j) ==
  IF run.first
  THEN Evaluation(IF j.critical THEN "fail" ELSE DecideBoth(j), "judged", 2, j.critical,
                  IF Clear(j) THEN 2 ELSE 1)
  ELSE Evaluation(DecideFirst(j), "judged", 1, j.critical, IF Clear(j) THEN 1 ELSE 0)

\* One attempt at the judge.  Its answer settles the case or asks for a second judgment;
\* an outage is retried once; any other failure is final.
Attempt ==
  /\ Asks /\ run.calls < run.limit
  /\ sent' = [sent EXCEPT ![IF run.mode = "gate" THEN "gate" ELSE "resume"] = @ + 1]
  /\ LET counted == [run EXCEPT !.calls = @ + 1]
         settled(e) == [counted EXCEPT !.evals[run.at] = e, !.first = FALSE, !.tries = 0,
                                       !.at = NextCase(run.mode, run.at + 1)]
     IN  \/ \E j \in Judgments :
              run' = IF ~run.first /\ NeedsSecond(j)
                     THEN [counted EXCEPT !.first = TRUE, !.tries = 0]
                     ELSE settled(Judged(j))
         \/ run' = IF run.tries = 0 THEN [counted EXCEPT !.tries = 1]
                   ELSE settled(JudgeFailed("outage"))
         \/ \E reason \in {"provider", "wrong"} : run' = settled(JudgeFailed(reason))
  /\ UNCHANGED <<step, book, results>> /\ ResumeAlone

\* The suite's time is up while the judge is asked.
SuiteTimeout ==
  /\ Asks /\ Abort
  /\ UNCHANGED <<book, results, sent>> /\ ResumeAlone

\* The report's status.  A replay spends on nothing but the judge.
ReportStatus ==
  ExitStatus({run.evals[c].decision : c \in {d \in Cases : Included(run.mode, d)}}
             \cup IF run.mode = "replay" THEN {}
                  ELSE IF NoTelemetry \/ run.cost.status = "infrastructure"
                  THEN {"infrastructure"}
                  ELSE IF run.cost.blocks THEN {"fail"} ELSE {})

Done(mode) == step = "evaluate" /\ run.mode = mode /\ run.at > CaseCount

\* The gate's report is written.
Report ==
  /\ Done("gate") /\ step' = "reported"
  /\ source' = run.evals /\ statuses' = {ReportStatus}
  /\ UNCHANGED <<review, book, results, run, groups, remaining, reserved, head, combined,
                 sent>>

(***************************************************************************)
(* The resume.                                                             *)
(***************************************************************************)
\* What becomes of a case; "none" when it cannot be resumed.
GroupOf(c) ==
  LET e == source[c] IN
  IF results[c] # "passed" THEN "fresh" ELSE
  CASE e.decision = "infrastructure" ->
         IF e.judged = 0 /\ e.reason = "provider" THEN "replay" ELSE "none"
    [] e.decision = "fail" -> "fresh"
    [] e.decision = "pass" -> "carried"
    [] e.decision = "manual_review" -> IF review = "report-only" THEN "carried" ELSE "replay"
    [] OTHER -> "none"

\* prepare: only a gate that failed, with a case to run again, and whose other cases can be
\* told apart.
Preparable ==
  /\ statuses \in {{"fail"}, {"infrastructure"}}
  /\ \A c \in Cases : GroupOf(c) # "none"
  /\ \E c \in Cases : GroupOf(c) = "fresh"
  /\ \A c \in Cases : GroupOf(c) # "fresh" => c \in book.traceable

Prepare ==
  /\ step = "reported"
  /\ IF Preparable
     THEN step' = "freshCapture" /\ groups' = [c \in Cases |-> GroupOf(c)]
     ELSE step' = "ended" /\ UNCHANGED groups
  /\ statuses' = {} /\ run' = NoRun
  /\ UNCHANGED <<review, book, results, source, remaining, reserved, head, combined, sent>>

\* The candidate is deployed and the fresh cases run on it; a capture that is not complete
\* ends the resume.
FreshCapture ==
  /\ step = "freshCapture"
  /\ \/ /\ step' = "judge"
        /\ \E r \in [Cases -> Results] :
              results' = [c \in Cases |-> IF groups[c] = "fresh" THEN r[c] ELSE results[c]]
        /\ book' \in FreshBooks
     \/ step' = "ended" /\ UNCHANGED <<results, book>>
  /\ UNCHANGED <<review, run, source, groups, remaining, statuses, reserved, head, combined,
                 sent>>

\* The pull request is pushed to; what was planned is planned for the head it had then.
Push ==
  /\ step \in {"freshCapture", "judge"} \/ (step = "evaluate" /\ run.mode # "gate")
  /\ head = 0 /\ head' = 1
  /\ UNCHANGED <<step, review, book, results, run, source, groups, remaining, statuses,
                 reserved, combined, sent>>

\* Mutant: a second judge command may judge again.
CanReserveAgain == head = 0

\* judge: once for a plan, and only for the head that was planned.
CanReserve == head = 0 /\ ~reserved

Reserve ==
  /\ step = "judge" /\ CanReserve
  /\ reserved' = TRUE /\ remaining' = JudgeLimit /\ statuses' = {}
  /\ IF book.calls > ApplicationLimit THEN step' = "judge" /\ run' = NoRun
     ELSE /\ step' = "evaluate"
          /\ run' = NewRun("fresh", JudgeLimit, CostPolicy(book.cost, CostBlocks, SuiteLimit))
  /\ book' = Archived(book)
  /\ UNCHANGED <<review, results, source, groups, head, combined, sent>>

Refuse ==
  /\ step = "judge" /\ ~CanReserve /\ step' = "ended"
  /\ UNCHANGED <<review, book, results, run, source, groups, remaining, statuses, reserved,
                 head, combined, sent>>

\* The evaluations of the resume so far: those of the phase that ended, and those before.
Combined == [c \in Cases |-> IF groups[c] = run.mode THEN run.evals[c] ELSE source[c]]

Replays == \E c \in Cases : groups[c] = "replay"

\* A phase that overran its budget fails; so does a replay without budget.
PhaseFails(mode) ==
  \/ run.calls > remaining
  \/ mode = "fresh" /\ Replays /\ remaining - run.calls = 0

\* The fresh phase ended and saved captures are to be judged.
StartReplay ==
  /\ Done("fresh") /\ Replays
  /\ IF PhaseFails("fresh") THEN Abort /\ UNCHANGED <<remaining, source, statuses>>
     ELSE /\ remaining' = remaining - run.calls /\ source' = Combined
          /\ statuses' = statuses \cup {ReportStatus}
          /\ run' = NewRun("replay", remaining', NoCost)
          /\ UNCHANGED step
  /\ UNCHANGED <<review, book, results, groups, reserved, head, combined, sent>>

\* Mutant: only the evaluations are looked at.
PassesDecisions == \A c \in Cases : Combined[c].decision \in Accepted

\* Everything is accepted under the policy, and every fresh case passed in the browser.
Passes ==
  /\ \A c \in Cases : Combined[c].decision \in Accepted
  /\ statuses \cup {ReportStatus} \subseteq Accepted
  /\ \A c \in Cases : groups[c] = "fresh" => results[c] \in {"passed", "expansion"}

\* The last phase ended: the pull request is looked at again, and the evidence combined.
Combine ==
  /\ Done("replay") \/ (Done("fresh") /\ ~Replays)
  /\ IF PhaseFails(run.mode) \/ head # 0 THEN Abort /\ UNCHANGED <<source, statuses, combined>>
     ELSE /\ step' = "ended" /\ source' = Combined /\ statuses' = statuses \cup {ReportStatus}
          /\ combined' = IF Passes THEN "pass" ELSE "fail"
          /\ UNCHANGED run
  /\ UNCHANGED <<review, book, results, groups, remaining, reserved, head, sent>>

Next ==
  \/ Capture \/ Start \/ DecideDeterministic \/ DecideUnreported \/ OverBudget \/ Attempt
  \/ SuiteTimeout \/ Report \/ Prepare \/ FreshCapture \/ Push \/ Reserve \/ Refuse
  \/ StartReplay \/ Combine

Spec == Init /\ [][Next]_vars /\ WF_vars(Next)

(***************************************************************************)
(* Properties.                                                             *)
(***************************************************************************)
Decisions == {"none", "pass", "fail", "manual_review", "infrastructure"}

TypeOK ==
  /\ step \in {"capture", "start", "evaluate", "reported", "freshCapture", "judge", "ended"}
  /\ results \in [Cases -> Results] /\ head \in 0..1 /\ reserved \in BOOLEAN
  /\ run.at \in 1..(CaseCount + 1) /\ run.calls \in 0..(JudgeLimit + CaseCount)
  /\ \A c \in Cases : run.evals[c].decision \in Decisions
  /\ groups \in [Cases -> {"none", "fresh", "replay", "carried"}]
  /\ combined \in {"none", "pass", "fail"} /\ sent \in [{"gate", "resume"} -> Nat]

\* A running total over the cases, in their order, comes from nothing to this total.
IsSumOf(total, costs) ==
  \E running \in [0..CaseCount -> 0..total] :
     /\ running[0] = 0 /\ running[CaseCount] = total
     /\ \A c \in Cases : running[c] = running[c - 1] + costs[c]

\* A total is given only when every attempt of every thread was priced, complete and of
\* one case, and it is the sum of the cases; and a case's cost is never more than what
\* its own calls tell of.
CostsAreHonest ==
  step = "start" =>
    LET cost == book.cost IN
    /\ cost.total # Unknown =>
         /\ book.sound /\ \A c \in Cases : cost.cases[c] = book.made[c]
         /\ IsSumOf(cost.total, cost.cases)
    /\ \A c \in Cases : cost.cases[c] \in {Unknown, book.made[c]}

\* A case passes or is left to a reviewer only if the browser passed it, no judgment found
\* a critical failure and not both found a clear one; it fails only for such a reason, and
\* a single clear failure decides nothing.
DecisionsFollowGrades ==
  \A c \in Cases :
    LET e == run.evals[c] IN
    /\ e.decision \in {"pass", "manual_review"} =>
         /\ results[c] = "passed" /\ ~e.critical
         /\ e.clear = 0 \/ (e.clear = 1 /\ e.judged = 2 /\ e.decision = "manual_review")
    /\ e.decision = "fail" =>
         results[c] \in {"quality", "expansion"} \/ e.critical \/ e.clear = 2

\* A failure of the product is reported as one whatever failed beside it, and a report
\* that passes has every case decided and its accounts in order.
ReportIsHonest ==
  step = "reported" /\ statuses # {} =>
    LET decisions == {source[c].decision : c \in Cases} IN
    /\ "fail" \in decisions => statuses = {"fail"}
    /\ statuses = {"pass"} =>
         decisions = {"pass"} /\ ~book.missing /\ run.cost.status # "infrastructure"

\* The judge is asked no more often than the budget says, by the gate and by all judge
\* commands of its resume together, and a judge's cost given as known leaves no attempt
\* out.
SpendIsBounded ==
  /\ sent.gate <= JudgeLimit /\ sent.resume <= JudgeLimit
  /\ Done("gate") =>
       LET recorded == FoldSet(LAMBDA c, n : n + run.evals[c].judged, 0, Cases)
       IN  JudgeCostKnown(run.calls, recorded, run.limit) => sent.gate = recorded

\* Combined evidence passes only for the head that was planned, with every case accepted
\* under the source's policy: the carried ones sound in the source, the fresh ones in the
\* candidate, and none with a critical failure or two clear ones.
CombinedPassIsEarned ==
  combined = "pass" =>
    /\ head = 0 /\ reserved
    /\ \A c \in Cases :
         /\ source[c].decision \in Accepted /\ ~source[c].critical /\ source[c].clear < 2
         /\ groups[c] # "none" /\ results[c] = "passed"
    /\ statuses \subseteq Accepted /\ \E c \in Cases : groups[c] = "fresh"

\* A gate ends, and so does its resume, whatever is pushed and however often the judge is
\* out of reach.
GateEnds == <>(step = "ended")

\* A gate with a case to run again and traceable cases is resumed when nothing else went
\* wrong than that the judge could not be reached (docs/quality-system.md:337).
JudgeOutagesReplay ==
  [][step = "reported" /\ step' = "ended" /\ statuses = {"fail"}
       /\ (\E c \in Cases : results[c] # "passed") /\ book.traceable = Cases =>
       \E c \in Cases : source[c].decision = "infrastructure" /\ results[c] = "passed"
                        /\ source[c].reason # "outage"]_vars

\* What the gate says of the product follows from what was observed: its costs, the
\* decision of each case and the status of the report (live_runner.py).
VerdictsFollowEvidence == CostsAreHonest /\ DecisionsFollowGrades /\ ReportIsHonest

\* A resume neither passes what was not earned nor spends what was not granted
\* (pr_resume.py).
ResumeIsEarned == SpendIsBounded /\ CombinedPassIsEarned
=============================================================================
