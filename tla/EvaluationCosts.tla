-------------------------- MODULE EvaluationCosts ---------------------------
(***************************************************************************)
(* What an evaluation says it cost (backend/eval/cost_gate.py), and which  *)
(* of its cases can be replayed (backend/eval/evidence_replay.py).         *)
(*                                                                         *)
(* The cases are 1..n in the order of the report.  threads[c] are the      *)
(* threads of all attempts of case c; telemetry is the sequence of calls   *)
(* that the application reported, each with its attempts at a provider.    *)
(* A usable attempt costs one unit.                                        *)
(***************************************************************************)
EXTENDS Integers, Sequences, FiniteSets

Unknown == -1
Nobody == 0

\* An attempt: usable, when its model has a price and its counters make sense; complete,
\* when the provider reported what it used.
Attempts == [usable : BOOLEAN, complete : BOOLEAN]

\* The case a thread belongs to: the first that names it.
Owner(threads, t) ==
  LET owners == {c \in DOMAIN threads : t \in threads[c]}
  IN  IF owners = {} THEN Nobody ELSE CHOOSE c \in owners : \A d \in owners : c <= d

Shared(threads) == \E c, d \in DOMAIN threads : c # d /\ threads[c] \cap threads[d] # {}

CallsOf(threads, telemetry, c) ==
  {i \in DOMAIN telemetry : Owner(threads, telemetry[i].thread) = c}

\* A call that cannot be accounted for: no attempts, searches that do not add up, or an
\* attempt that cannot be priced.
Faulty(call) ==
  \/ call.attempts = <<>> \/ call.search # "ok"
  \/ \E i \in DOMAIN call.attempts : ~call.attempts[i].usable

\* A call whose use is not wholly known.
Incomplete(call) ==
  /\ call.attempts # <<>>
  /\ ~call.complete \/ \E i \in DOMAIN call.attempts : ~call.attempts[i].complete

\* The cases that ran a thread no call tells of.
Untold(threads, telemetry) ==
  {c \in DOMAIN threads : threads[c] # {} /\ CallsOf(threads, telemetry, c) = {}}

InvalidCases(threads, telemetry) ==
  Untold(threads, telemetry) \cup
  {c \in DOMAIN threads : \E i \in CallsOf(threads, telemetry, c) :
                             Faulty(telemetry[i]) \/ Incomplete(telemetry[i])}

\* Mutant: a call of no case is left out, and a shared thread is its first case's.
HasErrorsOfCases(threads, telemetry) ==
  \/ Untold(threads, telemetry) # {}
  \/ \E i \in DOMAIN telemetry :
        Owner(threads, telemetry[i].thread) # Nobody /\ Faulty(telemetry[i])

HasErrors(threads, telemetry) ==
  \/ Shared(threads) \/ Untold(threads, telemetry) # {}
  \/ \E i \in DOMAIN telemetry :
        Owner(threads, telemetry[i].thread) = Nobody \/ Faulty(telemetry[i])

HasIncomplete(threads, telemetry) ==
  \E i \in DOMAIN telemetry :
     Owner(threads, telemetry[i].thread) # Nobody /\ Incomplete(telemetry[i])

\* The units charged to a case: its usable attempts.
Charged(threads, telemetry, c) ==
  Cardinality({p \in (DOMAIN telemetry) \X (1..2) :
                 /\ p[1] \in CallsOf(threads, telemetry, c)
                 /\ p[2] \in DOMAIN telemetry[p[1]].attempts
                 /\ telemetry[p[1]].attempts[p[2]].usable})

CaseCosts(threads, telemetry) ==
  [c \in DOMAIN threads |-> IF c \in InvalidCases(threads, telemetry) THEN Unknown
                            ELSE Charged(threads, telemetry, c)]

Subtotal(threads, telemetry) ==
  Cardinality({p \in (DOMAIN telemetry) \X (1..2) :
                 /\ Owner(threads, telemetry[p[1]].thread) # Nobody
                 /\ p[2] \in DOMAIN telemetry[p[1]].attempts
                 /\ telemetry[p[1]].attempts[p[2]].usable})

AccountStatus(threads, telemetry) ==
  IF HasErrors(threads, telemetry) THEN "infrastructure"
  ELSE IF HasIncomplete(threads, telemetry) THEN "incomplete" ELSE "pass"

\* account_application_cost, and what live_runner makes of it when the capture has no
\* telemetry at all.
ApplicationCost(threads, telemetry) ==
  IF telemetry = <<>>
  THEN [status |-> "infrastructure", total |-> Unknown,
        cases |-> [c \in DOMAIN threads |-> Unknown]]
  ELSE [status |-> AccountStatus(threads, telemetry),
        total |-> IF AccountStatus(threads, telemetry) # "pass" THEN Unknown
                  ELSE Subtotal(threads, telemetry),
        cases |-> CaseCosts(threads, telemetry)]

\* evaluate_cost_policy: whether the accounting lets the gate pass.
CostPolicy(cost, blocking, suiteLimit) ==
  IF cost.status = "infrastructure" THEN [status |-> "infrastructure", blocks |-> TRUE]
  ELSE IF cost.status = "incomplete" THEN [status |-> "incomplete", blocks |-> blocking]
  ELSE IF cost.total > suiteLimit THEN [status |-> "over_budget", blocks |-> blocking]
  ELSE [status |-> "pass", blocks |-> FALSE]

\* The attempts that count against the application's budget: one for a call at least.
ApplicationCalls(telemetry) ==
  Cardinality({p \in (DOMAIN telemetry) \X (1..2) :
                 p[2] = 1 \/ p[2] \in DOMAIN telemetry[p[1]].attempts})

\* subset_browser_capture: the cases that can be replayed are attributed beyond doubt.
Traceable(threads, telemetry, c) ==
  /\ ~Shared(threads) /\ threads[c] # {}
  /\ \A i \in DOMAIN telemetry : Owner(threads, telemetry[i].thread) # Nobody
  /\ \A t \in threads[c] : \E i \in DOMAIN telemetry : telemetry[i].thread = t

\* account_judge_cost: the judge's cost is known when every attempt has its judgment.
JudgeCostKnown(attempted, recorded, limit) == attempted = recorded /\ attempted <= limit

=============================================================================
