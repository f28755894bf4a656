---------------------------- MODULE BrowserTurns ----------------------------
(***************************************************************************)
(* How the browser evaluation judges one conversation turn                 *)
(* (backend/eval/browser_runner.py): the failure, if any, with which a     *)
(* turn ends, and whether the product or its surroundings are to blame.    *)
(*                                                                         *)
(* A turn is what the runner saw of it.  A failure is one of               *)
(*   "retry"    infrastructure, and another attempt may help               *)
(*   "infra"    infrastructure, and another attempt would not              *)
(*   "quality"  the product's                                              *)
(***************************************************************************)
EXTENDS Integers, FiniteSets

Failures == {"retry", "infra", "quality"}

\* How the prompt was sent: accepted; an alert of the composer that says the submission
\* timed out, or anything else; or a browser step failed.
Submissions == {"sent", "alertTimeout", "alert", "uiFailed"}
\* How the wait for "done" and for the Stop button to go ended.
Completions == {"done", "timeout", "transport", "uiFailed"}
\* The error events of the turn, by what their text matches first.
Errors == {"none", "sla", "provider", "other"}
Graphs == {"none", "new", "reused", "unversioned"}
\* Reading the drawn diagram out of the page.
Doms == {"same", "different", "notReady", "failed"}
Expansions == {"none", "kept", "broken", "noBaseline"}

\* A turn in which nothing went wrong.  "limit": the step sets a bound on the diagram's
\* latency; "slow": the bound passed before the turn was complete; "timely": a diagram
\* event came within it; "private": a progress event says that the hidden render could
\* not run; "switched": another provider answered.
GoodTurn == [submission |-> "sent", completion |-> "done", error |-> "none",
             graph |-> "new", notice |-> FALSE, limit |-> FALSE, slow |-> FALSE,
             timely |-> TRUE, private |-> FALSE, matches |-> TRUE, switched |-> FALSE,
             dom |-> "same", expansion |-> "none"]

\* One deviation from a turn.
Deviations(t) ==
     {[t EXCEPT !.submission = s] : s \in Submissions}
\cup {[t EXCEPT !.completion = c] : c \in Completions}
\cup {[t EXCEPT !.error = e] : e \in Errors}
\cup {[t EXCEPT !.graph = g, !.timely = (g # "none")] : g \in Graphs}
\cup {[t EXCEPT !.limit = TRUE, !.slow = p[1], !.timely = p[2]] : p \in BOOLEAN \X BOOLEAN}
\cup {[t EXCEPT !.private = TRUE, !.graph = "none", !.timely = FALSE],
      [t EXCEPT !.notice = TRUE], [t EXCEPT !.matches = FALSE],
      [t EXCEPT !.switched = TRUE]}
\cup {[t EXCEPT !.dom = d] : d \in Doms}
\cup {[t EXCEPT !.expansion = x] : x \in Expansions}

\* The turns: two things at most go wrong in one.
Turns == UNION {Deviations(t) : t \in Deviations(GoodTurn)}

(***************************************************************************)
(* The verdict, in the order in which the code looks.                      *)
(***************************************************************************)
First(verdicts) ==
  LET hits == {i \in DOMAIN verdicts : verdicts[i] # {}}
  IN  IF hits = {} THEN {} ELSE verdicts[CHOOSE i \in hits : \A j \in hits : i <= j]

Fault(condition, failure) == IF condition THEN {failure} ELSE {}

\* An error event of the application: its deadline, its provider, or itself.
ErrorFailure(t) ==
  CASE t.error = "none"     -> {}
    [] t.error = "sla"      -> {"infra"}
    [] t.error = "provider" -> {"retry"}
    [] t.error = "other"    -> {"quality"}

SubmissionFailure(t) ==
  First(<<Fault(t.submission = "alertTimeout", "retry"),
          Fault(t.submission \in {"alert", "uiFailed"}, "quality")>>)

\* The bound on the diagram passed first and no diagram came within it: the turn is stopped.
SlowFailure(t) ==
  IF t.limit /\ t.slow /\ ~t.timely
  THEN First(<<Fault(t.private, "retry"), ErrorFailure(t), {"quality"}>>)
  ELSE {}

CompletionFailure(t) ==
  CASE t.completion = "done"      -> {}
    [] t.completion = "timeout"   -> {"infra"}
    [] t.completion = "transport" -> {"retry"}
    [] t.completion = "uiFailed"  -> {"quality"}

\* One prompt with the fixed settings, sent once.
MismatchFailure(t) == Fault(~t.matches, "quality")

StepFailure(t) ==
  First(<<SubmissionFailure(t), SlowFailure(t), CompletionFailure(t), MismatchFailure(t)>>)

\* A case that must draw has a new, versioned diagram at the end of every turn.
GraphMissing(required, t) == required /\ (t.notice \/ t.graph # "new")

GraphFailure(required, t) ==
  IF ~GraphMissing(required, t) THEN {}
  ELSE First(<<Fault(t.private /\ t.graph = "none", "retry"), {"quality"}>>)

LatencyFailure(t) == Fault(t.limit /\ ~t.timely /\ t.graph # "none", "quality")

RenderFailure(required, t) ==
  IF ~required \/ t.graph = "none" THEN {}
  ELSE First(<<Fault(t.dom = "failed", "retry"),
               Fault(t.dom \in {"different", "notReady"}, "quality")>>)

ExpansionFailure(t) == Fault(t.expansion \in {"broken", "noBaseline"}, "quality")

\* The drawn diagram is read again as evidence, whatever the case requires.
EvidenceFailure(t) ==
  IF t.graph = "none" THEN {}
  ELSE First(<<Fault(t.dom = "failed", "retry"), Fault(t.dom = "notReady", "quality")>>)

\* Mutant: the diagram is asked for before the errors are looked at.
TurnFailureGraphFirst(required, t) ==
  First(<<StepFailure(t), GraphFailure(required, t), ErrorFailure(t),
          Fault(t.switched, "quality"), LatencyFailure(t), RenderFailure(required, t),
          ExpansionFailure(t), EvidenceFailure(t)>>)

TurnFailure(required, t) ==
  First(<<StepFailure(t), ErrorFailure(t), Fault(t.switched, "quality"),
          GraphFailure(required, t), LatencyFailure(t), RenderFailure(required, t),
          ExpansionFailure(t), EvidenceFailure(t)>>)

\* The surroundings failed this turn, and nothing the runner holds against the product
\* itself came with it.
SurroundingsFailed(required, t) ==
  /\ t.error \in {"sla", "provider"} \/ (t.private /\ required /\ t.graph = "none")
  /\ t.submission = "sent" /\ t.completion = "done" /\ t.matches
  /\ t.error # "other" /\ ~t.switched

=============================================================================
