--------------------------- MODULE StagedPipeline ---------------------------
(***************************************************************************)
(* One run of the staged diagram pipeline                                  *)
(* (backend/agent/staged_graph_workflow.py, run_staged_graph_pipeline):    *)
(* a component layer, then a connection layer, each generated, rendered in *)
(* the user's browser, previewed and reviewed; while a review is open the  *)
(* user may accept the preview and skip it                                 *)
(* (backend/agent/graph_review_control.py).                                *)
(*                                                                         *)
(* A candidate is its version and whether it was simplified for recovery.  *)
(***************************************************************************)
EXTENDS Naturals

CONSTANTS
  ComponentCalls,   \* STAGED_COMPONENT_GENERATION_CALLS
  ConnectionCalls,  \* STAGED_CONNECTION_GENERATION_CALLS
  Kinds             \* the kinds of request considered

\* "create" starts from nothing; the others change a saved diagram: a rebuild
\* without, an edit and an extension with a scope of permitted changes.
ASSUME PipelineAssumption ==
  /\ ComponentCalls \in Nat \ {0}
  /\ ConnectionCalls \in Nat \ {0}
  /\ Kinds \subseteq {"create", "rebuild", "edit", "extend"}

VARIABLES
  job,        \* what was asked for
  step,       \* where the pipeline is
  stage,      \* the layer being built
  attempt,    \* generation attempt of the layer, from 0
  candidate,  \* the generated candidate
  layer,      \* the component layer the connections are built on
  control,    \* GraphReviewControl of the run
  verdict,    \* the reviewer's answer, once it is there
  gates,      \* who let each layer of the run pass
  result,     \* what the pipeline returned
  minted,     \* versions handed out
  offered,    \* history: versions the user was invited to accept
  granted     \* history: the acceptance that was not rejected

progress == <<job, step, stage, attempt, candidate, layer, verdict, gates, result>>
pipelineVars == <<progress, control, minted, offered, granted>>

\* overview: the saved diagram is already a simplified one.
Jobs  == {j \in [kind : Kinds, overview : BOOLEAN] : j.kind = "create" => ~j.overview}

Stages  == {"components", "connections"}
Steps   == {"off", "scope", "generate", "render", "review", "reviewing", "ended"}
Version == Nat
Candidate   == [version : Version, simplified : BOOLEAN]
NoCandidate == [version |-> 0, simplified |-> FALSE]

Acceptance   == [version : Version, stage : Stages]
NoAcceptance == [version |-> 0, stage |-> "components"]
Control   == [eligible : Acceptance, accepted : Acceptance]
NoControl == [eligible |-> NoAcceptance, accepted |-> NoAcceptance]

Verdicts == {"none", "approved", "rejected", "terminal", "invalid"}
Gate     == [by : {"nobody", "reviewer", "user"}, version : Version]
NoGate   == [by |-> "nobody", version |-> 0]
NoGates  == [s \in Stages |-> NoGate]

\* publication as the transports read it; version 0 is the saved diagram.
Publications == {"none", "unchanged", "preserved", "withheld", "approved", "user_accepted"}
Result == [publication : Publications,
           version : Version, components : Version, overview : BOOLEAN,
           acceptance : Acceptance]
NoResult == [publication |-> "none", version |-> 0, components |-> 0,
             overview |-> FALSE, acceptance |-> NoAcceptance]

Calls(s) == IF s = "components" THEN ComponentCalls ELSE ConnectionCalls

PipelineTypeOK ==
  /\ job \in Jobs
  /\ step \in Steps
  /\ stage \in Stages
  /\ attempt \in 0..(Calls(stage) - 1)
  /\ candidate \in Candidate
  /\ layer \in Candidate
  /\ control \in Control
  /\ verdict \in Verdicts
  /\ gates \in [Stages -> Gate]
  /\ result \in Result
  /\ minted \in Nat
  /\ offered \subseteq 1..minted
  /\ granted \in Acceptance

Saved == job.kind # "create"

\* The variables of one call of the pipeline, which starts with them and is
\* left without them.
Fresh(j) ==
  /\ job' = j
  /\ stage' = "components"
  /\ attempt' = 0
  /\ candidate' = NoCandidate
  /\ layer' = NoCandidate
  /\ verdict' = "none"
  /\ gates' = NoGates
  /\ result' = NoResult

Begin(j) == Fresh(j) /\ step' = "scope"

\* Mutant: closing a review forgets that its preview was accepted.
ClosedAndCleared == NoControl

Closed == [control EXCEPT !.eligible = NoAcceptance]

\* The call is cancelled or raises; its finally closes an open review.
Unwind == Fresh(job) /\ step' = "off" /\ control' = Closed

PipelineInit ==
  /\ job \in Jobs
  /\ step = "scope"
  /\ stage = "components"
  /\ attempt = 0
  /\ candidate = NoCandidate
  /\ layer = NoCandidate
  /\ control = NoControl
  /\ verdict = "none"
  /\ gates = NoGates
  /\ result = NoResult
  /\ minted = 0
  /\ offered = {}
  /\ granted = NoAcceptance

-----------------------------------------------------------------------------
(* The review control.                                                     *)

\* Mutant: any preview that was ever offered can still be accepted.
AcceptsOldPreview(v) == v \in offered

Accepts(v) == v \in {control.accepted.version, control.eligible.version}

\* A granted acceptance; a refused one changes nothing.
Accept(v) ==
  /\ v # 0 /\ Accepts(v)
  /\ LET a == IF v = control.accepted.version THEN control.accepted
              ELSE [control.eligible EXCEPT !.version = v]
     IN  /\ control' = [control EXCEPT !.accepted = a]
         /\ granted' = a
  /\ UNCHANGED <<progress, minted, offered>>

Opened == [control EXCEPT !.eligible = [version |-> candidate.version, stage |-> stage]]

-----------------------------------------------------------------------------
(* Leaving the pipeline.                                                   *)

End(r) ==
  /\ step' = "ended"
  /\ result' = r
  /\ verdict' = "none"
  /\ UNCHANGED <<job, stage, attempt, candidate, layer, gates>>

\* _failed keeps the saved diagram.
Fail == End([NoResult EXCEPT !.publication = IF Saved THEN "preserved" ELSE "withheld"])

\* Mutant: one attempt too many.
LateLastAttempt == attempt >= Calls(stage)

LastAttempt == attempt + 1 >= Calls(stage)

Retry ==
  /\ ~LastAttempt
  /\ attempt' = attempt + 1
  /\ step' = "generate"
  /\ verdict' = "none"
  /\ UNCHANGED <<job, stage, candidate, layer, gates, result>>

\* An invalid answer is retried only with the fingerprint of its prompt.
Invalid == Fail \/ Retry

\* Mutant: a second attempt simplifies whatever it works on.
AnyRetrySimplifies == attempt > 0

\* Recovery simplifies an unpublished creation only.
Simplifies == attempt > 0 /\ job.kind = "create"

\* Mutant: only a simplified last layer is disclosed.
LastLayerOverview == candidate.simplified

Overview == candidate.simplified \/ layer.simplified \/ job.overview

Publication(by) ==
  [publication |-> IF by = "user" THEN "user_accepted" ELSE "approved",
   version |-> candidate.version,
   components |-> layer.version,
   overview |-> Overview,
   acceptance |-> control.accepted]

Pass(by) ==
  /\ gates' = [gates EXCEPT ![stage] = [by |-> by, version |-> candidate.version]]
  /\ verdict' = "none"
  /\ IF stage = "components"
     THEN /\ layer' = candidate
          /\ stage' = "connections"
          /\ attempt' = 0
          /\ step' = "generate"
          /\ UNCHANGED result
     ELSE /\ step' = "ended"
          /\ result' = Publication(by)
          /\ UNCHANGED <<layer, stage, attempt>>
  /\ UNCHANGED <<job, candidate>>

-----------------------------------------------------------------------------
(* Steps.                                                                  *)

Scope ==
  /\ step = "scope"
  /\ \/ Saved /\ Fail
     \/ /\ step' = "generate"
        /\ UNCHANGED <<job, stage, attempt, candidate, layer, verdict, gates, result>>
  /\ UNCHANGED <<control, minted, offered, granted>>

\* The model asks a question instead: only where a question may be put.
Clarify ==
  /\ step = "generate"
  /\ job.kind # "edit"
  /\ stage = "connections" => job.kind = "extend"
  /\ End([NoResult EXCEPT !.publication = IF Saved THEN "unchanged" ELSE "none"])
  /\ UNCHANGED <<control, minted, offered, granted>>

\* The remaining time does not admit the call, or the answer is unusable, out
\* of scope or the prior candidate once more.
GenerationFails ==
  /\ step = "generate"
  /\ Invalid
  /\ UNCHANGED <<control, minted, offered, granted>>

Generate ==
  /\ step = "generate"
  /\ step' = "render"
  /\ candidate' = [version |-> minted + 1, simplified |-> Simplifies]
  /\ minted' = minted + 1
  /\ UNCHANGED <<job, stage, attempt, layer, verdict, gates, result>>
  /\ UNCHANGED <<control, offered, granted>>

\* The browser renders the candidate; an admitted one is shown as a preview.
Render ==
  /\ step = "render"
  /\ \/ Fail
     \/ /\ step' = "review"
        /\ UNCHANGED <<job, stage, attempt, candidate, layer, verdict, gates, result>>
  /\ UNCHANGED <<control, minted, offered, granted>>

\* An acceptance already given skips the review; without the time for one the
\* pipeline fails.
StartReview ==
  /\ step = "review"
  /\ \/ Fail /\ UNCHANGED <<control, offered>>
     \/ /\ control.accepted # NoAcceptance
        /\ Pass("user") /\ UNCHANGED <<control, offered>>
     \/ /\ control.accepted = NoAcceptance
        /\ step' = "reviewing"
        /\ control' = Opened
        /\ offered' = offered \cup {candidate.version}
        /\ UNCHANGED <<job, stage, attempt, candidate, layer, verdict, gates, result>>
  /\ UNCHANGED <<minted, granted>>

ReviewerAnswers ==
  /\ step = "reviewing" /\ verdict = "none"
  /\ verdict' \in Verdicts \ {"none"}
  /\ UNCHANGED <<job, step, stage, attempt, candidate, layer, gates, result>>
  /\ UNCHANGED <<control, minted, offered, granted>>

AcceptedNow == control.accepted.version = candidate.version

\* Mutant: the review is only over once the user accepts.
WaitsForUser == AcceptedNow

ReviewOver == verdict # "none" \/ AcceptedNow

\* Mutant: the reviewer wins a tie with the user.
ReviewerFirst == IF verdict # "none" THEN verdict ELSE "skipped"

\* Explicit acceptance wins a tie with the reviewer.
Outcome == IF AcceptedNow THEN "skipped" ELSE verdict

CloseReview ==
  /\ step = "reviewing" /\ ReviewOver
  /\ control' = Closed
  /\ \/ Outcome = "skipped"  /\ Pass("user")
     \/ Outcome = "approved" /\ Pass("reviewer")
     \/ Outcome = "rejected" /\ (Retry \/ (LastAttempt /\ Fail))
     \/ Outcome = "terminal" /\ Fail
     \/ Outcome = "invalid"  /\ Invalid
  /\ UNCHANGED <<minted, offered, granted>>

PipelineStep ==
  \/ Scope \/ Clarify \/ GenerationFails \/ Generate \/ Render
  \/ StartReview \/ ReviewerAnswers \/ CloseReview

\* The user accepts a preview, possibly long after it was offered.
UserAccepts == \E v \in offered : Accept(v)

PipelineNext == PipelineStep \/ UserAccepts

\* Model and browser calls carry timeouts, so each step is eventually taken.
PipelineSpec == PipelineInit /\ [][PipelineNext]_pipelineVars /\ WF_pipelineVars(PipelineStep)

-----------------------------------------------------------------------------
(* Properties.                                                             *)

\* "approved" is never claimed for a diagram whose review was skipped in either
\* layer: both layers of the published diagram passed the reviewer.
ApprovedMeansReviewed ==
  result.publication = "approved" =>
    /\ gates["components"] = [by |-> "reviewer", version |-> result.components]
    /\ gates["connections"] = [by |-> "reviewer", version |-> result.version]
    /\ granted = NoAcceptance

\* An acceptance the user was granted decides the run: what is published is the
\* accepted preview, or a diagram built on the accepted components, and its
\* contract records that acceptance.
AcceptanceHonoured ==
  granted # NoAcceptance /\ result.version # 0 =>
    /\ result.publication = "user_accepted"
    /\ result.acceptance = granted
    /\ granted.version = IF granted.stage = "components" THEN result.components
                         ELSE result.version

\* A granted acceptance is for a preview the user was shown, of the candidate
\* under review or already carried forward; never for a rejected one.
AcceptanceIsCurrent ==
  granted # NoAcceptance =>
    /\ granted.version \in offered
    /\ granted.version \in {candidate.version, layer.version}

\* A diagram simplified in either layer says so, and a saved diagram the user
\* already worked on is never simplified by a retry.
SimplificationDisclosed ==
  result.version # 0 =>
    /\ candidate.simplified \/ layer.simplified => result.overview
    /\ Saved /\ ~job.overview => ~result.overview

\* The pipeline ends, whether or not the user ever answers.
PipelineEnds == <>(step = "ended")

\* README.md: "Each stage allows one correction" - at most two candidates for
\* each layer.
OneCorrectionPerStage == attempt <= 1

\* What is published was let pass by whom it names: a reviewer in both layers, or the
\* user with an acceptance of what was shown, recorded with it; and a simplification is
\* disclosed (run_staged_graph_pipeline).
PublicationIsEarned ==
  /\ ApprovedMeansReviewed
  /\ AcceptanceHonoured /\ AcceptanceIsCurrent
  /\ SimplificationDisclosed
=============================================================================
