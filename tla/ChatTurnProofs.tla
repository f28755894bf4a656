--------------------------- MODULE ChatTurnProofs ---------------------------
(***************************************************************************)
(* Theorems of ChatTurn, for any limits of the turn and of its pipeline:   *)
(* whatever the client, the agent and the deadline do and in which order,  *)
(* the turn keeps its word to the user.                                    *)
(***************************************************************************)
EXTENDS ChatTurn, TLAPS

-----------------------------------------------------------------------------
(* The pipeline of one run (StagedPipeline), for any limits on the         *)
(* generation calls: an acceptance and a review answer that race each      *)
(* other never mix.                                                        *)

\* From its rendering to the end of its review a candidate is the newest one,
\* and only an open review lets its preview be accepted.
Shown ==
  /\ step \in {"render", "review", "reviewing"} =>
       candidate.version = minted /\ minted # 0
  /\ IF step = "reviewing"
     THEN /\ control.eligible = [version |-> candidate.version, stage |-> stage]
          /\ candidate.version \in offered
     ELSE control.eligible = NoAcceptance
  /\ step \notin {"reviewing"} => verdict = "none"

\* An acceptance is for the candidate under review until the review is closed,
\* then for the layer or the diagram that passed because of it.
Carried ==
  granted # NoAcceptance =>
    /\ granted.version \in offered
    /\ \/ /\ step = "reviewing"
          /\ granted = [version |-> candidate.version, stage |-> stage]
       \/ /\ step # "reviewing" /\ stage = "connections"
          /\ granted = [version |-> layer.version, stage |-> "components"]
       \/ /\ step = "ended" /\ stage = "connections"
          /\ granted = [version |-> candidate.version, stage |-> "connections"]

\* The component layer went through the hands of whoever decided it.
Gated ==
  stage = "connections" =>
    gates["components"] =
      [by |-> IF granted # NoAcceptance /\ granted.stage = "components"
              THEN "user" ELSE "reviewer",
       version |-> layer.version]

\* What a published diagram says of itself.
Published ==
  /\ step # "ended" => result = NoResult
  /\ result.publication \in {"approved", "user_accepted"} <=> result.version # 0
  /\ result.version # 0 =>
       /\ stage = "connections"
       /\ result.version = candidate.version
       /\ result.components = layer.version
       /\ result.acceptance = granted
       /\ result.overview = Overview
       /\ result.publication = "approved" <=> granted = NoAcceptance
       /\ result.publication = "approved" =>
            gates["connections"] = [by |-> "reviewer", version |-> candidate.version]

NothingSimplified == Saved => ~candidate.simplified /\ ~layer.simplified

PipelineInv ==
  /\ PipelineTypeOK
  /\ control.accepted = granted
  /\ Shown /\ Carried /\ Gated /\ Published /\ NothingSimplified

-----------------------------------------------------------------------------
(* Types.                                                                  *)

LEMMA ConstantsTyped ==
  /\ NoCandidate \in Candidate /\ NoAcceptance \in Acceptance /\ NoControl \in Control
  /\ NoGates \in [Stages -> Gate] /\ NoResult \in Result
  /\ Calls("components") \in Nat \ {0} /\ Calls("connections") \in Nat \ {0}
  /\ NoAcceptance.version = 0
  /\ NoControl.accepted = NoAcceptance /\ NoControl.eligible = NoAcceptance
  /\ NoResult.version = 0 /\ NoResult.publication = "none"
  BY PipelineAssumption
     DEF NoCandidate, Candidate, Version, NoAcceptance, Acceptance, Stages, NoControl, Control,
         NoGates, NoGate, Gate, NoResult, Result, Publications, Calls

LEMMA InitTyped == PipelineInit => PipelineTypeOK
  BY ConstantsTyped DEF PipelineInit, PipelineTypeOK, Steps, Stages, Verdicts

\* The ways out of a step.
LEMMA EndTyped ==
  ASSUME PipelineTypeOK, NEW r \in Result, End(r)
  PROVE  /\ job' \in Jobs /\ step' \in Steps /\ stage' \in Stages
         /\ attempt' \in 0..(Calls(stage') - 1)
         /\ candidate' \in Candidate /\ layer' \in Candidate /\ verdict' \in Verdicts
         /\ gates' \in [Stages -> Gate] /\ result' \in Result
  BY DEF PipelineTypeOK, End, Steps, Verdicts

LEMMA FailTyped ==
  ASSUME PipelineTypeOK, Fail
  PROVE  \E r \in Result : End(r) /\ r.version = 0
                           /\ r.publication \notin {"approved", "user_accepted"}
<1>1. [NoResult EXCEPT !.publication = IF Saved THEN "preserved" ELSE "withheld"] \in Result
  BY ConstantsTyped DEF Result, Publications
<1>2. QED
  BY <1>1 DEF Fail, NoResult

LEMMA RetryTyped ==
  ASSUME PipelineTypeOK, Retry
  PROVE  /\ job' \in Jobs /\ step' \in Steps /\ stage' \in Stages
         /\ attempt' \in 0..(Calls(stage') - 1)
         /\ candidate' \in Candidate /\ layer' \in Candidate /\ verdict' \in Verdicts
         /\ gates' \in [Stages -> Gate] /\ result' \in Result
<1>1. Calls(stage) \in Nat
  BY PipelineAssumption DEF Calls
<1>2. QED
  BY <1>1 DEF PipelineTypeOK, Retry, LastAttempt, Steps, Verdicts

LEMMA PassTyped ==
  ASSUME PipelineTypeOK, NEW by \in {"reviewer", "user"}, Pass(by)
  PROVE  /\ job' \in Jobs /\ step' \in Steps /\ stage' \in Stages
         /\ attempt' \in 0..(Calls(stage') - 1)
         /\ candidate' \in Candidate /\ layer' \in Candidate /\ verdict' \in Verdicts
         /\ gates' \in [Stages -> Gate] /\ result' \in Result
<1>1. Publication(by) \in Result
  BY DEF Publication, Overview, Result, Publications, PipelineTypeOK, Control, Candidate, Jobs
<1>2. gates' \in [Stages -> Gate]
  <2>1. [by |-> by, version |-> candidate.version] \in Gate
    BY DEF Gate, PipelineTypeOK, Candidate
  <2>2. QED
    BY <2>1 DEF Pass, PipelineTypeOK
<1>3. QED
  BY <1>1, <1>2, ConstantsTyped DEF Pass, PipelineTypeOK, Steps, Stages, Verdicts

-----------------------------------------------------------------------------
(* Steps, one lemma for each kind.                                         *)

\* Leaving without a diagram.
LEMMA FailKeeps ==
  ASSUME PipelineInv, step # "ended", Fail,
         UNCHANGED <<minted, offered, granted>>,
         control' = control \/ control' = Closed,
         step = "reviewing" => granted = NoAcceptance /\ control' = Closed
  PROVE  PipelineInv'
<1>1. PICK r \in Result : /\ End(r) /\ r.version = 0
                          /\ r.publication \notin {"approved", "user_accepted"}
  BY FailTyped DEF PipelineInv
<1>2. control' \in Control /\ control'.accepted = control.accepted
      /\ control'.eligible = NoAcceptance
  BY ConstantsTyped DEF PipelineInv, PipelineTypeOK, Control, Closed, Shown
<1>3. PipelineTypeOK'
  BY <1>1, <1>2, EndTyped DEF PipelineInv, PipelineTypeOK
<1>4. Shown' /\ Carried' /\ Gated' /\ NothingSimplified'
  BY <1>1, <1>2 DEF PipelineInv, End, Shown, Carried, Gated, NothingSimplified, Saved
<1>5. Published'
  BY <1>1 DEF End, Published
<1>6. QED
  BY <1>2, <1>3, <1>4, <1>5 DEF PipelineInv

\* Another attempt at the layer.
LEMMA RetryKeeps ==
  ASSUME PipelineInv, step # "ended", Retry,
         UNCHANGED <<minted, offered, granted>>,
         control' = control \/ control' = Closed,
         step = "reviewing" => granted = NoAcceptance /\ control' = Closed
  PROVE  PipelineInv'
<1>1. control' \in Control /\ control'.accepted = control.accepted
      /\ control'.eligible = NoAcceptance
  BY ConstantsTyped DEF PipelineInv, PipelineTypeOK, Control, Closed, Shown
<1>2. PipelineTypeOK'
  BY <1>1, RetryTyped DEF PipelineInv, PipelineTypeOK
<1>3. step' = "generate" /\ verdict' = "none"
      /\ UNCHANGED <<job, stage, candidate, layer, gates, result>>
  BY DEF Retry
<1>4. Shown' /\ Gated' /\ NothingSimplified'
  BY <1>1, <1>3 DEF PipelineInv, Shown, Gated, NothingSimplified, Saved
<1>5. Carried'
  BY <1>3 DEF PipelineInv, Carried
<1>6. Published'
  BY <1>3, ConstantsTyped DEF PipelineInv, Published
<1>7. QED
  BY <1>1, <1>2, <1>4, <1>5, <1>6 DEF PipelineInv

\* The next step of the same attempt.
LEMMA AdvanceKeeps ==
  ASSUME PipelineInv,
         \/ step = "scope" /\ step' = "generate"
         \/ step = "render" /\ step' = "review",
         UNCHANGED <<job, stage, attempt, candidate, layer, verdict, gates, result>>,
         UNCHANGED <<control, minted, offered, granted>>
  PROVE  PipelineInv'
<1>1. PipelineTypeOK'
  BY DEF PipelineInv, PipelineTypeOK, Steps, Calls
<1>2. Shown' /\ Carried' /\ Gated' /\ NothingSimplified'
  BY DEF PipelineInv, Shown, Carried, Gated, NothingSimplified, Saved
<1>3. Published'
  BY ConstantsTyped DEF PipelineInv, Published
<1>4. QED
  BY <1>1, <1>2, <1>3 DEF PipelineInv

LEMMA ClarifyKeeps == ASSUME PipelineInv, Clarify PROVE PipelineInv'
<1> DEFINE r == [NoResult EXCEPT !.publication = IF Saved THEN "unchanged" ELSE "none"]
<1>1. r \in Result /\ r.version = 0 /\ r.publication \notin {"approved", "user_accepted"}
  BY ConstantsTyped DEF Result, Publications, NoResult
<1>2. step = "generate" /\ End(r) /\ UNCHANGED <<control, minted, offered, granted>>
  BY DEF Clarify
<1> HIDE DEF r
<1>3. PipelineTypeOK'
  BY <1>1, <1>2, EndTyped DEF PipelineInv, PipelineTypeOK
<1>4. Shown' /\ Carried' /\ Gated' /\ NothingSimplified'
  BY <1>2 DEF PipelineInv, End, Shown, Carried, Gated, NothingSimplified, Saved
<1>5. Published'
  BY <1>1, <1>2 DEF End, Published
<1>6. QED
  BY <1>2, <1>3, <1>4, <1>5 DEF PipelineInv

\* A new candidate, simplified only where nothing was saved before.
LEMMA GenerateKeeps == ASSUME PipelineInv, Generate PROVE PipelineInv'
<1>1. minted \in Nat /\ minted' = minted + 1
      /\ candidate' = [version |-> minted + 1, simplified |-> Simplifies]
  BY DEF PipelineInv, PipelineTypeOK, Generate
<1>2. PipelineTypeOK'
  <2>1. candidate' \in Candidate
    BY <1>1 DEF Simplifies, Candidate, Version
  <2>2. offered' \subseteq 1..minted'
    BY <1>1 DEF PipelineInv, Generate, PipelineTypeOK
  <2>3. QED
    BY <1>1, <2>1, <2>2 DEF PipelineInv, Generate, PipelineTypeOK, Steps, Calls
<1>3. Shown' /\ Carried' /\ Gated' /\ Published'
  BY <1>1, ConstantsTyped DEF PipelineInv, Generate, Shown, Carried, Gated, Published
<1>4. NothingSimplified'
  <2>1. candidate'.simplified = Simplifies /\ layer' = layer /\ job' = job
    BY <1>1 DEF Generate
  <2>2. Saved => ~Simplifies
    BY DEF Saved, Simplifies
  <2>3. Saved' = Saved
    BY <2>1 DEF Saved
  <2>4. QED
    BY <2>1, <2>2, <2>3 DEF PipelineInv, NothingSimplified
<1>5. QED
  BY <1>2, <1>3, <1>4 DEF PipelineInv, Generate

\* The review opens: the preview is offered.
LEMMA OpenKeeps ==
  ASSUME PipelineInv, step = "review", control.accepted = NoAcceptance,
         step' = "reviewing", control' = Opened,
         offered' = offered \cup {candidate.version},
         UNCHANGED <<job, stage, attempt, candidate, layer, verdict, gates, result>>,
         UNCHANGED <<minted, granted>>
  PROVE  PipelineInv'
<1>1. candidate.version = minted /\ minted \in Nat \ {0}
  BY DEF PipelineInv, Shown, PipelineTypeOK
<1>2. /\ control'.eligible = [version |-> candidate.version, stage |-> stage]
      /\ control'.accepted = control.accepted
      /\ control' \in Control
  <2>1. [version |-> candidate.version, stage |-> stage] \in Acceptance
    BY <1>1 DEF Acceptance, PipelineInv, PipelineTypeOK, Version
  <2>2. QED
    BY <2>1 DEF Opened, Control, PipelineInv, PipelineTypeOK
<1>3. PipelineTypeOK'
  <2>1. offered' \subseteq 1..minted'
    BY <1>1 DEF PipelineInv, PipelineTypeOK
  <2>2. QED
    BY <1>2, <2>1 DEF PipelineInv, PipelineTypeOK, Steps, Calls
<1>4. Shown' /\ Gated' /\ NothingSimplified'
  BY <1>1, <1>2 DEF PipelineInv, Shown, Gated, NothingSimplified, Saved
<1>5. Carried'
  BY DEF PipelineInv, Carried
<1>6. Published'
  BY ConstantsTyped DEF PipelineInv, Published
<1>7. QED
  BY <1>2, <1>3, <1>4, <1>5, <1>6 DEF PipelineInv

LEMMA AnswerKeeps == ASSUME PipelineInv, ReviewerAnswers PROVE PipelineInv'
<1>1. PipelineTypeOK'
  BY DEF PipelineInv, ReviewerAnswers, PipelineTypeOK, Calls
<1>2. /\ step = "reviewing"
      /\ UNCHANGED <<job, step, stage, candidate, layer, gates, result>>
      /\ UNCHANGED <<control, minted, offered, granted>>
  BY DEF ReviewerAnswers
<1>3. Shown' /\ Carried' /\ Gated' /\ NothingSimplified'
  BY <1>2 DEF PipelineInv, Shown, Carried, Gated, NothingSimplified, Saved
<1>4. Published'
  BY <1>2, ConstantsTyped DEF PipelineInv, Published
<1>5. QED
  BY <1>1, <1>2, <1>3, <1>4 DEF PipelineInv

\* A layer passes: by the user exactly when the user was granted an acceptance.
LEMMA PassKeeps ==
  ASSUME PipelineInv, NEW by \in {"reviewer", "user"}, Pass(by),
         UNCHANGED <<minted, offered, granted>>,
         \/ step = "review" /\ control' = control
         \/ step = "reviewing" /\ control' = Closed,
         by = "user" <=> granted # NoAcceptance
  PROVE  PipelineInv'
<1>1. control' \in Control /\ control'.accepted = control.accepted
      /\ control'.eligible = NoAcceptance
  BY ConstantsTyped DEF PipelineInv, PipelineTypeOK, Control, Closed, Shown
<1>2. PipelineTypeOK'
  BY <1>1, PassTyped DEF PipelineInv, PipelineTypeOK
<1>3. candidate.version # 0 /\ candidate' = candidate /\ job' = job
  BY DEF PipelineInv, Shown, PipelineTypeOK, Pass
<1>4. Shown' /\ NothingSimplified'
  BY <1>1 DEF PipelineInv, Pass, Shown, NothingSimplified, Saved
<1>5. CASE stage = "components"
  <2>1. /\ layer' = candidate /\ stage' = "connections" /\ step' = "generate"
        /\ result' = result /\ result = NoResult
        /\ gates'["components"] = [by |-> by, version |-> candidate.version]
    BY <1>5 DEF PipelineInv, Pass, Published, PipelineTypeOK, Stages
  <2>2. granted # NoAcceptance =>
          granted = [version |-> candidate.version, stage |-> "components"]
    BY <1>5 DEF PipelineInv, Carried
  <2>3. Carried'
    BY <2>1, <2>2 DEF PipelineInv, Carried
  <2>4. Gated'
    BY <2>1, <2>2 DEF Gated
  <2>5. Published'
    BY <2>1, ConstantsTyped DEF Published
  <2>6. QED
    BY <1>1, <1>2, <1>4, <2>3, <2>4, <2>5 DEF PipelineInv
<1>6. CASE stage = "connections"
  <2>1. /\ step' = "ended" /\ result' = Publication(by)
        /\ layer' = layer /\ stage' = stage
        /\ gates'["components"] = gates["components"]
        /\ gates'["connections"] = [by |-> by, version |-> candidate.version]
    BY <1>6 DEF PipelineInv, Pass, PipelineTypeOK, Stages
  <2>2. Carried'
    BY <1>3, <1>6, <2>1 DEF PipelineInv, Carried
  <2>3. Gated'
    BY <1>6, <2>1 DEF PipelineInv, Gated
  <2>4. Published'
    BY <1>3, <1>6, <2>1 DEF PipelineInv, Published, Publication, Overview
  <2>5. QED
    BY <1>1, <1>2, <1>4, <2>2, <2>3, <2>4 DEF PipelineInv
<1>7. QED
  BY <1>5, <1>6 DEF PipelineInv, PipelineTypeOK, Stages

LEMMA StartReviewKeeps == ASSUME PipelineInv, StartReview PROVE PipelineInv'
<1>1. CASE Fail /\ UNCHANGED <<control, offered>>
  BY <1>1, FailKeeps DEF StartReview
<1>2. CASE control.accepted # NoAcceptance /\ Pass("user") /\ UNCHANGED <<control, offered>>
  BY <1>2, PassKeeps DEF StartReview, PipelineInv
<1>3. CASE /\ control.accepted = NoAcceptance
           /\ step' = "reviewing"
           /\ control' = Opened
           /\ offered' = offered \cup {candidate.version}
           /\ UNCHANGED <<job, stage, attempt, candidate, layer, verdict, gates, result>>
  BY <1>3, OpenKeeps DEF StartReview
<1>4. QED
  BY <1>1, <1>2, <1>3 DEF StartReview

\* In an open review the acceptance, if there is one, is for its candidate.
LEMMA AcceptedNowMeans ==
  ASSUME PipelineInv, step = "reviewing"
  PROVE  AcceptedNow <=> granted # NoAcceptance
<1>1. candidate.version # 0 /\ control.accepted = granted
  BY DEF PipelineInv, Shown
<1>2. QED
  BY <1>1, ConstantsTyped DEF AcceptedNow, PipelineInv, Carried

LEMMA CloseReviewKeeps == ASSUME PipelineInv, CloseReview PROVE PipelineInv'
<1>1. /\ step = "reviewing" /\ control' = Closed
      /\ UNCHANGED <<minted, offered, granted>>
      /\ AcceptedNow <=> granted # NoAcceptance
      /\ verdict \in Verdicts
  BY AcceptedNowMeans DEF CloseReview, PipelineInv, PipelineTypeOK
<1>2. Outcome = "skipped" <=> granted # NoAcceptance
  BY <1>1 DEF Outcome, Verdicts
<1>3. CASE Outcome = "skipped" /\ Pass("user")
  BY <1>1, <1>2, <1>3, PassKeeps
<1>4. CASE Outcome = "approved" /\ Pass("reviewer")
  BY <1>1, <1>2, <1>4, PassKeeps
<1>5. CASE Outcome \in {"rejected", "terminal", "invalid"} /\ Fail
  BY <1>1, <1>2, <1>5, FailKeeps
<1>6. CASE Outcome \in {"rejected", "invalid"} /\ Retry
  BY <1>1, <1>2, <1>6, RetryKeeps
<1>7. QED
  BY <1>3, <1>4, <1>5, <1>6 DEF CloseReview, Invalid

\* The user accepts: the open preview for the first time, or the same again.
LEMMA AcceptKeeps ==
  ASSUME PipelineInv, NEW v \in offered, Accept(v)
  PROVE  PipelineInv'
<1>1. v # 0 /\ v \in {control.accepted.version, control.eligible.version}
      /\ UNCHANGED <<progress, minted, offered>>
  BY DEF Accept, Accepts
<1>2. CASE v = control.accepted.version
  <2>1. control' = control /\ granted' = control.accepted /\ granted' = granted
    BY <1>2 DEF Accept, PipelineInv, PipelineTypeOK, Control
  <2>2. PipelineTypeOK'
    BY <1>1, <2>1 DEF PipelineInv, PipelineTypeOK, progress, Calls
  <2>3. Shown' /\ Carried' /\ Gated' /\ Published' /\ NothingSimplified'
    BY <1>1, <2>1 DEF PipelineInv, progress, Shown, Carried, Gated, Published, Overview,
                      NothingSimplified, Saved
  <2>4. QED
    BY <2>1, <2>2, <2>3 DEF PipelineInv
<1>3. CASE v # control.accepted.version
  <2>1. v = control.eligible.version
    BY <1>1, <1>3
  <2>2. step = "reviewing" /\ v = candidate.version
        /\ control.eligible = [version |-> candidate.version, stage |-> stage]
    BY <1>1, <2>1, ConstantsTyped DEF PipelineInv, Shown
  <2>3. granted = NoAcceptance
    BY <1>3, <2>2 DEF PipelineInv, Carried
  <2>4. /\ granted' = [version |-> candidate.version, stage |-> stage]
        /\ control'.accepted = granted' /\ control'.eligible = control.eligible
        /\ control' \in Control /\ granted' \in Acceptance
    <3>1. control.eligible \in Acceptance
      BY DEF PipelineInv, PipelineTypeOK, Control
    <3>2. [control.eligible EXCEPT !.version = v] = control.eligible
      BY <2>2
    <3>3. control' = [control EXCEPT !.accepted = control.eligible]
          /\ granted' = control.eligible
      BY <1>3, <3>2 DEF Accept
    <3>4. QED
      BY <2>2, <3>1, <3>3 DEF PipelineInv, PipelineTypeOK, Control
  <2>5. PipelineTypeOK'
    BY <1>1, <2>4 DEF PipelineInv, PipelineTypeOK, progress, Calls
  <2>6. Shown' /\ Carried' /\ NothingSimplified'
    BY <1>1, <2>2, <2>4 DEF PipelineInv, progress, Shown, Carried, NothingSimplified, Saved
  <2>7. Gated'
    BY <1>1, <2>2, <2>3, <2>4 DEF PipelineInv, progress, Gated
  <2>8. Published'
    BY <1>1, <2>2, ConstantsTyped DEF PipelineInv, progress, Published
  <2>9. QED
    BY <2>4, <2>5, <2>6, <2>7, <2>8 DEF PipelineInv
<1>4. QED
  BY <1>2, <1>3

-----------------------------------------------------------------------------
(* The theorems.                                                           *)

LEMMA InitEstablishes == PipelineInit => PipelineInv
  BY InitTyped, ConstantsTyped
     DEF PipelineInit, PipelineInv, Shown, Carried, Gated, Published, NothingSimplified, NoCandidate

LEMMA StutterKeeps == PipelineInv /\ UNCHANGED pipelineVars => PipelineInv'
  BY DEF PipelineInv, PipelineTypeOK, Calls, Shown, Carried, Gated, Published, Overview,
         NothingSimplified, Saved, pipelineVars, progress

LEMMA StepKeeps == PipelineInv /\ PipelineStep => PipelineInv'
<1> SUFFICES ASSUME PipelineInv, PipelineStep PROVE PipelineInv'
  OBVIOUS
<1>1. CASE Scope
  BY <1>1, FailKeeps, AdvanceKeeps DEF Scope
<1>2. CASE Clarify
  BY <1>2, ClarifyKeeps
<1>3. CASE GenerationFails
  BY <1>3, FailKeeps, RetryKeeps DEF GenerationFails, Invalid
<1>4. CASE Generate
  BY <1>4, GenerateKeeps
<1>5. CASE Render
  BY <1>5, FailKeeps, AdvanceKeeps DEF Render
<1>6. CASE StartReview
  BY <1>6, StartReviewKeeps
<1>7. CASE ReviewerAnswers
  BY <1>7, AnswerKeeps
<1>8. CASE CloseReview
  BY <1>8, CloseReviewKeeps
<1>9. QED
  BY <1>1, <1>2, <1>3, <1>4, <1>5, <1>6, <1>7, <1>8 DEF PipelineStep

LEMMA PipelineInvariant == PipelineSpec => []PipelineInv
<1>1. PipelineInv /\ UserAccepts => PipelineInv'
  BY AcceptKeeps DEF UserAccepts
<1>2. PipelineInv /\ [PipelineNext]_pipelineVars => PipelineInv'
  BY <1>1, StepKeeps, StutterKeeps DEF PipelineNext
<1>3. QED
  BY InitEstablishes, <1>2, PTL DEF PipelineSpec

\* No layer makes more generation calls than its limit allows, and every candidate
\* offered to the user was generated.
THEOREM TypeCorrect == PipelineSpec => []PipelineTypeOK
<1>1. PipelineInv => PipelineTypeOK
  BY DEF PipelineInv
<1>2. QED
  BY <1>1, PipelineInvariant, PTL

\* "approved" is never claimed when a review of either layer was skipped.
THEOREM ApprovalsAreReviews == PipelineSpec => []ApprovedMeansReviewed
<1>1. PipelineInv => ApprovedMeansReviewed
  BY DEF PipelineInv, Published, Gated, ApprovedMeansReviewed
<1>2. QED
  BY <1>1, PipelineInvariant, PTL

\* Whatever the reviewer answers and whenever, a granted acceptance decides what
\* is published and is recorded with it.
THEOREM AcceptancesDecide == PipelineSpec => []AcceptanceHonoured
<1>1. PipelineInv => AcceptanceHonoured
  <2> SUFFICES ASSUME PipelineInv, granted # NoAcceptance, result.version # 0
               PROVE  /\ result.publication = "user_accepted"
                      /\ result.acceptance = granted
                      /\ granted.version = IF granted.stage = "components"
                                           THEN result.components ELSE result.version
    BY DEF AcceptanceHonoured
  <2>1. step = "ended"
    BY ConstantsTyped DEF PipelineInv, Published
  <2>2. QED
    BY <2>1 DEF PipelineInv, Published, Carried
<1>2. QED
  BY <1>1, PipelineInvariant, PTL

\* No acceptance is granted for a preview that was rejected or never offered.
THEOREM AcceptancesAreCurrent == PipelineSpec => []AcceptanceIsCurrent
<1>1. PipelineInv => AcceptanceIsCurrent
  BY DEF PipelineInv, Carried, AcceptanceIsCurrent
<1>2. QED
  BY <1>1, PipelineInvariant, PTL

\* What recovery simplified says so, and it never simplifies a saved diagram.
THEOREM SimplificationsDisclosed == PipelineSpec => []SimplificationDisclosed
<1>1. PipelineInv => SimplificationDisclosed
  BY DEF PipelineInv, Published, NothingSimplified, Overview, PipelineTypeOK, Jobs,
         SimplificationDisclosed
<1>2. QED
  BY <1>1, PipelineInvariant, PTL

\* Together: nothing is published that nobody let pass (run_staged_graph_pipeline).
THEOREM PublicationsEarned == PipelineSpec => []PublicationIsEarned
BY ApprovalsAreReviews, AcceptancesDecide, AcceptancesAreCurrent,
   SimplificationsDisclosed, PTL DEF PublicationIsEarned

-----------------------------------------------------------------------------
(* The turn.                                                               *)

\* Between two runs nothing is left of the review but the acceptance.
Drawing ==
  /\ control.accepted = granted
  /\ step = "off" => control.eligible = NoAcceptance /\ result = NoResult
  /\ step # "off" => PipelineInv

\* What the agent task has come to, as the loop and the pipeline see it.
Running ==
  /\ agent \in {"running", "cancelled"} => step # "off" /\ registered /\ stored = NoTurn
  /\ agent \in {"answered", "silent"} => step \in {"scope", "ended"}
  /\ agent \in {"raised", "late", "gone"} => step = "off"
  /\ agent = "running" => pc \in {"wait", "classify", "teardown"}
  /\ pc \in {"top", "ended"} => AgentDown
  /\ pc \in {"store", "reply"} => agent \in {"answered", "silent"}
  /\ registered \/ pc = "ended"

\* A steer is merged before an acceptance can be granted, or not at all.
Steering ==
  /\ pc = "top" => control = NoControl
  /\ pc = "classify" \/ (pc = "cancelling" /\ why = "steer") => granted = NoAcceptance
  /\ pc = "classify" => question < MaxSteers
  /\ pc \in {"wait", "classify", "store", "reply"} => asked = question
  /\ connected /\ pc \in {"top", "wait", "classify", "store", "reply"} => applied = question
  /\ connected /\ pc = "cancelling" =>
       question = (IF why = "steer" THEN applied + 1 ELSE applied)

\* A diagram on the screen that is not the saved one is a preview of this run.
Showing ==
  /\ connected /\ (pc = "top" \/ ~preview) => screen = 0
  /\ connected /\ pc \in {"wait", "classify"} => screen = 0 \/ screen > firstOfRun
  /\ step = "render" => candidate.version > firstOfRun

\* The turn is stored once, by a run that answered all of the question.
Storing ==
  /\ stored # NoTurn => pc \in {"reply", "teardown", "ended"}
  /\ saving \in {"saved", "dropped"} <=> stored # NoTurn
  /\ CommandsAreHonoured

\* After the last word the agent draws no more.
Telling ==
  /\ told # "nothing" => pc \in {"teardown", "ended"} /\ AgentDown
  /\ SavedDiagramShown /\ DoneMeansStored

TurnInv ==
  /\ TypeOK
  /\ Drawing /\ Running /\ Steering /\ Showing /\ Storing /\ Telling

-----------------------------------------------------------------------------
(* Nothing of the pipeline changes, or all of it starts again.             *)

LEMMA PipelineStays ==
  ASSUME Drawing, PipelineTypeOK, UNCHANGED pipelineVars
  PROVE  /\ Drawing' /\ PipelineTypeOK'
         /\ UNCHANGED <<step, candidate, control, result, minted, offered, granted>>
<1>1. UNCHANGED <<step, candidate, control, result, minted, offered, granted>>
  BY DEF pipelineVars, progress
<1>2. PipelineTypeOK'
  BY DEF pipelineVars, progress, PipelineTypeOK, Calls
<1>3. step # "off" => PipelineInv'
  BY StutterKeeps DEF Drawing
<1>4. QED
  BY <1>1, <1>2, <1>3 DEF Drawing

LEMMA FreshTyped ==
  ASSUME PipelineTypeOK, NEW j \in Jobs, Fresh(j), step' \in Steps, control' \in Control,
         UNCHANGED <<minted, offered, granted>>
  PROVE  PipelineTypeOK'
<1>1. attempt' \in 0..(Calls(stage') - 1)
  BY ConstantsTyped DEF Fresh
<1>2. QED
  BY <1>1, ConstantsTyped DEF Fresh, PipelineTypeOK, Stages, Verdicts

\* A run starts without an acceptance.
LEMMA BeginKeeps ==
  ASSUME PipelineTypeOK, NEW j \in Jobs, Begin(j), control = NoControl, control' = control,
         granted = NoAcceptance, UNCHANGED <<minted, offered, granted>>
  PROVE  PipelineInv' /\ Drawing' /\ step' = "scope"
<1>1. PipelineTypeOK'
  BY FreshTyped, ConstantsTyped DEF Begin, Steps
<1>2. Fresh(j) /\ step' = "scope"
  BY DEF Begin
<1>3. Shown' /\ Carried' /\ Gated' /\ Published' /\ NothingSimplified'
  BY <1>2, ConstantsTyped
     DEF Fresh, Shown, Carried, Gated, Published, NothingSimplified, NoCandidate
<1>4. QED
  BY <1>1, <1>2, <1>3, ConstantsTyped DEF PipelineInv, Drawing

\* A run that raises or is cancelled leaves its acceptance behind.
LEMMA UnwindKeeps ==
  ASSUME Drawing, PipelineTypeOK, Unwind, UNCHANGED <<minted, offered, granted>>
  PROVE  Drawing' /\ PipelineTypeOK' /\ step' = "off"
<1>1. /\ control' \in Control /\ control'.accepted = control.accepted
      /\ control'.eligible = NoAcceptance
  BY ConstantsTyped DEF Unwind, Closed, PipelineTypeOK, Control
<1>2. PipelineTypeOK'
  BY <1>1, FreshTyped DEF Unwind, PipelineTypeOK, Steps
<1>3. QED
  BY <1>1, <1>2 DEF Drawing, Unwind, Fresh

\* Every acceptance the control grants is for a preview that was offered.
LEMMA AcceptStays ==
  ASSUME Drawing, PipelineTypeOK, NEW v, Accept(v)
  PROVE  /\ Drawing' /\ PipelineTypeOK'
         /\ UNCHANGED <<step, candidate, result, minted, offered>>
         /\ granted' # NoAcceptance
<1>1. /\ v # 0 /\ v \in {control.accepted.version, control.eligible.version}
      /\ UNCHANGED <<progress, minted, offered>>
      /\ UNCHANGED <<step, candidate, result, minted, offered>>
  BY DEF Accept, Accepts, progress
<1>2. granted' # NoAcceptance
  <2>1. granted'.version = v
    BY DEF Accept, PipelineTypeOK, Control, Acceptance
  <2>2. QED
    BY <1>1, <2>1, ConstantsTyped
<1>3. CASE step = "off"
  <2>1. v = control.accepted.version
    BY <1>1, <1>3, ConstantsTyped DEF Drawing
  <2>2. control' = control /\ granted' = granted
    BY <2>1 DEF Accept, Drawing, PipelineTypeOK, Control
  <2>3. UNCHANGED pipelineVars
    BY <1>1, <2>2 DEF pipelineVars
  <2>4. QED
    BY <1>1, <1>2, <2>3, PipelineStays
<1>4. CASE step # "off"
  <2>1. PipelineInv /\ control.accepted = granted
    BY <1>4 DEF Drawing
  <2>2. v \in offered
    <3>1. CASE v = control.accepted.version
      BY <1>1, <2>1, <3>1, ConstantsTyped DEF PipelineInv, Carried
    <3>2. CASE v = control.eligible.version
      BY <1>1, <2>1, <3>2, ConstantsTyped DEF PipelineInv, Shown
    <3>3. QED
      BY <1>1, <3>1, <3>2
  <2>3. PipelineInv'
    BY <2>1, <2>2, AcceptKeeps
  <2>4. QED
    BY <1>1, <1>2, <1>4, <2>3 DEF Drawing, PipelineInv
<1>5. QED
  BY <1>3, <1>4

LEMMA DrawKeeps ==
  ASSUME Drawing, PipelineTypeOK, PipelineStep, step # "off"
  PROVE  /\ Drawing' /\ PipelineTypeOK' /\ PipelineInv' /\ step' # "off"
         /\ granted' = granted /\ minted <= minted'
         /\ minted' # minted => step' = "render"
         /\ step' = "render" => candidate'.version = minted' /\ minted' = minted + 1
<1>1. PipelineInv' /\ PipelineTypeOK'
  BY StepKeeps DEF Drawing, PipelineInv
<1>2. minted \in Nat
  BY DEF PipelineTypeOK
<1>3. /\ step' # "off" /\ granted' = granted /\ minted' \in {minted, minted + 1}
      /\ minted' # minted => step' = "render"
      /\ step' = "render" => candidate'.version = minted' /\ minted' = minted + 1
  BY <1>2 DEF PipelineStep, Scope, Clarify, GenerationFails, Generate, Render, StartReview,
     ReviewerAnswers, CloseReview, Fail, Retry, Invalid, Pass, End
<1>4. QED
  BY <1>1, <1>2, <1>3 DEF Drawing, PipelineInv
-----------------------------------------------------------------------------
(* The main loop.                                                          *)

LEMMA StartRunKeeps == ASSUME TurnInv, StartRun PROVE TurnInv'
<1>1. PICK j \in Jobs : Begin(j)
  BY DEF StartRun
<1>2. control = NoControl /\ granted = NoAcceptance
  BY ConstantsTyped DEF TurnInv, StartRun, Steering, Drawing
<1>3. PipelineInv' /\ Drawing' /\ step' = "scope"
  BY <1>1, <1>2, BeginKeeps DEF StartRun, TurnInv, TypeOK
<1>4. TypeOK'
  BY <1>3 DEF StartRun, TurnInv, TypeOK, PipelineInv, client, PipelineTypeOK
<1>5. Running'
  BY <1>3 DEF StartRun, TurnInv, Running, Storing, Finished
<1>6. Steering' /\ Showing'
  BY <1>2, <1>3 DEF StartRun, TurnInv, TypeOK, Steering, Showing, client
<1>7. Storing' /\ Telling'
  BY <1>2 DEF StartRun, TurnInv, Storing, Telling, CommandsAreHonoured, AcceptanceSurvives,
              AnswerFollowsSteers, SavedDiagramShown, DoneMeansStored, client
<1>8. QED
  BY <1>3, <1>4, <1>5, <1>6, <1>7 DEF TurnInv

\* The saved diagram is shown again wherever it was not.
LEMMA RestoreShows ==
  ASSUME TypeOK, Showing, Restore, minted' = minted, connected' = connected
  PROVE  /\ screen' \in 0..minted' /\ preview' = FALSE
         /\ connected' => screen' = 0
BY DEF TypeOK, Showing, Restore, PipelineTypeOK

\* The word is said at the end, and not by a turn that is stored already.
LEMMA TellEnds ==
  ASSUME NEW word \in {"done", "stopped"}, NEW error \in BOOLEAN, Tell(word, error)
  PROVE  /\ pc' = "teardown"
         /\ told' \in {"nothing", word} /\ failed' \in BOOLEAN
         /\ connected => told' = word /\ failed' = error
         /\ ~connected => told' = "nothing"
BY DEF Tell

LEMMA StartTooLateKeeps == ASSUME TurnInv, StartTooLate PROVE TurnInv'
<1>1. Drawing' /\ PipelineTypeOK' /\ granted' = granted /\ minted' = minted /\ step' = step
      /\ candidate' = candidate /\ control' = control
  BY PipelineStays DEF StartTooLate, TurnInv, TypeOK
<1>2. /\ screen' \in 0..minted' /\ preview' = FALSE /\ (connected' => screen' = 0)
      /\ pc' = "teardown" /\ told' \in {"nothing", "done"} /\ failed' \in BOOLEAN
      /\ connected => told' = "done" /\ failed' = TRUE
      /\ ~connected => told' = "nothing"
  BY <1>1, RestoreShows, TellEnds DEF StartTooLate, TurnInv
<1>3. TypeOK'
  BY <1>1, <1>2 DEF StartTooLate, TurnInv, TypeOK
<1>4. Running' /\ Steering' /\ Showing'
  BY <1>1, <1>2 DEF StartTooLate, TurnInv, Running, Steering, Showing, AgentDown
<1>5. Storing' /\ Telling'
  BY <1>1, <1>2 DEF StartTooLate, TurnInv, Running, Storing, Telling, CommandsAreHonoured,
     AcceptanceSurvives, AnswerFollowsSteers, SavedDiagramShown, DoneMeansStored, AgentDown
<1>6. QED
  BY <1>1, <1>3, <1>4, <1>5 DEF TurnInv
\* Cancelling a task that has ended leaves it as it is.
LEMMA CancelMeans ==
  ASSUME NEW reason, CancelAgent(reason)
  PROVE  /\ pc' = "cancelling" /\ why' = reason
         /\ agent = "running" => agent' = "cancelled"
         /\ agent # "running" => agent' = agent
BY DEF CancelAgent

LEMMA OnTimeoutKeeps == ASSUME TurnInv, OnTimeout PROVE TurnInv'
<1>1. Drawing' /\ PipelineTypeOK' /\ granted' = granted /\ minted' = minted /\ step' = step
      /\ candidate' = candidate /\ control' = control
  BY PipelineStays DEF OnTimeout, TurnInv, TypeOK
<1>2. /\ pc = "wait" /\ pc' = "cancelling" /\ why' = "timeout"
      /\ agent = "running" => agent' = "cancelled"
      /\ agent # "running" => agent' = agent
  BY CancelMeans DEF OnTimeout
<1>3. TypeOK'
  BY <1>1, <1>2 DEF OnTimeout, TurnInv, TypeOK, client
<1>4. Running' /\ Steering' /\ Showing'
  BY <1>1, <1>2 DEF OnTimeout, TurnInv, Running, Steering, Showing, client
<1>5. Storing' /\ Telling'
  BY <1>1, <1>2 DEF OnTimeout, TurnInv, Storing, Telling, CommandsAreHonoured,
     AcceptanceSurvives, AnswerFollowsSteers, SavedDiagramShown, DoneMeansStored, client
<1>6. QED
  BY <1>1, <1>3, <1>4, <1>5 DEF TurnInv

\* A command is taken from the queue.
LEMMA CommandTaken ==
  ASSUME TypeOK, NEW type, NextCommand(type)
  PROVE  /\ pc = "wait"
         /\ Head(queue) \in Command /\ Head(queue).type = type
         /\ queue' \in Seq(Command) /\ Len(queue') <= QueueSize
<1>1. queue \in Seq(Command) /\ queue # << >> /\ queue' = Tail(queue)
  BY DEF TypeOK, NextCommand
<1>2. Len(queue') = Len(queue) - 1 /\ Len(queue) \in Nat
  BY <1>1
<1>3. Len(queue') <= QueueSize
  BY <1>2, TurnAssumption DEF TypeOK
<1>4. QED
  BY <1>1, <1>3 DEF NextCommand

LEMMA OnAcceptKeeps == ASSUME TurnInv, OnAccept PROVE TurnInv'
<1> DEFINE v == Head(queue).version
<1>1. pc = "wait" /\ queue' \in Seq(Command) /\ Len(queue') <= QueueSize
  BY CommandTaken DEF OnAccept, TurnInv
<1>2. stored = NoTurn /\ told = "nothing"
  BY <1>1 DEF TurnInv, Storing, Telling
<1>3. CASE Accept(v) /\ UNCHANGED <<pc, screen, preview, told, failed>>
  <2>1. /\ Drawing' /\ PipelineTypeOK'
        /\ UNCHANGED <<step, candidate, result, minted, offered>>
    BY <1>3, AcceptStays DEF TurnInv, TypeOK
  <2>2. TypeOK'
    BY <1>1, <1>3, <2>1 DEF OnAccept, TurnInv, TypeOK
  <2>3. Running' /\ Steering' /\ Showing'
    BY <1>1, <1>3, <2>1 DEF OnAccept, TurnInv, Running, Steering, Showing, AgentDown
  <2>4. Storing' /\ Telling'
    BY <1>1, <1>2, <1>3, <2>1 DEF OnAccept, TurnInv, Drawing, Storing, Telling, NoTurn,
       CommandsAreHonoured, AcceptanceSurvives, AnswerFollowsSteers, SavedDiagramShown,
       DoneMeansStored
  <2>5. QED
    BY <2>1, <2>2, <2>3, <2>4 DEF TurnInv
<1>4. CASE ~Accepts(v) /\ Reject /\ UNCHANGED pipelineVars
  <2>1. Drawing' /\ PipelineTypeOK' /\ granted' = granted /\ minted' = minted /\ step' = step
        /\ candidate' = candidate /\ control' = control
    BY <1>4, PipelineStays DEF TurnInv, TypeOK
  <2>2. TypeOK'
    BY <1>1, <1>4, <2>1 DEF OnAccept, Reject, TurnInv, TypeOK
  <2>3. Running' /\ Steering' /\ Showing'
    BY <1>1, <1>4, <2>1 DEF OnAccept, Reject, TurnInv, Running, Steering, Showing
  <2>4. Storing' /\ Telling'
    BY <1>1, <1>2, <1>4, <2>1 DEF OnAccept, Reject, TurnInv, Storing, Telling,
       CommandsAreHonoured, AcceptanceSurvives, AnswerFollowsSteers, SavedDiagramShown,
       DoneMeansStored
  <2>5. QED
    BY <2>1, <2>2, <2>3, <2>4 DEF TurnInv
<1>5. QED
  BY <1>3, <1>4 DEF OnAccept

LEMMA OnStopKeeps == ASSUME TurnInv, OnStop PROVE TurnInv'
<1>1. Drawing' /\ PipelineTypeOK' /\ granted' = granted /\ minted' = minted /\ step' = step
      /\ candidate' = candidate /\ control' = control
  BY PipelineStays DEF OnStop, TurnInv, TypeOK
<1>2. /\ pc = "wait" /\ queue' \in Seq(Command) /\ Len(queue') <= QueueSize
      /\ Head(queue).type \in {"stop", "disconnect"}
  BY CommandTaken DEF OnStop, TurnInv
<1>3. /\ pc' = "cancelling" /\ why' \in {"stop", "disconnect"}
      /\ agent = "running" => agent' = "cancelled"
      /\ agent # "running" => agent' = agent
  BY <1>2, CancelMeans DEF OnStop
<1>4. TypeOK'
  BY <1>1, <1>2, <1>3 DEF OnStop, TurnInv, TypeOK, client
<1>5. Running' /\ Steering' /\ Showing'
  BY <1>1, <1>2, <1>3 DEF OnStop, TurnInv, Running, Steering, Showing, client
<1>6. Storing' /\ Telling'
  BY <1>1, <1>2, <1>3 DEF OnStop, TurnInv, Storing, Telling, CommandsAreHonoured,
     AcceptanceSurvives, AnswerFollowsSteers, SavedDiagramShown, DoneMeansStored, client
<1>7. QED
  BY <1>1, <1>4, <1>5, <1>6 DEF TurnInv

LEMMA OnSteerKeeps == ASSUME TurnInv, OnSteer PROVE TurnInv'
<1>1. Drawing' /\ PipelineTypeOK' /\ granted' = granted /\ minted' = minted /\ step' = step
      /\ candidate' = candidate /\ control' = control
  BY PipelineStays DEF OnSteer, TurnInv, TypeOK
<1>2. pc = "wait" /\ queue' \in Seq(Command) /\ Len(queue') <= QueueSize
  BY CommandTaken DEF OnSteer, TurnInv
<1>3. /\ pc' \in {"wait", "classify", "teardown"}
      /\ connected => pc' # "teardown"
      /\ UNCHANGED <<screen, preview, told, failed>>
      /\ pc' = "classify" => Steerable /\ ~OverBudget
      /\ tries' = tries \/ (tries' = tries + 1 /\ ~OverBudget)
  BY DEF OnSteer, Reject
<1>4. question \in Nat /\ tries \in Nat /\ MaxSteers \in Nat
      /\ (~OverBudget => question < MaxSteers /\ tries < MaxSteers)
  BY TurnAssumption DEF TurnInv, TypeOK, OverBudget
<1>5. TypeOK'
  BY <1>1, <1>2, <1>3, <1>4 DEF OnSteer, TurnInv, TypeOK
<1>6. Running' /\ Showing'
  BY <1>1, <1>2, <1>3 DEF OnSteer, TurnInv, Running, Showing, AgentDown
<1>7. Steering'
  BY <1>1, <1>2, <1>3, <1>4 DEF OnSteer, TurnInv, Drawing, Steering, Steerable
<1>8. Storing' /\ Telling'
  BY <1>1, <1>2, <1>3 DEF OnSteer, TurnInv, Storing, Telling, CommandsAreHonoured,
     AcceptanceSurvives, AnswerFollowsSteers, SavedDiagramShown, DoneMeansStored
<1>9. QED
  BY <1>1, <1>5, <1>6, <1>7, <1>8 DEF TurnInv

LEMMA ClassifyKeeps == ASSUME TurnInv, Classify PROVE TurnInv'
<1>1. Drawing' /\ PipelineTypeOK' /\ granted' = granted /\ minted' = minted /\ step' = step
      /\ candidate' = candidate /\ control' = control
  BY PipelineStays DEF Classify, TurnInv, TypeOK
<1>2. CASE Reject /\ UNCHANGED <<why, agent, question>>
  <2>1. TypeOK'
    BY <1>1, <1>2 DEF Classify, Reject, TurnInv, TypeOK
  <2>2. Running' /\ Steering' /\ Showing'
    BY <1>1, <1>2 DEF Classify, Reject, TurnInv, Running, Steering, Showing
  <2>3. Storing' /\ Telling'
    BY <1>1, <1>2 DEF Classify, Reject, TurnInv, Storing, Telling, CommandsAreHonoured,
       AcceptanceSurvives, AnswerFollowsSteers, SavedDiagramShown, DoneMeansStored
  <2>4. QED
    BY <1>1, <2>1, <2>2, <2>3 DEF TurnInv
<1>3. CASE /\ question' = question + 1
           /\ CancelAgent("steer")
           /\ UNCHANGED <<screen, preview, told, failed>>
  <2>1. /\ pc' = "cancelling" /\ why' = "steer"
        /\ agent = "running" => agent' = "cancelled"
        /\ agent # "running" => agent' = agent
    BY <1>3, CancelMeans
  <2>2. pc = "classify" /\ question < MaxSteers
    BY DEF Classify, TurnInv, Steering
  <2>3. TypeOK'
    BY <1>1, <1>3, <2>1, <2>2, TurnAssumption DEF Classify, TurnInv, TypeOK
  <2>4. Running' /\ Steering' /\ Showing'
    BY <1>1, <1>3, <2>1, <2>2 DEF Classify, TurnInv, Running, Steering, Showing
  <2>5. Storing' /\ Telling'
    BY <1>1, <1>3, <2>1, <2>2 DEF Classify, TurnInv, Storing, Telling, CommandsAreHonoured,
       AcceptanceSurvives, AnswerFollowsSteers, SavedDiagramShown, DoneMeansStored
  <2>6. QED
    BY <1>1, <2>3, <2>4, <2>5 DEF TurnInv
<1>4. QED
  BY <1>2, <1>3 DEF Classify
\* The turn ends without a stored answer: with an error, or stopped.
LEMMA EndsUnstored ==
  ASSUME TurnInv, stored = NoTurn, AgentDown, registered,
         NEW word \in {"done", "stopped"}, NEW error \in BOOLEAN, Tell(word, error),
         word = "done" => error,
         \/ Restore
         \/ KeepScreen /\ word = "done",
         UNCHANGED pipelineVars,
         UNCHANGED <<inbox, sent, connected, applied, why, question, asked, tries, firstOfRun,
                     saving, stored, registered, agent, queue, listening, timeUp>>
  PROVE  TurnInv'
<1>1. Drawing' /\ PipelineTypeOK' /\ granted' = granted /\ minted' = minted /\ step' = step
      /\ candidate' = candidate /\ control' = control
  BY PipelineStays DEF TurnInv, TypeOK
<1>2. /\ pc' = "teardown" /\ told' \in {"nothing", word} /\ failed' \in BOOLEAN
      /\ connected => told' = word /\ failed' = error
      /\ ~connected => told' = "nothing"
  BY TellEnds
<1>3. /\ screen' \in 0..minted' /\ preview' \in BOOLEAN
      /\ connected' /\ ~preview' => screen' = 0
      /\ word = "stopped" /\ connected' => screen' = 0
  BY <1>1, RestoreShows DEF KeepScreen, TurnInv, TypeOK, Showing
<1>4. TypeOK'
  BY <1>1, <1>2, <1>3 DEF TurnInv, TypeOK
<1>5. Running' /\ Steering' /\ Showing'
  BY <1>1, <1>2, <1>3 DEF TurnInv, Running, Steering, Showing, AgentDown, Finished
<1>6. Storing'
  BY <1>1, <1>2 DEF TurnInv, Storing, CommandsAreHonoured, AcceptanceSurvives,
     AnswerFollowsSteers
<1>7. Telling'
  BY <1>1, <1>2, <1>3 DEF TurnInv, Telling, SavedDiagramShown, DoneMeansStored, AgentDown
<1>8. QED
  BY <1>1, <1>4, <1>5, <1>6, <1>7 DEF TurnInv

\* The run that was steered away leaves nothing to the next one.
LEMMA ApplySteerKeeps ==
  ASSUME TurnInv, pc = "cancelling", agent \in Finished, ApplySteer,
         UNCHANGED <<job, step, stage, attempt, candidate, layer, verdict, gates, result,
                     minted, offered, granted, inbox, sent, connected, why, question, asked,
                     tries, firstOfRun, saving, stored, registered, agent, queue, listening,
                     timeUp>>
  PROVE  TurnInv'
<1>1. granted = NoAcceptance
  BY DEF ApplySteer, TurnInv, Steering
<1>2. control' = NoControl /\ control' = control
  <2>1. step \in {"off", "scope", "ended"}
    BY DEF TurnInv, Running, Finished
  <2>2. control.eligible = NoAcceptance /\ control.accepted = NoAcceptance
    BY <1>1, <2>1 DEF TurnInv, Drawing, PipelineInv, Shown
  <2>3. control = NoControl
    BY <2>2 DEF TurnInv, TypeOK, PipelineTypeOK, Control, NoControl
  <2>4. QED
    BY <2>3 DEF ApplySteer
<1>3. Drawing' /\ PipelineTypeOK'
  <2>1. UNCHANGED pipelineVars
    BY <1>2 DEF pipelineVars, progress
  <2>2. QED
    BY <2>1, PipelineStays DEF TurnInv, TypeOK
<1>4. /\ screen' \in 0..minted' /\ preview' = FALSE
      /\ connected' => screen' = 0
  BY RestoreShows DEF ApplySteer, ResetPreview, TurnInv
<1>5. /\ pc' \in {"top", "teardown"} /\ told' = told /\ failed' = failed
      /\ connected => pc' = "top" /\ applied' = question
      /\ applied' \in Nat
  <2>1. pc' \in {"top", "teardown"} /\ (connected => pc' = "top")
        /\ told' = told /\ failed' = failed
        /\ applied' = (IF connected THEN applied + 1 ELSE applied)
    BY DEF ApplySteer
  <2>2. applied \in Nat /\ (connected => question = applied + 1)
    BY DEF ApplySteer, TurnInv, TypeOK, Steering
  <2>3. QED
    BY <2>1, <2>2
<1>6. TypeOK'
  <2>1. /\ agent' \in {"none", "running", "cancelled"} \cup Finished
        /\ why' = why /\ minted' = minted
    BY DEF TurnInv, TypeOK
  <2>2. QED
    BY <1>3, <1>4, <1>5, <2>1 DEF TurnInv, TypeOK
<1>7. Running' /\ Steering' /\ Showing'
  BY <1>1, <1>2, <1>4, <1>5 DEF TurnInv, Running, Steering, Showing, AgentDown
<1>8. stored = NoTurn /\ told = "nothing"
  BY DEF TurnInv, Storing, Telling
<1>9. Storing' /\ Telling'
  BY <1>1, <1>2, <1>5, <1>8 DEF TurnInv, Storing, Telling, CommandsAreHonoured,
     AcceptanceSurvives, AnswerFollowsSteers, SavedDiagramShown, DoneMeansStored
<1>10. QED
  BY <1>3, <1>6, <1>7, <1>9 DEF TurnInv

LEMMA AgentStoppedKeeps == ASSUME TurnInv, AgentStopped PROVE TurnInv'
<1>1. /\ pc = "cancelling" /\ agent \in Finished
      /\ stored = NoTurn /\ told = "nothing" /\ registered /\ AgentDown
  BY DEF AgentStopped, TurnInv, Storing, Telling, Running, AgentDown
<1>2. UNCHANGED <<inbox, sent, connected, why, question, asked, tries, firstOfRun, saving,
                  stored, registered, agent, queue, listening, timeUp>>
  BY DEF AgentStopped
<1>3. CASE UNCHANGED control /\ UNCHANGED applied /\ Tell("done", TRUE)
           /\ (Restore \/ KeepScreen)
  <2>1. UNCHANGED pipelineVars
    BY <1>3 DEF AgentStopped, pipelineVars, progress
  <2>2. QED
    BY <1>1, <1>2, <1>3, <2>1, EndsUnstored
<1>4. CASE UNCHANGED control /\ UNCHANGED applied /\ Tell("stopped", FALSE) /\ Restore
  <2>1. UNCHANGED pipelineVars
    BY <1>4 DEF AgentStopped, pipelineVars, progress
  <2>2. QED
    BY <1>1, <1>2, <1>4, <2>1, EndsUnstored
<1>5. CASE ApplySteer
  BY <1>1, <1>2, <1>5, ApplySteerKeeps DEF AgentStopped
<1>6. CASE /\ KeepScreen /\ pc' = "teardown"
           /\ UNCHANGED <<control, applied, told, failed>>
  <2>1. UNCHANGED pipelineVars
    BY <1>6 DEF AgentStopped, pipelineVars, progress
  <2>2. Drawing' /\ PipelineTypeOK' /\ granted' = granted /\ minted' = minted /\ step' = step
        /\ candidate' = candidate
    BY <2>1, PipelineStays DEF TurnInv, TypeOK
  <2>3. TypeOK'
    BY <1>2, <1>6, <2>2 DEF KeepScreen, TurnInv, TypeOK
  <2>4. Running' /\ Steering' /\ Showing'
    BY <1>1, <1>2, <1>6, <2>2
       DEF KeepScreen, TurnInv, Running, Steering, Showing, AgentDown
  <2>5. Storing' /\ Telling'
    BY <1>1, <1>2, <1>6, <2>2 DEF TurnInv, Storing, Telling, CommandsAreHonoured,
       AcceptanceSurvives, AnswerFollowsSteers, SavedDiagramShown, DoneMeansStored
  <2>6. QED
    BY <2>2, <2>3, <2>4, <2>5 DEF TurnInv
<1>7. QED
  BY <1>3, <1>4, <1>5, <1>6 DEF AgentStopped

LEMMA OnResultKeeps == ASSUME TurnInv, OnResult PROVE TurnInv'
<1>1. /\ pc = "wait" /\ agent \in Finished
      /\ stored = NoTurn /\ told = "nothing" /\ registered /\ AgentDown
  BY DEF OnResult, TurnInv, Storing, Telling, Running, AgentDown
<1>2. CASE Restore /\ Tell("done", TRUE)
  BY <1>1, <1>2, EndsUnstored DEF OnResult
<1>3. CASE /\ agent \in {"answered", "silent"} /\ pc' = "store"
           /\ UNCHANGED <<screen, preview, told, failed>>
  <2>1. Drawing' /\ PipelineTypeOK' /\ granted' = granted /\ minted' = minted /\ step' = step
        /\ candidate' = candidate /\ control' = control
    BY PipelineStays DEF OnResult, TurnInv, TypeOK
  <2>2. TypeOK'
    BY <1>3, <2>1 DEF OnResult, TurnInv, TypeOK
  <2>3. Running' /\ Steering' /\ Showing'
    BY <1>1, <1>3, <2>1 DEF OnResult, TurnInv, Running, Steering, Showing, AgentDown
  <2>4. Storing' /\ Telling'
    BY <1>1, <1>3, <2>1 DEF OnResult, TurnInv, Storing, Telling, CommandsAreHonoured,
       AcceptanceSurvives, AnswerFollowsSteers, SavedDiagramShown, DoneMeansStored
  <2>5. QED
    BY <2>1, <2>2, <2>3, <2>4 DEF TurnInv
<1>4. QED
  BY <1>2, <1>3 DEF OnResult
\* What the transaction may store of a run that has ended.
LEMMA ResultStored ==
  ASSUME TurnInv, pc = "store"
  PROVE  /\ [question |-> question, answers |-> asked, graph |-> 0,
             publication |-> result.publication] \in Turn
         /\ [question |-> question, answers |-> asked, graph |-> result.version,
             publication |-> result.publication] \in Turn
         /\ result.publication # "no turn"
         /\ granted # NoAcceptance /\ result.version # 0 =>
              result.publication = "user_accepted"
<1>1. result \in Result
  BY DEF TurnInv, TypeOK, PipelineTypeOK
<1>2. question \in Nat /\ asked \in Nat
  BY DEF TurnInv, TypeOK
<1>3. step # "off"
  BY DEF TurnInv, Running
<1>4. granted # NoAcceptance /\ result.version # 0 => result.publication = "user_accepted"
  BY <1>3, ConstantsTyped DEF TurnInv, Drawing, PipelineInv, Published
<1>5. result.publication \in Publications /\ result.version \in Nat
  BY <1>1 DEF Result, Version
<1>6. result.publication # "no turn"
  BY <1>5 DEF Publications
<1>7. QED
  BY <1>2, <1>4, <1>5, <1>6 DEF Turn

LEMMA StoreKeeps == ASSUME TurnInv, Store PROVE TurnInv'
<1>1. Drawing' /\ PipelineTypeOK' /\ granted' = granted /\ minted' = minted /\ step' = step
      /\ candidate' = candidate /\ control' = control
  BY PipelineStays DEF Store, TurnInv, TypeOK
<1>2. /\ pc = "store" /\ pc' = "reply" /\ asked = question
      /\ stored = NoTurn /\ told = "nothing"
      /\ connected => applied = question
  BY DEF Store, TurnInv, Steering, Storing, Telling
<1> DEFINE turn(g) == [question |-> question, answers |-> asked, graph |-> g,
                       publication |-> result.publication]
<1>3. \/ saving' = "failed" /\ stored' = NoTurn
      \/ saving' = "saved" /\ stored' = turn(result.version)
      \/ saving' = "dropped" /\ stored' = turn(0)
  BY <1>2 DEF Store
<1>4. stored' \in Turn /\ (saving' = "failed" <=> stored' = NoTurn)
  <2>1. turn(0) \in Turn /\ turn(result.version) \in Turn
    BY <1>2, ResultStored
  <2>2. turn(0) # NoTurn /\ turn(result.version) # NoTurn
    BY <1>2, ResultStored DEF NoTurn
  <2>3. QED
    BY <1>2, <1>3, <2>1, <2>2 DEF TurnInv, TypeOK
<1>5. TypeOK'
  BY <1>1, <1>2, <1>3, <1>4 DEF Store, TurnInv, TypeOK, client
<1>6. Running' /\ Steering' /\ Showing'
  BY <1>1, <1>2 DEF Store, TurnInv, Running, Steering, Showing, client
<1>7. Storing'
  <2>1. CASE saving' = "failed"
    <3>1. stored' = NoTurn /\ NoTurn.graph = 0
      BY <1>4, <2>1 DEF NoTurn
    <3>2. QED
      BY <1>1, <1>2, <2>1, <3>1 DEF Drawing, Storing, CommandsAreHonoured,
         AcceptanceSurvives, AnswerFollowsSteers
  <2>2. CASE saving' # "failed"
    <3>1. /\ stored'.answers = question /\ stored'.question = question
          /\ stored'.publication = result.publication
          /\ stored'.graph \in {0, result.version}
      BY <1>2, <1>3, <2>2
    <3>2. connected' => applied' = question
      BY <1>2 DEF Store, client
    <3>3. granted' # NoAcceptance /\ stored'.graph # 0 =>
            stored'.publication = "user_accepted"
      BY <1>1, <1>2, <3>1, ResultStored
    <3>4. QED
      BY <1>1, <1>2, <1>3, <1>4, <2>2, <3>1, <3>2, <3>3 DEF Drawing, Storing,
         CommandsAreHonoured, AcceptanceSurvives, AnswerFollowsSteers
  <2>3. QED
    BY <2>1, <2>2
<1>8. Telling'
  BY <1>1, <1>2 DEF Store, TurnInv, Telling, SavedDiagramShown, DoneMeansStored, client
<1>9. QED
  BY <1>1, <1>5, <1>6, <1>7, <1>8 DEF TurnInv

LEMMA ReplyKeeps == ASSUME TurnInv, Reply PROVE TurnInv'
<1>1. Drawing' /\ PipelineTypeOK' /\ granted' = granted /\ minted' = minted /\ step' = step
      /\ candidate' = candidate /\ control' = control
  BY PipelineStays DEF Reply, TurnInv, TypeOK
<1>2. /\ pc = "reply" /\ registered /\ AgentDown
      /\ screen \in 0..minted /\ minted \in Nat
  BY DEF Reply, TurnInv, TypeOK, PipelineTypeOK, Running, AgentDown, Finished
<1>3. /\ screen' \in 0..minted' /\ preview' = FALSE
      /\ connected' => screen' = 0
  <2>1. CASE saving = "saved"
    BY <1>1, <1>2, <2>1 DEF Reply, ShowSaved, TurnInv, TypeOK
  <2>2. CASE saving # "saved"
    BY <1>1, <1>2, <2>2, RestoreShows DEF Reply, ShowSaved, TurnInv
  <2>3. QED
    BY <2>1, <2>2
<1>4. /\ pc' = "teardown" /\ told' \in {"nothing", "done"} /\ failed' \in BOOLEAN
      /\ connected => told' = "done" /\ failed' = Unsaved
      /\ ~connected => told' = "nothing"
  BY TellEnds DEF Reply, Unsaved
<1>5. TypeOK'
  BY <1>1, <1>3, <1>4 DEF Reply, TurnInv, TypeOK
<1>6. Running' /\ Steering' /\ Showing'
  BY <1>1, <1>2, <1>3, <1>4
     DEF Reply, TurnInv, Running, Steering, Showing, AgentDown
<1>7. Storing'
  BY <1>1, <1>4 DEF Reply, TurnInv, Storing, CommandsAreHonoured, AcceptanceSurvives,
     AnswerFollowsSteers
<1>8. Telling'
  BY <1>2, <1>3, <1>4 DEF Reply, TurnInv, Storing, Telling, SavedDiagramShown,
     DoneMeansStored, AgentDown, Unsaved
<1>9. QED
  BY <1>1, <1>5, <1>6, <1>7, <1>8 DEF TurnInv

LEMMA TeardownKeeps == ASSUME TurnInv, Teardown PROVE TurnInv'
<1>1. Drawing' /\ PipelineTypeOK' /\ granted' = granted /\ minted' = minted /\ step' = step
      /\ candidate' = candidate /\ control' = control
  BY PipelineStays DEF Teardown, TurnInv, TypeOK
<1>2. TypeOK'
  <2>1. UNCHANGED <<inbox, sent, connected, screen, told, failed, applied, why, question,
                    asked, tries, preview, firstOfRun, saving, stored, queue, timeUp>>
    BY DEF Teardown, client
  <2>2. CASE agent' = "cancelled" /\ UNCHANGED <<pc, listening, registered>>
    BY <1>1, <2>1, <2>2 DEF TurnInv, TypeOK
  <2>3. CASE pc' = "ended" /\ listening' = FALSE /\ registered' = FALSE /\ agent' = agent
    <3>1. /\ agent' \in {"none", "running", "cancelled"} \cup Finished
          /\ listening' \in BOOLEAN /\ registered' \in BOOLEAN
      BY <2>3 DEF TurnInv, TypeOK
    <3>2. QED
      BY <1>1, <2>1, <2>3, <3>1 DEF TurnInv, TypeOK
  <2>4. QED
    BY <2>2, <2>3 DEF Teardown
<1>3. Running' /\ Steering' /\ Showing'
  BY <1>1 DEF Teardown, TurnInv, Running, Steering, Showing, AgentDown, Finished, client
<1>4. Storing' /\ Telling'
  BY <1>1 DEF Teardown, TurnInv, Storing, Telling, CommandsAreHonoured, AcceptanceSurvives,
     AnswerFollowsSteers, SavedDiagramShown, DoneMeansStored, AgentDown, Finished, client
<1>5. QED
  BY <1>1, <1>2, <1>3, <1>4 DEF TurnInv

-----------------------------------------------------------------------------
(* The agent task.                                                         *)

LEMMA AgentDrawsKeeps == ASSUME TurnInv, AgentDraws PROVE TurnInv'
<1>1. agent = "running" /\ step # "off" /\ stored = NoTurn /\ told = "nothing"
      /\ pc \in {"wait", "classify", "teardown"}
  BY DEF AgentDraws, TurnInv, Running, Storing, Telling, AgentDown, Finished
<1>2. /\ Drawing' /\ PipelineTypeOK' /\ PipelineInv' /\ step' # "off"
      /\ granted' = granted /\ minted <= minted'
      /\ minted' # minted => step' = "render"
      /\ step' = "render" => candidate'.version = minted' /\ minted' = minted + 1
  BY <1>1, DrawKeeps DEF AgentDraws, TurnInv, TypeOK
<1>3. minted \in Nat /\ minted' \in Nat /\ screen \in 0..minted /\ firstOfRun \in 0..minted
  BY <1>2 DEF TurnInv, TypeOK, PipelineTypeOK
<1>4. /\ screen' \in 0..minted' /\ preview' \in BOOLEAN
      /\ \/ screen' = screen /\ preview' = preview
         \/ connected /\ screen' > firstOfRun /\ preview' = TRUE
         \/ ~connected /\ screen' = screen
  <2>1. CASE step = "render" /\ step' = "review"
    <3>1. candidate.version = minted /\ candidate.version > firstOfRun
      BY <1>1, <2>1 DEF TurnInv, Drawing, PipelineInv, Shown, Showing
    <3>2. preview' = TRUE /\ screen' = IF connected THEN candidate.version ELSE screen
      BY <2>1 DEF AgentDraws
    <3>3. CASE connected
      <4>1. screen' = minted /\ minted \in 0..minted' /\ screen' > firstOfRun
        BY <1>2, <1>3, <3>1, <3>2, <3>3
      <4>2. QED
        BY <3>2, <3>3, <4>1
    <3>4. CASE ~connected
      <4>1. screen' = screen /\ screen \in 0..minted'
        BY <1>2, <1>3, <3>2, <3>4
      <4>2. QED
        BY <3>2, <3>4, <4>1
    <3>5. QED
      BY <3>3, <3>4
  <2>2. CASE ~(step = "render" /\ step' = "review")
    <3>1. screen' = screen /\ preview' = preview
      BY <2>2 DEF AgentDraws, KeepScreen
    <3>2. QED
      BY <1>2, <1>3, <3>1 DEF TurnInv, TypeOK
  <2>3. QED
    BY <2>1, <2>2
<1>5. TypeOK'
  BY <1>2, <1>3, <1>4 DEF AgentDraws, TurnInv, TypeOK
<1>6. Running' /\ Steering'
  BY <1>1, <1>2 DEF AgentDraws, TurnInv, Running, Steering
<1>7. Showing'
  BY <1>1, <1>2, <1>3, <1>4 DEF AgentDraws, TurnInv, Showing
<1>8. Storing' /\ Telling'
  BY <1>1, <1>2 DEF AgentDraws, TurnInv, Drawing, Storing, Telling, CommandsAreHonoured,
     AcceptanceSurvives, AnswerFollowsSteers, SavedDiagramShown, DoneMeansStored, NoTurn
<1>9. QED
  BY <1>2, <1>5, <1>6, <1>7, <1>8 DEF TurnInv

LEMMA AgentAnswersKeeps == ASSUME TurnInv, AgentAnswers PROVE TurnInv'
<1>1. Drawing' /\ PipelineTypeOK' /\ granted' = granted /\ minted' = minted /\ step' = step
      /\ candidate' = candidate /\ control' = control
  BY PipelineStays DEF AgentAnswers, TurnInv, TypeOK
<1>2. TypeOK'
  BY <1>1 DEF AgentAnswers, TurnInv, TypeOK, client, loop, Finished
<1>3. Running' /\ Steering' /\ Showing'
  BY <1>1 DEF AgentAnswers, TurnInv, Running, Steering, Showing, AgentDown, Finished, client,
     loop
<1>4. Storing' /\ Telling'
  BY <1>1 DEF AgentAnswers, TurnInv, Storing, Telling, CommandsAreHonoured,
     AcceptanceSurvives, AnswerFollowsSteers, SavedDiagramShown, DoneMeansStored, AgentDown,
     Finished, client, loop
<1>5. QED
  BY <1>1, <1>2, <1>3, <1>4 DEF TurnInv

\* The agent task leaves the pipeline, by an exception or by a cancellation.
LEMMA UnwoundKeeps ==
  ASSUME TurnInv, Unwind, agent \in {"running", "cancelled"},
         agent' \in {"raised", "late", "gone"},
         UNCHANGED <<minted, offered, granted, client, loop, queue, listening, timeUp>>
  PROVE  TurnInv'
<1>1. Drawing' /\ PipelineTypeOK' /\ step' = "off"
  BY UnwindKeeps DEF TurnInv, TypeOK
<1>2. TypeOK'
  BY <1>1 DEF TurnInv, TypeOK, client, loop, Finished
<1>3. Running' /\ Showing'
  BY <1>1 DEF TurnInv, Running, Showing, AgentDown, Finished, client, loop
<1>4. Steering'
  BY DEF TurnInv, Running, Steering, AgentDown, Finished, client, loop
<1>5. Storing' /\ Telling'
  BY <1>1 DEF TurnInv, Drawing, Storing, Telling, CommandsAreHonoured, AcceptanceSurvives,
     AnswerFollowsSteers, SavedDiagramShown, DoneMeansStored, AgentDown, Finished, client,
     loop
<1>6. QED
  BY <1>1, <1>2, <1>3, <1>4, <1>5 DEF TurnInv

LEMMA AgentFailsKeeps == ASSUME TurnInv, AgentFails PROVE TurnInv'
  BY UnwoundKeeps DEF AgentFails

LEMMA AgentUnwindsKeeps == ASSUME TurnInv, AgentUnwinds PROVE TurnInv'
  BY UnwoundKeeps DEF AgentUnwinds
-----------------------------------------------------------------------------
(* The receiver task, the deadline and the client.                         *)

\* These see nothing of the turn: commands travel, the time passes, or nothing happens.
LEMMA TravelKeeps ==
  ASSUME TurnInv,
         inbox' \in Seq(Command), queue' \in Seq(Command), Len(queue') <= QueueSize,
         sent' \in 0..MaxCommands, listening' \in BOOLEAN, timeUp' \in BOOLEAN,
         UNCHANGED <<pipelineVars, connected, screen, told, failed, applied, loop, agent>>
  PROVE  TurnInv'
<1>1. Drawing' /\ PipelineTypeOK' /\ granted' = granted /\ minted' = minted /\ step' = step
      /\ candidate' = candidate /\ control' = control
  BY PipelineStays DEF TurnInv, TypeOK
<1>2. TypeOK'
  BY <1>1 DEF TurnInv, TypeOK, loop
<1>3. Running' /\ Steering' /\ Showing'
  BY <1>1 DEF TurnInv, Running, Steering, Showing, AgentDown, loop
<1>4. Storing' /\ Telling'
  BY <1>1 DEF TurnInv, Storing, Telling, CommandsAreHonoured, AcceptanceSurvives,
     AnswerFollowsSteers, SavedDiagramShown, DoneMeansStored, AgentDown, loop
<1>5. QED
  BY <1>1, <1>2, <1>3, <1>4 DEF TurnInv

LEMMA ReceiveKeeps == ASSUME TurnInv, Receive PROVE TurnInv'
<1>1. inbox \in Seq(Command) /\ inbox # << >> /\ queue \in Seq(Command)
      /\ Len(queue) < QueueSize /\ inbox' = Tail(inbox)
      /\ queue' = Append(queue, Head(inbox))
  BY DEF Receive, Room, TurnInv, TypeOK
<1>2. Len(queue') = Len(queue) + 1 /\ Len(queue) \in Nat
  BY <1>1
<1>3. inbox' \in Seq(Command) /\ queue' \in Seq(Command) /\ Len(queue') <= QueueSize
  BY <1>1, <1>2, TurnAssumption
<1>4. /\ sent' \in 0..MaxCommands /\ listening' \in BOOLEAN /\ timeUp' \in BOOLEAN
      /\ UNCHANGED <<pipelineVars, connected, screen, told, failed, applied, loop, agent>>
  BY DEF Receive, TurnInv, TypeOK
<1>5. QED
  BY <1>3, <1>4, TravelKeeps

LEMMA ReceiverEndsKeeps == ASSUME TurnInv, ReceiverEnds PROVE TurnInv'
<1>1. [type |-> "disconnect"] \in Command
  BY DEF Command
<1>2. queue' \in Seq(Command) /\ Len(queue') <= QueueSize
  BY <1>1, TurnAssumption DEF ReceiverEnds, DrainedQueue
<1>3. /\ inbox' \in Seq(Command) /\ sent' \in 0..MaxCommands /\ timeUp' \in BOOLEAN
      /\ listening' \in BOOLEAN
      /\ UNCHANGED <<pipelineVars, connected, screen, told, failed, applied, loop, agent>>
  BY DEF ReceiverEnds, client, TurnInv, TypeOK
<1>4. QED
  BY <1>2, <1>3, TravelKeeps

LEMMA ClientSendsKeeps ==
  ASSUME TurnInv, NEW command \in Command, ClientSends(command)
  PROVE  TurnInv'
<1>1. inbox' \in Seq(Command)
  BY DEF ClientSends, TurnInv, TypeOK
<1>2. sent' \in 0..MaxCommands
  BY TurnAssumption DEF ClientSends, TurnInv, TypeOK
<1>3. /\ queue' \in Seq(Command) /\ Len(queue') <= QueueSize /\ timeUp' \in BOOLEAN
      /\ listening' \in BOOLEAN
      /\ UNCHANGED <<pipelineVars, connected, screen, told, failed, applied, loop, agent>>
  BY DEF ClientSends, TurnInv, TypeOK
<1>4. QED
  BY <1>1, <1>2, <1>3, TravelKeeps

LEMMA ClientLeavesKeeps == ASSUME TurnInv, ClientLeaves PROVE TurnInv'
<1>1. Drawing' /\ PipelineTypeOK' /\ granted' = granted /\ minted' = minted /\ step' = step
      /\ candidate' = candidate /\ control' = control
  BY PipelineStays DEF ClientLeaves, TurnInv, TypeOK
<1>2. connected' = FALSE /\ UNCHANGED <<inbox, sent, screen, told, failed, applied, loop,
                                        agent, queue, listening, timeUp>>
  BY DEF ClientLeaves
<1>3. TypeOK'
  <2>1. connected' \in BOOLEAN
    BY <1>2
  <2>2. QED
    BY <1>1, <1>2, <2>1 DEF TurnInv, TypeOK, loop
<1>4. Running' /\ Steering' /\ Showing'
  BY <1>1, <1>2 DEF TurnInv, Running, Steering, Showing, AgentDown, loop
<1>5. Storing' /\ Telling'
  BY <1>1, <1>2 DEF TurnInv, Storing, Telling, CommandsAreHonoured, AcceptanceSurvives,
     AnswerFollowsSteers, SavedDiagramShown, DoneMeansStored, AgentDown, loop
<1>6. QED
  BY <1>1, <1>3, <1>4, <1>5 DEF TurnInv

LEMMA OffersAreCommands ==
  ASSUME TurnInv, NEW v \in offered
  PROVE  [type |-> "accept_preview", version |-> v] \in Command
<1>1. v \in Nat
  BY DEF TurnInv, TypeOK, PipelineTypeOK
<1>2. QED
  BY <1>1 DEF Command

LEMMA ClientStepKeeps == ASSUME TurnInv, ClientStep PROVE TurnInv'
<1>1. CASE ClientLeaves
  BY <1>1, ClientLeavesKeeps
<1>2. CASE ClientSends([type |-> "steer"]) \/ ClientSends([type |-> "stop"])
  <2>1. [type |-> "steer"] \in Command /\ [type |-> "stop"] \in Command
    BY DEF Command
  <2>2. QED
    BY <1>2, <2>1, ClientSendsKeeps
<1>3. CASE \E v \in offered : ClientSends([type |-> "accept_preview", version |-> v])
  BY <1>3, OffersAreCommands, ClientSendsKeeps
<1>4. QED
  BY <1>1, <1>2, <1>3 DEF ClientStep

LEMMA IdleKeeps == ASSUME TurnInv, TimerFires \/ UNCHANGED vars PROVE TurnInv'
<1>1. /\ inbox' \in Seq(Command) /\ queue' \in Seq(Command) /\ Len(queue') <= QueueSize
      /\ sent' \in 0..MaxCommands /\ listening' \in BOOLEAN /\ timeUp' \in BOOLEAN
      /\ UNCHANGED <<pipelineVars, connected, screen, told, failed, applied, loop, agent>>
  BY DEF TimerFires, vars, client, TurnInv, TypeOK
<1>2. QED
  BY <1>1, TravelKeeps

-----------------------------------------------------------------------------
(* The theorems.                                                           *)

LEMMA TurnStarts == Init => TurnInv
<1> SUFFICES ASSUME Init PROVE TurnInv
  OBVIOUS
<1>1. PipelineInv /\ PipelineTypeOK /\ step = "scope" /\ control = NoControl
      /\ granted = NoAcceptance /\ minted = 0
  BY InitEstablishes, InitTyped DEF Init, PipelineInit
<1>2. Drawing
  BY <1>1, ConstantsTyped DEF Drawing
<1>3. TypeOK
  <2>1. << >> \in Seq(Command) /\ Len(<< >>) = 0 /\ NoTurn \in Turn
    BY DEF NoTurn, Turn
  <2>2. QED
    <3>1. inbox \in Seq(Command) /\ queue \in Seq(Command) /\ Len(queue) <= QueueSize
      BY <2>1, TurnAssumption DEF Init
    <3>2. 0 \in 0..MaxSteers /\ 0 \in 0..MaxCommands /\ 0 \in Nat /\ 0 \in 0..minted
      BY <1>1, TurnAssumption
    <3>3. QED
      BY <1>1, <2>1, <3>1, <3>2 DEF Init, TypeOK
<1>4. Running /\ Steering /\ Showing
  BY <1>1 DEF Init, Running, Steering, Showing, AgentDown
<1>5. Storing /\ Telling
  BY <1>1 DEF Init, Storing, Telling, CommandsAreHonoured, AcceptanceSurvives,
     AnswerFollowsSteers, SavedDiagramShown, DoneMeansStored
<1>6. QED
  BY <1>2, <1>3, <1>4, <1>5 DEF TurnInv

LEMMA TurnInvariant == Spec => []TurnInv
<1>1. TurnInv /\ [Next]_vars => TurnInv'
  <2> SUFFICES ASSUME TurnInv, [Next]_vars PROVE TurnInv'
    OBVIOUS
  <2>1. CASE LoopStep
    BY <2>1, StartRunKeeps, StartTooLateKeeps, OnTimeoutKeeps, OnAcceptKeeps, OnStopKeeps,
       OnSteerKeeps, ClassifyKeeps, AgentStoppedKeeps, OnResultKeeps, StoreKeeps,
       ReplyKeeps, TeardownKeeps DEF LoopStep
  <2>2. CASE AgentStep \/ AgentUnwinds
    BY <2>2, AgentDrawsKeeps, AgentAnswersKeeps, AgentFailsKeeps, AgentUnwindsKeeps
       DEF AgentStep
  <2>3. CASE ReceiverStep
    BY <2>3, ReceiveKeeps, ReceiverEndsKeeps DEF ReceiverStep
  <2>4. CASE ClientStep
    BY <2>4, ClientStepKeeps
  <2>5. CASE TimerFires \/ UNCHANGED vars
    BY <2>5, IdleKeeps
  <2>6. QED
    BY <2>1, <2>2, <2>3, <2>4, <2>5 DEF Next
<1>2. QED
  BY TurnStarts, <1>1, PTL DEF Spec

\* Every variable of a turn keeps its type, for any limits: no command is lost to a full
\* queue, and no run steers more often than the limit.
THEOREM TurnTypeCorrect == Spec => []TypeOK
<1>1. TurnInv => TypeOK
  BY DEF TurnInv
<1>2. QED
  BY <1>1, TurnInvariant, PTL

\* However commands, the agent and the deadline interleave, a granted acceptance is never
\* steered away and the stored answer is of every acknowledged steer.
THEOREM CommandsHonoured == Spec => []CommandsAreHonoured
<1>1. TurnInv => CommandsAreHonoured
  BY DEF TurnInv, Storing
<1>2. QED
  BY <1>1, TurnInvariant, PTL

\* No stale preview stays on the screen, and "done" without an error is a stored turn,
\* whatever failed, was cancelled or came too late.
THEOREM ClientToldTheStore == Spec => []ClientSeesTheStore
<1>1. TurnInv => ClientSeesTheStore
  <2> SUFFICES ASSUME TurnInv PROVE SteeringClearsPreviews
    BY DEF TurnInv, Telling, ClientSeesTheStore
  <2>1. QED
    BY DEF TurnInv, Showing, SteeringClearsPreviews
<1>2. QED
  BY <1>1, TurnInvariant, PTL

\* The record that keeps the conversation from being evicted is there for as long as the
\* agent task is, its cancellation included.
THEOREM AgentAlwaysCovered == Spec => []AgentCovered
<1>1. TurnInv => AgentCovered
  BY DEF TurnInv, Running, AgentCovered
<1>2. QED
  BY <1>1, TurnInvariant, PTL
=============================================================================
