---------------------------- MODULE AgentWorkflow ----------------------------
(***************************************************************************)
(* One agent run (backend/agent/graph.py, run_agent): the workflow that    *)
(* routes a message, drafts a diagram, renders it in the user's browser,   *)
(* has it reviewed, repairs it and explains it.  The lane modelled in full *)
(* is the legacy one (graph_worker.py and graph_critic.py); the staged     *)
(* lane is one step here and StagedPipeline in full.  The deadlines of     *)
(* agent/deadlines.py are kept in units of time, and the review budget     *)
(* (agent/graph_review_budget.py) outlives a run that a steering message   *)
(* cancels and starts again.                                               *)
(*                                                                         *)
(* A diagram is a number: 0 is none, 1 the one the thread has, the others  *)
(* are the candidates in the order they were made.                         *)
(***************************************************************************)
EXTENDS Integers, FiniteSets, FiniteSetsExt

CONSTANTS
  MaxRepairs,       \* GRAPH_MAX_REPAIR_ROUNDS
  MaxProtocol,      \* GRAPH_MAX_PROTOCOL_CORRECTIONS
  MaxContract,      \* GRAPH_MAX_CONTRACT_CORRECTIONS
  MaxCritic,        \* GRAPH_MAX_CRITIC_CALLS
  Reserve,          \* reserves of config.py: critic, patch, synthesis, finalization, orchestration
  Cap,              \* longest time of a stage: design, critic, patch, architect, render
  StartTimes,       \* bound: time that may be left when the run starts
  MaxSteers         \* bound: runs cancelled and started again

ASSUME WorkflowAssumption ==
  /\ {MaxRepairs, MaxProtocol, MaxContract, MaxCritic, MaxSteers} \subseteq Nat
  /\ Reserve \in [{"critic", "patch", "synthesis", "finalization", "orchestration"} -> Nat]
  /\ Cap \in [{"design", "critic", "patch", "architect", "render"} -> Nat]
  /\ StartTimes \subseteq Nat

\* A review may take time at all, and more is reserved for it than the browser check of a
\* repaired diagram takes (config.py: 60 s against 15 s).
ASSUME ReserveAssumption == Cap.critic > 0 /\ Reserve.critic > Cap.render

VARIABLES
  turn,     \* what the run was asked for
  pc,       \* the node that runs next, or the call it waits for
  s,        \* the graph fields of AgentState
  critic,   \* the correction the call in progress asks for
  budget,   \* GraphReviewBudget of the request
  calls,    \* history: critic calls sent, counted up to one beyond the ceiling
  left,     \* time until the terminal deadline
  limit,    \* time left when the review in progress times out
  minted,   \* candidates made so far in the request
  passed,   \* history: candidates a reviewer approved
  fits,     \* history: candidates whose layout the browser check admitted
  steers    \* runs of the request cancelled so far

vars == <<turn, pc, s, critic, budget, calls, left, limit, minted, passed, fits, steers>>

None == 0
Prior(t) == IF t.prior = "none" THEN None ELSE 1

\* The requests run_agent lets through to its workflow: a creation starts without a
\* diagram, and without a diagram there is no other intent but "off".  The legacy lane
\* also serves whatever changes no diagram.
Turns == {t \in [lane : {"legacy", "staged"}, intent : {"create", "edit", "none"},
                 prior : {"none", "concept", "applied"}, contract : {0, 1},
                 off : BOOLEAN, prototype : BOOLEAN] :
            /\ t.intent = "create" => t.prior = "none"
            /\ t.intent = "none" => t.off \/ t.prior # "none"
            /\ t.off => t.intent = "none"
            /\ t.contract = 1 => t.prior = "applied"
            /\ t.lane = "staged" => t.intent # "none"}

\* A turn without an intent changes only a concept diagram.
Applied(g) == IF g = 1 THEN turn.prior = "applied" ELSE g # None /\ turn.intent # "none"

Steps == {"route", "staged", "draft", "render", "architect", "frame", "review", "critic",
          "judged", "gate", "revise", "correct", "reject", "synthesise", "ended", "raised"}

TypeOK ==
  /\ turn \in Turns /\ pc \in Steps
  /\ s \in [graph : Nat, contract : Nat, changed : BOOLEAN, rounds : 0..MaxRepairs,
            op : {"none", "candidate", "applied", "failed", "needs_clarification"},
            pub : {"none", "unchanged", "preserved", "withheld", "unreviewed", "approved",
                   "user_accepted"},
            review : {"none", "passed", "local", "terminal"}, rendered : Nat,
            pending : BOOLEAN, parallel : BOOLEAN]
  /\ critic \in {"off", "none", "protocol", "contract"}
  /\ budget \in [critic : 0..MaxCritic, protocol : 0..MaxProtocol, contract : 0..MaxContract]
  /\ {calls, left, limit, minted, steers} \subseteq Nat
  /\ passed \subseteq 1..minted /\ fits \subseteq 1..minted

\* The state run_agent starts its workflow with.  An edit without an applied diagram has
\* failed before it starts.
Fresh(t) ==
  [graph |-> Prior(t), contract |-> t.contract, changed |-> FALSE, rounds |-> 0,
   op |-> IF t.intent = "edit" /\ t.prior # "applied" THEN "failed" ELSE "none",
   pub |-> IF t.prior = "none" THEN "none" ELSE "unchanged", review |-> "none",
   rendered |-> None, pending |-> FALSE, parallel |-> FALSE]

Init ==
  /\ turn \in Turns /\ left \in StartTimes
  /\ pc = "route" /\ s = Fresh(turn) /\ critic = "off"
  /\ budget = [critic |-> 0, protocol |-> 0, contract |-> 0]
  /\ calls = 0 /\ limit = 0 /\ minted = 1 /\ passed = {} /\ fits = {} /\ steers = 0

Go(step) == pc' = step
Quiet == UNCHANGED <<turn, critic, budget, calls, limit, passed, fits, steers>>

\* Mutant: only the diagram is put back.
RestoredWithoutContract(pub) ==
  [s EXCEPT !.graph = Prior(turn), !.changed = FALSE, !.pub = pub]

\* _restore_approved_graph_state: the diagram and the contract the run began with.
Restored(pub) ==
  [s EXCEPT !.graph = Prior(turn), !.contract = turn.contract, !.changed = FALSE, !.pub = pub]
Kept == IF Prior(turn) # None THEN "preserved" ELSE "none"

\* _failed_graph_operation: a turn without an intent has no operation to fail.
FailedOp == IF s.op = "none" /\ turn.intent = "none" THEN "none" ELSE "failed"

(***************************************************************************)
(* Deadlines.                                                              *)
(***************************************************************************)

AfterReview == Reserve.synthesis + Reserve.finalization
Repair == Reserve.patch + Reserve.critic
CorrectionsLeft == MaxContract - budget.contract

\* _stage_timeout: what a stage may take without touching the reserves of the stages
\* after it; nothing left means that it is not admitted.
Allowed(cap, downstream) ==
  Min({cap, Max({0, left - downstream - Reserve.orchestration})})

\* Mutant: the review leaves no time for the explanation.
RepairsOnlyReserved ==
  (MaxRepairs - s.rounds + IF s.rounds < MaxRepairs /\ ~s.pending THEN CorrectionsLeft ELSE 0)
    * Repair

CriticReserve ==
  AfterReview
    + (MaxRepairs - s.rounds + IF s.rounds < MaxRepairs /\ ~s.pending THEN CorrectionsLeft ELSE 0)
        * Repair

PatchReserve ==
  Reserve.critic + AfterReview + (MaxRepairs - s.rounds - 1 + CorrectionsLeft) * Repair

ArchitectReserve == Reserve.critic + AfterReview + (MaxRepairs + MaxContract) * Repair

CriticTime == Allowed(Cap.critic, CriticReserve)
PatchTime == Allowed(Cap.patch, PatchReserve)
SynthesisTime == Allowed(Reserve.synthesis, Reserve.finalization)

(***************************************************************************)
(* Routing, the staged lane and the draft.                                 *)
(***************************************************************************)

\* route: a short question is answered at once; a message that turns out to ask for a new
\* diagram, or whose extension cannot be planned, is answered with a question.
Answered ==
  /\ pc = "route" /\ turn.intent = "none"
  /\ \/ Go("ended") /\ UNCHANGED s
     \/ /\ ~turn.off /\ Go("ended")
        /\ s' = [s EXCEPT !.op = "needs_clarification"]
  /\ UNCHANGED <<left, minted>> /\ Quiet

Routed ==
  /\ pc = "route" /\ Go(IF turn.lane = "staged" THEN "staged" ELSE "draft")
  /\ UNCHANGED <<s, left, minted>> /\ Quiet

\* run_staged_graph_pipeline: what it may return.
Staged ==
  /\ pc = "staged" /\ Go("synthesise")
  /\ \/ /\ s.op # "failed" /\ minted' = minted + 1
        /\ \E pub \in {"approved", "user_accepted"} :
             s' = [s EXCEPT !.graph = minted', !.contract = minted', !.changed = TRUE,
                            !.op = "applied", !.pub = pub]
     \/ /\ s' = [Restored(IF Prior(turn) # None THEN "preserved" ELSE "withheld")
                   EXCEPT !.op = "failed"]
        /\ UNCHANGED minted
     \/ /\ s.op # "failed" /\ UNCHANGED minted
        /\ s' = [Restored(s.pub) EXCEPT !.op = "needs_clarification"]
  /\ \E d \in 0..Cap.design : left' = Max({0, left - d})
  /\ Quiet

\* _draft_graph_publication
DraftPublication(r) ==
  IF r.changed THEN "unreviewed"
  ELSE IF r.op = "failed" THEN Kept
  ELSE IF r.graph # None THEN "unchanged" ELSE "none"

\* apply_graph_worker with a new diagram: a contract belongs to a diagram and goes with it.
Drawn(g) == [s EXCEPT !.graph = g, !.contract = None, !.changed = TRUE,
                      !.op = IF turn.intent = "none" THEN @ ELSE "candidate"]

Drafting == pc = "draft" /\ \E d \in 0..Cap.design : left' = Max({0, left - d})

DraftEnds(r) ==
  /\ s' = [r EXCEPT !.pub = DraftPublication(r)]
  /\ minted' = IF r.changed THEN minted + 1 ELSE minted
  /\ Go(IF r.op = "failed" THEN "reject" ELSE "render")
  /\ Quiet

\* A design: a new topology, corrected once when it is invalid, or a patch of the saved one.
DraftDesign ==
  Drafting /\ turn.intent # "none" /\ s.op # "failed" /\ DraftEnds(Drawn(minted + 1))

\* No valid design, or a patch without effect.
DraftFails ==
  Drafting /\ turn.intent # "none" /\ s.op # "failed" /\ DraftEnds([s EXCEPT !.op = "failed"])

\* Without an intent a concept diagram may be selected anew.
DraftConcept ==
  Drafting /\ turn.intent = "none" /\ ~turn.off /\ turn.prior = "concept"
    /\ DraftEnds(Drawn(minted + 1))

\* The worker is not asked, or keeps what there is: an applied diagram, or the target that
\* an edit does not have.
DraftKept == Drafting /\ (turn.intent = "none" \/ s.op = "failed") /\ DraftEnds(s)

\* The draft is not admitted, or does not end in time.
DraftTimesOut ==
  /\ Drafting /\ s' = [Restored(Kept) EXCEPT !.op = FailedOp]
  /\ Go(IF s'.op = "failed" THEN "reject" ELSE "render")
  /\ UNCHANGED minted /\ Quiet

(***************************************************************************)
(* Rendering, the architect and the early frame.                           *)
(***************************************************************************)

AfterRender == IF s.rounds > 0 THEN "review" ELSE IF turn.prototype THEN "review" ELSE "architect"

\* graph_render_gate_node: what changes no applied diagram passes; a candidate is rendered
\* in the browser, and its picture belongs to this very candidate.
Render ==
  /\ pc = "render" /\ \E d \in 0..Cap.render : left' = Max({0, left - d})
  /\ \/ /\ ~(s.changed /\ Applied(s.graph)) /\ Go(AfterRender)
        /\ s' = [s EXCEPT !.parallel = s.rounds = 0 /\ turn.prototype] /\ UNCHANGED fits
     \/ /\ s.changed /\ Applied(s.graph) /\ Go(AfterRender)
        /\ s' = [s EXCEPT !.rendered = s.graph, !.parallel = s.rounds = 0 /\ turn.prototype]
        /\ fits' = fits \cup {s.graph}
     \/ /\ s.changed /\ Applied(s.graph) /\ Go("reject")
        /\ s' = [s EXCEPT !.review = "terminal", !.pending = FALSE] /\ UNCHANGED fits
  /\ UNCHANGED <<turn, critic, budget, calls, limit, minted, passed, steers>>

\* architecture_plan: the role is asked for designs only, and only while it leaves the
\* review, the repairs and the explanation their time.
ArchitectTime == Allowed(Cap.architect, ArchitectReserve)

Architect ==
  /\ pc = "architect" /\ \E d \in 0..ArchitectTime : left' = left - d
  /\ \/ Go("frame") /\ UNCHANGED s
     \/ turn.intent # "none" /\ Go("reject") /\ s' = [s EXCEPT !.review = "terminal"]
  /\ UNCHANGED minted /\ Quiet

Frame ==
  /\ pc = "frame" /\ Go(IF s.parallel THEN "gate" ELSE "review")
  /\ UNCHANGED <<s, left, minted>> /\ Quiet

(***************************************************************************)
(* The review and its budget.                                              *)
(***************************************************************************)

CanClaim(kind) ==
  /\ budget.critic < MaxCritic
  /\ CASE kind = "protocol" -> budget.protocol < MaxProtocol
       [] kind = "contract" -> budget.contract < MaxContract
       [] OTHER -> TRUE

\* Mutant: a call is charged with its answer, which no longer knows it.
ChargedOnAnswer(kind) == budget

\* claim_provider_call: charged when the call is sent, so that no cancellation undoes it.
Charged(kind) ==
  [budget EXCEPT !.critic = @ + 1,
                 !.protocol = IF kind = "protocol" THEN @ + 1 ELSE @,
                 !.contract = IF kind = "contract" THEN @ + 1 ELSE @]

Send(kind) ==
  /\ CanClaim(kind) /\ budget' = Charged(kind) /\ calls' = Min({calls + 1, MaxCritic + 1})
  /\ critic' = kind /\ Go("critic")

\* Mutant: a reviewer that does not answer has nothing against the candidate.
ReviewedFailOpen(answer, op) ==
  [s EXCEPT !.review = IF answer = "terminal" THEN "passed" ELSE answer, !.pending = FALSE,
            !.op = IF answer # "local" /\ op = "candidate" THEN "applied" ELSE op,
            !.pub = IF ~s.changed THEN IF s.graph # None THEN "unchanged" ELSE "none"
                    ELSE IF answer # "local" THEN "approved" ELSE "withheld"]

\* The review ends with its answer; a reviewer that did not answer is terminal.  An
\* approved candidate is applied, any other diagram that changed is withheld.
Reviewed(answer, op) ==
  [s EXCEPT !.review = answer, !.pending = FALSE,
            !.op = IF answer = "passed" /\ op = "candidate" THEN "applied" ELSE op,
            !.pub = IF ~s.changed THEN IF s.graph # None THEN "unchanged" ELSE "none"
                    ELSE IF answer = "passed" THEN "approved" ELSE "withheld"]

\* run_graph_review without a model: nothing changed, or the diagram is no applied one.
Accepted ==
  /\ pc = "review" /\ ~(s.changed /\ Applied(s.graph))
  /\ s.changed => CriticTime > 0
  /\ s' = Reviewed("passed", s.op) /\ Go("judged")
  /\ UNCHANGED <<turn, critic, budget, calls, left, limit, minted, passed, fits, steers>>

\* The review begins: its first call is a contract correction when a patch broke its
\* contract.
Review ==
  /\ pc \in {"review", "correct"} /\ s.changed /\ Applied(s.graph) /\ CriticTime > 0
  /\ Send(IF s.pending THEN "contract" ELSE "none")
  /\ limit' = left - CriticTime
  /\ UNCHANGED <<turn, s, left, minted, passed, fits, steers>>

\* The review is not admitted, or the budget of the request is spent.
Unreviewed ==
  /\ pc \in {"review", "correct"} /\ s.changed
  /\ CriticTime = 0 \/ (Applied(s.graph) /\ ~CanClaim(IF s.pending THEN "contract" ELSE "none"))
  /\ s' = Reviewed("terminal", s.op) /\ Go("judged")
  /\ UNCHANGED <<turn, critic, budget, calls, left, limit, minted, passed, fits, steers>>

\* A completed answer to a contract correction makes the operation a candidate again (for a
\* terminal one it makes no difference: the operation fails).
OpAfter(answer) == IF s.pending /\ answer # "terminal" THEN "candidate" ELSE s.op

\* A call answers.  What breaks the protocol is corrected once, and what asks for more than
\* a local repair once, unless this review is such a correction already; a repair of the
\* same blocker is not asked for twice.  A review that is out of time, or whose answer is
\* no review, is terminal.
Answer ==
  /\ pc = "critic" /\ \E d \in 0..(left - limit) : left' = left - d
  /\ \/ \E answer \in {"passed", "local", "terminal"} :
          /\ s' = Reviewed(answer, OpAfter(answer))
          /\ passed' = IF answer = "passed" THEN passed \cup {s.graph} ELSE passed
          /\ critic' = "off" /\ Go("judged") /\ UNCHANGED <<budget, calls>>
     \/ /\ critic = "none" \/ (critic = "contract" /\ s.pending)
        /\ Send("protocol") /\ UNCHANGED <<s, passed>>
     \/ /\ critic # "contract" /\ ~s.pending
        /\ Send("contract") /\ UNCHANGED <<s, passed>>
  /\ UNCHANGED <<turn, limit, minted, fits, steers>>

\* _route_after_review
Verdict ==
  IF s.op = "failed" /\ s.rounds = 0 THEN "reject"
  ELSE IF ~s.changed \/ s.review = "passed" THEN "synthesise"
  ELSE IF s.review = "local" /\ s.rounds < MaxRepairs THEN "revise" ELSE "reject"

Judged ==
  /\ pc \in {"judged", "gate"} /\ ~(pc = "judged" /\ s.parallel)
  /\ Go(Verdict) /\ UNCHANGED <<s, left, minted>> /\ Quiet

\* parallel_initial_review: the architect works beside the first review, and a design
\* without a plan is withheld whatever the reviewer said.
JudgedWithPlan ==
  /\ pc = "judged" /\ s.parallel /\ \E d \in 0..ArchitectTime : left' = left - d
  /\ \/ /\ Go(IF s.review = "passed" THEN "frame" ELSE Verdict)
        /\ s' = [s EXCEPT !.parallel = s.review = "passed"]
     \/ /\ turn.intent # "none" /\ Go("reject")
        /\ s' = [s EXCEPT !.parallel = FALSE, !.review = "terminal",
                          !.pub = IF s.changed THEN "withheld" ELSE "none"]
  /\ UNCHANGED minted /\ Quiet

(***************************************************************************)
(* Repairs, the rejection and the explanation.                             *)
(***************************************************************************)

\* Mutant: a rejected patch puts the saved diagram under review.
PatchFromSaved(pending) ==
  [s EXCEPT !.op = "failed", !.pub = "unreviewed", !.pending = pending, !.graph = Prior(turn)]

\* A rejected patch leaves the candidate under review as it was.
PatchRejected(pending) ==
  [s EXCEPT !.op = "failed", !.pub = "unreviewed", !.pending = pending]

\* revise_graph: a repair that is not admitted, or not in time, restores the saved diagram.
Unrepaired ==
  /\ pc = "revise" /\ left' = left - PatchTime
  /\ s' = [Restored(Kept) EXCEPT !.op = "failed"] /\ Go("reject")
  /\ UNCHANGED minted /\ Quiet

Repairing == pc = "revise" /\ PatchTime > 0 /\ \E d \in 0..PatchTime : left' = left - d

\* A patch within the reviewer's contract is a new candidate, even if it is not good enough.
Repaired ==
  /\ Repairing /\ minted' = minted + 1 /\ Go("render")
  /\ s' = [Drawn(minted') EXCEPT !.rounds = @ + 1, !.pub = "unreviewed"]
  /\ Quiet

\* A patch outside it is corrected when it says where and the reviewer may be asked again.
RepairRejected ==
  /\ Repairing /\ UNCHANGED minted
  /\ \E pending \in {FALSE, CanClaim("contract")} :
       s' = PatchRejected(pending) /\ Go(IF pending THEN "correct" ELSE "reject")
  /\ Quiet

Reject ==
  /\ pc = "reject" /\ Go("synthesise")
  /\ s' = [Restored(IF Prior(turn) # None THEN "preserved"
                    ELSE IF s.pub \in {"unreviewed", "withheld"} \/ s.changed THEN "withheld"
                    ELSE "none")
             EXCEPT !.op = IF @ = "none" THEN @ ELSE "failed"]
  /\ UNCHANGED <<left, minted>> /\ Quiet

Told == \/ s.op \in {"failed", "needs_clarification"}
        \/ s.pub \in {"preserved", "withheld", "unreviewed"}

\* _withhold_unreviewed_graph
FailClosed ==
  IF s.pub \notin {"unreviewed", "withheld"} THEN s
  ELSE [s EXCEPT !.graph = Prior(turn), !.changed = FALSE,
                 !.pub = IF Prior(turn) # None THEN "preserved" ELSE "withheld"]

\* synthesise: a failure or a question is told without a model, the rest is explained by one.
\* A staged diagram that has no explanation is still shown, any other turn fails with it.
Synthesise ==
  /\ pc = "synthesise"
  /\ \/ (Told \/ SynthesisTime > 0) /\ Go("ended")
     \/ ~Told /\ Go(IF turn.lane = "staged" /\ s.pub \in {"approved", "user_accepted"}
                      THEN "ended" ELSE "raised")
  /\ s' = FailClosed /\ UNCHANGED <<left, minted>> /\ Quiet

\* A steering message cancels the run wherever it is; the request goes on with the same
\* budget, the saved diagram and a request read again.
Steer ==
  /\ pc \notin {"ended", "raised"} /\ steers < MaxSteers /\ steers' = steers + 1
  /\ \E t \in Turns :
       /\ t.prior = turn.prior /\ t.contract = turn.contract
       /\ turn' = t /\ s' = Fresh(t)
  /\ Go("route") /\ critic' = "off"
  /\ UNCHANGED <<budget, calls, left, limit, minted, passed, fits>>

Work ==
  \/ Answered \/ Routed \/ Staged \/ DraftDesign \/ DraftFails \/ DraftConcept \/ DraftKept
  \/ DraftTimesOut \/ Render \/ Architect \/ Frame
  \/ Accepted \/ Review \/ Unreviewed \/ Answer \/ Judged \/ JudgedWithPlan
  \/ Unrepaired \/ Repaired \/ RepairRejected \/ Reject \/ Synthesise

Next == Work \/ Steer

\* A run is not steered for ever, and its own steps are awaited calls that return or time out.
Spec == Init /\ [][Next]_vars /\ WF_vars(Work)

(***************************************************************************)
(* Properties.                                                             *)
(***************************************************************************)

\* A design the legacy lane publishes as approved is the very candidate a reviewer
\* approved, and its own layout is the one the browser check admitted.
PublishedWasReviewed ==
  pc \in {"synthesise", "ended"} /\ s.pub = "approved" /\ turn.lane = "legacy" /\ Applied(s.graph)
    => s.graph \in passed \cap fits

\* The picture a reviewer is shown is the picture of the candidate it judges, and the
\* candidate is still unpublished.
ReviewSeesItsCandidate ==
  pc = "critic" => s.rendered = s.graph /\ s.pub = "unreviewed" /\ s.graph > 1

\* What a run returns belongs together: a failed operation returns the saved diagram with
\* its contract unchanged, and a contract is the contract of the diagram beside it.
ReturnIsWhole ==
  pc = "ended" =>
    /\ s.op = "failed" \/ s.pub \in {"preserved", "withheld"} =>
         s.graph = Prior(turn) /\ s.contract = turn.contract /\ ~s.changed
    /\ s.contract # None => s.contract = s.graph
    /\ s.pub # "unreviewed"

\* The reviewer is called at most MaxCritic times in a request, however often the run is
\* cancelled and started again.
CallsWithinCeiling == calls <= MaxCritic

\* The reserves hold: the review of a repaired or rejected patch is admitted, and the
\* explanation of a diagram the legacy lane approved has the time set aside for it.
ReservesHold ==
  /\ pc = "correct" \/ (pc = "review" /\ s.rounds > 0) => CriticTime > 0
  /\ pc = "synthesise" /\ turn.lane = "legacy" /\ s.pub = "approved"
       => SynthesisTime = Reserve.synthesis

\* A run ends, whatever its reviewer asks for.
RunEnds == <>(pc \in {"ended", "raised"})

\* A repair is made only when the call that reviews it is left in the budget: "two reviewed
\* repairs and one failed-patch contract correction" fit the request.
RepairCanBeReviewed == pc = "render" /\ s.rounds > 0 => budget.critic < MaxCritic

\* Only what was reviewed is published, on its own picture, and what is returned belongs
\* together (run_graph_review, graph_critic_node, synthesise).
ReviewsAreOfTheResult == PublishedWasReviewed /\ ReviewSeesItsCandidate /\ ReturnIsWhole

\* The calls and the time set aside for reviews are neither overspent nor spent on
\* anything else (graph_review_budget.py, deadlines.py).
BudgetsHold == CallsWithinCeiling /\ ReservesHold
==============================================================================
