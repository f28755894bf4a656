----------------------------- MODULE MCContracts -----------------------------
(***************************************************************************)
(* What becomes of one diagram, one part at a time: the run of the staged   *)
(* pipeline (StagedPipeline), the corrections of a stage under review       *)
(* (StageCorrections), the requests that create and edit a diagram          *)
(* (DiagramEdits), the words its user writes in it and the patches of the   *)
(* critic (DiagramPatches), on small diagrams, and the records that protect *)
(* its thread from retention (ThreadRetention), for one or two threads.  A  *)
(* behaviour runs one of them and leaves the others as they are.            *)
(***************************************************************************)
EXTENDS StagedPipeline, DiagramEdits, StageCorrections, MCPatches

CONSTANTS x1, x2, t1, t2, Nobody

VARIABLES
  part,  \* the part that runs
  row, kept, created, seen, clock, lock, turn, target, stamp, record, deleted
         \* ThreadRetention
VARIABLES diagram, by, demand, changes  \* DiagramPatches

\* Two threads and two turns, room for one conversation.
Records == INSTANCE ThreadRetention WITH
  Threads <- {x1, x2}, Turns <- {t1, t2}, MaxThreads <- 1, MaxClock <- 3, saved <- kept

\* Two changes of a diagram of up to five components.
Patches == INSTANCE DiagramPatches WITH
  Drawn <- MCDrawn, Demands <- MCDemands, NewIds <- MCNewIds, NewGroupIds <- MCNewGroupIds,
  Writings <- MCWritings, Selections <- MCSelections, NodeLimit <- 5, EdgeLimit <- 4,
  MaxSteps <- 2

(* Edits. *)

Runtime == <<1, "runtime">>
Data    == <<1, "data">>

Row(label, type, parent, group, primary) ==
  [label |-> label, type |-> type, parent |-> parent, group |-> group, primary |-> primary]

Service(label, group) == Row(label, "service", 0, group, TRUE)
Part(label, parent)   == Row(label, "component", parent, Runtime, FALSE)

MCCreations == {
  [root |-> 2, components |-> <<Part(1, 2), Service(1, Runtime)>>],
  [root |-> 1, components |-> <<Service(2, Runtime), Service(1, Data)>>],
  [root |-> 1, components |-> <<Service(2, Runtime), Part(1, 1), Service(1, Data)>>]}

MCNewComponents == {Row(1, "service", 0, Data, TRUE), Row(1, "component", 2, Runtime, FALSE)}

(* Corrections: one stage with three services and a component, one with two *)
(* components that exchange requests and replies.                           *)

MCRequests ==
  {[stage |-> "components", maturity |-> "prototype", capabilities |-> {}, recovery |-> r] :
     r \in BOOLEAN}
  \cup {[stage |-> "connections", maturity |-> "prototype", capabilities |-> {},
          recovery |-> r] : r \in BOOLEAN}
  \cup {[stage |-> "connections", maturity |-> "production",
          capabilities |-> {"retrieval_or_reuse"}, recovery |-> TRUE]}

MCComponentRules == {"objective_fidelity", "brief_coverage"}
MCConnectionRules == {"edge_semantics"}

MCCalls == [components |-> 2, connections |-> 3]

MCAccepted == <<[primary |-> TRUE], [primary |-> TRUE]>>

Owner(label) == [label |-> label, type |-> "service", parent |-> 0, primary |-> label < 3]
Member(label, parent) == [label |-> label, type |-> "component", parent |-> parent,
                        primary |-> FALSE]
X(s, t, label, reply) == [source |-> s, target |-> t, label |-> label, reply |-> reply]
E(s, t, label) == [source |-> s, target |-> t, label |-> label]

MCWritten ==
  [components |->
     {[root |-> 1, records |-> <<Owner(1), Owner(2), Owner(3), Member(4, 2)>>],
      [root |-> 2, records |-> <<Owner(1), Owner(2)>>]},
   connections |->
     {<<X(1, 2, 1, 1)>>, <<X(1, 2, 1, 2), X(2, 1, 1, 0)>>, <<X(1, 2, 1, 0), X(1, 2, 2, 0)>>}]

MCRewrites ==
  [components  |-> {Owner(5), Member(4, 1)},
   connections |-> {E(2, 1, 2), E(1, 2, 3)},
   exchanges   |-> {[label |-> l, reply |-> r] : l \in 1..2, r \in {0, 2}}]

MCAdded ==
  [components  |-> {Owner(6), Member(7, 2)},
   connections |-> {E(2, 1, 3)},
   exchanges   |-> {X(2, 1, 3, 3)}]

(* The parts. *)

ofRecords ==
  <<row, kept, created, seen, clock, lock, turn, target, stamp, record, deleted>>
ofPatches == <<diagram, by, demand, changes>>

\* What does not run is in one of its first states.
PartsInit ==
  /\ part \in {"pipeline", "edits", "corrections", "records", "patches"}
  /\ PipelineInit /\ EditInit /\ CorrectionInit /\ Records!Init
  /\ Patches!PatchInit
  /\ part # "pipeline" => job = [kind |-> "create", overview |-> FALSE]
  /\ part # "corrections" =>
       request = [stage |-> "components", maturity |-> "prototype", capabilities |-> {},
                  recovery |-> TRUE]
  /\ part # "records" => clock = 0 /\ target = [t \in {t1, t2} |-> x1]
  /\ part # "patches" => diagram = MCDrawing(TRUE)

PartsNext ==
  /\ UNCHANGED part
  /\ \/ part = "pipeline" /\ PipelineNext
     \/ part # "pipeline" /\ UNCHANGED pipelineVars
  /\ \/ part = "edits" /\ EditNext
     \/ part # "edits" /\ UNCHANGED editVars
  /\ \/ part = "corrections" /\ CorrectionNext
     \/ part # "corrections" /\ UNCHANGED correctionVars
  /\ \/ part = "records" /\ Records!Next
     \/ part # "records" /\ UNCHANGED ofRecords
  /\ \/ part = "patches" /\ Patches!PatchNext
     \/ part # "patches" /\ UNCHANGED ofPatches

\* The fairness of the pipeline and of retention, of which no step but the pipeline's
\* can be taken in a first state.
PartsSpec ==
  /\ PartsInit
  /\ [][PartsNext]_<<part, pipelineVars, editVars, correctionVars, ofRecords, ofPatches>>
  /\ WF_pipelineVars(part = "pipeline" /\ PipelineStep)
  /\ Records!Fairness

-----------------------------------------------------------------------------

\* The pipeline comes to its end, and every record of an active stream stops to
\* protect its thread.
WorkComesToAnEnd == (<>(part = "pipeline" => step = "ended")) /\ Records!RecordsEnd

\* A diagram under hand edits, patches and selections stays one connected diagram, in
\* the form in which it is stored; it claims no source for what its user wrote, keeps
\* that, and changes only where a contract says so.
PatchesKeepTheDiagram ==
  /\ []Patches!PatchTypeOK /\ []Patches!DrawnIsWhole /\ []Patches!NoClaimOnHandwriting
  /\ []Patches!PatchedCanBePatched
  /\ Patches!HandwritingIsKept /\ Patches!HandwrittenEdgesAreKept /\ Patches!PatchesAreConfined
=============================================================================
