---------------------------- MODULE DiagramEdits ----------------------------
(***************************************************************************)
(* A diagram created and then edited, again and again, by the staged       *)
(* pipeline: the scope compiled from the user's words                      *)
(* (backend/agent/nodes/graph_worker.py, staged_edit_scope), the layers    *)
(* the model is allowed to change, assembled onto the saved diagram        *)
(* (backend/agent/nodes/staged_graph_generation.py), admitted and saved    *)
(* (backend/agent/staged_graph_workflow.py).                               *)
(*                                                                         *)
(* The words, the renderer and the reviewer are left out: the words choose *)
(* a scope and what the model writes is arbitrary.  A request that is      *)
(* refused or given up leaves the saved diagram as it was.                 *)
(***************************************************************************)
EXTENDS ExpansionChecks

CONSTANTS
  Creations,     \* component layers a model writes from nothing
  NewComponents, \* components a model adds to a saved diagram
  Labels, Types, \* what it may rename a component to
  EdgeLabels,
  MaxNodes,      \* graph_safety_max_nodes
  MaxEdges,      \* graph_safety_max_edges
  MaxAdded,      \* bound: components of one extension considered
  MaxNewEdges,   \* bound: connections of one answer considered
  MaxRequests    \* bound: requests of one history

VARIABLES
  saved,    \* the stored diagram
  scope,    \* what the current request may change
  plan,     \* the admitted component layer of the request
  phase,    \* where the request is
  requests  \* requests taken up

editVars == <<saved, scope, plan, phase, requests>>

-----------------------------------------------------------------------------
(* Scopes.                                                                 *)

\* nodes may be changed in fields; removed ones go; between min and max are
\* added, under the ID in named if it is one; edges (positions in the saved
\* diagram) may be changed in edgeFields, cut ones go; new connections join
\* anchors and new components; due are the endpoints of required ones; targets
\* are the services an expansion adds components to.
NoScope == [kind |-> "create", nodes |-> {}, fields |-> {}, removed |-> {},
            named |-> None, min |-> 0, max |-> 0, group |-> {},
            edges |-> {}, edgeFields |-> {}, cut |-> {},
            minEdges |-> 0, maxEdges |-> 0, mode |-> "exact", anchors |-> {}, due |-> <<>>,
            targets |-> {}]

Rebuild == [NoScope EXCEPT !.kind = "rebuild"]
Edit    == [NoScope EXCEPT !.kind = "edit"]
NewNode == <<0>>

Incident(g, ids) == {j \in DOMAIN g.edges : {g.edges[j].source, g.edges[j].target} \cap ids # {}}
Holding(g, ids) == {g.groups[j].id : j \in {i \in DOMAIN g.groups :
                                              ToSet(g.groups[i].nodes) \cap ids # {}}}

Renames(g) == {[Edit EXCEPT !.nodes = {id}, !.fields = f] :
                 id \in Ids(g.nodes), f \in {{"label"}, {"type"}}}

Removals(g) == {[Edit EXCEPT !.nodes = {id}, !.removed = {id}, !.group = Holding(g, {id}),
                             !.edges = Incident(g, {id}), !.cut = Incident(g, {id})] :
                  id \in Ids(g.nodes)}

\* One named component next to an existing one, in its group: with one directed
\* connection, or with one or two in directions of the model's choice.
NamedId == <<9, 1>>

Attachments(g) ==
  {[Edit EXCEPT !.named = NamedId, !.min = 1, !.max = 1, !.group = Holding(g, {id}),
                !.anchors = {id}, !.minEdges = 1, !.maxEdges = kind[2], !.mode = kind[1],
                !.due = <<d>>] :
     id \in IF NamedId \in Ids(g.nodes) THEN {} ELSE Ids(g.nodes),
     kind \in {<<"exact", 1>>, <<"attachment", 2>>},
     d \in {<<i, NewNode>> : i \in Ids(g.nodes)} \cup {<<NewNode, i>> : i \in Ids(g.nodes)}}

\* The connection that is due is at the anchor.
AnchoredAttachments(g) ==
  {s \in Attachments(g) : ToSet(s.due[1]) = s.anchors \cup {NewNode}}

Connects(g) == {[Edit EXCEPT !.minEdges = 1, !.maxEdges = 1, !.anchors = {s, t},
                             !.due = <<<<s, t>>>>] : s, t \in Ids(g.nodes)}

Redirects(g) == {[Edit EXCEPT !.edges = {j}, !.edgeFields = f] :
                   j \in DOMAIN g.edges, f \in {{"label"}, {"source", "target"}}}

Cuts(g) == {[Edit EXCEPT !.edges = {j}, !.cut = {j}] : j \in DOMAIN g.edges}

\* Components around the saved ones, each connected, nothing saved changed.
Extensions(g) ==
  LET room == Min({MaxNodes - Len(g.nodes), MaxEdges - Len(g.edges)})
  IN  IF room <= 0 THEN {}
      ELSE {[NoScope EXCEPT !.kind = "extend", !.min = 1, !.max = room,
               !.minEdges = 1, !.maxEdges = MaxEdges - Len(g.edges),
               !.mode = "extension", !.anchors = Ids(g.nodes)]}

\* What a new component inside the service may be connected to: the service, its
\* components and its neighbours.
Interface(g, t) ==
  {t} \cup {n.id : n \in {m \in ToSet(g.nodes) : m.owner = t}}
      \cup {e.target : e \in {f \in ToSet(g.edges) : f.source = t}}
      \cup {e.source : e \in {f \in ToSet(g.edges) : f.target = t}}

\* Components inside the services the planner chose, up to three for each.
ServiceExpansions(g) ==
  LET services == {n.id : n \in {m \in ToSet(g.nodes) : m.type = "service"}}
  IN  {[s EXCEPT !.targets = ts, !.min = Cardinality(ts),
                 !.max = Min({@, 3 * Cardinality(ts)}),
                 !.anchors = UNION {Interface(g, t) : t \in ts}] :
         s \in Extensions(g),
         ts \in {us \in SUBSET services : us # {} /\ \A s \in Extensions(g) :
                                                      Cardinality(us) <= s.max}}

Scopes(g) ==
  Renames(g) \cup Removals(g) \cup AnchoredAttachments(g)
    \cup {s \in Connects(g) : Cardinality(s.anchors) = 2}
    \cup Redirects(g) \cup Cuts(g) \cup Extensions(g) \cup ServiceExpansions(g) \cup {Rebuild}

Scoped == scope.kind \in {"edit", "extend"}
Base   == Reconstruct(saved)

-----------------------------------------------------------------------------
(* The component layer.                                                    *)

Kept == {k \in DOMAIN saved.nodes : saved.nodes[k].id \notin scope.removed}
KeptInOrder == SetToSortSeq(Kept, <)

\* Where the base position k is once removed components are gone (0: nowhere).
NewPosition(k) == IF k \in Kept THEN Cardinality({j \in Kept : j <= k}) ELSE 0

\* The saved layer with the permitted changes, new components at the end.
AssembledComponents(change, added) ==
  LET b == Base.components
      Row(k) == [label |-> IF b[k].id \in scope.nodes /\ "label" \in scope.fields
                           THEN change.label ELSE b[k].label,
                 type  |-> IF b[k].id \in scope.nodes /\ "type" \in scope.fields
                           THEN change.type ELSE b[k].type,
                 parent |-> IF b[k].parent = 0 THEN 0 ELSE NewPosition(b[k].parent),
                 group |-> b[k].group, primary |-> b[k].primary]
  IN  [root |-> NewPosition(Base.root),
       components |-> [j \in DOMAIN KeptInOrder |-> Row(KeptInOrder[j])] \o added]

\* A component whose service is removed cannot be placed.
Orphans == \E k \in Kept : LET p == Base.components[k].parent IN p # 0 /\ p \notin Kept

\* Retained rows keep their ID in order; a named addition gets its name.
WithIds(cs) ==
  [k \in DOMAIN cs |->
    [cs[k] EXCEPT !.id = IF k \in DOMAIN KeptInOrder THEN saved.nodes[KeptInOrder[k]].id
                         ELSE IF k = Len(KeptInOrder) + 1 THEN scope.named ELSE None]]

\* Additions stay out of the walkthrough and, with one group in scope, join it.
WithDefaults(cs) ==
  [k \in DOMAIN cs |->
    IF k \in DOMAIN KeptInOrder THEN cs[k]
    ELSE [cs[k] EXCEPT
            !.primary = FALSE,
            !.group = IF Cardinality(scope.group) = 1
                      THEN Get(saved.groups, LAMBDA h : h.id \in scope.group).key ELSE @]]

KeptEdges == SelectSeq(saved.edges, LAMBDA e : {e.source, e.target} \cap scope.removed = {})

\* The candidate of the component layer still carries the saved connections.
ComponentCandidate(w) ==
  Plan(w.root,
       IF Scoped THEN WithDefaults(WithIds(Decoded(w))) ELSE Decoded(w),
       KeptEdges, saved)

Words(c) == [id |-> c.id, label |-> c.label, type |-> c.type, owner |-> c.owner,
             group |-> c.group, primary |-> c.primary]

\* validate_component_write_set: nothing outside the scope changed.
ComponentsInScope(a) ==
  LET before  == Base
      ids     == Ids(before.components)
      now     == Ids(a.components)
      allowed == scope.nodes \cup scope.removed
      Changed(e) == (e \in ToSet(before.connections)) # (e \in ToSet(a.connections))
      cut     == {saved.edges[j] : j \in scope.cut}
  IN  /\ Cardinality(now \ ids) \in scope.min..scope.max
      /\ Cardinality(now \ ids) = Len(a.components) - Len(KeptInOrder)
      /\ Cardinality(ids \ now) = Cardinality(scope.removed)
      /\ ids \ now \subseteq allowed
      /\ \A id \in (ids \cap now) \ allowed :
           Words(Get(a.components, LAMBDA c : c.id = id))
             = Words(Get(before.components, LAMBDA c : c.id = id))
      /\ \A e \in ToSet(before.connections) \cup ToSet(a.connections) :
           Changed(e) => {e.source, e.target} \cap allowed # {} /\ e \in cut

\* validate_service_expansion_components.
ServiceAdditions(nodes) ==
  scope.targets # {} =>
    /\ \A n \in ToSet(nodes) : n.type = "component" /\ n.owner \in scope.targets
    /\ \A t \in scope.targets :
         Cardinality({k \in DOMAIN nodes : nodes[k].owner = t}) \in 1..3

AdmittedComponents(w) ==
  LET limit == IF Scoped THEN Len(saved.nodes) + scope.max - Cardinality(scope.removed)
               ELSE MaxNodes
      c     == ComponentCandidate(w)
  IN  /\ ParsedComponents(w, limit)
      /\ Assignable(c)
      /\ Scoped => ComponentsInScope(Assign(c))
      /\ ServiceAdditions(SelectSeq(Assign(c).components, LAMBDA n : n.id \notin Ids(saved.nodes)))

\* What the model may answer in this layer.
Additions == UNION {[1..n -> NewComponents] : n \in scope.min..Min({scope.max, MaxAdded})}

Answers ==
  IF ~Scoped THEN Creations
  ELSE {AssembledComponents(change, added) :
          change \in [label : IF "label" \in scope.fields THEN Labels ELSE {0},
                      type  : IF "type" \in scope.fields THEN Types ELSE {0}],
          added \in Additions}

-----------------------------------------------------------------------------
(* The connection layer.                                                   *)

PositionOf(id) == At(plan.components, id)

\* Connections of the candidate by position; those whose component is gone went
\* with it.
BaseConnections == [j \in DOMAIN plan.connections |->
  [plan.connections[j] EXCEPT !.source = PositionOf(@), !.target = PositionOf(@)]]

Uncut == {j \in DOMAIN saved.edges : /\ j \notin scope.cut
                                     /\ saved.edges[j] \in ToSet(plan.connections)}

AssembledConnections(change, added) ==
  LET order == SetToSortSeq(Uncut, <)
      Row(j) == LET e == Get(BaseConnections, LAMBDA x :
                               /\ plan.components[x.source].id = saved.edges[j].source
                               /\ plan.components[x.target].id = saved.edges[j].target
                               /\ x.label = saved.edges[j].label)
                IN  IF j \notin scope.edges THEN e
                    ELSE [source |-> IF "source" \in scope.edgeFields THEN change.source
                                     ELSE e.source,
                          target |-> IF "target" \in scope.edgeFields THEN change.target
                                     ELSE e.target,
                          label  |-> IF "label" \in scope.edgeFields THEN change.label
                                     ELSE e.label]
  IN  [k \in DOMAIN order |-> Row(order[k])] \o added

NewConnections ==
  [source : DOMAIN plan.components, target : DOMAIN plan.components, label : EdgeLabels]

ConnectionAnswers ==
  IF ~Scoped
  THEN UNION {[1..n -> NewConnections] : n \in 0..MaxNewEdges}
  ELSE {AssembledConnections(change, added) :
          change \in IF scope.edgeFields = {} THEN {[label |-> 0]} ELSE NewConnections,
          added \in UNION {[1..n -> NewConnections] :
                             n \in scope.minEdges..Min({scope.maxEdges, MaxNewEdges})}}

Completed(es) == Assign([plan EXCEPT !.connections = Positioned(es)])

\* Scoped edits keep the authored walkthrough, less what was removed.
Walkthrough(g) ==
  IF ~Scoped THEN g.sequence
  ELSE LET left == [k \in DOMAIN saved.sequence |->
                      SelectSeq(saved.sequence[k], LAMBDA id : id \notin scope.removed)]
       IN  SelectSeq(left, LAMBDA members : members # <<>>)

\* An extension keeps the saved groups first and in their order.
GroupsInOrder(gs) ==
  IF scope.kind # "extend" THEN gs
  ELSE [k \in DOMAIN saved.groups |-> Get(gs, LAMBDA h : h.id = saved.groups[k].id)]
         \o SelectSeq(gs, LAMBDA h : h.id \notin Ids(saved.groups))

Shown(es) ==
  LET g == Project(Completed(es))
  IN  [g EXCEPT !.sequence = Walkthrough(g), !.groups = GroupsInOrder(@)]

-----------------------------------------------------------------------------
(* Admission of the finished edit against the saved diagram.               *)

AddedNodes(g) == SelectSeq(g.nodes, LAMBDA n : n.id \notin Ids(saved.nodes))
AddedEdges(g) == SubSeq(g.edges, Cardinality(Uncut) + 1, Len(g.edges))

\* The endpoints of the required connections, the new component named.
Due(g) == LET Of(e) == IF e = NewNode THEN AddedNodes(g)[1].id ELSE e
          IN  [k \in DOMAIN scope.due |-> <<Of(scope.due[k][1]), Of(scope.due[k][2])>>]

\* What was saved can be reached from the anchors over the new connections.
ReachedFrom(anchors, es) ==
  LET r[n \in 0..Len(es)] ==
        IF n = 0 THEN anchors
        ELSE r[n - 1] \cup UNION {{es[j].source, es[j].target} :
               j \in {i \in DOMAIN es : {es[i].source, es[i].target} \cap r[n - 1] # {}}}
  IN  r[Len(es)]

\* Mutant: an added component may stay unconnected.
UnattachedAdditions(g) ==
  LET es  == AddedEdges(g)
      new == Ids(AddedNodes(g))
  IN  /\ Cardinality(new) \in scope.min..scope.max
      /\ Len(es) \in scope.minEdges..scope.maxEdges

\* A new component inside a service is connected to that service's interface and to
\* the new ones beside it.
InsideInterface(e, added) ==
  \A n \in {m \in ToSet(added) : m.id \in e} :
    /\ n.owner \in scope.targets
    /\ e \subseteq Interface(saved, n.owner)
                    \cup {m.id : m \in {k \in ToSet(added) : k.owner = n.owner}}

\* _validate_added_record_scope.
AdditionsInScope(g) ==
  LET es    == AddedEdges(g)
      new   == Ids(AddedNodes(g))
      ends  == [j \in DOMAIN es |-> <<es[j].source, es[j].target>>]
      due   == Due(g)
      ends2 == UNION {{ends[j][1], ends[j][2]} : j \in DOMAIN ends}
  IN  /\ scope.named # None => new = {scope.named}
      /\ Cardinality(new) \in scope.min..scope.max
      /\ Len(es) \in scope.minEdges..scope.maxEdges
      /\ scope.targets # {} =>
           \A j \in DOMAIN ends : InsideInterface({ends[j][1], ends[j][2]}, AddedNodes(g))
      /\ ends2 \subseteq new \cup scope.anchors
      /\ new \subseteq ends2
      /\ CASE scope.mode = "extension" ->
                /\ \A j \in DOMAIN ends : {ends[j][1], ends[j][2]} \cap new # {}
                /\ new \subseteq ReachedFrom(scope.anchors, es)
           [] scope.mode = "attachment" ->
                /\ Distinct(ends, LAMBDA e : e)
                /\ \A j \in DOMAIN ends : {ends[j][1], ends[j][2]} = {due[1][1], due[1][2]}
           [] OTHER -> ToSet(ends) = ToSet(due) /\ Len(ends) = Len(due)

\* admit_graph_extension: the saved records come first and unchanged, a saved
\* group only grows by new components, and each of those is in one group.
ExtensionAdmitted(g) ==
  LET new == Ids(AddedNodes(g))
      n   == Len(saved.groups)
  IN  /\ IsPrefix(saved.nodes, g.nodes) /\ IsPrefix(saved.edges, g.edges)
      /\ g.sequence = saved.sequence
      /\ Len(g.nodes) <= MaxNodes /\ Len(g.edges) <= MaxEdges
      /\ ServiceAdditions(AddedNodes(g))
      /\ AdditionsInScope(g)
      /\ \A k \in 1..n : /\ g.groups[k].id = saved.groups[k].id
                         /\ g.groups[k].key = saved.groups[k].key
                         /\ IsPrefix(saved.groups[k].nodes, g.groups[k].nodes)
      /\ Distinct(g.groups, LAMBDA h : h.id)
      /\ \A k \in (n + 1)..Len(g.groups) : ToSet(g.groups[k].nodes) \subseteq new
      /\ new \subseteq UNION {ToSet(g.groups[k].nodes) : k \in DOMAIN g.groups}

\* What an exact edit may not touch, record by record.
RemovalsInScope(g) == Ids(saved.nodes) \ Ids(g.nodes) \subseteq scope.removed

LockedNodes(g) ==
  \A j \in DOMAIN saved.nodes, k \in DOMAIN g.nodes :
    LET old == saved.nodes[j] now == g.nodes[k]
    IN  old.id = now.id =>
          /\ old.owner = now.owner
          /\ old.label # now.label => old.id \in scope.nodes /\ "label" \in scope.fields
          /\ old.type # now.type => old.id \in scope.nodes /\ "type" \in scope.fields

LockedEdges(g) ==
  LET order == SetToSortSeq(Uncut, <)
  IN  \A k \in DOMAIN order :
        g.edges[k] # saved.edges[order[k]] => order[k] \in scope.edges

LockedGroups(g) ==
  /\ \A k \in DOMAIN saved.groups :
       saved.groups[k].id \notin scope.group => saved.groups[k] \in ToSet(g.groups)
  /\ Ids(g.groups) \subseteq Ids(saved.groups)

\* The patch that turns the saved diagram into the candidate is not empty and
\* stays inside the scope.
PatchAdmitted(g) ==
  /\ g # saved
  /\ RemovalsInScope(g) /\ LockedNodes(g) /\ LockedEdges(g) /\ LockedGroups(g)
  /\ AdditionsInScope(g)

AdmittedConnections(es) ==
  LET limit == IF Scoped THEN Len(saved.edges) + scope.maxEdges - Cardinality(scope.cut)
               ELSE MaxEdges
  IN  /\ ParsedConnections(es, plan.components, plan.root, limit)
      /\ Assignable([plan EXCEPT !.connections = Positioned(es)])
      /\ Valid(Completed(es))
      /\ CASE scope.kind = "edit"   -> PatchAdmitted(Shown(es))
           [] scope.kind = "extend" -> ExtensionAdmitted(Shown(es))
           [] OTHER -> TRUE

-----------------------------------------------------------------------------
(* Requests.                                                               *)

NoPlan == Plan(0, <<>>, <<>>, NoGraph)

EditInit ==
  /\ saved = NoGraph
  /\ scope = NoScope
  /\ plan = NoPlan
  /\ phase = "idle"
  /\ requests = 0

Request(s) ==
  /\ phase = "idle" /\ requests < MaxRequests
  /\ scope' = s
  /\ phase' = "components"
  /\ requests' = requests + 1
  /\ UNCHANGED <<saved, plan>>

Create == saved = NoGraph /\ Request(NoScope)

\* A saved diagram that cannot be read back cannot be edited.
EditSaved == saved # NoGraph /\ Readable(saved) /\ \E s \in Scopes(saved) : Request(s)

\* The root of a scoped edit cannot be removed.
Components ==
  /\ phase = "components"
  /\ Scoped => ~Orphans /\ Base.root \in Kept
  /\ \E w \in Answers :
       /\ AdmittedComponents(w)
       /\ plan' = Assign(ComponentCandidate(w))
  /\ phase' = "connections"
  /\ UNCHANGED <<saved, scope, requests>>

Finished ==
  /\ phase' = "idle"
  /\ scope' = NoScope
  /\ plan' = NoPlan
  /\ UNCHANGED requests

Connections ==
  /\ phase = "connections"
  /\ \E es \in ConnectionAnswers :
       /\ AdmittedConnections(es)
       /\ saved' = Shown(es)
  /\ Finished

\* No answer was admitted, or a render or review refused it.
GiveUp ==
  /\ phase # "idle"
  /\ Finished
  /\ UNCHANGED saved

EditNext == Create \/ EditSaved \/ Components \/ Connections \/ GiveUp

EditSpec == EditInit /\ [][EditNext]_editVars
-----------------------------------------------------------------------------
(* Properties.                                                             *)

EditTypeOK ==
  /\ phase \in {"idle", "components", "connections"}
  /\ requests \in 0..MaxRequests
  /\ scope.kind \in {"create", "rebuild", "edit", "extend"}
  /\ phase = "connections" => None \notin Ids(plan.components)

\* Whatever sequence of creations, rebuilds and edits led to it, the saved
\* diagram can be taken up again: reading it back gives a plan that is admitted
\* and becomes the same components, connections and groups, with the same root
\* (reconstruct_staged_graph_build, project_graph_data).
SavedCanBeReopened ==
  saved # NoGraph =>
    /\ Readable(saved)
    /\ LET again == Reconstruct(saved)
           g     == Project(again)
       IN  /\ Valid(again)
           /\ g.nodes = saved.nodes /\ g.edges = saved.edges
           /\ ToSet(g.groups) = ToSet(saved.groups)
           /\ RootOf(g) = RootOf(saved)

\* The parts of a saved diagram fit together: the walkthrough names present
\* components, each once; connections, groups and owners name present ones; an
\* owner is a service; group IDs differ and no group is empty.
SavedIsWhole ==
  LET ids == Ids(saved.nodes)
  IN  /\ ToSet(Walked(saved)) \subseteq ids
      /\ IsInjective(Walked(saved))
      /\ \A j \in DOMAIN saved.edges : {saved.edges[j].source, saved.edges[j].target} \subseteq ids
      /\ \A k \in DOMAIN saved.nodes :
           LET o == saved.nodes[k].owner
           IN  o # None => o \in ids /\ Get(saved.nodes, LAMBDA n : n.id = o).type = "service"
      /\ Distinct(saved.groups, LAMBDA h : h.id)
      /\ \A j \in DOMAIN saved.groups : saved.groups[j].nodes # <<>>
      /\ UNION {ToSet(saved.groups[j].nodes) : j \in DOMAIN saved.groups} = ids

\* A scoped edit that is saved changes what the user named and nothing else: the
\* other components keep ID, words, owner and order, the connections between
\* them stay, nothing that was there comes back as a new record, and the
\* walkthrough keeps its root (staged_edit_scope, admit_staged_graph_edit).
ScopeRespected == [][
  (phase = "connections" /\ saved' # saved /\ Scoped) =>
    LET free  == scope.nodes \cup scope.removed
        Fixed(g) == SelectSeq(g.nodes, LAMBDA n : n.id \in Ids(saved.nodes) \ free)
        fixed == {saved.edges[j] : j \in DOMAIN saved.edges \ (scope.edges \cup scope.cut)}
    IN  /\ Fixed(saved) = Fixed(saved')
        /\ fixed \subseteq ToSet(saved'.edges)
        /\ RootOf(saved') = RootOf(saved)
        /\ scope.kind = "extend" =>
             \A id \in Ids(saved'.nodes) \ Ids(saved.nodes) :
               \E j \in DOMAIN saved'.edges : id \in {saved'.edges[j].source, saved'.edges[j].target}
  ]_editVars

\* An ID never passes to another component: one that is in the diagram before
\* and after a save names the component it named, unless the edit renamed it
\* (assign_server_ids).
IdentityIsStable == [][
  (phase = "connections" /\ saved' # saved) =>
    \A j \in DOMAIN saved.nodes, k \in DOMAIN saved'.nodes :
      saved.nodes[j].id = saved'.nodes[k].id /\ saved.nodes[j].id \notin scope.nodes =>
        saved.nodes[j] = saved'.nodes[k]
  ]_editVars

\* What the pipeline saves for an expansion passes the evaluation's checks of it: an
\* extension keeps the saved diagram whole, a named component is added once and at
\* its anchor, and an expanded service gets one to three components of its own
\* (_graph_preservation_failure, _graph_expansion_failure,
\* _service_expansion_failure).
ExpansionsPassEvaluation == [][
  (phase = "connections" /\ saved' # saved) =>
    IF scope.targets # {} THEN ServiceExpansionFailure(saved, saved', scope.targets) = "none"
    ELSE IF scope.kind = "extend" THEN PreservationFailure(saved, saved') = "none"
    ELSE scope.named # None => ExpansionFailure(saved, saved', scope.anchors) = "none"
  ]_editVars

\* A component layer that can be parsed on an explicit rebuild is admitted: an
\* explicit rebuild restages the diagram (docs/current-architecture.md:243).
RebuildIsAdmitted ==
  phase = "components" /\ scope.kind = "rebuild" =>
    \A w \in Answers : ParsedComponents(w, MaxNodes) => AdmittedComponents(w)

\* What is saved fits together and can be edited again, whatever led to it
\* (staged_graph_contract.py).
SavedIsSound == SavedIsWhole /\ SavedCanBeReopened

\* An edit does what was asked and no more: nothing outside its scope changes, IDs stay
\* with their components, and the evaluation agrees (graph_worker.py).
EditsAreConfined == ScopeRespected /\ IdentityIsStable /\ ExpansionsPassEvaluation
=============================================================================
