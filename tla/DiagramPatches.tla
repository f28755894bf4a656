--------------------------- MODULE DiagramPatches ---------------------------
(***************************************************************************)
(* One stored diagram that its user rewrites by hand                       *)
(* (backend/graph/content_edit.py), that a model patches under the local   *)
(* repair contract of the critic (backend/agent/graph_repair_contract.py,  *)
(* the patches of backend/agent/nodes/graph_worker.py), or that a question *)
(* about the book's concepts selects again.                                *)
(*                                                                         *)
(* What the critic demands and the model answers is arbitrary; one that is *)
(* refused leaves the diagram as it was, and is no step.  Labels and       *)
(* technologies stand for all the texts of a record; the title and the     *)
(* assumptions, kept like the walkthrough, are left out, and so is the     *)
(* scope that a request of the user in words gives a patch.                *)
(***************************************************************************)
EXTENDS DiagramContract

CONSTANTS
  Drawn,       \* the diagrams a history starts from
  Demands,     \* repair contracts a critic may write
  NewIds,      \* IDs a model may give its new components, in order
  NewGroupIds, \* and a new group
  Writings,    \* requests of the editor
  Selections,  \* diagrams a selection of concepts may give
  NodeLimit,   \* graph_safety_max_nodes
  EdgeLimit,   \* graph_safety_max_edges
  MaxSteps     \* bound: changes of one history

VARIABLES
  diagram,  \* the stored diagram
  by,       \* what changed it last
  demand,   \* the contract, if that was a patch
  changes   \* changes so far

patchVars == <<diagram, by, demand, changes>>

-----------------------------------------------------------------------------
(* Texts and records.                                                      *)

\* A text is blank, <<w>>, or <<w, 0>>: w with more spaces between its words than it
\* needs.
Blank   == <<>>
Default == <<0>>
Tidy(text) == IF text = Blank THEN Blank ELSE <<text[1]>>

\* The ID <<k, s, 0>>, as a model may write it, is stored as <<k, s>>.
Slug(id) == <<id[1], id[2]>>

NodeTexts == {"label", "type", "technology"}
EdgeTexts == {"label", "technology"}

Ends(e)    == {e.source, e.target}
Triple(e)  == <<e.source, e.target, e.label>>
Triples(g) == {Triple(e) : e \in ToSet(g.edges)}
Grouped(gs) == UNION {ToSet(gs[k].nodes) : k \in DOMAIN gs}
Holders(gs, id) == {k \in DOMAIN gs : id \in ToSet(gs[k].nodes)}

\* validate_graph_component_parents.
Parented(nodes) == \A n \in ToSet(nodes) :
  IF n.type # "component" THEN n.owner = None
  ELSE \E s \in ToSet(nodes) : s.id = n.owner /\ s.type = "service"

\* What can be reached from the start over the connections, in either direction.
Spread(start, es) ==
  LET r[n \in 0..Len(es)] ==
        IF n = 0 THEN start
        ELSE LET near == r[n - 1]
             IN  near \cup UNION {Ends(e) : e \in {f \in ToSet(es) : Ends(f) \cap near # {}}}
  IN  r[Len(es)]

-----------------------------------------------------------------------------
(* The editor.                                                             *)

Changed(record, values) == {f \in DOMAIN values : record[f] # values[f]}

Unclaimed(record) ==
  [f \in DOMAIN record |-> IF f \in {"sourced", "detail"} THEN FALSE ELSE record[f]]

\* The user's words are marked as such, and no source is claimed for them.
WrittenRecord(record, values) ==
  IF Changed(record, values) = {} THEN record
  ELSE [Unclaimed(values @@ record) EXCEPT !.edited = @ \cup Changed(record, values)]

\* The ID of a drawn connection is made of its ends and label.
Named(e, drawn) == IF drawn THEN [e EXCEPT !.id = Triple(e)] ELSE e

WrittenEdge(e, values, drawn) ==
  IF "label" \in Changed(e, values) THEN Named(WrittenRecord(e, values), drawn)
  ELSE WrittenRecord(e, values)

HandWritten(g, w) ==
  [g EXCEPT
    !.nodes = [k \in DOMAIN @ |-> IF @[k].id \in DOMAIN w.nodes
                                  THEN WrittenRecord(@[k], w.nodes[@[k].id]) ELSE @[k]],
    !.edges = [j \in DOMAIN @ |-> IF j \in DOMAIN w.edges
                                  THEN WrittenEdge(@[j], w.edges[j], g.drawn) ELSE @[j]]]

\* Only a technology may be blank.
NoBlanks(ws) == \A r \in DOMAIN ws : "label" \in DOMAIN ws[r] => ws[r].label # Blank

\* A changed label repeats no other connection.
LabelsDiffer(g, now) ==
  \A j \in DOMAIN g.edges : now.edges[j].label # g.edges[j].label =>
    \A k \in DOMAIN g.edges \ {j} :
      /\ Triple(now.edges[j]) # Triple(now.edges[k])
      /\ g.drawn => now.edges[j].id # now.edges[k].id

Writable(g, w) ==
  /\ DOMAIN w.nodes \subseteq Ids(g.nodes) /\ DOMAIN w.edges \subseteq DOMAIN g.edges
  /\ NoBlanks(w.nodes) /\ NoBlanks(w.edges)
  /\ Parented(HandWritten(g, w).nodes)
  /\ LabelsDiffer(g, HandWritten(g, w))

-----------------------------------------------------------------------------
(* The contract.  Its layers are components, connections and composition;   *)
(* the fourth, render, has a verdict and nothing to edit.                   *)

Layers   == {"components", "connections", "composition", "render"}
Approval == 78
Fresh(n) == <<0, n>>  \* the n-th new component

Fails(c, layer) == c[layer].status = "fail"
Failed(c)  == {l \in Layers : Fails(c, l)}
Context(c) == c.components.context \cup c.connections.context
NewRefs(c) == {Fresh(n) : n \in 1..c.components.add}
Due(c)     == ToSet(c.connections.due)

\* The scope follows from the layers that failed: render cannot be patched.
ScopeOf(c) == IF Failed(c) = {} THEN "none" ELSE IF Failed(c) = {"render"} THEN "global" ELSE "local"

\* A failing layer has findings of its own and a failing score; a passing one asks for
\* nothing.
Judged(c) ==
  /\ \A l, m \in Layers : l # m => c[l].findings \cap c[m].findings = {}
  /\ \A l \in Layers : /\ Fails(c, l) <=> c[l].findings # {}
                       /\ Fails(c, l) <=> c[l].score < Approval
  /\ ~Fails(c, "components") => /\ c.components.nodes = {} /\ c.components.ops = <<>>
                                /\ c.components.add = 0 /\ c.components.context = {}
  /\ ~Fails(c, "connections") => /\ c.connections.edges = {} /\ c.connections.ops = <<>>
                                 /\ c.connections.due = <<>> /\ c.connections.context = {}
  /\ ~Fails(c, "composition") => c.composition.fields = {}

\* What a failing layer of a local contract names.
FailuresNameRecords(c) == c.scope = "local" =>
  /\ Fails(c, "components") => c.components.nodes # {} \/ c.components.add > 0
  /\ Fails(c, "connections") => c.connections.edges # {} \/ c.connections.due # <<>>
  /\ Fails(c, "composition") => c.composition.fields # {}

\* Selectors name records of the diagram, and those of a field its editable fields.
Selected(c, g) ==
  /\ c.components.nodes \cup Context(c) \subseteq Ids(g.nodes)
  /\ c.connections.edges \subseteq Triples(g)
  /\ c.composition.groups \subseteq Ids(g.groups)
  /\ c.composition.steps \subseteq DOMAIN g.sequence
  /\ c.composition.groups # {} \/ c.composition.newGroups > 0 => "groups" \in c.composition.fields
  /\ c.composition.steps # {} \/ c.composition.newSteps > 0 => "sequence" \in c.composition.fields

\* An operation on a component sets texts as they are stored, and changes one.
NodeOperations(c, g) ==
  \A id \in DOMAIN c.components.ops :
    LET values == c.components.ops[id]
    IN  /\ DOMAIN values # {}
        /\ \A f \in DOMAIN values \ {"type"} : values[f] # Blank /\ values[f] = Tidy(values[f])
        /\ Changed(Get(g.nodes, LAMBDA n : n.id = id), values) # {}

\* A connection is relabelled, removed, or replaced by new ones that no other replaces.
EdgeOperations(c) ==
  LET ops == c.connections.ops
  IN  \A s \in DOMAIN ops :
        /\ ops[s].kind = "update" => ops[s].label \notin {Blank, s[3]}
                                     /\ ops[s].label = Tidy(ops[s].label)
        /\ ops[s].kind = "replace" <=> ops[s].by # {}
        /\ \A r \in DOMAIN ops \ {s} : ops[s].by \cap ops[r].by = {}

\* The connections that are due are distinct, each between two ends and with a label.
Obligations(c) ==
  /\ IsInjective(c.connections.due)
  /\ \A d \in Due(c) : d[1] # d[2] /\ d[3] # Blank /\ d[3] = Tidy(d[3])

\* Operations are on selected records, and what replaces a connection is due.
OperationsDeclared(c) ==
  /\ DOMAIN c.components.ops \subseteq c.components.nodes
  /\ DOMAIN c.connections.ops \subseteq c.connections.edges
  /\ \A s \in DOMAIN c.connections.ops : c.connections.ops[s].by \subseteq Due(c)

\* The ends of what is due are declared, and every new component is one of them.
EndsDeclared(c, g) ==
  LET ends == UNION {{d[1], d[2]} : d \in Due(c)}
  IN  /\ ends \subseteq NewRefs(c) \cup (Context(c) \cap Ids(g.nodes))
      /\ NewRefs(c) \subseteq ends
      /\ Due(c) # {} => c.components.add + Cardinality(Context(c)) >= 2

\* Components are added with connections and, where there are groups, into one.
Placement(c, g) ==
  c.components.add > 0 =>
    /\ Due(c) # {}
    /\ g.groups # <<>> =>
         "groups" \in c.composition.fields
         /\ (c.composition.groups # {} \/ c.composition.newGroups > 0)

ValidDemand(c, g) ==
  /\ Judged(c) /\ FailuresNameRecords(c) /\ Selected(c, g)
  /\ OperationsDeclared(c) /\ NodeOperations(c, g) /\ EdgeOperations(c)
  /\ Obligations(c) /\ EndsDeclared(c, g) /\ Placement(c, g)
  /\ c.scope = ScopeOf(c)

\* What is new hangs on what is there.
Anchored(c) ==
  /\ c.components.add > 0 => Context(c) # {}
  /\ Len(c.connections.due) >= c.components.add
  /\ NewRefs(c) \subseteq
       Spread(Context(c), [k \in DOMAIN c.connections.due |->
                             [source |-> c.connections.due[k][1],
                              target |-> c.connections.due[k][2]]])

\* A local contract rewrites no whole collection, and says exactly what becomes of
\* each component and connection it names.
Admitted(c, g) ==
  /\ ValidDemand(c, g) /\ c.scope = "local" /\ Anchored(c)
  /\ "groups" \in c.composition.fields => c.composition.groups # {} \/ c.composition.newGroups > 0
  /\ "sequence" \in c.composition.fields => c.composition.steps # {} \/ c.composition.newSteps > 0
  /\ c.connections.edges = DOMAIN c.connections.ops
  /\ c.components.nodes = DOMAIN c.components.ops

-----------------------------------------------------------------------------
(* The patch against the contract.                                         *)

\* The connections of a kind of operation, by position.
Operated(c, g, kinds) ==
  {j \in DOMAIN g.edges : /\ Triple(g.edges[j]) \in DOMAIN c.connections.ops
                          /\ c.connections.ops[Triple(g.edges[j])].kind \in kinds}

Relabelled(c, g) ==
  [j \in Operated(c, g, {"update"}) |-> [label |-> c.connections.ops[Triple(g.edges[j])].label]]

\* The groups outside the editable ones stay, and so does their membership.
GroupsInScope(before, after, editable) ==
  LET With(gs, id) == LET k == SelectInSeq(gs, LAMBDA h : h.id = id)
                     IN  IF k = 0 THEN {} ELSE {gs[k]}
  IN  /\ Distinct(after, LAMBDA h : h.id)
      /\ \A id \in Ids(before) \ editable : With(after, id) = With(before, id)

StepsInScope(before, after, editable) ==
  \A k \in DOMAIN before \ editable : k \in DOMAIN after /\ after[k] = before[k]

NewGroups(g, gs) == Ids(gs) \ Ids(g.groups)

\* _validate_composition_patch_scope: an absent collection is None.
CompositionInScope(p, c, g) ==
  /\ IF p.groups = None THEN c.composition.newGroups = 0
     ELSE /\ "groups" \in c.composition.fields
          /\ GroupsInScope(g.groups, p.groups[1], c.composition.groups)
          /\ Cardinality(NewGroups(g, p.groups[1])) = c.composition.newGroups
  /\ IF p.steps = None THEN c.composition.newSteps = 0
     ELSE /\ "sequence" \in c.composition.fields
          /\ StepsInScope(g.sequence, p.steps[1], c.composition.steps)
          /\ Max({0, Len(p.steps[1]) - Len(g.sequence)}) = c.composition.newSteps

\* What is due, the new components under the IDs the model gave them.
DueTriples(c, p) ==
  LET Of(e) == IF e \in NewRefs(c) THEN p.nodes[e[2]].id ELSE e
  IN  {<<Of(d[1]), Of(d[2]), d[3]>> : d \in Due(c)}

\* Each added component is in exactly one group, if there are groups, and those of a
\* production diagram are given.
AdditionsPlaced(p, c, g) ==
  p.nodes # <<>> =>
    /\ g.groups # <<>> =>
         /\ p.groups # None
         /\ \A n \in ToSet(p.nodes) : Cardinality(Holders(p.groups[1], n.id)) = 1
    /\ g.production => {"components", "connections", "composition"} \subseteq Failed(c)
                       /\ p.groups # None

\* The patch does to the saved records exactly what the contract says, adds what is
\* due and touches no layer that passed.
InScope(p, c, g) ==
  /\ p.drop \subseteq c.components.nodes \ DOMAIN c.components.ops
  /\ p.set = c.components.ops
  /\ p.edgeSet = Relabelled(c, g)
  /\ p.cut = Operated(c, g, {"remove", "replace"})
  /\ Cardinality(Ids(p.nodes)) = c.components.add
  /\ Len(p.edges) = Len(c.connections.due)
  /\ {<<e.source, e.target, Tidy(e.label)>> : e \in ToSet(p.edges)} = DueTriples(c, p)
  /\ CompositionInScope(p, c, g) /\ AdditionsPlaced(p, c, g)

-----------------------------------------------------------------------------
(* Applying the patch.                                                     *)

Filled(text) == IF text = Blank THEN Default ELSE text

NewNode(n) == [id |-> n.id, label |-> n.label, type |-> n.type,
               technology |-> Filled(n.technology), owner |-> n.owner,
               lane |-> "main", detail |-> FALSE, sourced |-> FALSE, edited |-> {}]
NewEdge(e) == [source |-> e.source, target |-> e.target, label |-> Tidy(e.label),
               technology |-> Filled(e.technology), id |-> None, sourced |-> FALSE,
               edited |-> {}]

Uncut(p, g) == SetToSortSeq(DOMAIN g.edges \ p.cut, <)

Applied(p, g) ==
  [g EXCEPT
    !.nodes = [k \in DOMAIN @ |-> IF @[k].id \in DOMAIN p.set THEN p.set[@[k].id] @@ @[k]
                                  ELSE @[k]]
              \o [k \in DOMAIN p.nodes |-> NewNode(p.nodes[k])],
    !.edges = [k \in DOMAIN Uncut(p, g) |->
                LET j == Uncut(p, g)[k]
                IN  IF j \in DOMAIN p.edgeSet THEN p.edgeSet[j] @@ @[j] ELSE @[j]]
              \o [k \in DOMAIN p.edges |-> NewEdge(p.edges[k])],
    !.groups = IF p.groups = None THEN @ ELSE p.groups[1],
    !.sequence = IF p.steps = None THEN @ ELSE p.steps[1]]

\* _validate_patch_edge_references, _validate_patch_collection_references.
Referenced(g) ==
  LET ids == Ids(g.nodes)
  IN  /\ \A e \in ToSet(g.edges) : Ends(e) \subseteq ids /\ e.source # e.target
      /\ Distinct(g.edges, Triple)
      /\ \A k \in DOMAIN g.groups : g.groups[k].nodes # <<>> /\ ToSet(g.groups[k].nodes) \subseteq ids
      /\ \A k \in DOMAIN g.sequence : g.sequence[k] # <<>> /\ ToSet(g.sequence[k]) \subseteq ids
      /\ Len(g.groups) <= NodeLimit /\ Len(g.sequence) <= NodeLimit

\* The IDs as they are stored: saved ones stay, a new one that is taken gets a suffix.
StoredIds(nodes, trusted) ==
  LET Give(ids, n) == IF n.id \in trusted THEN ids
                      ELSE ids @@ (n.id :> UniqueId(n.id[1], trusted \cup Range(ids)))
  IN  FoldLeft(Give, [id \in trusted |-> id], nodes)

Lane(id, gs) ==
  IF \E h \in ToSet(gs) : h.kind = "operations" /\ id \in ToSet(h.nodes) THEN "bottom" ELSE "main"

\* A repeated connection is dropped.
Stored(es) ==
  LET First == {j \in DOMAIN es : \A k \in 1..(j - 1) : Triple(es[k]) # Triple(es[j])}
      order   == SetToSortSeq(First, <)
  IN  [k \in DOMAIN order |-> es[order[k]]]

\* Groups and steps with the IDs that are stored.
StoredGroups(gs, ids) ==
  [k \in DOMAIN gs |-> [id |-> Slug(gs[k].id), kind |-> gs[k].kind,
                        nodes |-> [i \in DOMAIN gs[k].nodes |-> ids[gs[k].nodes[i]]]]]
StoredSteps(steps, ids) == [k \in DOMAIN steps |-> [i \in DOMAIN steps[k] |-> ids[steps[k][i]]]]

\* The diagram as it is stored: every record is made anew, with tidy texts.
Normalised(g, trusted) ==
  LET ids == StoredIds(g.nodes, trusted)
      gs  == StoredGroups(g.groups, ids)
      Node(n) == [n EXCEPT !.id = ids[@], !.label = Tidy(@), !.technology = Tidy(@),
                           !.owner = IF @ = None THEN None ELSE ids[@],
                           !.lane = Lane(ids[n.id], gs), !.detail = FALSE, !.sourced = FALSE,
                           !.edited = {}]
      Line(e) == Named([e EXCEPT !.source = ids[@], !.target = ids[@], !.label = Tidy(@),
                                  !.technology = Tidy(@), !.sourced = FALSE, !.edited = {}], TRUE)
  IN  [g EXCEPT !.nodes = [k \in DOMAIN @ |-> Node(@[k])],
                !.edges = Stored([j \in DOMAIN @ |-> Line(@[j])]),
                !.groups = gs, !.sequence = StoredSteps(@, ids)]

\* A production diagram has a walkthrough, and every component in one group, once.
Organised(g) == g.production =>
  /\ g.sequence # <<>>
  /\ \A n \in ToSet(g.nodes) : Cardinality(Holders(g.groups, n.id)) = 1
  /\ \A k \in DOMAIN g.groups : IsInjective(g.groups[k].nodes)

\* _validate_connected_graph.
Connected(g) == Ids(g.nodes) \subseteq Spread({g.nodes[1].id}, g.edges)

\* Texts that are needed are there, owners are known, and the limits hold.
Storable(g) ==
  /\ Len(g.nodes) \in 1..NodeLimit /\ Len(g.edges) <= EdgeLimit
  /\ \A n \in ToSet(g.nodes) : Blank \notin {n.label, n.technology}
                               /\ n.owner \in Ids(g.nodes) \cup {None}
  /\ \A e \in ToSet(g.edges) : Blank \notin {e.label, e.technology}
  /\ Parented(g.nodes) /\ Connected(g) /\ Organised(g)

\* Mutant: what the user wrote stays marked whatever the patch wrote over it.
AllMarks(prior, now, values) == prior.edited

\* The user's marks stay on what the patch did not change.
Marks(prior, now, values) == prior.edited \ {f \in DOMAIN values : now[f] # prior[f]}

KeptNode(prior, n, p) ==
  [n EXCEPT !.detail = prior.detail, !.owner = prior.owner,
            !.edited = Marks(prior, n, IF n.id \in DOMAIN p.set THEN p.set[n.id] ELSE <<>>)]

\* A connection whose ends and label stay keeps its ID.
KeptEdge(prior, e, values) ==
  [e EXCEPT !.edited = Marks(prior, e, values),
            !.id = IF Triple(e) = Triple(prior) THEN prior.id ELSE @]

\* Saved connections keep their order: the k-th that is not cut is the k-th stored.
WithMetadata(g, now, p) ==
  [now EXCEPT
    !.nodes = [k \in DOMAIN @ |-> IF @[k].id \in Ids(g.nodes)
                                  THEN KeptNode(Get(g.nodes, LAMBDA n : n.id = @[k].id), @[k], p)
                                  ELSE @[k]],
    !.edges = [k \in DOMAIN @ |->
                IF k \in DOMAIN Uncut(p, g)
                THEN LET j == Uncut(p, g)[k]
                     IN  KeptEdge(g.edges[j], @[k],
                                  IF j \in DOMAIN p.edgeSet THEN p.edgeSet[j] ELSE <<>>)
                ELSE @[k]]]

\* What the contract does not name is as it was, once stored.
Locked(g, now, p, c) ==
  /\ \A n \in ToSet(g.nodes) :
       LET m == Get(now.nodes, LAMBDA x : x.id = n.id)
       IN  \A f \in NodeTexts : f \in Changed(n, m) => n.id \in DOMAIN p.set /\ f \in DOMAIN p.set[n.id]
  /\ \A k \in DOMAIN Uncut(p, g) :
       LET j == Uncut(p, g)[k]
       IN  /\ k \in DOMAIN now.edges
           /\ \A f \in EdgeTexts \cup {"source", "target"} :
                f \in Changed(g.edges[j], now.edges[k]) => j \in DOMAIN p.edgeSet /\ f = "label"
  /\ IF "groups" \in c.composition.fields
     THEN GroupsInScope(g.groups, now.groups, c.composition.groups) ELSE now.groups = g.groups
  /\ IF "sequence" \in c.composition.fields
     THEN StepsInScope(g.sequence, now.sequence, c.composition.steps) ELSE now.sequence = g.sequence

Patched(p, g) == WithMetadata(g, Normalised(Applied(p, g), Ids(g.nodes)), p)

\* _apply_applied_graph_patch: every check on the way, in its order.
Patchable(p, c, g) ==
  /\ Admitted(c, g) /\ InScope(p, c, g)
  /\ Distinct(p.nodes, LAMBDA n : n.id) /\ Ids(p.nodes) \cap Ids(g.nodes) = {}
  /\ Referenced(Applied(p, g))
  /\ Storable(Applied(p, g))
  /\ Locked(g, Patched(p, g), p, c)
  /\ Patched(p, g) # g

-----------------------------------------------------------------------------
(* What a model may answer: what the contract says, its new components and  *)
(* groups in any arrangement, or that with one thing amiss.                 *)

GroupAnswers(c, g, ids) ==
  LET Joined(gs, j) == [gs EXCEPT ![j].nodes = @ \o ids]
  IN  IF "groups" \notin c.composition.fields THEN {None}
      ELSE IF c.composition.newGroups > 0
      THEN {<<Append(g.groups, [id |-> id, kind |-> "data", nodes |-> ids])>> : id \in NewGroupIds}
      ELSE {<<Joined(gs, j)>> : j \in DOMAIN g.groups,
              gs \in {[k \in DOMAIN g.groups |-> [g.groups[k] EXCEPT !.nodes = g.groups[m[k]].nodes]] :
                        m \in Permutations(DOMAIN g.groups)}}

StepAnswers(c, g) ==
  IF "sequence" \notin c.composition.fields THEN {None}
  ELSE {<<s \o [k \in 1..c.composition.newSteps |-> g.sequence[1]]>> :
          s \in {[g.sequence EXCEPT ![k] = <<n.id>>] : k \in DOMAIN g.sequence, n \in ToSet(g.nodes)}}

AsAsked(c, g, ids, groups, steps) ==
  LET Of(e) == IF e \in NewRefs(c) THEN ids[e[2]] ELSE e
      due   == c.connections.due
  IN  [nodes |-> [k \in DOMAIN ids |-> [id |-> ids[k], label |-> <<8>>, type |-> "service",
                                        technology |-> Blank, owner |-> None]],
       set |-> c.components.ops, drop |-> {},
       edges |-> [k \in DOMAIN due |-> [source |-> Of(due[k][1]), target |-> Of(due[k][2]),
                                        label |-> due[k][3], technology |-> Blank]],
       edgeSet |-> Relabelled(c, g), cut |-> Operated(c, g, {"remove", "replace"}),
       groups |-> groups, steps |-> steps]

Amiss(p, g) ==
  {[p EXCEPT !.groups = None], [p EXCEPT !.edges = <<>>], [p EXCEPT !.cut = {}]}
  \cup {[p EXCEPT !.drop = {n.id}] : n \in ToSet(g.nodes)}
  \cup {[p EXCEPT !.set = n.id :> [label |-> <<8>>]] : n \in ToSet(g.nodes)}
  \cup {[p EXCEPT !.edgeSet = j :> [label |-> <<8>>]] : j \in DOMAIN g.edges}

Answers(c, g) ==
  UNION {{p} \cup Amiss(p, g) :
           p \in UNION {{AsAsked(c, g, ids, gs, s) : gs \in GroupAnswers(c, g, ids), s \in StepAnswers(c, g)} :
                          ids \in {SubSeq(new, 1, c.components.add) : new \in NewIds}}}

-----------------------------------------------------------------------------
(* Selecting concepts again.                                               *)

\* The one record of a sequence with this key, if it is the only one.
Only(records, keys, key) ==
  LET at == {k \in DOMAIN records : keys[k] = key}
  IN  IF Cardinality(at) = 1 THEN {records[k] : k \in at} ELSE {}

\* The record a new one continues, by its ID or by its ends and label.
SameId(record, before, now) ==
  LET Keys(rs) == [k \in DOMAIN rs |-> rs[k].id]
  IN  IF Only(now, Keys(now), record.id) = {} THEN {} ELSE Only(before, Keys(before), record.id)

SameTriple(e, before, now) ==
  LET Keys(es) == [k \in DOMAIN es |-> Triple(es[k])]
  IN  IF Only(now, Keys(now), Triple(e)) = {} THEN {} ELSE Only(before, Keys(before), Triple(e))

\* A connection is known by its ID; by its ends and label if one of the two has no ID.
PriorEdges(e, before, now) ==
  LET byId == IF e.id = None THEN {} ELSE SameId(e, before, now)
  IN  IF byId # {} THEN byId
      ELSE {x \in SameTriple(e, before, now) : e.id = None \/ x.id = None}

\* The user's words carry over, with their marks and without a source.
Rewritten(record, priors) ==
  IF \A x \in priors : x.edited = {} THEN record
  ELSE LET x == CHOOSE y \in priors : TRUE
       IN  [Unclaimed([f \in x.edited |-> x[f]] @@ record) EXCEPT !.edited = x.edited]

Reselected(g, s) ==
  [s EXCEPT
    !.nodes = [k \in DOMAIN @ |-> Rewritten(@[k], SameId(@[k], g.nodes, s.nodes))],
    !.edges = [j \in DOMAIN @ |-> Rewritten(@[j], PriorEdges(@[j], g.edges, s.edges))]]

-----------------------------------------------------------------------------
(* The changes.                                                            *)

PatchInit ==
  /\ diagram \in Drawn
  /\ by = "nobody" /\ demand = <<>>
  /\ changes = 0

Change(g, what, c) ==
  /\ g # diagram
  /\ diagram' = g
  /\ by' = what /\ demand' = c
  /\ changes' = changes + 1

WriteByHand == \E w \in Writings : Writable(diagram, w) /\ Change(HandWritten(diagram, w), "hand", <<>>)

Patch ==
  /\ diagram.drawn
  /\ \E c \in Demands :
       /\ Admitted(c, diagram)
       /\ \E p \in Answers(c, diagram) :
            Patchable(p, c, diagram) /\ Change(Patched(p, diagram), "patch", <<c>>)

Reselect == ~diagram.drawn /\ \E s \in Selections : Change(Reselected(diagram, s), "selection", <<>>)

PatchNext == changes < MaxSteps /\ (WriteByHand \/ Patch \/ Reselect)

PatchSpec == PatchInit /\ [][PatchNext]_patchVars

-----------------------------------------------------------------------------
(* Properties.                                                             *)

PatchTypeOK ==
  /\ changes \in 0..MaxSteps
  /\ \A n \in ToSet(diagram.nodes) : n.edited \subseteq NodeTexts
  /\ \A e \in ToSet(diagram.edges) : e.edited \subseteq EdgeTexts

\* Whoever wrote it last, an architecture is one connected diagram: IDs of
\* components, groups and connections name one record each, no connection repeats
\* or joins a component to itself, components have their service, a production
\* diagram is organised, and the operations lane shows the operations groups
\* (_normalise_applied_graph, apply_graph_content_edit).
DrawnIsWhole ==
  diagram.drawn =>
    /\ Referenced(diagram) /\ Parented(diagram.nodes) /\ Connected(diagram) /\ Organised(diagram)
    /\ Distinct(diagram.nodes, LAMBDA n : n.id) /\ Distinct(diagram.groups, LAMBDA h : h.id)
    /\ Distinct(diagram.edges, LAMBDA e : e.id)
    /\ \A n \in ToSet(diagram.nodes) : n.lane = Lane(n.id, diagram.groups)

\* No source is claimed for what the user wrote (docs/current-architecture.md:313-316).
NoClaimOnHandwriting ==
  \A r \in ToSet(diagram.nodes) \cup ToSet(diagram.edges) : r.edited # {} => ~r.sourced

NoPatch == [nodes |-> <<>>, set |-> <<>>, drop |-> {}, edges |-> <<>>, edgeSet |-> <<>>,
            cut |-> {}, groups |-> None, steps |-> None]

\* A patched diagram is in the form in which it is stored: what a next patch does
\* not name is not changed by storing it, so that no lock refuses it
\* (_validate_locked_records_after_normalization).
PatchedCanBePatched ==
  by = "patch" => Storable(diagram) /\ Patched(NoPatch, diagram) = diagram

\* A scoped patch keeps the manual fields it does not name, with their marks; one
\* that names a marked field replaces its value and removes the mark; no mark is
\* made but by the user's hand.  A selection keeps those of records whose ID is
\* unambiguous (docs/current-architecture.md:316-319).
HandwritingIsKept == [][
  diagram' # diagram =>
    \A n \in ToSet(diagram.nodes), m \in ToSet(diagram'.nodes) : n.id = m.id =>
      /\ by' = "patch" =>
           LET ops   == demand'[1].components.ops
               wrote == IF n.id \in DOMAIN ops THEN ops[n.id] ELSE <<>>
           IN  /\ \A f \in n.edited : IF f \in Changed(n, wrote)
                                      THEN m[f] = wrote[f] /\ f \notin m.edited
                                      ELSE m[f] = n[f] /\ f \in m.edited
               /\ m.edited \subseteq n.edited
      /\ by' = "selection" => n.edited = m.edited /\ \A f \in n.edited : m[f] = n[f]
      /\ by' = "hand" => n.edited \subseteq m.edited
  ]_patchVars

\* The same of connections, which a patch names by their ends and label and a
\* selection by their ID.
HandwrittenEdgesAreKept == [][
  diagram' # diagram =>
    \A e \in ToSet(diagram.edges) :
      LET Sole(es) == Cardinality({j \in DOMAIN es : es[j].id = e.id}) = 1
          ops == demand'[1].connections.ops
      IN  /\ by' = "patch" /\ Triple(e) \in DOMAIN ops /\ ops[Triple(e)].kind = "update" =>
               \E d \in ToSet(diagram'.edges) :
                 /\ Triple(d) = <<e.source, e.target, ops[Triple(e)].label>>
                 /\ d.edited = e.edited \ {"label"} /\ d.technology = e.technology
          /\ by' = "selection" /\ e.id # None /\ Sole(diagram.edges) /\ Sole(diagram'.edges) =>
               \E d \in ToSet(diagram'.edges) :
                 d.id = e.id /\ d.edited = e.edited /\ \A f \in e.edited : d[f] = e[f]
  ]_patchVars

\* A patch changes what its contract names and nothing else: other components keep
\* every field but their lane, other connections every field, groups and steps that
\* are not editable stay, and what is new is what was due
\* (_validate_locked_records_after_normalization, _preserve_existing_record_metadata).
PatchesAreConfined == [][
  (diagram' # diagram /\ by' = "patch") =>
    LET c   == demand'[1]
        now == diagram'
        Plain(n) == [n EXCEPT !.lane = "main", !.sourced = FALSE]
        new == Ids(now.nodes) \ Ids(diagram.nodes)
    IN  /\ \A n \in ToSet(diagram.nodes) :
             n.id \notin c.components.nodes =>
               \E m \in ToSet(now.nodes) : Plain(m) = Plain(n)
        /\ Ids(diagram.nodes) \subseteq Ids(now.nodes) /\ Cardinality(new) = c.components.add
        /\ \A e \in ToSet(diagram.edges) :
             Triple(e) \notin c.connections.edges =>
               [e EXCEPT !.sourced = FALSE] \in ToSet(now.edges)
        /\ \A e \in ToSet(now.edges) : Ends(e) \cap new # {} => e.edited = {}
        /\ \A h \in ToSet(diagram.groups) :
             h.id \notin c.composition.groups => h \in ToSet(now.groups)
        /\ \A k \in DOMAIN diagram.sequence :
             k \notin c.composition.steps => now.sequence[k] = diagram.sequence[k]
        /\ Grouped(diagram.groups) = Ids(diagram.nodes) => new \subseteq Grouped(now.groups)
  ]_patchVars
=============================================================================
