-------------------------- MODULE DiagramContract --------------------------
(***************************************************************************)
(* The deterministic boundary between what a model writes and the diagram  *)
(* that is stored (backend/agent/staged_graph_contract.py, with the        *)
(* parsers of backend/agent/nodes/staged_graph_generation.py): server IDs, *)
(* the checks of a plan, the stored diagram a plan becomes and the plan a  *)
(* stored diagram is read back into.                                       *)
(*                                                                         *)
(* A label stands for all the text of a record.  A server ID is a pair:    *)
(* <<k, 1>> is "n<k>" and <<k, s>> is "n<k>_<s>".  A model names a         *)
(* component by its position, which an endpoint carries as <<k>>.          *)
(***************************************************************************)
EXTENDS Integers, SequencesExt

None    == <<>>
NoGraph == [nodes |-> <<>>, edges |-> <<>>, sequence |-> <<>>, groups |-> <<>>]

Get(s, Test(_)) == s[SelectInSeq(s, Test)]
Ids(s) == {s[k].id : k \in DOMAIN s}
At(s, id) == SelectInSeq(s, LAMBDA r : r.id = id)
Distinct(s, Key(_)) == \A j, k \in DOMAIN s : Key(s[j]) = Key(s[k]) => j = k

\* A plan: the components with their parent (a position, 0 for none), owner (the
\* parent's ID, once known) and ID (None before it is assigned), the connections
\* and the stored diagram the plan started from.
Plan(root, components, connections, base) ==
  [root |-> root, components |-> components, connections |-> connections, base |-> base]

-----------------------------------------------------------------------------
(* Normal form of a plan.                                                  *)

ServiceOf(cs, k) ==
  IF cs[k].parent # 0 THEN cs[k].parent
  ELSE IF cs[k].owner = None THEN 0 ELSE At(cs, cs[k].owner)

\* Only a component has a parent, and it is a service.
OwnedByService(cs, k) ==
  LET p == ServiceOf(cs, k)
  IN  IF cs[k].type = "component"
      THEN /\ p \in DOMAIN cs /\ cs[p].type = "service"
           /\ cs[k].owner # None => cs[p].id = cs[k].owner
      ELSE cs[k].parent = 0 /\ cs[k].owner = None

Resolved(cs) ==
  [k \in DOMAIN cs |-> [cs[k] EXCEPT !.parent = IF @ = 0 /\ cs[k].type # "component"
                                                THEN 0 ELSE ServiceOf(cs, k)]]

Normal(p) ==
  LET cs == p.components
  IN  /\ cs # <<>>
      /\ \A k \in DOMAIN cs : OwnedByService(cs, k)
      /\ Distinct(Resolved(cs), LAMBDA c : <<c.label, c.type, c.parent>>)
      /\ p.root \in DOMAIN cs
      /\ \A j, k \in DOMAIN cs : cs[j].id # None /\ cs[j].id = cs[k].id => j = k

-----------------------------------------------------------------------------
(* Server IDs.                                                             *)

\* Mutant: the first suffix is taken whether or not it is free.
SeedId(k, used) == <<k, 1>>

\* The seed, or the seed with the first free suffix.
UniqueId(k, used) == CHOOSE id \in {<<k, s>> : s \in 1..(Cardinality(used) + 1)} :
  /\ id \notin used
  /\ \A s \in 1..(id[2] - 1) : <<k, s>> \in used

\* The saved component with these words, if there is exactly one.
SavedId(base, label, type, owner) ==
  LET same == {k \in DOMAIN base.nodes :
                 /\ base.nodes[k].label = label /\ base.nodes[k].type = type
                 /\ base.nodes[k].owner = owner}
  IN  IF Cardinality(same) = 1 THEN base.nodes[CHOOSE k \in same : TRUE].id ELSE None

\* Services first: the identity of a component includes its service.
ServicesFirst(cs) ==
  LET all == [k \in DOMAIN cs |-> k]
  IN  SelectSeq(all, LAMBDA k : cs[k].type # "component")
        \o SelectSeq(all, LAMBDA k : cs[k].type = "component")

OwnerIn(cs, ids, k) == IF cs[k].type = "component" THEN ids[cs[k].parent] ELSE None

AssignedIds(cs, base) ==
  LET Give(acc, k) ==
        LET prior  == cs[k].id
            wanted == IF prior # None THEN prior
                      ELSE SavedId(base, cs[k].label, cs[k].type, OwnerIn(cs, acc.ids, k))
            id     == IF wanted # None
                         /\ (wanted \notin acc.used \/ wanted \in Ids(base.nodes))
                      THEN wanted ELSE UniqueId(k, acc.used)
        IN  [ids |-> [acc.ids EXCEPT ![k] = id], used |-> acc.used \cup {id}]
  IN  FoldLeft(Give, [ids |-> [k \in DOMAIN cs |-> None], used |-> Ids(base.nodes)],
               ServicesFirst(cs)).ids

\* An endpoint is the ID a component had or has, or a position.
Endpoint(e, cs, ids) ==
  IF e # None /\ e \in Ids(cs) THEN ids[At(cs, e)]
  ELSE IF e \in ToSet(ids) THEN e
  ELSE IF Len(e) = 1 /\ e[1] \in DOMAIN ids THEN ids[e[1]] ELSE None

Assign(p) ==
  LET cs  == Resolved(p.components)
      ids == AssignedIds(cs, p.base)
  IN  [p EXCEPT
        !.components  = [k \in DOMAIN cs |-> [cs[k] EXCEPT !.id = ids[k],
                                                           !.owner = OwnerIn(cs, ids, k)]],
        !.connections = [j \in DOMAIN @ |->
          [@[j] EXCEPT !.source = Endpoint(@, cs, ids), !.target = Endpoint(@, cs, ids)]]]

\* assign_server_ids raises on a plan that is not normal, an endpoint that names
\* nothing, or (in the fingerprint) two components with one ID.
Assignable(p) ==
  /\ Normal(p)
  /\ LET a == Assign(p)
     IN  /\ Normal(a)
         /\ \A j \in DOMAIN a.connections : None \notin {a.connections[j].source,
                                                         a.connections[j].target}

-----------------------------------------------------------------------------
(* The complete plan.                                                      *)

Edge(c) == <<c.source, c.target, c.label>>

\* The components within k connections of the root.
Within(root, edges) ==
  LET w[k \in 0..Len(edges)] ==
        IF k = 0 THEN {root}
        ELSE w[k - 1] \cup {edges[j].target : j \in {i \in DOMAIN edges :
                                                     edges[i].source \in w[k - 1]}}
  IN  w

Primary(cs) == {cs[k].id : k \in {j \in DOMAIN cs : cs[j].primary}}

\* Distance of each primary component from the root, for those that have one.
Distances(root, primary, edges) ==
  LET w == Within(root, edges)
  IN  [id \in primary \cap w[Len(edges)] |-> Min({k \in DOMAIN w : id \in w[k]})]

Reachable(root, primary, edges) == primary = DOMAIN Distances(root, primary, edges)

Valid(p) ==
  LET cs   == p.components
      root == cs[p.root]
  IN  /\ Normal(p)
      /\ None \notin Ids(cs)
      /\ root.primary
      /\ \A j \in DOMAIN p.connections :
           /\ {p.connections[j].source, p.connections[j].target} \subseteq Ids(cs)
           /\ p.connections[j].source # p.connections[j].target
      /\ Distinct(p.connections, Edge)
      /\ Reachable(root.id, Primary(cs), p.connections)

-----------------------------------------------------------------------------
(* The stored diagram.                                                     *)

\* The positions of components that are the first of their group.
Firsts(cs) ==
  SelectSeq([k \in DOMAIN cs |-> k],
            LAMBDA k : \A j \in 1..(k - 1) : cs[j].group # cs[k].group)

MembersOf(cs, key) ==
  LET in == SelectSeq(cs, LAMBDA c : c.group = key) IN [k \in DOMAIN in |-> in[k].id]

\* Mutant: a group gets the seed of its label as ID, used or not.
SeededGroups(p) ==
  LET fs == Firsts(p.components)
  IN  [k \in DOMAIN fs |-> LET key == p.components[fs[k]].group
                           IN  [id |-> <<key[1], 1>>, key |-> key,
                                nodes |-> MembersOf(p.components, key)]]

\* One group per label and kind, under the ID it has in the stored diagram.
Groups(p) ==
  LET Give(acc, k) ==
        LET key == p.components[k].group
            old == {j \in DOMAIN p.base.groups : p.base.groups[j].key = key}
            id  == IF old # {} THEN p.base.groups[CHOOSE j \in old : TRUE].id
                   ELSE UniqueId(key[1], acc.used)
        IN  [used   |-> acc.used \cup {id},
             groups |-> Append(acc.groups, [id |-> id, key |-> key,
                                            nodes |-> MembersOf(p.components, key)])]
  IN  FoldLeft(Give, [used |-> Ids(p.base.groups), groups |-> <<>>],
               Firsts(p.components)).groups

\* The walkthrough: the primary components by distance, then by position.
Sequence(p) ==
  LET d     == Distances(p.components[p.root].id, Primary(p.components), p.connections)
      steps == SetToSortSeq({d[id] : id \in DOMAIN d}, <)
      Members(k) == SelectSeq([j \in DOMAIN p.components |-> p.components[j].id],
                              LAMBDA id : id \in DOMAIN d /\ d[id] = steps[k])
  IN  [k \in DOMAIN steps |-> Members(k)]

Project(p) ==
  [nodes    |-> [k \in DOMAIN p.components |->
                  [id |-> p.components[k].id, label |-> p.components[k].label,
                   type |-> p.components[k].type, owner |-> p.components[k].owner]],
   edges    |-> p.connections,
   sequence |-> Sequence(p),
   groups   |-> Groups(p)]

-----------------------------------------------------------------------------
(* The stored diagram read back into a plan.                               *)

Walked(g) == FlattenSeq(g.sequence)

\* Mutant: the root is the first component drawn.
FirstDrawn(g) == g.nodes[1].id

\* The root is the first component of the walkthrough.
RootOf(g) ==
  LET known == SelectSeq(Walked(g), LAMBDA id : id \in Ids(g.nodes))
  IN  IF known = <<>> THEN g.nodes[1].id ELSE known[1]

GroupOf(g, id) ==
  LET in == {j \in DOMAIN g.groups : id \in ToSet(g.groups[j].nodes)}
  IN  IF in = {} THEN <<1, "runtime">> ELSE g.groups[CHOOSE j \in in : TRUE].key

Read(g) ==
  Plan(At(g.nodes, RootOf(g)),
       [k \in DOMAIN g.nodes |->
          LET n == g.nodes[k]
          IN  [id |-> n.id, label |-> n.label, type |-> n.type, parent |-> 0,
               owner |-> n.owner, group |-> GroupOf(g, n.id),
               primary |-> n.id \in ToSet(Walked(g)) \cup {RootOf(g)}]],
       g.edges, g)

\* A node is in at most one group and every ID is of one node.
Readable(g) ==
  /\ \A i, j \in DOMAIN g.groups :
       i # j => ToSet(g.groups[i].nodes) \cap ToSet(g.groups[j].nodes) = {}
  /\ Distinct(g.nodes, LAMBDA n : n.id)
  /\ Assignable(Read(g))

Reconstruct(g) == Assign(Read(g))

-----------------------------------------------------------------------------
(* What the model wrote.                                                   *)

\* One component layer: a root position and components that name their parent
\* by position.
ParsedComponents(w, limit) ==
  LET cs == w.components
  IN  /\ Len(cs) \in 1..limit
      /\ w.root \in DOMAIN cs
      /\ \A k \in DOMAIN cs :
           IF cs[k].type = "component"
           THEN cs[k].parent \in DOMAIN cs \ {k} /\ cs[cs[k].parent].type = "service"
           ELSE cs[k].parent = 0
      /\ Distinct(cs, LAMBDA c : <<c.label, c.type, c.parent>>)
      /\ cs[w.root].primary

Decoded(w) == [k \in DOMAIN w.components |->
  LET c == w.components[k]
  IN  [id |-> None, label |-> c.label, type |-> c.type, parent |-> c.parent,
       owner |-> None, group |-> c.group, primary |-> c.primary]]

\* The connection layer, whose endpoints are positions of accepted components.
ParsedConnections(es, cs, root, limit) ==
  /\ Len(es) <= limit
  /\ \A j \in DOMAIN es : /\ {es[j].source, es[j].target} \subseteq DOMAIN cs
                          /\ es[j].source # es[j].target
  /\ Distinct(es, Edge)
  /\ Reachable(root, {k \in DOMAIN cs : cs[k].primary}, es)

Positioned(es) == [j \in DOMAIN es |->
  [es[j] EXCEPT !.source = <<es[j].source>>, !.target = <<es[j].target>>]]
=============================================================================
