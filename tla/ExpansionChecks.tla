--------------------------- MODULE ExpansionChecks ---------------------------
(***************************************************************************)
(* What the browser evaluation asks of a diagram that was to be expanded   *)
(* (backend/eval/browser_runner.py): nothing of the one before is lost or  *)
(* changed, and what is new is what was asked for.  Each check names the   *)
(* first failure it finds; "none" is a pass.                               *)
(***************************************************************************)
EXTENDS DiagramContract

\* How often a connection is drawn.
Times(e, edges) == Cardinality({j \in DOMAIN edges : edges[j] = e})

GroupKept(old, new) ==
  \E j \in DOMAIN new.groups :
    /\ new.groups[j].id = old.id /\ new.groups[j].key = old.key
    /\ ToSet(old.nodes) \subseteq ToSet(new.groups[j].nodes)

\* The steps of the old walkthrough come in the new one, in their order.
InOrder(old, new) ==
  LET Match(n, item) == IF n < Len(old) /\ item = old[n + 1] THEN n + 1 ELSE n
  IN  FoldLeft(Match, 0, new) = Len(old)

PreservationFailure(old, new) ==
  IF ~(Ids(old.nodes) \subseteq Ids(new.nodes)) THEN "prior_node_missing"
  ELSE IF ~(ToSet(old.nodes) \subseteq ToSet(new.nodes)) THEN "prior_node_changed"
  ELSE IF \E e \in ToSet(old.edges) : Times(e, old.edges) > Times(e, new.edges)
  THEN "prior_edge_missing"
  ELSE IF \E k \in DOMAIN old.groups : ~GroupKept(old.groups[k], new)
  THEN "prior_group_changed"
  ELSE IF ~InOrder(old.sequence, new.sequence) THEN "prior_sequence_changed" ELSE "none"

New(old, new) == {n \in ToSet(new.nodes) : n.id \notin Ids(old.nodes)}

\* One component was to be added next to one of the anchors.
ExpansionFailure(old, new, anchors) ==
  LET added == {n.id : n \in New(old, new)} IN
  IF PreservationFailure(old, new) # "none" THEN PreservationFailure(old, new)
  ELSE IF Cardinality(added) # 1 THEN "added_node_count_mismatch"
  ELSE IF \A j \in DOMAIN new.edges, a \in anchors :
            {new.edges[j].source, new.edges[j].target} # added \cup {a}
  THEN "new_node_not_connected" ELSE "none"

\* One to three components were to be added inside each of the target services.
ServiceExpansionFailure(old, new, targets) ==
  LET added == New(old, new)
      Inside(t) == {n \in added : n.owner = t}
  IN
  IF PreservationFailure(old, new) # "none" THEN PreservationFailure(old, new)
  ELSE IF ~Distinct(new.nodes, LAMBDA n : n.id) THEN "node_identity_invalid"
  ELSE IF \E t \in targets :
            LET n == Get(old.nodes, LAMBDA m : m.id = t)
            IN  \/ n.type # "service"
                \/ \E m \in ToSet(old.nodes) :
                     m.id # t /\ m.type = "service" /\ m.label = n.label
  THEN "target_missing_or_ambiguous"
  ELSE IF \E n \in added : n.type # "component" THEN "new_node_type_mismatch"
  ELSE IF \E n \in added : n.owner \notin targets THEN "component_parent_invalid"
  ELSE IF \E t \in targets : Cardinality(Inside(t)) \notin 1..3
  THEN "component_count_mismatch" ELSE "none"
=============================================================================
