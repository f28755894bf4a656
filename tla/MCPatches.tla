------------------------------- MODULE MCPatches -------------------------------
(***************************************************************************)
(* Model values for DiagramPatches: small diagrams, the words a user        *)
(* writes in them, and the contracts a critic writes about them.            *)
(***************************************************************************)
EXTENDS DiagramContract

(* Two services, one of them with a component, in two groups; and two concepts. *)

Id(k) == <<k, 1>>
Box(k, type, owner, lane) ==
  [id |-> Id(k), label |-> <<k>>, type |-> type, technology |-> <<1>>, owner |-> owner,
   lane |-> lane, detail |-> TRUE, sourced |-> FALSE, edited |-> {}]
Arrow(s, t, label, id) ==
  [source |-> Id(s), target |-> Id(t), label |-> <<label>>, technology |-> <<1>>, id |-> id,
   sourced |-> FALSE, edited |-> {}]

MCDrawing(production) ==
  [drawn |-> TRUE, production |-> production,
   nodes |-> <<Box(1, "service", None, "main"), Box(2, "service", None, "bottom"),
               Box(3, "component", Id(2), "bottom")>>,
   edges |-> <<Arrow(1, 2, 1, <<7>>), Arrow(2, 3, 2, <<Id(2), Id(3), <<2>>>>)>>,
   groups |-> <<[id |-> Id(1), kind |-> "runtime", nodes |-> <<Id(1)>>],
                [id |-> Id(2), kind |-> "operations", nodes |-> <<Id(2), Id(3)>>]>>,
   sequence |-> <<<<Id(1)>>, <<Id(2)>>>>]

MCConcepts(es) ==
  [drawn |-> FALSE, production |-> FALSE, groups |-> <<>>, sequence |-> <<>>,
   nodes |-> <<[Box(1, "service", None, "main") EXCEPT !.sourced = TRUE],
               [Box(2, "service", None, "main") EXCEPT !.sourced = TRUE]>>,
   edges |-> [j \in DOMAIN es |-> [es[j] EXCEPT !.sourced = TRUE]]]

MCSelections ==
  {MCConcepts(<<Arrow(1, 2, 1, <<7>>), Arrow(1, 2, 2, <<8>>)>>),
   MCConcepts(<<Arrow(1, 2, 1, None), Arrow(1, 2, 2, <<8>>), Arrow(2, 1, 2, <<8>>)>>),
   [MCConcepts(<<Arrow(2, 1, 1, <<9>>)>>) EXCEPT !.nodes = Reverse(@)]}

\* The same drawing after its user has written in it.
MCWrittenDrawing ==
  [MCDrawing(TRUE) EXCEPT !.nodes[2].label = <<5>>, !.nodes[2].edited = {"label"},
                          !.edges[1].technology = <<5>>, !.edges[1].edited = {"technology"}]

MCDrawn == {MCDrawing(TRUE), MCDrawing(FALSE), MCWrittenDrawing} \cup MCSelections

MCWritings ==
  {[nodes |-> Id(k) :> ws, edges |-> <<>>] :
     k \in {1, 2}, ws \in {[label |-> <<5>>], [label |-> <<5, 0>>],
                           [technology |-> <<>>], [type |-> "queue"]}}
  \cup {[nodes |-> <<>>, edges |-> 1 :> ws] : ws \in {[label |-> <<2>>], [technology |-> <<5>>]}}

(* Contracts. *)

Passing == [status |-> "pass", score |-> 90, findings |-> {}]
Failing(layer) == [status |-> "fail", score |-> 50, findings |-> {layer}]

OnComponents(ops, add, context) ==
  [nodes |-> DOMAIN ops, ops |-> ops, add |-> add, context |-> context]
    @@ (IF ops = <<>> /\ add = 0 THEN Passing ELSE Failing("components"))
OnConnections(ops, due, context) ==
  [edges |-> DOMAIN ops, ops |-> ops, due |-> due, context |-> context]
    @@ (IF ops = <<>> /\ due = <<>> THEN Passing ELSE Failing("connections"))
OnComposition(groups, newGroups, steps, newSteps) ==
  [fields |-> (IF groups = {} /\ newGroups = 0 THEN {} ELSE {"groups"})
                \cup (IF steps = {} /\ newSteps = 0 THEN {} ELSE {"sequence"}),
   groups |-> groups, newGroups |-> newGroups, steps |-> steps, newSteps |-> newSteps]
    @@ (IF groups = {} /\ newGroups = 0 /\ steps = {} /\ newSteps = 0
        THEN Passing ELSE Failing("composition"))

Demand(components, connections, composition) ==
  [scope |-> "local", components |-> components, connections |-> connections,
   composition |-> composition, render |-> Passing]

NoComponents  == OnComponents(<<>>, 0, {})
NoConnections == OnConnections(<<>>, <<>>, {})
NoComposition == OnComposition({}, 0, {}, 0)

Relabel(label) == [kind |-> "update", label |-> label, by |-> {}]
Removed        == [kind |-> "remove", label |-> <<>>, by |-> {}]
Replace(new)   == [kind |-> "replace", label |-> <<>>, by |-> new]
First3         == <<Id(1), Id(2), <<1>>>>
Back           == <<Id(2), Id(1), <<3>>>>
ToNew(n)       == <<Id(1), <<0, n>>, <<3>>>>

Addition(due, context, add, composition) ==
  Demand(OnComponents(<<>>, add, {}), OnConnections(<<>>, due, context), composition)

Good ==
  {Demand(OnComponents(Id(2) :> ws, 0, {}), NoConnections, NoComposition) :
     ws \in {[label |-> <<6>>], [technology |-> <<6>>], [type |-> "queue"]}}
  \cup {Demand(NoComponents, OnConnections(First3 :> op, <<>>, {}), NoComposition) :
          op \in {Relabel(<<6>>), Relabel(<<6, 0>>), Removed}}
  \cup {Demand(NoComponents, OnConnections(First3 :> Replace({Back}), <<Back>>, {Id(1), Id(2)}),
               NoComposition)}
  \cup {Addition(<<ToNew(1)>>, {Id(1)}, 1, c) :
          c \in {OnComposition({Id(1)}, 0, {}, 0), OnComposition({}, 1, {}, 0), NoComposition}}
  \cup {Addition(<<<<<<0, 1>>, <<0, 2>>, <<3>>>>, d>>, {Id(1)}, 2, OnComposition({Id(2)}, 0, {}, 0)) :
          d \in {ToNew(2), <<<<0, 2>>, <<0, 1>>, <<3>>>>}}
  \cup {Demand(NoComponents, NoConnections, c) :
          c \in {OnComposition({Id(1), Id(2)}, 0, {}, 0), OnComposition({}, 0, {2}, 1)}}
  \cup {Demand(OnComponents(Id(1) :> [label |-> <<6>>], 0, {}),
               OnConnections(First3 :> Relabel(<<2>>), <<>>, {}), NoComposition)}

\* Contracts a critic may write that are not admitted.
Bad ==
  LET c == CHOOSE d \in Good : d.components.nodes # {} /\ d.connections.edges = {}
  IN  {[c EXCEPT !.scope = "global"], [c EXCEPT !.components.ops = <<>>],
       [c EXCEPT !.components.nodes = {Id(9)}], [c EXCEPT !.components.score = 90],
       [c EXCEPT !.components = Passing @@ @]}

MCDemands == Good \cup Bad

MCNewIds == {<<<<4, 1>>, <<5, 1>>>>, <<<<1, 1, 0>>, <<1, 1, 0, 0>>>>}
MCNewGroupIds == {<<3, 1>>, <<1, 1, 0>>}
================================================================================
