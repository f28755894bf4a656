------------------------- MODULE ThreadGraphProofs -------------------------
(***************************************************************************)
(* Theorems of ThreadGraph, for any number of chat requests, tabs,         *)
(* versions and revisions, with and without an older release beside it:    *)
(* types, what a version names, how often a request is stored, and what    *)
(* its history keeps.                                                      *)
(***************************************************************************)
EXTENDS ThreadGraph, SequenceTheorems, TLAPS

\* seed_current returns a history of the right shape, keeps what every older
\* checkpoint shows, and ends at a checkpoint of the working diagram.
LEMMA SeedCurrent ==
  ASSUME TypeOK
  PROVE  /\ SeededRevisions \in Seq(Revision)
         /\ SeededActive \in 0..Len(SeededRevisions)
         /\ Len(SeededRevisions) \in Nat
         /\ Len(revisions) <= Len(SeededRevisions)
         /\ \A i \in 1..Len(revisions) :
              /\ SeededRevisions[i].parent = revisions[i].parent
              /\ SeededRevisions[i].content = revisions[i].content
              /\ SeededRevisions[i].version = revisions[i].version
         /\ \A i \in 1..Len(SeededRevisions) : i > Len(revisions) =>
              /\ SeededRevisions[i].parent = active
              /\ SeededRevisions[i].content = graph.content
              /\ SeededRevisions[i].version = graph.version
         /\ HasGraph =>
              /\ SeededActive # 0
              /\ SeededRevisions[SeededActive].content = graph.content
              /\ SeededRevisions[SeededActive].layout = graph.layout
<1> DEFINE k == EffectiveContract(graph, contract)
<1>1. k \in Contract
  BY ConstantsAssumption DEF TypeOK, EffectiveContract, NoContract, Contract, Version, MaybeContent
<1> HIDE DEF k
<1>0. Len(revisions) \in Nat /\ active \in Nat
  BY LenProperties DEF TypeOK
<1>2. CASE HasGraph /\ ShowsActive(graph)
  <2>1. active \in 1..Len(revisions) /\ revisions[active].content = graph.content
    BY <1>2 DEF ShowsActive, TypeOK
  <2>2. SeededRevisions = [revisions EXCEPT ![active] = Synchronized(revisions[active], graph, k)]
    BY <1>2 DEF SeededRevisions, k
  <2>3. SeededActive = active
    BY <1>2 DEF SeededActive
  <2> DEFINE r == revisions[active]
             s == Synchronized(r, graph, k)
  <2>4. r \in Revision
    BY <2>1 DEF TypeOK
  <2>5. /\ s \in Revision
        /\ s.parent = r.parent /\ s.content = r.content
        /\ s.version = r.version /\ s.layout = graph.layout
    BY <1>1, <2>4 DEF Synchronized, Revision, Contract, NoContract, Version, TypeOK, Graph, MaybeContent
  <2> HIDE DEF s
  <2>6. /\ SeededRevisions \in Seq(Revision)
        /\ Len(SeededRevisions) = Len(revisions)
        /\ \A i \in 1..Len(revisions) :
             SeededRevisions[i] = IF i = active THEN s ELSE revisions[i]
    BY <2>1, <2>2, <2>5, ExceptSeq DEF TypeOK, s
  <2> HIDE DEF r
  <2>7. \A i \in 1..Len(revisions) :
          /\ SeededRevisions[i].parent = revisions[i].parent
          /\ SeededRevisions[i].content = revisions[i].content
          /\ SeededRevisions[i].version = revisions[i].version
    BY <2>5, <2>6 DEF r
  <2>8. /\ SeededActive # 0
        /\ SeededRevisions[SeededActive] = s
        /\ SeededActive \in 0..Len(SeededRevisions)
    BY <1>0, <2>1, <2>3, <2>6
  <2>9. s.content = graph.content
    BY <2>1, <2>5 DEF r
  <2>10. QED
    BY <1>0, <2>5, <2>6, <2>7, <2>8, <2>9
<1>3. CASE HasGraph /\ ~ShowsActive(graph)
  <2> DEFINE n == NewRevision(active, graph, k)
  <2>1. SeededRevisions = Append(revisions, n) /\ SeededActive = Len(revisions) + 1
    BY <1>3 DEF SeededRevisions, SeededActive, k
  <2>2. /\ n \in Revision
        /\ n.parent = active /\ n.content = graph.content
        /\ n.version = graph.version /\ n.layout = graph.layout
    BY <1>0, <1>1, <1>3 DEF NewRevision, Revision, TypeOK, Graph, HasGraph, MaybeContent
  <2> HIDE DEF n
  <2>3. /\ SeededRevisions \in Seq(Revision)
        /\ Len(SeededRevisions) = Len(revisions) + 1
        /\ \A i \in 1..Len(revisions) : SeededRevisions[i] = revisions[i]
        /\ SeededRevisions[Len(revisions) + 1] = n
    BY <2>1, <2>2, AppendProperties DEF TypeOK
  <2>4. QED
    BY <2>1, <2>2, <2>3, LenProperties DEF TypeOK
<1>4. CASE ~HasGraph
  BY <1>4, LenProperties DEF SeededRevisions, SeededActive, TypeOK
<1>5. QED
  BY <1>2, <1>3, <1>4

\* A layout write changes no other field.
LEMMA LayoutWritten ==
  ASSUME NEW r \in Revision, NEW l \in MaybeLayout
  PROVE  /\ [r EXCEPT !.layout = l] \in Revision
         /\ [r EXCEPT !.layout = l].parent = r.parent
         /\ [r EXCEPT !.layout = l].content = r.content
         /\ [r EXCEPT !.layout = l].version = r.version
         /\ [r EXCEPT !.layout = l].layout = l
  BY DEF Revision

LEMMA GraphLayoutWritten ==
  ASSUME NEW g \in Graph, NEW l \in MaybeLayout
  PROVE  /\ [g EXCEPT !.layout = l] \in Graph
         /\ [g EXCEPT !.layout = l].content = g.content
         /\ [g EXCEPT !.layout = l].version = g.version
         /\ [g EXCEPT !.layout = l].layout = l
  BY DEF Graph

LEMMA ContractRenamed ==
  ASSUME NEW k \in Contract, NEW v \in Nat
  PROVE  /\ [k EXCEPT !.version = v] \in Contract
         /\ [k EXCEPT !.version = v].version = v
         /\ [k EXCEPT !.version = v].approves = k.approves
  BY DEF Contract, Version

\* Every append of persist_turn keeps the turns well formed.
LEMMA TurnAppended ==
  ASSUME TypeOK, NEW a \in Attempts, NEW n \in Nat, NEW v \in Nat
  PROVE  Append(turns, [request |-> RequestOf[a], by |-> a,
                        revision |-> n, version |-> v]) \in Seq(Turn)
  BY ConstantsAssumption, AppendProperties DEF TypeOK, Turn, Version

LEMMA AnswerIsAnAttempt ==
  ASSUME TypeOK, NEW q \in Requests, Committed(q) # {}
  PROVE  /\ AnswerOf(q) \in Attempts
         /\ \E i \in DOMAIN turns : turns[i].request = q /\ turns[i].by = AnswerOf(q)
<1>1. PICK i \in Committed(q) : i = CHOOSE j \in Committed(q) : TRUE
  OBVIOUS
<1>2. i \in DOMAIN turns /\ turns[i] \in Turn /\ turns[i].request = q
  BY <1>1, ElementOfSeq, LenProperties DEF Committed, TypeOK
<1>3. QED
  BY <1>1, <1>2 DEF AnswerOf, Turn

\* A tab takes a copy of a diagram, or keeps the one it had.
LEMMA TabUpdated ==
  ASSUME TypeOK, NEW t \in Tabs, NEW s \in Tab,
         tab' = [tab EXCEPT ![t] = s] \/ tab' = tab
  PROVE  tab' \in [Tabs -> Tab]
<1>1. CASE tab' = [tab EXCEPT ![t] = s]
  BY <1>1 DEF TypeOK
<1>2. CASE tab' = tab
  BY <1>2 DEF TypeOK
<1>3. QED
  BY <1>1, <1>2

LEMMA TypeInit == Init => TypeOK
<1> SUFFICES ASSUME Init PROVE TypeOK
  OBVIOUS
<1>1. << >> \in Seq(Revision) /\ << >> \in Seq(Turn) /\ << >> \in Seq(Contents)
      /\ <<LegacyContent>> \in Seq(Contents) /\ 0 \in 0..Len(<< >>)
  BY ConstantsAssumption, EmptySeq
<1>2. NoGraph \in Graph /\ LegacyGraph(0) \in Graph /\ LegacyGraph(1) \in Graph
      /\ NoContract \in Contract /\ NoBase \in Base
      /\ [version |-> 0, content |-> NoContent] \in Tab
  BY ConstantsAssumption
  DEF NoGraph, LegacyGraph, NoContract, Graph, Contract, Base, NoBase, Tab,
      Version, MaybeContent, MaybeLayout
<1>3. graph \in Graph /\ minted \in Seq(Contents)
  BY <1>1, <1>2 DEF Init
<1>4. QED
  BY <1>1, <1>2, <1>3 DEF Init, TypeOK, Phases

LEMMA TypeStep == TypeOK /\ [Next]_vars => TypeOK'
<1> SUFFICES ASSUME TypeOK, [Next]_vars PROVE TypeOK'
  OBVIOUS
<1> USE ConstantsAssumption DEF thread, requests
<1>0. Len(revisions) \in Nat /\ Len(turns) \in Nat /\ Len(minted) \in Nat
  BY LenProperties DEF TypeOK
<1>a. ASSUME NEW a \in Attempts, Committed(RequestOf[a]) # {}, Replay(a)
      PROVE  phase' \in [Attempts -> Phases] /\ told' \in [Attempts -> Attempts \cup {NoAttempt}]
  <2>1. AnswerOf(RequestOf[a]) \in Attempts
    BY <1>a, AnswerIsAnAttempt
  <2>2. QED
    BY <1>a, <2>1 DEF Replay, Answer, Move, TypeOK, Phases
<1>b. ASSUME NEW a \in Attempts, GiveUp(a) \/ Answer(a, a)
      PROVE  phase' \in [Attempts -> Phases] /\ told' \in [Attempts -> Attempts \cup {NoAttempt}]
  BY <1>b DEF GiveUp, Answer, Move, TypeOK, Phases
<1>1. ASSUME NEW a \in Attempts, Admit(a) PROVE TypeOK'
  <2>1. phase' \in [Attempts -> Phases] /\ told' \in [Attempts -> Attempts \cup {NoAttempt}]
    <3>1. CASE Move(a, "admitted") /\ UNCHANGED told
      BY <3>1 DEF Move, TypeOK, Phases
    <3>2. QED
      BY <1>1, <1>a, <1>b, <3>1 DEF Admit
  <2>2. QED
    BY <1>1, <2>1 DEF Admit, TypeOK
<1>2. ASSUME NEW a \in Attempts, ReadBase(a) PROVE TypeOK'
  <2> DEFINE b == [version |-> graph.version, revision |-> active, content |-> graph.content]
  <2>1. b \in Base
    BY <1>0 DEF TypeOK, Graph, Base
  <2>2. phase' \in [Attempts -> Phases] /\ told' \in [Attempts -> Attempts \cup {NoAttempt}]
        /\ base' \in [Attempts -> Base]
    <3>1. CASE Move(a, "running") /\ base' = [base EXCEPT ![a] = b] /\ UNCHANGED told
      BY <2>1, <3>1 DEF Move, TypeOK, Phases
    <3>2. CASE UNCHANGED base
      BY <1>2, <1>a, <1>b, <3>1, <3>2 DEF ReadBase, TypeOK
    <3>3. QED
      BY <1>2, <3>1, <3>2 DEF ReadBase
  <2>3. QED
    BY <1>2, <2>2 DEF ReadBase, TypeOK
<1>3. ASSUME NEW a \in Attempts, NEW c \in MaybeContent, NEW reviewed \in BOOLEAN,
             PersistTurn(a, c, reviewed)
      PROVE  TypeOK'
  <2>1. phase' \in [Attempts -> Phases] /\ base' = base
      /\ told' \in [Attempts -> Attempts \cup {NoAttempt}]
    BY <1>3, <1>a, <1>b DEF PersistTurn, PriorTurn
  <2>2. CASE UNCHANGED <<graph, contract, active, revisions, turns, minted>>
    BY <1>3, <2>1, <2>2 DEF PersistTurn, TypeOK
  <2>3. CASE StoreAnswer(a)
    BY <1>3, <2>1, <2>3, TurnAppended DEF PersistTurn, StoreAnswer, TypeOK
  <2>4. CASE GraphSaved(a, c) /\ StoreGraph(a, c, reviewed)
    <3> DEFINE v == FreshVersion
               g == [content |-> c, version |-> v,
                     layout |-> IF MatchesBase(a) THEN PreservedLayout(c) ELSE NoLayout]
               k == IF reviewed THEN [version |-> v, approves |-> c] ELSE NoContract
    <3>1. c \in Contents /\ v \in Nat /\ g \in Graph /\ k \in Contract
      BY <1>0, <2>4 DEF GraphSaved, MaybeContent, MaybeLayout, FreshVersion, Graph, Contract,
                        Version, NoContract, PreservedLayout, TypeOK
    <3>2. g.content = c /\ g.version = v
      OBVIOUS
    <3> HIDE DEF g, k, v
    <3>3. minted' \in Seq(Contents)
      BY <2>4, <3>1, AppendProperties DEF StoreGraph, TypeOK
    <3>4. revisions' \in Seq(Revision) /\ active' \in 0..Len(revisions')
          /\ graph' \in Graph /\ contract' \in Contract
      <4>1. CASE MatchesBase(a)
        <5>1. NewRevision(SeededActive, g, k) \in Revision
          BY <3>1, <3>2, SeedCurrent DEF NewRevision, Revision, Graph
        <5>2. revisions' = Append(SeededRevisions, NewRevision(SeededActive, g, k))
              /\ active' = Len(SeededRevisions) + 1 /\ graph' = g /\ contract' = k
          BY <2>4, <4>1 DEF StoreGraph, g, k, v
        <5>3. QED
          BY <3>1, <5>1, <5>2, SeedCurrent, AppendProperties
      <4>2. CASE ~MatchesBase(a)
        <5>1. NewRevision(base[a].revision, g, k) \in Revision
          BY <3>1, <3>2 DEF NewRevision, Revision, Graph, TypeOK, Base
        <5>2. revisions' = Append(revisions, NewRevision(base[a].revision, g, k))
              /\ active' = active /\ graph' = graph /\ contract' = contract
          BY <2>4, <4>2 DEF StoreGraph, g, k, v
        <5>3. QED
          BY <1>0, <5>1, <5>2, AppendProperties DEF TypeOK
      <4>3. QED
        BY <4>1, <4>2
    <3>5. turns' \in Seq(Turn)
      <4>1. Len(revisions') \in Nat
        BY <3>4, LenProperties
      <4>2. QED
        BY <2>4, <3>1, <4>1, TurnAppended DEF StoreGraph, v
    <3>6. QED
      BY <1>3, <2>1, <3>3, <3>4, <3>5 DEF PersistTurn, TypeOK
  <2>5. QED
    BY <1>3, <2>2, <2>3, <2>4 DEF PersistTurn
<1>4. ASSUME NEW a \in Attempts, Abandon(a) PROVE TypeOK'
  BY <1>4, <1>b DEF Abandon, TypeOK
<1>5. ASSUME NEW t \in Tabs, LoadThread(t) PROVE TypeOK'
  BY <1>5 DEF LoadThread, Shown, TypeOK, Tab, Graph
<1>6. CASE ReadHistory
  BY <1>6, SeedCurrent DEF ReadHistory, TypeOK
<1>7. ASSUME NEW t \in Tabs, NEW l \in Layouts, SaveLayout(t, l) PROVE TypeOK'
  <2>1. SeededActive \in 1..Len(SeededRevisions)
    BY <1>7, SeedCurrent DEF SaveLayout, HoldsVersion
  <2>2. [SeededRevisions[SeededActive] EXCEPT !.layout = l] \in Revision
    <3>1. SeededRevisions[SeededActive] \in Revision
      BY <2>1, SeedCurrent, ElementOfSeq
    <3>2. QED
      BY <3>1, LayoutWritten DEF MaybeLayout
  <2>3. revisions' \in Seq(Revision) /\ Len(revisions') = Len(SeededRevisions)
    BY <1>7, <2>1, <2>2, SeedCurrent, ExceptSeq DEF SaveLayout, MovedInHistory
  <2>4. graph' \in Graph
    BY <1>7, GraphLayoutWritten DEF SaveLayout, TypeOK, MaybeLayout
  <2>5. QED
    BY <1>7, <2>1, <2>3, <2>4, SeedCurrent DEF SaveLayout, TypeOK
<1>8. ASSUME NEW t \in Tabs, NEW c \in Contents, EditContent(t, c) PROVE TypeOK'
  <2> DEFINE v == EditedVersion
             g == [content |-> c, version |-> v, layout |-> graph.layout]
             n == NewRevision(SeededActive, g, EditedContract(v))
  <2>1. v \in Nat /\ g \in Graph /\ g.content = c /\ g.version = v
    BY <1>0 DEF EditedVersion, FreshVersion, TypeOK, Graph, MaybeContent, Version
  <2>2. EditedContract(v) \in Contract
    BY <2>1 DEF EditedContract, NoContract, Contract, Version, MaybeContent
  <2>3. n \in Revision
    BY <2>1, <2>2, SeedCurrent DEF NewRevision, Revision, Graph
  <2> HIDE DEF n
  <2>4. /\ graph' = g /\ contract' = EditedContract(v)
        /\ revisions' = Append(SeededRevisions, n)
        /\ active' = Len(SeededRevisions) + 1
        /\ minted' = Append(minted, c)
        /\ tab' = [tab EXCEPT ![t] = Shown(g)] \/ tab' = tab
        /\ UNCHANGED <<live, turns, requests>>
    BY <1>8 DEF EditContent, n
  <2> HIDE DEF g, v
  <2>5. revisions' \in Seq(Revision) /\ active' \in 0..Len(revisions')
    BY <2>3, <2>4, SeedCurrent, AppendProperties
  <2>6. tab' \in [Tabs -> Tab]
    <3>1. Shown(g) \in Tab
      BY <2>1 DEF Tab, Shown, Graph
    <3>2. QED
      BY <2>4, <3>1, TabUpdated
  <2>7. minted' \in Seq(Contents)
    BY <2>4, AppendProperties DEF TypeOK
  <2>8. QED
    BY <2>1, <2>2, <2>4, <2>5, <2>6, <2>7 DEF TypeOK
<1>9. ASSUME NEW t \in Tabs, NEW n \in 1..MaxRevisions, RestoreRevision(t, n) PROVE TypeOK'
  <2> DEFINE r == SeededRevisions[n]
             g == [content |-> r.content, version |-> RestoredVersion(r), layout |-> r.layout]
  <2>1. n \in 1..Len(SeededRevisions) /\ revisions' = SeededRevisions
        /\ UNCHANGED <<live, turns, requests>>
    BY <1>9, SeedCurrent, LenProperties DEF RestoreRevision
  <2>2. r \in Revision
    BY <2>1, SeedCurrent, ElementOfSeq
  <2>3. g \in Graph /\ Shown(g) \in Tab /\ Shown(graph) \in Tab
    BY <1>0, <2>2 DEF Revision, Graph, Shown, Tab, RestoredVersion, FreshVersion, Version,
                      MaybeContent, TypeOK
  <2>4. CASE /\ n = SeededActive
             /\ UNCHANGED <<graph, contract, minted>>
             /\ active' = SeededActive
             /\ tab' = [tab EXCEPT ![t] = Shown(graph)] \/ UNCHANGED tab
    <3>1. tab' \in [Tabs -> Tab]
      BY <2>3, <2>4, TabUpdated
    <3>2. active' \in 0..Len(revisions') /\ revisions' \in Seq(Revision)
      BY <2>1, <2>4, SeedCurrent
    <3>3. graph' \in Graph /\ contract' \in Contract /\ minted' \in Seq(Contents)
      BY <2>4 DEF TypeOK
    <3>4. QED
      BY <2>1, <3>1, <3>2, <3>3 DEF TypeOK
  <2>5. CASE /\ graph' = g
             /\ contract' = IF r.contract = NoContract THEN NoContract
                            ELSE [r.contract EXCEPT !.version = g.version]
             /\ active' = n
             /\ minted' = Append(minted, r.content)
             /\ tab' = [tab EXCEPT ![t] = Shown(g)] \/ UNCHANGED tab
    <3>1. contract' \in Contract
      BY <2>2, <2>3, <2>5 DEF Revision, Contract, NoContract, Graph, Version, MaybeContent
    <3>2. minted' \in Seq(Contents)
      BY <2>2, <2>5, AppendProperties DEF TypeOK, Revision
    <3>3. tab' \in [Tabs -> Tab] /\ graph' \in Graph
      BY <2>3, <2>5, TabUpdated
    <3>4. active' \in 0..Len(revisions') /\ revisions' \in Seq(Revision)
      BY <2>1, <2>5, SeedCurrent
    <3>5. QED
      BY <2>1, <3>1, <3>2, <3>3, <3>4 DEF TypeOK
  <2>6. QED
    BY <1>9, <2>4, <2>5 DEF RestoreRevision
<1>10. CASE DeleteThread
  <2>1. NoGraph \in Graph /\ NoContract \in Contract
    BY DEF NoGraph, NoContract, Graph, Contract, Version, MaybeContent, MaybeLayout
  <2>2. << >> \in Seq(Revision) /\ << >> \in Seq(Turn) /\ 0 \in 0..Len(<< >>)
    BY EmptySeq
  <2>3. QED
    BY <1>10, <2>1, <2>2 DEF DeleteThread, TypeOK
<1>11. ASSUME NEW c \in Contents, OldWriterSavesGraph(c) PROVE TypeOK'
  BY <1>0, <1>11, AppendProperties DEF OldWriterSavesGraph, TypeOK, FreshVersion, Graph, Contract,
                                 Version, MaybeContent, MaybeLayout
<1>12. ASSUME NEW l \in Layouts, OldWriterSavesLayout(l) PROVE TypeOK'
  BY <1>12 DEF OldWriterSavesLayout, TypeOK, Graph, MaybeLayout
<1>13. CASE UNCHANGED vars
  BY <1>13 DEF vars, TypeOK
<1>14. NoContent \in MaybeContent
  BY DEF MaybeContent
<1>15. QED
  BY <1>1, <1>2, <1>3, <1>4, <1>5, <1>6, <1>7, <1>8, <1>9, <1>10, <1>11, <1>12, <1>13, <1>14
  DEF Next, ChatStep, TabStep, OldWriterStep, RejectInput, Commit

\* The variables keep their types for every value of the constants: an active
\* pointer always names a stored revision of this conversation, or none.
THEOREM TypeCorrect == Spec => []TypeOK
  BY TypeInit, TypeStep, PTL DEF Spec

-----------------------------------------------------------------------------
(* A graph version names one diagram, whatever is generated, edited,       *)
(* restored, deleted or written by an older release, and in any order.     *)

\* Versions are minted one at a time and never taken back.
MintedGrows == minted' = minted \/ \E c \in Contents : minted' = Append(minted, c)

\* No step of a request that is not running starts it but the read of its base.
NoneStarts == /\ base' = base
              /\ \A b \in Attempts : phase'[b] = "running" => phase[b] = "running"

\* The working diagram stays one, and stays unversioned only if it was.
GraphKept == /\ live' => live
             /\ live' /\ HasGraph => HasGraph'
             /\ graph'.version = 0 /\ HasGraph' => graph.version = 0 /\ HasGraph

LEMMA NamesKept ==
  ASSUME TypeOK, MintedGrows
  PROVE  \A v, c : Names(minted, v, c) => Names(minted', v, c)
<1>1. CASE minted' = minted
  BY <1>1
<1>2. ASSUME NEW d \in Contents, minted' = Append(minted, d)
      PROVE  \A v, c : Names(minted, v, c) => Names(minted', v, c)
  <2>1. DOMAIN minted = 1..Len(minted) /\ DOMAIN minted' = 1..(Len(minted) + 1)
        /\ Len(minted) \in Nat
    BY <1>2, AppendProperties, LenProperties DEF TypeOK
  <2>2. \A v \in 1..Len(minted) : minted'[v] = minted[v]
    BY <1>2, AppendProperties DEF TypeOK
  <2>3. QED
    BY <2>1, <2>2 DEF Names
<1>3. QED
  BY <1>1, <1>2 DEF MintedGrows

LEMMA FreshNamed ==
  ASSUME TypeOK, NEW c \in Contents, minted' = Append(minted, c)
  PROVE  /\ FreshVersion \in Nat \ {0}
         /\ Names(minted', FreshVersion, c)
<1>1. Len(minted) \in Nat /\ Len(minted') = Len(minted) + 1
      /\ DOMAIN minted' = 1..Len(minted') /\ minted'[Len(minted) + 1] = c
  BY AppendProperties, LenProperties DEF TypeOK
<1>2. QED
  BY <1>1 DEF FreshVersion, Names

LEMMA SeededNamed ==
  ASSUME TypeOK, GraphNamed, HistoryNamed
  PROVE  \A i \in 1..Len(SeededRevisions) :
           Names(minted, SeededRevisions[i].version, SeededRevisions[i].content)
<1>1. CASE HasGraph
  <2>1. Names(minted, graph.version, graph.content)
    BY <1>1 DEF GraphNamed
  <2>2. Len(revisions) \in Nat
    BY LenProperties DEF TypeOK
  <2>3. TAKE i \in 1..Len(SeededRevisions)
  <2>4. CASE i \in 1..Len(revisions)
    BY <2>4, SeedCurrent DEF HistoryNamed
  <2>5. CASE i > Len(revisions)
    BY <2>1, <2>5, SeedCurrent
  <2>6. QED
    BY <2>2, <2>4, <2>5, SeedCurrent
<1>2. CASE ~HasGraph
  BY <1>2 DEF SeededRevisions, HistoryNamed
<1>3. QED
  BY <1>1, <1>2

\* The history is named after a step that leaves it as S.
LEMMA HistoryKept ==
  ASSUME TypeOK, MintedGrows, NEW S \in Seq(Revision), revisions' = S,
         \A i \in 1..Len(S) : Names(minted, S[i].version, S[i].content)
  PROVE  HistoryNamed'
  BY NamesKept DEF HistoryNamed

\* The history is named after a step that appends n to S.
LEMMA HistoryAppended ==
  ASSUME TypeOK, MintedGrows, NEW S \in Seq(Revision), NEW n \in Revision,
         revisions' = Append(S, n),
         \A i \in 1..Len(S) : Names(minted, S[i].version, S[i].content),
         Names(minted', n.version, n.content)
  PROVE  HistoryNamed'
<1>1. Len(S) \in Nat /\ Len(revisions') = Len(S) + 1 /\ revisions'[Len(S) + 1] = n
      /\ \A i \in 1..Len(S) : revisions'[i] = S[i]
  BY AppendProperties, LenProperties
<1>2. QED
  BY <1>1, NamesKept DEF HistoryNamed

LEMMA TabsKept ==
  ASSUME TypeOK, TabsNamed, MintedGrows, GraphKept,
         NEW t \in Tabs, NEW s \in Tab,
         tab' = [tab EXCEPT ![t] = s] \/ tab' = tab,
         IF s.content # NoContent
         THEN /\ Names(minted', s.version, s.content)
              /\ live' => HasGraph'
         ELSE s.version = 0
  PROVE  TabsNamed'
<1>1. SUFFICES ASSUME NEW u \in Tabs
               PROVE  IF tab'[u].content # NoContent
                      THEN /\ Names(minted', tab'[u].version, tab'[u].content)
                           /\ live' => HasGraph'
                      ELSE tab'[u].version = 0
  BY DEF TabsNamed
<1>2. tab'[u] = tab[u] \/ tab'[u] = s
  BY DEF TypeOK
<1>3. QED
  BY <1>1, <1>2, NamesKept DEF TabsNamed, GraphKept

LEMMA NoTabMoves ==
  ASSUME TypeOK, TabsNamed, MintedGrows, GraphKept, tab' = tab
  PROVE  TabsNamed'
  BY NamesKept DEF TabsNamed, GraphKept

LEMMA BasesKept ==
  ASSUME TypeOK, BasesNamed, MintedGrows, GraphKept, NoneStarts
  PROVE  BasesNamed'
  BY NamesKept DEF BasesNamed, GraphKept, NoneStarts

\* A step that leaves the thread alone, or only clears it.
LEMMA SameGraph ==
  ASSUME UNCHANGED <<live, graph, minted>>
  PROVE  GraphKept /\ MintedGrows /\ (GraphNamed => GraphNamed')
  BY DEF GraphKept, MintedGrows, GraphNamed, HasGraph

\* A step that makes g, shown under a fresh version, the working diagram.
LEMMA FreshGraph ==
  ASSUME TypeOK, NEW g \in Graph, g.content \in Contents, g.version = FreshVersion,
         graph' = g, live' = live, minted' = Append(minted, g.content)
  PROVE  /\ GraphKept /\ MintedGrows /\ GraphNamed' /\ HasGraph'
         /\ Names(minted', g.version, g.content)
<1>1. Names(minted', g.version, g.content) /\ g.version # 0
  BY FreshNamed
<1>2. HasGraph' /\ graph'.version # 0
  BY <1>1, ConstantsAssumption DEF HasGraph
<1>3. QED
  BY <1>1, <1>2 DEF GraphKept, MintedGrows, GraphNamed

LEMMA VersionsInit == Init => VersionsNameContents
<1> SUFFICES ASSUME Init PROVE VersionsNameContents
  OBVIOUS
<1>1. NoContent # LegacyContent
  BY ConstantsAssumption
<1>2. GraphNamed
  <2>1. Len(<<LegacyContent>>) = 1 /\ <<LegacyContent>>[1] = LegacyContent
    OBVIOUS
  <2>2. QED
    BY <1>1, <2>1 DEF Init, GraphNamed, HasGraph, NoGraph, LegacyGraph, Names
<1>3. HistoryNamed
  BY EmptySeq DEF Init, HistoryNamed
<1>4. TabsNamed /\ BasesNamed
  BY DEF Init, TabsNamed, BasesNamed
<1>5. QED
  BY <1>2, <1>3, <1>4 DEF VersionsNameContents

\* A request that is answered or given up does not start running.
LEMMA Finished ==
  ASSUME TypeOK, NEW a \in Attempts, base' = base,
         GiveUp(a) \/ Replay(a) \/ Answer(a, a) \/ (Move(a, "admitted") /\ UNCHANGED told)
  PROVE  NoneStarts
<1>1. PICK p \in Phases : p # "running" /\ phase' = [phase EXCEPT ![a] = p]
  BY DEF GiveUp, Replay, Answer, Move, Phases
<1>2. QED
  BY <1>1 DEF NoneStarts, TypeOK

\* The commit of a turn: whatever it stores, its version is new.
LEMMA CommitKeepsNames ==
  ASSUME TypeOK, VersionsNameContents,
         NEW a \in Attempts, NEW c \in MaybeContent, NEW reviewed \in BOOLEAN,
         PersistTurn(a, c, reviewed)
  PROVE  VersionsNameContents'
<1>1. NoneStarts
  BY Finished DEF PersistTurn
<1>2. tab' = tab /\ live' = live
  BY DEF PersistTurn
<1>3. CASE UNCHANGED <<graph, revisions, minted>>
  BY <1>1, <1>2, <1>3, SameGraph, NoTabMoves, BasesKept
  DEF VersionsNameContents, HistoryNamed
<1>4. CASE GraphSaved(a, c) /\ StoreGraph(a, c, reviewed)
  <2> DEFINE v == FreshVersion
             g == [content |-> c, version |-> v,
                   layout |-> IF MatchesBase(a) THEN PreservedLayout(c) ELSE NoLayout]
             k == IF reviewed THEN [version |-> v, approves |-> c] ELSE NoContract
  <2>0. Len(minted) \in Nat
    BY LenProperties DEF TypeOK
  <2>1. c \in Contents /\ v \in Nat /\ g \in Graph /\ k \in Contract
    BY <1>4, <2>0 DEF GraphSaved, MaybeContent, MaybeLayout, FreshVersion, Graph, Contract,
                      Version, NoContract, PreservedLayout, TypeOK
  <2>2. g.content = c /\ g.version = v
    OBVIOUS
  <2>3. minted' = Append(minted, c)
    BY <1>4 DEF StoreGraph
  <2>4. MatchesBase(a) =>
          /\ revisions' = Append(SeededRevisions, NewRevision(SeededActive, g, k))
          /\ graph' = g
    BY <1>4 DEF StoreGraph
  <2>5. ~MatchesBase(a) =>
          /\ revisions' = Append(revisions, NewRevision(base[a].revision, g, k))
          /\ graph' = graph
    BY <1>4 DEF StoreGraph
  <2> HIDE DEF g, k, v
  <2>6. MintedGrows /\ Names(minted', g.version, g.content)
    BY <2>1, <2>2, <2>3, FreshNamed DEF MintedGrows, v
  <2>7. ASSUME NEW i \in Nat
        PROVE  /\ NewRevision(i, g, k) \in Revision
               /\ NewRevision(i, g, k).version = g.version
               /\ NewRevision(i, g, k).content = g.content
    BY <2>1, <2>2 DEF NewRevision, Revision, Graph
  <2>8. CASE MatchesBase(a)
    <3>1. GraphKept /\ GraphNamed'
      BY <1>2, <2>1, <2>2, <2>3, <2>4, <2>8, FreshGraph DEF v
    <3>2. SeededActive \in Nat /\ SeededRevisions \in Seq(Revision)
      BY SeedCurrent
    <3>3. HistoryNamed'
      BY <2>4, <2>6, <2>7, <2>8, <3>2, SeededNamed, HistoryAppended DEF VersionsNameContents
    <3>4. QED
      BY <1>1, <1>2, <2>6, <3>1, <3>3, NoTabMoves, BasesKept DEF VersionsNameContents
  <2>9. CASE ~MatchesBase(a)
    <3>1. GraphKept /\ GraphNamed'
      BY <1>2, <2>5, <2>6, <2>9, NamesKept DEF GraphKept, GraphNamed, HasGraph, VersionsNameContents
    <3>2. base[a].revision \in Nat /\ revisions \in Seq(Revision)
      BY DEF TypeOK, Base
    <3>3. HistoryNamed'
      BY <2>5, <2>6, <2>7, <2>9, <3>2, HistoryAppended DEF VersionsNameContents, HistoryNamed
    <3>4. QED
      BY <1>1, <1>2, <2>6, <3>1, <3>3, NoTabMoves, BasesKept DEF VersionsNameContents
  <2>10. QED
    BY <2>8, <2>9
<1>5. QED
  BY <1>3, <1>4 DEF PersistTurn, StoreAnswer

LEMMA RestoreKeepsNames ==
  ASSUME TypeOK, VersionsNameContents,
         NEW t \in Tabs, NEW n \in 1..MaxRevisions, RestoreRevision(t, n)
  PROVE  VersionsNameContents'
<1> DEFINE r == SeededRevisions[n]
           g == [content |-> r.content, version |-> RestoredVersion(r), layout |-> r.layout]
<1>1. n \in 1..Len(SeededRevisions) /\ revisions' = SeededRevisions
      /\ live' = live /\ base' = base /\ phase' = phase /\ HasGraph /\ live
  BY SeedCurrent, LenProperties DEF RestoreRevision, requests
<1>2. r \in Revision
  BY <1>1, SeedCurrent, ElementOfSeq
<1>3. g \in Graph /\ g.content = r.content /\ g.version = FreshVersion /\ r.content \in Contents
      /\ Shown(g) \in Tab /\ Shown(graph) \in Tab
  <2>1. Len(minted) \in Nat
    BY LenProperties DEF TypeOK
  <2>2. QED
    BY <1>2, <2>1 DEF Revision, Graph, Shown, Tab, RestoredVersion, FreshVersion, Version,
                      MaybeContent, TypeOK
<1>4. NoneStarts
  BY <1>1 DEF NoneStarts
<1>5. Shown(g).version = g.version /\ Shown(g).content = g.content
      /\ Shown(graph).version = graph.version /\ Shown(graph).content = graph.content
      /\ g.content # NoContent /\ graph.content # NoContent
  BY <1>1, <1>3, ConstantsAssumption DEF Shown, HasGraph
<1>6. CASE /\ n = SeededActive
           /\ UNCHANGED <<graph, contract, minted>>
           /\ tab' = [tab EXCEPT ![t] = Shown(graph)] \/ UNCHANGED tab
  <2>1. GraphKept /\ MintedGrows /\ GraphNamed' /\ HasGraph'
    BY <1>1, <1>6, SameGraph DEF VersionsNameContents, HasGraph
  <2>2. Names(minted', graph.version, graph.content)
    BY <1>1, <1>6 DEF GraphNamed, VersionsNameContents
  <2>3. TabsNamed'
    <3>1. tab' = [tab EXCEPT ![t] = Shown(graph)] \/ tab' = tab
      BY <1>6
    <3>2. QED
      BY <1>3, <1>5, <2>1, <2>2, <3>1, TabsKept DEF VersionsNameContents
  <2>4. HistoryNamed'
    BY <1>1, <2>1, SeedCurrent, SeededNamed, HistoryKept DEF VersionsNameContents
  <2>5. QED
    BY <1>4, <2>1, <2>3, <2>4, BasesKept DEF VersionsNameContents
<1>7. CASE /\ graph' = g
           /\ minted' = Append(minted, r.content)
           /\ tab' = [tab EXCEPT ![t] = Shown(g)] \/ UNCHANGED tab
  <2> HIDE DEF g
  <2>1. GraphKept /\ MintedGrows /\ GraphNamed' /\ HasGraph'
        /\ Names(minted', g.version, g.content)
    BY <1>1, <1>3, <1>7, FreshGraph
  <2>2. TabsNamed'
    <3>1. tab' = [tab EXCEPT ![t] = Shown(g)] \/ tab' = tab
      BY <1>7
    <3>2. QED
      BY <1>3, <1>5, <2>1, <3>1, TabsKept DEF VersionsNameContents
  <2>3. HistoryNamed'
    BY <1>1, <2>1, SeedCurrent, SeededNamed, HistoryKept DEF VersionsNameContents
  <2>4. QED
    BY <1>4, <2>1, <2>2, <2>3, BasesKept DEF VersionsNameContents
<1>8. QED
  BY <1>6, <1>7 DEF RestoreRevision

LEMMA EditKeepsNames ==
  ASSUME TypeOK, VersionsNameContents,
         NEW t \in Tabs, NEW c \in Contents, EditContent(t, c)
  PROVE  VersionsNameContents'
<1> DEFINE v == EditedVersion
           g == [content |-> c, version |-> v, layout |-> graph.layout]
           k == EditedContract(v)
           n == NewRevision(SeededActive, g, k)
<1>0. Len(minted) \in Nat
  BY LenProperties DEF TypeOK
<1>1. v \in Nat /\ g \in Graph /\ g.content = c /\ g.version = v
      /\ Shown(g) \in Tab /\ Shown(g).content = c /\ Shown(g).version = v
  BY <1>0 DEF EditedVersion, FreshVersion, TypeOK, Graph, MaybeContent, Version, Shown, Tab
<1>2. k \in Contract
  BY <1>1 DEF EditedContract, NoContract, Contract, Version, MaybeContent
<1>3. n \in Revision /\ n.version = g.version /\ n.content = g.content
  BY <1>1, <1>2, SeedCurrent DEF NewRevision, Revision, Graph
<1> HIDE DEF n
<1>4. /\ graph' = g /\ revisions' = Append(SeededRevisions, n)
      /\ minted' = Append(minted, c)
      /\ tab' = [tab EXCEPT ![t] = Shown(g)] \/ tab' = tab
      /\ live' = live /\ base' = base /\ phase' = phase
  BY DEF EditContent, n, requests
<1> HIDE DEF g
<1>5. GraphKept /\ MintedGrows /\ GraphNamed' /\ HasGraph'
      /\ Names(minted', g.version, g.content)
  BY <1>1, <1>4, FreshGraph DEF EditedVersion
<1>6. TabsNamed'
  BY <1>1, <1>4, <1>5, TabsKept, ConstantsAssumption DEF VersionsNameContents
<1>7. HistoryNamed'
  BY <1>3, <1>4, <1>5, SeedCurrent, SeededNamed, HistoryAppended DEF VersionsNameContents
<1>8. NoneStarts
  BY <1>4 DEF NoneStarts
<1>9. QED
  BY <1>5, <1>6, <1>7, <1>8, BasesKept DEF VersionsNameContents

LEMMA ReadBaseKeepsNames ==
  ASSUME TypeOK, VersionsNameContents, NEW a \in Attempts, ReadBase(a)
  PROVE  VersionsNameContents'
<1> DEFINE b == [version |-> graph.version, revision |-> active, content |-> graph.content]
<1>1. UNCHANGED <<live, graph, revisions, minted, tab>>
  BY DEF ReadBase, thread
<1>2. GraphKept /\ MintedGrows /\ GraphNamed' /\ HistoryNamed' /\ TabsNamed'
  BY <1>1, SameGraph DEF VersionsNameContents, HistoryNamed, TabsNamed, HasGraph
<1>3. CASE NoneStarts
  BY <1>2, <1>3, BasesKept DEF VersionsNameContents
<1>4. CASE live /\ Move(a, "running") /\ base' = [base EXCEPT ![a] = b]
  <2>1. b.version = graph.version /\ b.content = graph.content
    OBVIOUS
  <2> HIDE DEF b
  <2>2. IF b.content # NoContent
        THEN Names(minted', b.version, b.content) /\ (live' => HasGraph')
        ELSE b.version = 0 /\ (graph'.version = 0 => ~HasGraph')
    BY <1>1, <2>1 DEF VersionsNameContents, GraphNamed, HasGraph
  <2>3. SUFFICES ASSUME NEW d \in Attempts, phase'[d] = "running"
                 PROVE  IF base'[d].content # NoContent
                        THEN /\ Names(minted', base'[d].version, base'[d].content)
                             /\ live' => HasGraph'
                        ELSE base'[d].version = 0 /\ (graph'.version = 0 => ~HasGraph')
    BY <1>2 DEF VersionsNameContents, BasesNamed
  <2>4. CASE d = a
    <3>1. base'[d] = b
      BY <1>4, <2>4 DEF TypeOK
    <3>2. QED
      BY <2>2, <3>1
  <2>5. CASE d # a
    <3>1. base'[d] = base[d] /\ phase[d] = "running"
      BY <1>4, <2>3, <2>5 DEF TypeOK, Move
    <3>2. QED
      BY <1>1, <3>1 DEF VersionsNameContents, BasesNamed, HasGraph
  <2>6. QED
    BY <2>4, <2>5
<1>5. QED
  BY <1>3, <1>4, Finished DEF ReadBase

LEMMA VersionsStep == TypeOK /\ VersionsNameContents /\ [Next]_vars => VersionsNameContents'
<1> SUFFICES ASSUME TypeOK, VersionsNameContents, [Next]_vars PROVE VersionsNameContents'
  OBVIOUS
<1> USE DEF thread, requests
<1>a. ASSUME UNCHANGED thread, tab' = tab, minted' = minted, NoneStarts
      PROVE  VersionsNameContents'
  BY <1>a, SameGraph, NoTabMoves, BasesKept DEF VersionsNameContents, HistoryNamed
<1>1. ASSUME NEW a \in Attempts, Admit(a) PROVE VersionsNameContents'
  BY <1>1, <1>a, Finished DEF Admit
<1>2. ASSUME NEW a \in Attempts, ReadBase(a) PROVE VersionsNameContents'
  BY <1>2, ReadBaseKeepsNames
<1>3. ASSUME NEW a \in Attempts, NEW c \in MaybeContent, NEW reviewed \in BOOLEAN,
             PersistTurn(a, c, reviewed)
      PROVE  VersionsNameContents'
  BY <1>3, CommitKeepsNames
<1>4. ASSUME NEW a \in Attempts, Abandon(a) PROVE VersionsNameContents'
  BY <1>4, <1>a, Finished DEF Abandon
<1>5. ASSUME NEW t \in Tabs, LoadThread(t) PROVE VersionsNameContents'
  <2>1. UNCHANGED <<live, graph, revisions, minted>> /\ NoneStarts
        /\ tab' = [tab EXCEPT ![t] = Shown(graph)]
    BY <1>5 DEF LoadThread, NoneStarts
  <2>2. Shown(graph) \in Tab /\ Shown(graph).version = graph.version
        /\ Shown(graph).content = graph.content
    BY DEF Shown, Tab, TypeOK, Graph
  <2>3. GraphKept /\ MintedGrows /\ GraphNamed' /\ HistoryNamed'
    BY <2>1, SameGraph DEF VersionsNameContents, HistoryNamed
  <2>4. IF graph.content # NoContent
        THEN Names(minted', graph.version, graph.content) /\ HasGraph'
        ELSE graph.version = 0
    BY <2>1 DEF VersionsNameContents, GraphNamed, HasGraph
  <2>5. TabsNamed'
    BY <2>1, <2>2, <2>3, <2>4, TabsKept DEF VersionsNameContents
  <2>6. QED
    BY <2>1, <2>3, <2>5, BasesKept DEF VersionsNameContents
<1>6. CASE ReadHistory
  <2>1. GraphKept /\ MintedGrows /\ GraphNamed' /\ NoneStarts /\ tab' = tab
    BY <1>6, SameGraph DEF ReadHistory, VersionsNameContents, NoneStarts
  <2>2. HistoryNamed'
    BY <1>6, <2>1, SeedCurrent, SeededNamed, HistoryKept DEF ReadHistory, VersionsNameContents
  <2>3. QED
    BY <2>1, <2>2, NoTabMoves, BasesKept DEF VersionsNameContents
<1>7. ASSUME NEW t \in Tabs, NEW l \in Layouts, SaveLayout(t, l) PROVE VersionsNameContents'
  <2>1. /\ graph'.content = graph.content /\ graph'.version = graph.version
        /\ UNCHANGED <<live, minted, tab>> /\ NoneStarts
    BY <1>7, GraphLayoutWritten DEF SaveLayout, NoneStarts, TypeOK, MaybeLayout
  <2>2. GraphKept /\ MintedGrows /\ GraphNamed'
    BY <2>1 DEF GraphKept, MintedGrows, GraphNamed, VersionsNameContents, HasGraph
  <2>3. SeededActive \in 1..Len(SeededRevisions)
    BY <1>7, SeedCurrent DEF SaveLayout, HoldsVersion
  <2> DEFINE s == [SeededRevisions[SeededActive] EXCEPT !.layout = l]
  <2>4. /\ s \in Revision /\ s.version = SeededRevisions[SeededActive].version
        /\ s.content = SeededRevisions[SeededActive].content
    <3>1. SeededRevisions[SeededActive] \in Revision
      BY <2>3, SeedCurrent, ElementOfSeq
    <3>2. QED
      BY <3>1, LayoutWritten DEF MaybeLayout
  <2>5. /\ revisions' \in Seq(Revision) /\ Len(revisions') = Len(SeededRevisions)
        /\ \A i \in 1..Len(SeededRevisions) :
             revisions'[i] = IF i = SeededActive THEN s ELSE SeededRevisions[i]
    BY <1>7, <2>3, <2>4, SeedCurrent, ExceptSeq DEF SaveLayout, MovedInHistory
  <2> HIDE DEF s
  <2>6. HistoryNamed'
    BY <2>1, <2>4, <2>5, SeededNamed DEF HistoryNamed, VersionsNameContents
  <2>7. QED
    BY <2>1, <2>2, <2>6, NoTabMoves, BasesKept DEF VersionsNameContents
<1>8. ASSUME NEW t \in Tabs, NEW c \in Contents, EditContent(t, c) PROVE VersionsNameContents'
  BY <1>8, EditKeepsNames
<1>9. ASSUME NEW t \in Tabs, NEW n \in 1..MaxRevisions, RestoreRevision(t, n)
      PROVE  VersionsNameContents'
  BY <1>9, RestoreKeepsNames
<1>10. CASE DeleteThread
  <2>1. /\ graph'.content = NoContent /\ graph'.version = 0 /\ ~live'
        /\ revisions' = << >> /\ UNCHANGED <<tab, minted>> /\ NoneStarts
    BY <1>10 DEF DeleteThread, NoGraph, NoneStarts
  <2>2. GraphKept /\ MintedGrows /\ GraphNamed'
    BY <2>1 DEF GraphKept, MintedGrows, GraphNamed, HasGraph
  <2>3. HistoryNamed'
    BY <2>1, EmptySeq DEF HistoryNamed
  <2>4. QED
    BY <2>1, <2>2, <2>3, NoTabMoves, BasesKept DEF VersionsNameContents
<1>11. ASSUME NEW c \in Contents, OldWriterSavesGraph(c) PROVE VersionsNameContents'
  <2> DEFINE g == [content |-> c, version |-> FreshVersion, layout |-> NoLayout]
  <2>1. g.content = c /\ g.version = FreshVersion /\ g \in Graph
    <3>1. Len(minted) \in Nat
      BY LenProperties DEF TypeOK
    <3>2. QED
      BY <3>1 DEF Graph, FreshVersion, Version, MaybeContent, MaybeLayout
  <2>2. graph' = g /\ minted' = Append(minted, c)
        /\ UNCHANGED <<live, revisions, tab>> /\ NoneStarts
    BY <1>11 DEF OldWriterSavesGraph, NoneStarts
  <2> HIDE DEF g
  <2>3. GraphKept /\ MintedGrows /\ GraphNamed'
    BY <2>1, <2>2, FreshGraph
  <2>4. HistoryNamed'
    <3>1. revisions \in Seq(Revision)
      BY DEF TypeOK
    <3>2. QED
      BY <2>2, <2>3, <3>1, HistoryKept DEF VersionsNameContents, HistoryNamed
  <2>5. QED
    BY <2>2, <2>3, <2>4, NoTabMoves, BasesKept DEF VersionsNameContents
<1>12. ASSUME NEW l \in Layouts, OldWriterSavesLayout(l) PROVE VersionsNameContents'
  <2>1. /\ graph'.content = graph.content /\ graph'.version = graph.version
        /\ UNCHANGED <<live, minted, tab, revisions>> /\ NoneStarts
    BY <1>12, GraphLayoutWritten DEF OldWriterSavesLayout, NoneStarts, TypeOK, MaybeLayout
  <2>2. GraphKept /\ MintedGrows /\ GraphNamed' /\ HistoryNamed'
    BY <2>1 DEF GraphKept, MintedGrows, GraphNamed, VersionsNameContents, HasGraph, HistoryNamed
  <2>3. QED
    BY <2>1, <2>2, NoTabMoves, BasesKept DEF VersionsNameContents
<1>13. CASE UNCHANGED vars
  BY <1>13, <1>a DEF vars, NoneStarts
<1>14. NoContent \in MaybeContent
  BY DEF MaybeContent
<1>15. QED
  BY <1>1, <1>2, <1>3, <1>4, <1>5, <1>6, <1>7, <1>8, <1>9, <1>10, <1>11, <1>12, <1>13, <1>14
  DEF Next, ChatStep, TabStep, OldWriterStep, RejectInput, Commit

\* Every kept copy of a version, in the working diagram, the history, a tab or
\* a running generation, stands beside the content the version was minted for.
THEOREM VersionsNamed == Spec => []VersionsNameContents
  BY TypeInit, TypeStep, VersionsInit, VersionsStep, PTL DEF Spec

\* So whoever passes the version check of save_graph, edit_graph_content,
\* restore_revision or persist_turn has seen the diagram it is about to change.
THEOREM OneDiagramPerVersion == Spec => []VersionNamesOneDiagram
<1>1. TypeOK /\ VersionsNameContents => VersionNamesOneDiagram
  BY DEF VersionsNameContents, VersionNamesOneDiagram, GraphNamed, TabsNamed, BasesNamed,
         MatchesBase, HasGraph, Names
<1>2. QED
  BY <1>1, TypeCorrect, VersionsNamed, PTL

LEMMA FreshOrSame ==
  ASSUME TypeOK, [Next]_vars, live'
  PROVE  graph'.version \in {graph.version, FreshVersion}
<1> USE DEF thread, requests
<1>1. ASSUME NEW a \in Attempts, NEW c \in MaybeContent, NEW reviewed \in BOOLEAN,
             PersistTurn(a, c, reviewed)
      PROVE  graph'.version \in {graph.version, FreshVersion}
  BY <1>1 DEF PersistTurn, StoreGraph, StoreAnswer
<1>2. ASSUME NEW a \in Attempts, Admit(a) \/ ReadBase(a) \/ Abandon(a)
      PROVE  graph'.version = graph.version
  BY <1>2 DEF Admit, ReadBase, Abandon
<1>3. ASSUME NEW t \in Tabs, LoadThread(t) PROVE graph'.version = graph.version
  BY <1>3 DEF LoadThread
<1>4. ASSUME NEW t \in Tabs, NEW l \in Layouts, SaveLayout(t, l)
      PROVE  graph'.version = graph.version
  BY <1>4, GraphLayoutWritten DEF SaveLayout, TypeOK, MaybeLayout
<1>5. ASSUME NEW t \in Tabs, NEW c \in Contents, EditContent(t, c)
      PROVE  graph'.version = FreshVersion
  BY <1>5 DEF EditContent, EditedVersion
<1>6. ASSUME NEW t \in Tabs, NEW n \in 1..MaxRevisions, RestoreRevision(t, n)
      PROVE  graph'.version \in {graph.version, FreshVersion}
  <2> DEFINE r == SeededRevisions[n]
             g == [content |-> r.content, version |-> RestoredVersion(r), layout |-> r.layout]
  <2>1. graph' = graph \/ graph' = g
    BY <1>6 DEF RestoreRevision
  <2>2. QED
    BY <2>1 DEF RestoredVersion
<1>7. CASE ReadHistory \/ UNCHANGED vars
  BY <1>7 DEF ReadHistory, vars
<1>8. CASE DeleteThread
  BY <1>8 DEF DeleteThread
<1>9. ASSUME NEW c \in Contents, OldWriterSavesGraph(c)
      PROVE  graph'.version = FreshVersion
  BY <1>9 DEF OldWriterSavesGraph
<1>10. ASSUME NEW l \in Layouts, OldWriterSavesLayout(l)
       PROVE  graph'.version = graph.version
  BY <1>10, GraphLayoutWritten DEF OldWriterSavesLayout, TypeOK, MaybeLayout
<1>11. NoContent \in MaybeContent
  BY DEF MaybeContent
<1>12. QED
  BY <1>1, <1>2, <1>3, <1>4, <1>5, <1>6, <1>7, <1>8, <1>9, <1>10, <1>11
  DEF Next, ChatStep, TabStep, OldWriterStep, RejectInput, Commit

\* A version given to the working diagram is new to every tab: a layout write,
\* an edit or a restore sent before the activation is refused after it.
THEOREM ActivationsAlwaysNew == Spec => ActivationsAreNew
<1>1. TypeOK /\ VersionsNameContents /\ [Next]_vars =>
        [live' /\ graph'.version # graph.version
           => \A t \in Tabs : tab[t].version # graph'.version]_vars
  <2> SUFFICES ASSUME TypeOK, VersionsNameContents, [Next]_vars, live',
                      graph'.version # graph.version, NEW t \in Tabs
               PROVE  tab[t].version # graph'.version
    OBVIOUS
  <2>1. graph'.version = Len(minted) + 1
    BY FreshOrSame DEF FreshVersion
  <2>2. Len(minted) \in Nat /\ DOMAIN minted = 1..Len(minted)
    BY LenProperties DEF TypeOK
  <2>3. tab[t].version = 0 \/ tab[t].version \in 1..Len(minted)
    BY <2>2 DEF VersionsNameContents, TabsNamed, Names
  <2>4. QED
    BY <2>1, <2>2, <2>3
<1>2. QED
  BY <1>1, TypeCorrect, VersionsNamed, PTL DEF Spec, ActivationsAreNew

-----------------------------------------------------------------------------
(* A request is stored once, whoever is told so, and the conversation      *)
(* keeps within its message limit.                                         *)

TurnOf(a, n, v) == [request |-> RequestOf[a], by |-> a, revision |-> n, version |-> v]

\* The four things a step may do to the stored turns and to who was told.
NothingSaid == UNCHANGED <<live, turns, phase, told>>

NothingStored(a) ==
  /\ UNCHANGED <<live, turns>>
  /\ \/ live /\ Committed(RequestOf[a]) # {} /\ Replay(a)
     \/ \E p \in Phases \ {"done"} : Move(a, p) /\ UNCHANGED told

Stored(a) ==
  /\ UNCHANGED live
  /\ Committed(RequestOf[a]) = {} /\ ~LimitReached
  /\ \E n, v \in Nat : turns' = Append(turns, TurnOf(a, n, v))
  /\ Answer(a, a) \/ GiveUp(a)

Deleted == ~live' /\ turns' = << >>

LEMMA GivingUpStoresNothing ==
  ASSUME NEW a \in Attempts, GiveUp(a), UNCHANGED <<live, turns>>
  PROVE  NothingStored(a)
  BY DEF GiveUp, NothingStored, Phases

LEMMA PersistTurnStores ==
  ASSUME TypeOK, TypeOK',
         NEW a \in Attempts, NEW c \in MaybeContent, NEW reviewed \in BOOLEAN,
         PersistTurn(a, c, reviewed)
  PROVE  NothingStored(a) \/ Stored(a)
<1>1. CASE GiveUp(a) /\ UNCHANGED turns
  BY <1>1, GivingUpStoresNothing DEF PersistTurn
<1>2. CASE live /\ PriorTurn(a) /\ Replay(a) /\ UNCHANGED turns
  BY <1>2 DEF PersistTurn, PriorTurn, NothingStored
<1>3. ASSUME ~PriorTurn(a), ~OverLimit(a), Answer(a, a) \/ GiveUp(a),
             StoreAnswer(a) \/ StoreGraph(a, c, reviewed)
      PROVE  Stored(a)
  <2>1. CASE StoreAnswer(a)
    <3>1. turns' = Append(turns, TurnOf(a, 0, 0))
      BY <2>1 DEF StoreAnswer, TurnOf
    <3>2. QED
      BY <1>3, <3>1 DEF Stored, PriorTurn, OverLimit, PersistTurn
  <2>2. CASE StoreGraph(a, c, reviewed)
    <3>1. Len(revisions') \in Nat /\ FreshVersion \in Nat
      BY LenProperties DEF TypeOK, FreshVersion
    <3>2. turns' = Append(turns, TurnOf(a, Len(revisions'), FreshVersion))
      BY <2>2 DEF StoreGraph, TurnOf
    <3>3. QED
      BY <1>3, <3>1, <3>2 DEF Stored, PriorTurn, OverLimit, PersistTurn
  <2>3. QED
    BY <1>3, <2>1, <2>2
<1>4. QED
  BY <1>1, <1>2, <1>3 DEF PersistTurn

\* What a step does to the turns, by action.
LEMMA TurnStep ==
  ASSUME TypeOK, TypeOK', [Next]_vars
  PROVE  NothingSaid \/ (\E a \in Attempts : NothingStored(a) \/ Stored(a)) \/ Deleted
<1> USE DEF thread, requests
<1>1. ASSUME NEW a \in Attempts, Admit(a) PROVE NothingStored(a)
  BY <1>1, GivingUpStoresNothing DEF Admit, NothingStored, Phases
<1>2. ASSUME NEW a \in Attempts, ReadBase(a) PROVE NothingStored(a)
  BY <1>2, GivingUpStoresNothing DEF ReadBase, NothingStored, Phases
<1>3. ASSUME NEW a \in Attempts, RejectInput(a) PROVE NothingStored(a) \/ Stored(a)
  BY <1>3, PersistTurnStores DEF RejectInput, MaybeContent
<1>4. ASSUME NEW a \in Attempts, Commit(a) PROVE NothingStored(a) \/ Stored(a)
  BY <1>4, PersistTurnStores DEF Commit
<1>5. ASSUME NEW a \in Attempts, Abandon(a) PROVE NothingStored(a)
  BY <1>5, GivingUpStoresNothing DEF Abandon
<1>6. CASE ChatStep
  BY <1>1, <1>2, <1>3, <1>4, <1>5, <1>6 DEF ChatStep
<1>7. CASE TabStep
  BY <1>7 DEF TabStep, LoadThread, SaveLayout, EditContent, RestoreRevision, NothingSaid
<1>8. CASE ReadHistory \/ OldWriterStep \/ UNCHANGED vars
  BY <1>8 DEF ReadHistory, OldWriterStep, OldWriterSavesGraph, OldWriterSavesLayout, vars,
              NothingSaid
<1>9. CASE DeleteThread
  BY <1>9 DEF DeleteThread, Deleted
<1>10. QED
  BY <1>6, <1>7, <1>8, <1>9 DEF Next

-----------------------------------------------------------------------------
(* One answer for each request.                                            *)

\* The turns after one more was stored.
LEMMA OneMoreTurn ==
  ASSUME TypeOK, NEW a \in Attempts, NEW n \in Nat, NEW v \in Nat,
         turns' = Append(turns, TurnOf(a, n, v))
  PROVE  /\ DOMAIN turns = 1..Len(turns) /\ Len(turns) \in Nat
         /\ DOMAIN turns' = 1..(Len(turns) + 1) /\ Len(turns') = Len(turns) + 1
         /\ \A i \in DOMAIN turns : turns'[i] = turns[i]
         /\ turns'[Len(turns) + 1].request = RequestOf[a]
         /\ turns'[Len(turns) + 1].by = a
<1>1. TurnOf(a, n, v) \in Turn
  BY ConstantsAssumption DEF TurnOf, Turn, Version
<1>2. turns \in Seq(Turn) /\ DOMAIN turns = 1..Len(turns) /\ Len(turns) \in Nat
  BY LenProperties DEF TypeOK
<1>3. /\ turns' \in Seq(Turn) /\ Len(turns') = Len(turns) + 1
      /\ \A i \in 1..Len(turns) : turns'[i] = turns[i]
      /\ turns'[Len(turns) + 1] = TurnOf(a, n, v)
  BY <1>1, <1>2, AppendProperties
<1>4. DOMAIN turns' = 1..(Len(turns) + 1)
  BY <1>3, LenProperties
<1>5. QED
  BY <1>2, <1>3, <1>4 DEF TurnOf

LEMMA OneAnswerStep ==
  ASSUME TypeOK, TypeOK', OneAnswerPerRequest, [Next]_vars
  PROVE  OneAnswerPerRequest'
<1>1. CASE NothingSaid
  BY <1>1 DEF NothingSaid, OneAnswerPerRequest
<1>2. ASSUME NEW a \in Attempts, NothingStored(a) PROVE OneAnswerPerRequest'
  <2>1. CASE live /\ Committed(RequestOf[a]) # {} /\ Replay(a)
    <3>1. PICK i \in DOMAIN turns :
            turns[i].request = RequestOf[a] /\ turns[i].by = AnswerOf(RequestOf[a])
      BY <2>1, AnswerIsAnAttempt, ConstantsAssumption
    <3>2. /\ phase' = [phase EXCEPT ![a] = "done"]
          /\ told' = [told EXCEPT ![a] = AnswerOf(RequestOf[a])]
          /\ turns' = turns /\ live' = live
      BY <1>2, <2>1 DEF NothingStored, Replay, Answer, Move
    <3>3. QED
      BY <3>1, <3>2 DEF OneAnswerPerRequest, TypeOK
  <2>2. ASSUME NEW p \in Phases \ {"done"}, Move(a, p), UNCHANGED told
        PROVE  OneAnswerPerRequest'
    <3>1. \A b \in Attempts : phase'[b] = "done" => phase[b] = "done"
      BY <2>2 DEF Move, TypeOK
    <3>2. told' = told /\ turns' = turns /\ live' = live
      BY <1>2, <2>2 DEF NothingStored
    <3>3. QED
      BY <3>1, <3>2 DEF OneAnswerPerRequest
  <2>3. QED
    BY <1>2, <2>1, <2>2 DEF NothingStored
<1>3. ASSUME NEW a \in Attempts, Stored(a) PROVE OneAnswerPerRequest'
  <2>1. PICK n \in Nat, v \in Nat : turns' = Append(turns, TurnOf(a, n, v))
    BY <1>3 DEF Stored
  <2>2. /\ DOMAIN turns = 1..Len(turns) /\ Len(turns) \in Nat
        /\ DOMAIN turns' = 1..(Len(turns) + 1)
        /\ \A i \in DOMAIN turns : turns'[i] = turns[i]
        /\ turns'[Len(turns) + 1].request = RequestOf[a]
        /\ turns'[Len(turns) + 1].by = a
    BY <2>1, OneMoreTurn
  <2>3. \A i \in DOMAIN turns : turns[i].request # RequestOf[a]
    BY <1>3 DEF Stored, Committed
  <2>4. \A i, j \in DOMAIN turns' : turns'[i].request = turns'[j].request => i = j
    <3> SUFFICES ASSUME NEW i \in DOMAIN turns', NEW j \in DOMAIN turns',
                        turns'[i].request = turns'[j].request
                 PROVE  i = j
      OBVIOUS
    <3>1. CASE i \in DOMAIN turns /\ j \in DOMAIN turns
      BY <2>2, <3>1 DEF OneAnswerPerRequest
    <3>2. i \in DOMAIN turns \/ i = Len(turns) + 1
      BY <2>2
    <3>3. j \in DOMAIN turns \/ j = Len(turns) + 1
      BY <2>2
    <3>4. QED
      BY <2>2, <2>3, <3>1, <3>2, <3>3
  <2>5. ASSUME NEW b \in Attempts, phase'[b] = "done", live'
        PROVE  \E i \in DOMAIN turns' : turns'[i].request = RequestOf[b]
                                        /\ turns'[i].by = told'[b]
    <3>1. CASE Answer(a, a) /\ b = a
      <4>1. told'[b] = a
        BY <3>1 DEF Answer, TypeOK
      <4>2. Len(turns) + 1 \in DOMAIN turns'
        BY <2>2
      <4>3. QED
        BY <2>2, <3>1, <4>1, <4>2
    <3>2. CASE phase[b] = "done" /\ told'[b] = told[b]
      <4>1. live
        BY <1>3, <2>5 DEF Stored
      <4>2. PICK i \in DOMAIN turns : turns[i].request = RequestOf[b] /\ turns[i].by = told[b]
        BY <3>2, <4>1 DEF OneAnswerPerRequest
      <4>3. i \in DOMAIN turns'
        BY <2>2
      <4>4. QED
        BY <2>2, <3>2, <4>2, <4>3
    <3>3. CASE GiveUp(a)
      <4>1. phase[b] = "done" /\ told'[b] = told[b]
        BY <2>5, <3>3 DEF GiveUp, Move, TypeOK
      <4>2. QED
        BY <3>2, <4>1
    <3>4. CASE Answer(a, a) /\ b # a
      <4>1. phase[b] = "done" /\ told'[b] = told[b]
        BY <2>5, <3>4 DEF Answer, Move, TypeOK
      <4>2. QED
        BY <3>2, <4>1
    <3>5. QED
      BY <1>3, <3>1, <3>3, <3>4 DEF Stored
  <2>6. QED
    BY <2>4, <2>5 DEF OneAnswerPerRequest
<1>4. CASE Deleted
  BY <1>4 DEF Deleted, OneAnswerPerRequest
<1>5. QED
  BY <1>1, <1>2, <1>3, <1>4, TurnStep

\* However often a request is sent, it is stored once, and every copy that is
\* answered is told the stored answer (persist_turn, replay_completed_turn).
THEOREM RequestsStoredOnce == Spec => []OneAnswerPerRequest
<1>1. Init => OneAnswerPerRequest
  BY DEF Init, OneAnswerPerRequest
<1>2. TypeOK /\ TypeOK' /\ OneAnswerPerRequest /\ [Next]_vars => OneAnswerPerRequest'
  BY OneAnswerStep
<1>3. QED
  BY <1>1, <1>2, TypeCorrect, PTL DEF Spec

-----------------------------------------------------------------------------
(* The message limit.                                                      *)

\* No number of parallel turns takes a conversation over its limit.
THEOREM LimitHolds == Spec => []WithinMessageLimit
<1>1. Init => WithinMessageLimit
  BY ConstantsAssumption DEF Init, WithinMessageLimit
<1>2. TypeOK /\ TypeOK' /\ WithinMessageLimit /\ [Next]_vars => WithinMessageLimit'
  <2> SUFFICES ASSUME TypeOK, TypeOK', WithinMessageLimit, [Next]_vars
               PROVE  WithinMessageLimit'
    OBVIOUS
  <2>1. CASE turns' = turns
    BY <2>1 DEF WithinMessageLimit
  <2>2. ASSUME NEW a \in Attempts, Stored(a) PROVE WithinMessageLimit'
    <3>1. Len(turns') = Len(turns) + 1 /\ Len(turns) \in Nat
      BY <2>2, OneMoreTurn DEF Stored
    <3>2. ~(2 * Len(turns) + 2 > MaxMessages)
      BY <2>2 DEF Stored, LimitReached
    <3>3. QED
      BY <3>1, <3>2, ConstantsAssumption DEF WithinMessageLimit
  <2>3. CASE Deleted
    BY <2>3, ConstantsAssumption DEF Deleted, WithinMessageLimit
  <2>4. QED
    BY <2>1, <2>2, <2>3, TurnStep DEF NothingSaid, NothingStored
<1>3. QED
  BY <1>1, <1>2, TypeCorrect, PTL DEF Spec

\* Both together: what a conversation stores of its requests (persist_turn).
THEOREM TurnsStoredOnce == Spec => []TurnsAreStoredOnce
BY RequestsStoredOnce, LimitHolds, PTL DEF TurnsAreStoredOnce

(***************************************************************************)
(* The history of a conversation only grows, keeps every diagram that is   *)
(* replaced and every diagram an answer links to, agrees with the working  *)
(* diagram, and keeps reviews with what they were made about.              *)
(***************************************************************************)

-----------------------------------------------------------------------------
(* What a step may do to the working diagram and its history.              *)

Kept == UNCHANGED <<graph, contract, active, revisions, minted>>

Seeds ==
  /\ revisions' = SeededRevisions /\ active' = SeededActive
  /\ UNCHANGED <<graph, contract, minted>>

LaysOut(l) ==
  /\ HasGraph
  /\ graph' = [graph EXCEPT !.layout = l]
  /\ revisions' = MovedInHistory(l) /\ active' = SeededActive
  /\ UNCHANGED <<contract, minted>>

\* A new diagram g with a contract k about it.
Fresh(g, k) ==
  /\ g \in Graph /\ g.content \in Contents /\ g.version = FreshVersion
  /\ k \in Contract
  /\ k.version \in {0, g.version} /\ k.approves \in {NoContent, g.content}
  /\ minted' = Append(minted, g.content)

Replaces(g, k) ==
  /\ Fresh(g, k)
  /\ graph' = g /\ contract' = k
  /\ revisions' = Append(SeededRevisions, NewRevision(SeededActive, g, k))
  /\ active' = Len(SeededRevisions) + 1

Branches(p, g, k) ==
  /\ Fresh(g, k)
  /\ revisions' = Append(revisions, NewRevision(p, g, k))
  /\ UNCHANGED <<graph, contract, active>>

Activates(n) ==
  /\ HasGraph
  /\ n \in 1..Len(SeededRevisions)
  /\ LET r == SeededRevisions[n]
     IN  /\ graph' = [content |-> r.content, version |-> FreshVersion, layout |-> r.layout]
         /\ contract' = IF r.contract = NoContract THEN NoContract
                        ELSE [r.contract EXCEPT !.version = FreshVersion]
         /\ minted' = Append(minted, r.content)
  /\ revisions' = SeededRevisions /\ active' = n

ThreadChange ==
  \/ Kept
  \/ Seeds
  \/ \E l \in Layouts : LaysOut(l)
  \/ \E g \in Graph, k \in Contract : Replaces(g, k)
  \/ \E a \in Attempts, g \in Graph, k \in Contract :
       live /\ phase[a] = "running" /\ Branches(base[a].revision, g, k)
  \/ \E n \in 1..MaxRevisions : Activates(n)

LEMMA StoreGraphChange ==
  ASSUME TypeOK, NEW a \in Attempts, NEW c \in MaybeContent, NEW reviewed \in BOOLEAN,
         GraphSaved(a, c), StoreGraph(a, c, reviewed)
  PROVE  \E g \in Graph, k \in Contract :
           IF MatchesBase(a) THEN Replaces(g, k) ELSE Branches(base[a].revision, g, k)
<1> DEFINE v == FreshVersion
           g == [content |-> c, version |-> v,
                 layout |-> IF MatchesBase(a) THEN PreservedLayout(c) ELSE NoLayout]
           k == IF reviewed THEN [version |-> v, approves |-> c] ELSE NoContract
<1>1. Len(minted) \in Nat
  BY LenProperties DEF TypeOK
<1>2. c \in Contents /\ g \in Graph /\ k \in Contract
      /\ k.version \in {0, v} /\ k.approves \in {NoContent, c}
  BY <1>1 DEF GraphSaved, MaybeContent, MaybeLayout, FreshVersion, Graph, Contract,
              Version, NoContract, PreservedLayout, TypeOK
<1>3. g.content = c /\ g.version = v
  OBVIOUS
<1>4. /\ minted' = Append(minted, c)
      /\ IF MatchesBase(a)
         THEN /\ revisions' = Append(SeededRevisions, NewRevision(SeededActive, g, k))
              /\ active' = Len(SeededRevisions) + 1 /\ graph' = g /\ contract' = k
         ELSE /\ revisions' = Append(revisions, NewRevision(base[a].revision, g, k))
              /\ UNCHANGED <<active, graph, contract>>
  BY DEF StoreGraph
<1> HIDE DEF g, k
<1>5. Fresh(g, k)
  BY <1>2, <1>3, <1>4 DEF Fresh
<1>6. IF MatchesBase(a) THEN Replaces(g, k) ELSE Branches(base[a].revision, g, k)
  BY <1>4, <1>5 DEF Replaces, Branches
<1>7. QED
  BY <1>2, <1>6

LEMMA CommitChange ==
  ASSUME TypeOK, NEW a \in Attempts, RejectInput(a) \/ Commit(a)
  PROVE  ThreadChange /\ live' = live
<1>1. ASSUME NEW c \in MaybeContent, NEW reviewed \in BOOLEAN,
             PersistTurn(a, c, reviewed), c # NoContent => phase[a] = "running"
      PROVE  ThreadChange /\ live' = live
  <2>1. live' = live
    BY <1>1 DEF PersistTurn
  <2>2. CASE UNCHANGED <<graph, contract, active, revisions, minted>>
    BY <2>1, <2>2 DEF ThreadChange, Kept
  <2>3. CASE live /\ GraphSaved(a, c) /\ StoreGraph(a, c, reviewed)
    <3>1. phase[a] = "running"
      BY <1>1, <2>3 DEF GraphSaved
    <3>2. QED
      BY <2>1, <2>3, <3>1, StoreGraphChange DEF ThreadChange
  <2>4. QED
    BY <1>1, <2>2, <2>3 DEF PersistTurn, StoreAnswer
<1>2. QED
  BY <1>1 DEF RejectInput, Commit, MaybeContent

LEMMA EditChange ==
  ASSUME TypeOK, NEW t \in Tabs, NEW c \in Contents, EditContent(t, c)
  PROVE  \E g \in Graph, k \in Contract : Replaces(g, k)
<1> DEFINE g == [content |-> c, version |-> FreshVersion, layout |-> graph.layout]
           k == EditedContract(FreshVersion)
<1>1. Len(minted) \in Nat
  BY LenProperties DEF TypeOK
<1>2. g \in Graph /\ g.content = c /\ g.version = FreshVersion
  BY <1>1 DEF FreshVersion, TypeOK, Graph, MaybeContent, Version
<1>3. k \in Contract /\ k.version \in {0, FreshVersion} /\ k.approves = NoContent
  BY <1>1 DEF EditedContract, FreshVersion, NoContract, Contract, Version, MaybeContent
<1>4. /\ graph' = g /\ contract' = k
      /\ revisions' = Append(SeededRevisions, NewRevision(SeededActive, g, k))
      /\ active' = Len(SeededRevisions) + 1
      /\ minted' = Append(minted, c)
  BY DEF EditContent, EditedVersion
<1> HIDE DEF g, k
<1>5. Replaces(g, k)
  BY <1>2, <1>3, <1>4 DEF Replaces, Fresh
<1>6. QED
  BY <1>2, <1>3, <1>5

LEMMA RestoreChange ==
  ASSUME TypeOK, NEW t \in Tabs, NEW n \in 1..MaxRevisions, RestoreRevision(t, n)
  PROVE  Seeds \/ Activates(n)
<1>1. HasGraph /\ n \in 1..Len(SeededRevisions) /\ revisions' = SeededRevisions
  BY SeedCurrent, LenProperties DEF RestoreRevision
<1>2. CASE n = SeededActive
  BY <1>1, <1>2 DEF RestoreRevision, Seeds
<1>3. CASE n # SeededActive
  BY <1>1, <1>3 DEF RestoreRevision, Activates, RestoredVersion
<1>4. QED
  BY <1>2, <1>3

LEMMA ThreadStep ==
  ASSUME TypeOK, [Next]_vars
  PROVE  ((ThreadChange \/ OldWriterStep) /\ live' = live) \/ DeleteThread
<1> USE DEF thread, requests
<1>1. ASSUME NEW a \in Attempts, Admit(a) \/ ReadBase(a) \/ Abandon(a)
      PROVE  Kept /\ live' = live
  BY <1>1 DEF Admit, ReadBase, Abandon, Kept
<1>2. CASE ChatStep
  BY <1>1, <1>2, CommitChange DEF ChatStep, ThreadChange
<1>3. ASSUME NEW t \in Tabs, LoadThread(t) PROVE Kept /\ live' = live
  BY <1>3 DEF LoadThread, Kept
<1>4. ASSUME NEW t \in Tabs, NEW l \in Layouts, SaveLayout(t, l)
      PROVE  LaysOut(l) /\ live' = live
  BY <1>4 DEF SaveLayout, LaysOut, HoldsVersion
<1>5. ASSUME NEW t \in Tabs, NEW c \in Contents, EditContent(t, c)
      PROVE  live' = live /\ \E g \in Graph, k \in Contract : Replaces(g, k)
  BY <1>5, EditChange DEF EditContent
<1>6. ASSUME NEW t \in Tabs, NEW n \in 1..MaxRevisions, RestoreRevision(t, n)
      PROVE  live' = live /\ (Seeds \/ Activates(n))
  BY <1>6, RestoreChange DEF RestoreRevision
<1>7. CASE TabStep
  BY <1>3, <1>4, <1>5, <1>6, <1>7 DEF TabStep, ThreadChange
<1>8. CASE ReadHistory
  BY <1>8 DEF ReadHistory, ThreadChange, Seeds
<1>9. CASE OldWriterStep
  BY <1>9 DEF OldWriterStep, OldWriterSavesGraph, OldWriterSavesLayout
<1>10. CASE UNCHANGED vars
  BY <1>10 DEF vars, ThreadChange, Kept
<1>11. QED
  BY <1>2, <1>7, <1>8, <1>9, <1>10 DEF Next

\* What the new revision of a fresh diagram says.
LEMMA FreshRevision ==
  ASSUME NEW p \in Nat, NEW g \in Graph, NEW k \in Contract, g.content \in Contents
  PROVE  /\ NewRevision(p, g, k) \in Revision
         /\ NewRevision(p, g, k).parent = p
         /\ NewRevision(p, g, k).content = g.content
         /\ NewRevision(p, g, k).version = g.version
         /\ NewRevision(p, g, k).layout = g.layout
         /\ NewRevision(p, g, k).contract = k
  BY DEF NewRevision, Revision, Graph

-----------------------------------------------------------------------------
(* The history grows.                                                      *)

\* The history S continues the present one, each new parent older than its child.
Continues(S) ==
  /\ S \in Seq(Revision) /\ Len(S) \in Nat
  /\ Len(S) >= Len(revisions)
  /\ \A i \in 1..Len(revisions) :
       /\ S[i].parent = revisions[i].parent
       /\ S[i].content = revisions[i].content
       /\ S[i].version = revisions[i].version
  /\ \A i \in 1..Len(S) : i > Len(revisions) => S[i].parent < i

\* Nothing a running generation starts from lies beyond the history.
BasesInHistory ==
  live => \A a \in Attempts : phase[a] = "running" => base[a].revision <= Len(revisions)

ParentsOlder == \A i \in 1..Len(revisions) : revisions[i].parent < i

HistoryInv == BasesInHistory /\ ParentsOlder

LEMMA SeedContinues ==
  ASSUME TypeOK
  PROVE  Continues(SeededRevisions) /\ Continues(revisions)
<1>1. Len(revisions) \in Nat /\ active \in 0..Len(revisions) /\ revisions \in Seq(Revision)
  BY LenProperties DEF TypeOK
<1>2. QED
  BY <1>1, SeedCurrent DEF Continues

LEMMA AppendContinues ==
  ASSUME TypeOK, NEW S \in Seq(Revision), Continues(S), NEW n \in Revision, n.parent <= Len(S)
  PROVE  Continues(Append(S, n))
<1>1. Len(S) \in Nat /\ Len(revisions) \in Nat
  BY LenProperties DEF TypeOK
<1>2. /\ Append(S, n) \in Seq(Revision) /\ Len(Append(S, n)) = Len(S) + 1
      /\ \A i \in 1..Len(S) : Append(S, n)[i] = S[i]
      /\ Append(S, n)[Len(S) + 1] = n
  BY AppendProperties
<1> DEFINE T == Append(S, n)
<1>3. n.parent \in Nat
  BY DEF Revision
<1>4. Len(T) >= Len(revisions) /\ Len(T) \in Nat
  BY <1>1, <1>2 DEF Continues
<1>5. ASSUME NEW i \in 1..Len(revisions)
      PROVE  /\ T[i].parent = revisions[i].parent
             /\ T[i].content = revisions[i].content
             /\ T[i].version = revisions[i].version
  <2>1. i \in 1..Len(S)
    BY <1>1 DEF Continues
  <2>2. QED
    BY <1>2, <2>1 DEF Continues
<1>6. ASSUME NEW i \in 1..Len(T), i > Len(revisions) PROVE T[i].parent < i
  <2>1. CASE i \in 1..Len(S)
    BY <1>2, <1>6, <2>1 DEF Continues
  <2>2. CASE i = Len(S) + 1
    BY <1>1, <1>2, <1>3, <2>2
  <2>3. QED
    BY <1>1, <1>2, <2>1, <2>2
<1> HIDE DEF T
<1>7. T \in Seq(Revision)
  BY <1>2 DEF T
<1>8. Continues(T)
  BY <1>4, <1>5, <1>6, <1>7 DEF Continues
<1>9. QED
  BY <1>8 DEF T

\* The history after a layout write: every field but one layout is kept.
LEMMA MovedHistory ==
  ASSUME TypeOK, HasGraph, NEW l \in Layouts
  PROVE  /\ MovedInHistory(l) \in Seq(Revision)
         /\ Len(MovedInHistory(l)) = Len(SeededRevisions)
         /\ SeededActive \in 1..Len(SeededRevisions)
         /\ MovedInHistory(l)[SeededActive].layout = l
         /\ \A i \in 1..Len(SeededRevisions) :
              /\ MovedInHistory(l)[i].parent = SeededRevisions[i].parent
              /\ MovedInHistory(l)[i].content = SeededRevisions[i].content
              /\ MovedInHistory(l)[i].version = SeededRevisions[i].version
              /\ MovedInHistory(l)[i].contract = SeededRevisions[i].contract
<1> DEFINE s == [SeededRevisions[SeededActive] EXCEPT !.layout = l]
<1>1. SeededActive \in 1..Len(SeededRevisions) /\ SeededRevisions \in Seq(Revision)
  BY SeedCurrent
<1>2. SeededRevisions[SeededActive] \in Revision
  BY <1>1, ElementOfSeq
<1>3. /\ s \in Revision /\ s.layout = l
      /\ s.parent = SeededRevisions[SeededActive].parent
      /\ s.content = SeededRevisions[SeededActive].content
      /\ s.version = SeededRevisions[SeededActive].version
      /\ s.contract = SeededRevisions[SeededActive].contract
  BY <1>2 DEF Revision, MaybeLayout
<1>4. /\ MovedInHistory(l) \in Seq(Revision) /\ Len(MovedInHistory(l)) = Len(SeededRevisions)
      /\ \A i \in 1..Len(SeededRevisions) :
           MovedInHistory(l)[i] = IF i = SeededActive THEN s ELSE SeededRevisions[i]
  BY <1>1, <1>3, ExceptSeq DEF MovedInHistory
<1> HIDE DEF s
<1>5. QED
  BY <1>1, <1>3, <1>4

LEMMA StepContinues ==
  ASSUME TypeOK, BasesInHistory, [Next]_vars
  PROVE  Continues(revisions') \/ DeleteThread
<1>1. /\ Len(revisions) \in Nat /\ revisions \in Seq(Revision)
      /\ SeededRevisions \in Seq(Revision) /\ SeededActive \in Nat
      /\ SeededActive <= Len(SeededRevisions)
  BY SeedCurrent, LenProperties DEF TypeOK
<1>2. ASSUME NEW l \in Layouts, LaysOut(l) PROVE Continues(revisions')
  <2> DEFINE T == MovedInHistory(l)
  <2>1. HasGraph /\ revisions' = T /\ Continues(SeededRevisions)
    BY <1>2, SeedContinues DEF LaysOut
  <2>2. /\ T \in Seq(Revision) /\ Len(T) = Len(SeededRevisions)
        /\ \A i \in 1..Len(SeededRevisions) :
             /\ T[i].parent = SeededRevisions[i].parent
             /\ T[i].content = SeededRevisions[i].content
             /\ T[i].version = SeededRevisions[i].version
    BY <2>1, MovedHistory
  <2> HIDE DEF T
  <2>3. Len(T) \in Nat /\ Len(T) >= Len(revisions)
    BY <2>1, <2>2 DEF Continues
  <2>4. \A i \in 1..Len(revisions) : i \in 1..Len(SeededRevisions)
    BY <1>1, <2>2, <2>3
  <2>5. \A i \in 1..Len(revisions) :
          /\ T[i].parent = revisions[i].parent
          /\ T[i].content = revisions[i].content
          /\ T[i].version = revisions[i].version
    BY <2>1, <2>2, <2>4 DEF Continues
  <2>6. \A i \in 1..Len(T) : i > Len(revisions) => T[i].parent < i
    BY <2>1, <2>2 DEF Continues
  <2>7. Continues(T)
    BY <2>2, <2>3, <2>5, <2>6 DEF Continues
  <2>8. QED
    BY <2>1, <2>7
<1>3. ASSUME NEW g \in Graph, NEW k \in Contract, Replaces(g, k) PROVE Continues(revisions')
  <2>1. /\ NewRevision(SeededActive, g, k) \in Revision
        /\ NewRevision(SeededActive, g, k).parent = SeededActive
    BY <1>1, <1>3, FreshRevision DEF Replaces, Fresh
  <2>2. QED
    BY <1>1, <1>3, <2>1, SeedContinues, AppendContinues DEF Replaces
<1>4. ASSUME NEW a \in Attempts, NEW g \in Graph, NEW k \in Contract,
             live, phase[a] = "running", Branches(base[a].revision, g, k)
      PROVE  Continues(revisions')
  <2>1. base[a].revision \in Nat /\ base[a].revision <= Len(revisions)
    BY <1>4 DEF BasesInHistory, TypeOK, Base
  <2>2. /\ NewRevision(base[a].revision, g, k) \in Revision
        /\ NewRevision(base[a].revision, g, k).parent = base[a].revision
    BY <1>4, <2>1, FreshRevision DEF Branches, Fresh
  <2>3. QED
    BY <1>1, <1>4, <2>1, <2>2, SeedContinues, AppendContinues DEF Branches
<1>5. CASE Kept \/ Seeds \/ OldWriterStep \/ \E n \in 1..MaxRevisions : Activates(n)
  <2>1. revisions' = revisions \/ revisions' = SeededRevisions
    BY <1>5 DEF Kept, Seeds, OldWriterStep, OldWriterSavesGraph, OldWriterSavesLayout, Activates
  <2>2. QED
    BY <2>1, SeedContinues
<1>6. QED
  BY <1>2, <1>3, <1>4, <1>5, ThreadStep DEF ThreadChange

LEMMA BaseRead ==
  ASSUME TypeOK, [Next]_vars, NEW a \in Attempts, phase'[a] = "running"
  PROVE  \/ phase[a] = "running" /\ base'[a] = base[a]
         \/ base'[a].revision = active /\ revisions' = revisions
<1> USE DEF thread, requests
<1>1. ASSUME NEW b \in Attempts, base' = base,
             GiveUp(b) \/ Replay(b) \/ Answer(b, b) \/ (Move(b, "admitted") /\ UNCHANGED told)
      PROVE  phase[a] = "running" /\ base'[a] = base[a]
  BY <1>1, Finished DEF NoneStarts
<1>2. ASSUME NEW b \in Attempts, ReadBase(b)
      PROVE  \/ phase[a] = "running" /\ base'[a] = base[a]
             \/ base'[a].revision = active /\ revisions' = revisions
  <2>1. CASE base' = base /\ (GiveUp(b) \/ Replay(b))
    BY <1>1, <2>1
  <2>2. CASE Move(b, "running") /\ revisions' = revisions
             /\ base' = [base EXCEPT ![b] = [version |-> graph.version, revision |-> active,
                                             content |-> graph.content]]
    BY <2>2 DEF Move, TypeOK
  <2>3. QED
    BY <1>2, <2>1, <2>2 DEF ReadBase
<1>3. CASE ChatStep
  <2>1. ASSUME NEW b \in Attempts, Admit(b) \/ Abandon(b)
        PROVE  phase[a] = "running" /\ base'[a] = base[a]
    BY <1>1, <2>1 DEF Admit, Abandon
  <2>2. ASSUME NEW b \in Attempts, RejectInput(b) \/ Commit(b)
        PROVE  phase[a] = "running" /\ base'[a] = base[a]
    BY <1>1, <2>2 DEF RejectInput, Commit, PersistTurn
  <2>3. QED
    BY <1>2, <1>3, <2>1, <2>2 DEF ChatStep
<1>4. CASE TabStep \/ ReadHistory \/ DeleteThread \/ OldWriterStep \/ UNCHANGED vars
  BY <1>4 DEF TabStep, LoadThread, SaveLayout, EditContent, RestoreRevision, ReadHistory,
              DeleteThread, OldWriterStep, OldWriterSavesGraph, OldWriterSavesLayout, vars
<1>5. QED
  BY <1>3, <1>4 DEF Next

LEMMA HistoryStep ==
  ASSUME TypeOK, TypeOK', HistoryInv, [Next]_vars
  PROVE  HistoryInv'
<1>0. Len(revisions) \in Nat /\ Len(revisions') \in Nat /\ active \in 0..Len(revisions)
  BY LenProperties DEF TypeOK
<1>1. CASE DeleteThread
  <2>1. revisions' = << >> /\ ~live'
    BY <1>1 DEF DeleteThread
  <2>2. QED
    BY <2>1, EmptySeq DEF HistoryInv, BasesInHistory, ParentsOlder
<1>2. CASE ~DeleteThread
  <2>1. Continues(revisions') /\ live' = live
    BY <1>2, StepContinues, ThreadStep DEF HistoryInv
  <2>2. ParentsOlder'
    BY <1>0, <2>1 DEF Continues, HistoryInv, ParentsOlder
  <2>3. ASSUME live', NEW a \in Attempts, phase'[a] = "running"
        PROVE  base'[a].revision <= Len(revisions')
    <3>1. CASE phase[a] = "running" /\ base'[a] = base[a]
      <4>1. base[a].revision \in Nat /\ base[a].revision <= Len(revisions)
        BY <2>1, <2>3, <3>1 DEF HistoryInv, BasesInHistory, TypeOK, Base
      <4>2. QED
        BY <1>0, <2>1, <3>1, <4>1 DEF Continues
    <3>2. CASE base'[a].revision = active /\ revisions' = revisions
      BY <1>0, <3>2
    <3>3. QED
      BY <2>3, <3>1, <3>2, BaseRead
  <2>4. QED
    BY <2>2, <2>3 DEF HistoryInv, BasesInHistory
<1>3. QED
  BY <1>1, <1>2

LEMMA HistoryInvariant == Spec => []HistoryInv
<1>1. Init => HistoryInv
  BY EmptySeq DEF Init, HistoryInv, BasesInHistory, ParentsOlder
<1>2. QED
  BY <1>1, HistoryStep, TypeCorrect, PTL DEF Spec

\* No sequence of commits, edits, restores, layout writes and writes of an
\* older release changes the parent, content or version of a stored revision.
THEOREM HistoryGrows == Spec => HistoryOnlyGrows
<1>1. TypeOK /\ TypeOK' /\ HistoryInv /\ HistoryInv' /\ [Next]_vars =>
        [live' =>
          /\ Len(revisions') >= Len(revisions)
          /\ \A i \in DOMAIN revisions :
               /\ revisions'[i].parent = revisions[i].parent
               /\ revisions'[i].content = revisions[i].content
               /\ revisions'[i].version = revisions[i].version
          /\ \A i \in DOMAIN revisions' : revisions'[i].parent < i]_vars
  <2> SUFFICES ASSUME TypeOK, TypeOK', HistoryInv, HistoryInv', [Next]_vars, live'
               PROVE  /\ Len(revisions') >= Len(revisions)
                      /\ \A i \in DOMAIN revisions :
                           /\ revisions'[i].parent = revisions[i].parent
                           /\ revisions'[i].content = revisions[i].content
                           /\ revisions'[i].version = revisions[i].version
                      /\ \A i \in DOMAIN revisions' : revisions'[i].parent < i
    OBVIOUS
  <2>1. Continues(revisions')
    BY StepContinues DEF HistoryInv, DeleteThread
  <2>2. DOMAIN revisions = 1..Len(revisions) /\ DOMAIN revisions' = 1..Len(revisions')
    BY LenProperties DEF TypeOK
  <2>3. QED
    BY <2>1, <2>2 DEF Continues, HistoryInv, ParentsOlder
<1>2. QED
  BY <1>1, TypeCorrect, HistoryInvariant, PTL DEF Spec, HistoryOnlyGrows

-----------------------------------------------------------------------------
(* The history and the working diagram.                                    *)

\* Seeding keeps the working diagram in the history, also under a new revision.
LEMMA CheckpointKept ==
  ASSUME TypeOK, HasGraph, NEW n \in Revision,
         revisions' = SeededRevisions \/ revisions' = Append(SeededRevisions, n)
  PROVE  \E i \in DOMAIN revisions' :
           revisions'[i].content = graph.content /\ revisions'[i].layout = graph.layout
<1>1. /\ SeededRevisions \in Seq(Revision) /\ SeededActive \in 1..Len(SeededRevisions)
      /\ SeededRevisions[SeededActive].content = graph.content
      /\ SeededRevisions[SeededActive].layout = graph.layout
      /\ DOMAIN SeededRevisions = 1..Len(SeededRevisions)
      /\ Len(SeededRevisions) \in Nat
  BY SeedCurrent, LenProperties
<1>2. CASE revisions' = SeededRevisions
  BY <1>1, <1>2
<1>3. CASE revisions' = Append(SeededRevisions, n)
  <2>1. /\ revisions'[SeededActive] = SeededRevisions[SeededActive]
        /\ revisions' \in Seq(Revision) /\ Len(revisions') = Len(SeededRevisions) + 1
    BY <1>1, <1>3, AppendProperties
  <2>2. SeededActive \in DOMAIN revisions'
    BY <1>1, <2>1, LenProperties
  <2>3. QED
    BY <1>1, <2>1, <2>2
<1>4. QED
  BY <1>2, <1>3

\* Whatever this release puts in the place of the working diagram, the replaced
\* one is in the history with its last layout (seed_current).
THEOREM ReplacedGraphsKept == Spec => ReplacedGraphIsCheckpointed
<1>1. TypeOK /\ [Next]_vars =>
        [(live' /\ HasGraph /\ graph'.content # graph.content /\ ~OldWriterStep) =>
           \E i \in DOMAIN revisions' :
             revisions'[i].content = graph.content /\ revisions'[i].layout = graph.layout]_vars
  <2> SUFFICES ASSUME TypeOK, [Next]_vars, live', HasGraph,
                      graph'.content # graph.content, ~OldWriterStep
               PROVE  \E i \in DOMAIN revisions' :
                        revisions'[i].content = graph.content
                        /\ revisions'[i].layout = graph.layout
    OBVIOUS
  <2>1. ThreadChange
    BY ThreadStep DEF DeleteThread
  <2>2. SeededActive \in Nat /\ SeededRevisions[SeededActive] \in Revision
    <3>1. SeededActive \in 1..Len(SeededRevisions) /\ SeededRevisions \in Seq(Revision)
      BY SeedCurrent
    <3>2. QED
      BY <3>1, ElementOfSeq
  <2>3. ASSUME NEW g \in Graph, NEW k \in Contract, Replaces(g, k)
        PROVE  \E n \in Revision : revisions' = Append(SeededRevisions, n)
    <3>1. NewRevision(SeededActive, g, k) \in Revision
      BY <2>2, <2>3, FreshRevision DEF Replaces, Fresh
    <3>2. QED
      BY <2>3, <3>1 DEF Replaces
  <2>4. ASSUME NEW n \in 1..MaxRevisions, Activates(n) PROVE revisions' = SeededRevisions
    BY <2>4 DEF Activates
  <2>5. ~Kept /\ ~Seeds
        /\ \A a \in Attempts, g \in Graph, k \in Contract : ~Branches(base[a].revision, g, k)
    BY DEF Kept, Seeds, Branches
  <2>6. ASSUME NEW l \in Layouts, LaysOut(l) PROVE graph'.content = graph.content
    BY <2>6, GraphLayoutWritten DEF LaysOut, MaybeLayout, TypeOK
  <2>7. QED
    BY <2>1, <2>2, <2>3, <2>4, <2>5, <2>6, CheckpointKept DEF ThreadChange
<1>2. QED
  BY <1>1, TypeCorrect, PTL DEF Spec, ReplacedGraphIsCheckpointed

LEMMA MaterializationStep ==
  ASSUME TypeOK, TypeOK', MaterializationAgrees, [Next]_vars
  PROVE  MaterializationAgrees'
<1> SUFFICES ASSUME ~Rollout, active' # 0
             PROVE  /\ revisions'[active'].content = graph'.content
                    /\ revisions'[active'].layout = graph'.layout
  BY DEF MaterializationAgrees
<1> DEFINE Agree == /\ revisions'[active'].content = graph'.content
                    /\ revisions'[active'].layout = graph'.layout
<1>1. /\ Len(revisions) \in Nat /\ revisions \in Seq(Revision) /\ active \in 0..Len(revisions)
      /\ SeededRevisions \in Seq(Revision) /\ Len(SeededRevisions) \in Nat
      /\ SeededActive \in Nat
  BY SeedCurrent, LenProperties DEF TypeOK
<1>2. CASE Kept
  BY <1>2 DEF Kept, MaterializationAgrees
<1>3. CASE Seeds
  <2>1. HasGraph
    BY <1>3 DEF Seeds, SeededActive
  <2>2. QED
    BY <1>3, <2>1, SeedCurrent DEF Seeds
<1>4. ASSUME NEW l \in Layouts, LaysOut(l) PROVE Agree
  <2>1. graph'.content = graph.content /\ graph'.layout = l
    BY <1>4, GraphLayoutWritten DEF LaysOut, MaybeLayout, TypeOK
  <2>2. QED
    BY <1>4, <2>1, MovedHistory, SeedCurrent DEF LaysOut
<1>5. ASSUME NEW g \in Graph, NEW k \in Contract, Replaces(g, k) PROVE Agree
  <2> DEFINE n == NewRevision(SeededActive, g, k)
  <2>1. n \in Revision /\ n.content = g.content /\ n.layout = g.layout
    BY <1>1, <1>5, FreshRevision DEF Replaces, Fresh
  <2>2. revisions' = Append(SeededRevisions, n) /\ active' = Len(SeededRevisions) + 1
        /\ graph' = g
    BY <1>5 DEF Replaces
  <2> HIDE DEF n
  <2>3. QED
    BY <1>1, <2>1, <2>2, AppendProperties
<1>6. ASSUME NEW a \in Attempts, NEW g \in Graph, NEW k \in Contract,
             Branches(base[a].revision, g, k)
      PROVE  Agree
  <2> DEFINE n == NewRevision(base[a].revision, g, k)
  <2>1. n \in Revision
    BY <1>6, FreshRevision DEF Branches, Fresh, TypeOK, Base
  <2>2. revisions' = Append(revisions, n) /\ active' = active /\ graph' = graph
    BY <1>6 DEF Branches
  <2> HIDE DEF n
  <2>3. revisions'[active'] = revisions[active]
    BY <1>1, <2>1, <2>2, AppendProperties
  <2>4. QED
    BY <2>2, <2>3 DEF MaterializationAgrees
<1>7. ASSUME NEW n \in 1..MaxRevisions, Activates(n) PROVE Agree
  BY <1>7 DEF Activates
<1>8. CASE DeleteThread \/ OldWriterStep
  BY <1>8 DEF DeleteThread, OldWriterStep, OldWriterSavesGraph, OldWriterSavesLayout
<1>9. QED
  BY <1>2, <1>3, <1>4, <1>5, <1>6, <1>7, <1>8, ThreadStep DEF ThreadChange

\* Without an older release beside it, the active revision and the working
\* diagram never come apart, in content or in layout.
THEOREM ActiveRevisionShown == Spec => []MaterializationAgrees
<1>1. Init => MaterializationAgrees
  BY DEF Init, MaterializationAgrees
<1>2. TypeOK /\ TypeOK' /\ MaterializationAgrees /\ [Next]_vars => MaterializationAgrees'
  BY MaterializationStep
<1>3. QED
  BY <1>1, <1>2, TypeCorrect, PTL DEF Spec

-----------------------------------------------------------------------------
(* Answers and the diagrams they link to.                                  *)

\* An answer with a diagram links to the revision stored with it.
AnswersLinked ==
  \A i \in DOMAIN turns : turns[i].revision # 0 =>
    /\ turns[i].revision \in DOMAIN revisions
    /\ turns[i].version # 0
    /\ revisions[turns[i].revision].version = turns[i].version

\* What one more turn links to.
LEMMA TurnLinks ==
  ASSUME TypeOK, TypeOK', [Next]_vars
  PROVE  \/ turns' = turns
         \/ \E a \in Attempts : turns' = Append(turns, TurnOf(a, 0, 0))
         \/ /\ \E a \in Attempts : turns' = Append(turns, TurnOf(a, Len(revisions'), FreshVersion))
            /\ Len(revisions') \in DOMAIN revisions'
            /\ revisions'[Len(revisions')].version = FreshVersion
         \/ turns' = << >>
<1> USE DEF thread, requests
<1>1. ASSUME NEW a \in Attempts, NEW S \in Seq(Revision), NEW p \in Nat,
             NEW g \in Graph, NEW k \in Contract, Fresh(g, k),
             revisions' = Append(S, NewRevision(p, g, k))
      PROVE  /\ Len(revisions') \in DOMAIN revisions'
             /\ revisions'[Len(revisions')].version = FreshVersion
  <2> DEFINE n == NewRevision(p, g, k)
  <2>1. n \in Revision /\ n.version = FreshVersion
    BY <1>1, FreshRevision DEF Fresh
  <2> HIDE DEF n
  <2>2. revisions' = Append(S, n)
    BY <1>1 DEF n
  <2>3. /\ Len(S) \in Nat /\ Len(revisions') = Len(S) + 1 /\ revisions' \in Seq(Revision)
        /\ revisions'[Len(S) + 1] = n
    BY <2>1, <2>2, AppendProperties, LenProperties
  <2>4. DOMAIN revisions' = 1..Len(revisions')
    BY <2>3, LenProperties
  <2>5. QED
    BY <2>1, <2>3, <2>4
<1>2. ASSUME NEW a \in Attempts, NEW c \in MaybeContent, NEW reviewed \in BOOLEAN,
             GraphSaved(a, c), StoreGraph(a, c, reviewed)
      PROVE  /\ turns' = Append(turns, TurnOf(a, Len(revisions'), FreshVersion))
             /\ Len(revisions') \in DOMAIN revisions'
             /\ revisions'[Len(revisions')].version = FreshVersion
  <2>1. turns' = Append(turns, TurnOf(a, Len(revisions'), FreshVersion))
    BY <1>2 DEF StoreGraph, TurnOf
  <2>2. PICK g \in Graph, k \in Contract :
          IF MatchesBase(a) THEN Replaces(g, k) ELSE Branches(base[a].revision, g, k)
    BY <1>2, StoreGraphChange
  <2>3. SeededRevisions \in Seq(Revision) /\ SeededActive \in Nat
        /\ revisions \in Seq(Revision) /\ base[a].revision \in Nat
    BY SeedCurrent DEF TypeOK, Base
  <2>4. CASE MatchesBase(a)
    BY <1>1, <2>1, <2>2, <2>3, <2>4 DEF Replaces
  <2>5. CASE ~MatchesBase(a)
    BY <1>1, <2>1, <2>2, <2>3, <2>5 DEF Branches
  <2>6. QED
    BY <2>4, <2>5
<1>3. ASSUME NEW a \in Attempts, StoreAnswer(a) PROVE turns' = Append(turns, TurnOf(a, 0, 0))
  BY <1>3 DEF StoreAnswer, TurnOf
<1>4. ASSUME NEW a \in Attempts, RejectInput(a) \/ Commit(a)
      PROVE  \/ turns' = turns
             \/ StoreAnswer(a)
             \/ \E c \in MaybeContent, reviewed \in BOOLEAN :
                  GraphSaved(a, c) /\ StoreGraph(a, c, reviewed)
  BY <1>4 DEF RejectInput, Commit, PersistTurn, MaybeContent
<1>5. ASSUME NEW a \in Attempts, Admit(a) \/ ReadBase(a) \/ Abandon(a) PROVE turns' = turns
  BY <1>5 DEF Admit, ReadBase, Abandon
<1>6. CASE TabStep \/ ReadHistory \/ OldWriterStep \/ UNCHANGED vars
  BY <1>6 DEF TabStep, LoadThread, SaveLayout, EditContent, RestoreRevision, ReadHistory,
              OldWriterStep, OldWriterSavesGraph, OldWriterSavesLayout, vars
<1>7. CASE DeleteThread
  BY <1>7 DEF DeleteThread
<1>8. CASE ChatStep
  BY <1>2, <1>3, <1>4, <1>5, <1>8 DEF ChatStep
<1>9. QED
  BY <1>6, <1>7, <1>8 DEF Next

LEMMA LinkStep ==
  ASSUME TypeOK, TypeOK', HistoryInv, AnswersLinked, [Next]_vars
  PROVE  AnswersLinked'
<1>1. CASE turns' = << >>
  BY <1>1, EmptySeq DEF AnswersLinked
<1>2. CASE turns' # << >>
  <2>1. Continues(revisions')
    BY <1>2, StepContinues DEF HistoryInv, DeleteThread
  <2>2. /\ DOMAIN revisions = 1..Len(revisions) /\ DOMAIN revisions' = 1..Len(revisions')
        /\ Len(revisions) \in Nat /\ Len(revisions') \in Nat /\ Len(minted) \in Nat
    BY LenProperties DEF TypeOK
  <2>3. ASSUME NEW i \in DOMAIN turns, turns[i].revision # 0
        PROVE  /\ turns[i].revision \in DOMAIN revisions'
               /\ turns[i].version # 0
               /\ revisions'[turns[i].revision].version = turns[i].version
    BY <2>1, <2>2, <2>3 DEF AnswersLinked, Continues
  <2>4. CASE turns' = turns
    BY <2>3, <2>4 DEF AnswersLinked
  <2>5. ASSUME NEW a \in Attempts, NEW n \in Nat, NEW v \in Nat,
               turns' = Append(turns, TurnOf(a, n, v)),
               n # 0 => /\ n \in DOMAIN revisions' /\ v # 0
                        /\ revisions'[n].version = v
        PROVE  AnswersLinked'
    <3>1. /\ DOMAIN turns = 1..Len(turns) /\ Len(turns) \in Nat
          /\ DOMAIN turns' = 1..(Len(turns) + 1)
          /\ \A i \in DOMAIN turns : turns'[i] = turns[i]
      BY <2>5, OneMoreTurn
    <3>2. turns'[Len(turns) + 1] = TurnOf(a, n, v)
      <4>1. TurnOf(a, n, v) \in Turn
        BY ConstantsAssumption DEF TurnOf, Turn, Version
      <4>2. QED
        BY <2>5, <4>1, AppendProperties DEF TypeOK
    <3>3. SUFFICES ASSUME NEW i \in DOMAIN turns', turns'[i].revision # 0
                   PROVE  /\ turns'[i].revision \in DOMAIN revisions'
                          /\ turns'[i].version # 0
                          /\ revisions'[turns'[i].revision].version = turns'[i].version
      BY DEF AnswersLinked
    <3>4. CASE i \in DOMAIN turns
      BY <2>3, <3>1, <3>3, <3>4
    <3>5. CASE i = Len(turns) + 1
      <4>1. turns'[i].revision = n /\ turns'[i].version = v
        BY <3>2, <3>5 DEF TurnOf
      <4>2. QED
        BY <2>5, <3>3, <4>1
    <3>6. QED
      BY <3>1, <3>4, <3>5
  <2>6. FreshVersion \in Nat /\ FreshVersion # 0
    BY <2>2 DEF FreshVersion
  <2>7. QED
    BY <1>2, <2>2, <2>4, <2>5, <2>6, TurnLinks
<1>3. QED
  BY <1>1, <1>2

\* Seeding, layout writes, edits, restores and an older release never change the
\* diagram that is shown for an answer.
THEOREM AnswersKeepTheirDiagrams == Spec => []AnswerKeepsItsDiagram
<1>1. Init => AnswersLinked
  BY EmptySeq DEF Init, AnswersLinked
<1>2. TypeOK /\ TypeOK' /\ HistoryInv /\ AnswersLinked /\ [Next]_vars => AnswersLinked'
  BY LinkStep
<1>3. TypeOK /\ VersionsNameContents /\ AnswersLinked => AnswerKeepsItsDiagram
  <2> SUFFICES ASSUME TypeOK, VersionsNameContents, AnswersLinked,
                      NEW i \in DOMAIN turns, turns[i].revision # 0
               PROVE  /\ turns[i].revision \in DOMAIN revisions
                      /\ revisions[turns[i].revision].version = turns[i].version
                      /\ revisions[turns[i].revision].content = minted[turns[i].version]
    BY DEF AnswerKeepsItsDiagram
  <2>1. DOMAIN revisions = 1..Len(revisions)
    BY LenProperties DEF TypeOK
  <2>2. QED
    BY <2>1 DEF AnswersLinked, VersionsNameContents, HistoryNamed, Names
<1>4. QED
  BY <1>1, <1>2, <1>3, TypeCorrect, HistoryInvariant, VersionsNamed, PTL DEF Spec

-----------------------------------------------------------------------------
(* What a commit replaces.                                                 *)

LEMMA CommitReplaces ==
  ASSUME TypeOK, VersionNamesOneDiagram, [Next]_vars, NEW a \in Attempts,
         phase[a] = "running", turns' # turns, phase'[a] # phase[a], graph' # graph
  PROVE  graph.content = base[a].content /\ graph.version = base[a].version
<1> USE DEF thread, requests
<1>1. PICK b \in Attempts : RejectInput(b) \/ Commit(b)
  <2>1. ASSUME NEW b \in Attempts, Admit(b) \/ ReadBase(b) \/ Abandon(b) PROVE turns' = turns
    BY <2>1 DEF Admit, ReadBase, Abandon
  <2>2. CASE TabStep \/ ReadHistory \/ OldWriterStep \/ UNCHANGED vars
    BY <2>2 DEF TabStep, LoadThread, SaveLayout, EditContent, RestoreRevision, ReadHistory,
                OldWriterStep, OldWriterSavesGraph, OldWriterSavesLayout, vars
  <2>3. CASE DeleteThread
    BY <2>3 DEF DeleteThread
  <2>4. CASE ChatStep
    BY <2>1, <2>4 DEF ChatStep
  <2>5. QED
    BY <2>2, <2>3, <2>4 DEF Next
<1>2. PICK c \in MaybeContent, reviewed \in BOOLEAN : PersistTurn(b, c, reviewed)
  BY <1>1 DEF RejectInput, Commit, MaybeContent
<1>3. live /\ StoreGraph(b, c, reviewed)
  BY <1>2 DEF PersistTurn, StoreAnswer
<1>4. MatchesBase(b)
  BY <1>3 DEF StoreGraph
<1>5. a = b
  BY <1>2 DEF PersistTurn, GiveUp, Replay, Answer, Move, TypeOK
<1>6. graph.version = base[a].version
  BY <1>4, <1>5 DEF MatchesBase
<1>7. base[a].content = graph.content
  BY <1>3, <1>4, <1>5 DEF VersionNamesOneDiagram
<1>8. QED
  BY <1>6, <1>7

\* A finished generation replaces the working diagram only when that is the
\* diagram it was generated from: not only its version, also its content.
THEOREM CommitsReplaceTheirBase == Spec => CommitReplacesOnlyItsBase
<1>1. TypeOK /\ VersionNamesOneDiagram /\ [Next]_vars =>
        [\A a \in Attempts :
           (phase[a] = "running" /\ turns' # turns /\ phase'[a] # phase[a] /\ graph' # graph) =>
             /\ graph.content = base[a].content
             /\ graph.version = base[a].version]_vars
  BY CommitReplaces
<1>2. QED
  BY <1>1, TypeCorrect, OneDiagramPerVersion, PTL DEF Spec, CommitReplacesOnlyItsBase

-----------------------------------------------------------------------------
(* Reviews.                                                                *)

\* A contract about a diagram with this version and content.
About(k, v, c) == k.version \in {0, v} /\ k.approves \in {NoContent, c}

RevisionsReviewed ==
  \A i \in 1..Len(revisions) : About(revisions[i].contract, revisions[i].version,
                                     revisions[i].content)

\* The contract beside the working diagram counts for it or for none, and
\* is never older than what was minted.
WorkingReviewed ==
  /\ contract.version <= Len(minted)
  /\ EffectiveContract(graph, contract).approves \in {NoContent, graph.content}

ReviewInv == RevisionsReviewed /\ WorkingReviewed

\* What is minted stays, one more at a time.
LEMMA MintedLonger ==
  ASSUME TypeOK, NEW c \in Contents, minted' = Append(minted, c)
  PROVE  Len(minted) \in Nat /\ Len(minted') = Len(minted) + 1 /\ FreshVersion = Len(minted')
  BY AppendProperties, LenProperties DEF TypeOK, FreshVersion

LEMMA EffectiveTyped ==
  ASSUME TypeOK, WorkingReviewed
  PROVE  /\ EffectiveContract(graph, contract) \in Contract
         /\ About(EffectiveContract(graph, contract), graph.version, graph.content)
  BY ConstantsAssumption DEF TypeOK, EffectiveContract, NoContract, Contract, Version, MaybeContent,
                             WorkingReviewed, About

LEMMA SeedReviewed ==
  ASSUME TypeOK, ReviewInv
  PROVE  \A i \in 1..Len(SeededRevisions) :
           About(SeededRevisions[i].contract, SeededRevisions[i].version,
                 SeededRevisions[i].content)
<1> DEFINE k == EffectiveContract(graph, contract)
<1>1. k \in Contract /\ About(k, graph.version, graph.content)
  BY EffectiveTyped DEF ReviewInv
<1>2. Len(revisions) \in Nat /\ revisions \in Seq(Revision) /\ active \in Nat
  BY LenProperties DEF TypeOK
<1>3. CASE HasGraph /\ ShowsActive(graph)
  <2> DEFINE r == revisions[active]
             s == Synchronized(r, graph, k)
  <2>1. active \in 1..Len(revisions) /\ r.content = graph.content /\ r \in Revision
    BY <1>3 DEF ShowsActive, TypeOK
  <2>2. SeededRevisions = [revisions EXCEPT ![active] = s]
    BY <1>3 DEF SeededRevisions
  <2> HIDE DEF k
  <2>3. /\ s \in Revision /\ s.content = r.content /\ s.version = r.version
        /\ s.contract = IF k # NoContract /\ r.version # 0
                        THEN [k EXCEPT !.version = r.version] ELSE NoContract
    BY <1>1, <2>1 DEF Synchronized, Revision, Contract, NoContract, Version, TypeOK, Graph,
                      MaybeContent
  <2>4. [k EXCEPT !.version = r.version].version = r.version
        /\ [k EXCEPT !.version = r.version].approves = k.approves
    BY <1>1, <2>1 DEF Contract, Revision
  <2>5. About(s.contract, s.version, s.content)
    BY <1>1, <2>1, <2>3, <2>4 DEF About, NoContract
  <2> HIDE DEF s
  <2>6. /\ Len(SeededRevisions) = Len(revisions)
        /\ \A i \in 1..Len(revisions) :
             SeededRevisions[i] = IF i = active THEN s ELSE revisions[i]
    BY <1>2, <2>1, <2>2, <2>3, ExceptSeq
  <2>7. QED
    BY <2>5, <2>6 DEF ReviewInv, RevisionsReviewed
<1>4. CASE HasGraph /\ ~ShowsActive(graph)
  <2> DEFINE n == NewRevision(active, graph, k)
  <2>1. SeededRevisions = Append(revisions, n)
    BY <1>4 DEF SeededRevisions
  <2> HIDE DEF k
  <2>2. /\ n \in Revision /\ n.content = graph.content /\ n.version = graph.version
        /\ n.contract = k
    BY <1>1, <1>2, <1>4 DEF NewRevision, Revision, TypeOK, Graph, HasGraph, MaybeContent
  <2> HIDE DEF n
  <2>3. /\ Len(SeededRevisions) = Len(revisions) + 1
        /\ \A i \in 1..Len(revisions) : SeededRevisions[i] = revisions[i]
        /\ SeededRevisions[Len(revisions) + 1] = n
    BY <1>2, <2>1, <2>2, AppendProperties
  <2>4. QED
    BY <1>1, <1>2, <2>2, <2>3 DEF ReviewInv, RevisionsReviewed
<1>5. CASE ~HasGraph
  BY <1>5 DEF SeededRevisions, ReviewInv, RevisionsReviewed
<1>6. QED
  BY <1>3, <1>4, <1>5

LEMMA AppendReviewed ==
  ASSUME NEW S \in Seq(Revision), NEW n \in Revision,
         \A i \in 1..Len(S) : About(S[i].contract, S[i].version, S[i].content),
         About(n.contract, n.version, n.content), revisions' = Append(S, n)
  PROVE  RevisionsReviewed'
<1>1. /\ Len(S) \in Nat /\ Len(revisions') = Len(S) + 1 /\ revisions'[Len(S) + 1] = n
      /\ \A i \in 1..Len(S) : revisions'[i] = S[i]
  BY AppendProperties, LenProperties
<1>2. QED
  BY <1>1 DEF RevisionsReviewed

\* A contract that counts for the working diagram, or for none, reviews it.
LEMMA WorkingContract ==
  ASSUME contract'.version <= Len(minted'),
         contract'.version = graph'.version => contract'.approves \in {NoContent, graph'.content}
  PROVE  WorkingReviewed'
  BY DEF WorkingReviewed, EffectiveContract, NoContract

\* Only what the working diagram is and what was minted decides.
LEMMA WorkingKept ==
  ASSUME TypeOK, WorkingReviewed, contract' = contract,
         graph'.version = graph.version, graph'.content = graph.content,
         Len(minted') \in Nat, Len(minted) <= Len(minted')
  PROVE  WorkingReviewed'
<1>1. Len(minted) \in Nat /\ contract.version \in Nat
  BY LenProperties DEF TypeOK, Contract, Version
<1>2. contract'.version <= Len(minted')
  BY <1>1 DEF WorkingReviewed
<1>3. EffectiveContract(graph, contract)' = EffectiveContract(graph, contract)
  BY DEF EffectiveContract
<1>4. QED
  BY <1>2, <1>3 DEF WorkingReviewed

LEMMA ReviewStep ==
  ASSUME TypeOK, TypeOK', ReviewInv, [Next]_vars
  PROVE  ReviewInv'
<1>1. /\ Len(minted) \in Nat /\ Len(minted') \in Nat
      /\ SeededRevisions \in Seq(Revision) /\ SeededActive \in Nat
      /\ revisions \in Seq(Revision)
  BY SeedCurrent, LenProperties DEF TypeOK
<1>2. CASE Kept
  BY <1>2 DEF Kept, ReviewInv, RevisionsReviewed, WorkingReviewed, EffectiveContract
<1>3. CASE Seeds
  <2>1. RevisionsReviewed'
    BY <1>3, SeedReviewed DEF Seeds, RevisionsReviewed
  <2>2. WorkingReviewed'
    BY <1>1, <1>3, WorkingKept DEF Seeds, ReviewInv
  <2>3. QED
    BY <2>1, <2>2 DEF ReviewInv
<1>4. ASSUME NEW l \in Layouts, LaysOut(l) PROVE ReviewInv'
  <2>1. graph'.content = graph.content /\ graph'.version = graph.version
    BY <1>4, GraphLayoutWritten DEF LaysOut, MaybeLayout, TypeOK
  <2>2. WorkingReviewed'
    BY <1>1, <1>4, <2>1, WorkingKept DEF LaysOut, ReviewInv
  <2>3. RevisionsReviewed'
    BY <1>4, MovedHistory, SeedReviewed DEF LaysOut, RevisionsReviewed
  <2>4. QED
    BY <2>2, <2>3 DEF ReviewInv
<1>5. ASSUME NEW p \in Nat, NEW g \in Graph, NEW k \in Contract, Fresh(g, k)
      PROVE  /\ NewRevision(p, g, k) \in Revision
             /\ About(NewRevision(p, g, k).contract, NewRevision(p, g, k).version,
                      NewRevision(p, g, k).content)
             /\ Len(minted) <= Len(minted')
             /\ k.version <= Len(minted')
  BY <1>1, <1>5, FreshRevision, MintedLonger DEF Fresh, About
<1>6. ASSUME NEW g \in Graph, NEW k \in Contract, Replaces(g, k) PROVE ReviewInv'
  <2>1. Fresh(g, k) /\ graph' = g /\ contract' = k
        /\ revisions' = Append(SeededRevisions, NewRevision(SeededActive, g, k))
    BY <1>6 DEF Replaces
  <2>2. RevisionsReviewed'
    BY <1>1, <1>5, <2>1, SeedReviewed, AppendReviewed
  <2>3. k.approves \in {NoContent, g.content}
    BY <2>1 DEF Fresh
  <2>4. WorkingReviewed'
    BY <1>1, <1>5, <2>1, <2>3, WorkingContract
  <2>5. QED
    BY <2>2, <2>4 DEF ReviewInv
<1>7. ASSUME NEW a \in Attempts, NEW g \in Graph, NEW k \in Contract,
             Branches(base[a].revision, g, k)
      PROVE  ReviewInv'
  <2>1. Fresh(g, k) /\ base[a].revision \in Nat
        /\ revisions' = Append(revisions, NewRevision(base[a].revision, g, k))
        /\ UNCHANGED <<graph, contract>>
    BY <1>7 DEF Branches, TypeOK, Base
  <2>2. RevisionsReviewed'
    BY <1>1, <1>5, <2>1, AppendReviewed DEF ReviewInv, RevisionsReviewed
  <2>3. WorkingReviewed'
    BY <1>1, <1>5, <2>1, WorkingKept DEF ReviewInv
  <2>4. QED
    BY <2>2, <2>3 DEF ReviewInv
<1>8. ASSUME NEW n \in 1..MaxRevisions, Activates(n) PROVE ReviewInv'
  <2> DEFINE r == SeededRevisions[n]
             k == [r.contract EXCEPT !.version = FreshVersion]
  <2>1. n \in 1..Len(SeededRevisions) /\ revisions' = SeededRevisions
    BY <1>8 DEF Activates
  <2>2. r \in Revision /\ About(r.contract, r.version, r.content)
    BY <1>1, <2>1, ElementOfSeq, SeedReviewed
  <2>3. /\ graph'.content = r.content /\ graph'.version = FreshVersion
        /\ contract' = IF r.contract = NoContract THEN NoContract ELSE k
        /\ minted' = Append(minted, r.content)
    BY <1>8 DEF Activates
  <2>4. r.content \in Contents /\ r.contract \in Contract
    BY <2>2 DEF Revision
  <2>5. k.version = FreshVersion /\ k.approves = r.contract.approves
    <3>1. FreshVersion \in Nat
      BY <1>1 DEF FreshVersion
    <3>2. QED
      BY <2>4, <3>1, ContractRenamed
  <2> HIDE DEF k, r
  <2>6. FreshVersion = Len(minted')
    BY <2>3, <2>4, MintedLonger
  <2>7. contract'.version <= Len(minted') /\ contract'.approves \in {NoContent, r.content}
    BY <1>1, <2>2, <2>3, <2>5, <2>6 DEF About, NoContract
  <2>8. WorkingReviewed'
    BY <2>3, <2>7, WorkingContract
  <2>9. RevisionsReviewed'
    BY <2>1, SeedReviewed DEF RevisionsReviewed
  <2>10. QED
    BY <2>8, <2>9 DEF ReviewInv
<1>9. CASE DeleteThread
  <2>1. graph' = NoGraph /\ contract' = NoContract /\ revisions' = << >>
    BY <1>9 DEF DeleteThread
  <2>2. RevisionsReviewed'
    BY <2>1, EmptySeq DEF RevisionsReviewed
  <2>3. WorkingReviewed'
    BY <1>1, <2>1, WorkingContract DEF NoContract
  <2>4. QED
    BY <2>2, <2>3 DEF ReviewInv
<1>10. ASSUME NEW c \in Contents, OldWriterSavesGraph(c) PROVE ReviewInv'
  <2>1. /\ graph'.content = c /\ graph'.version = FreshVersion /\ minted' = Append(minted, c)
        /\ contract' = contract \/ contract' = [version |-> FreshVersion, approves |-> c]
        /\ revisions' = revisions
    BY <1>10 DEF OldWriterSavesGraph
  <2>2. FreshVersion = Len(minted') /\ Len(minted') = Len(minted) + 1
    BY <2>1, MintedLonger
  <2>3. contract.version \in Nat /\ contract.version <= Len(minted)
    BY DEF TypeOK, Contract, Version, ReviewInv, WorkingReviewed
  <2>4. contract'.version <= Len(minted')
        /\ (contract'.version = graph'.version => contract'.approves = c)
    BY <1>1, <2>1, <2>2, <2>3
  <2>5. WorkingReviewed'
    BY <2>1, <2>4, WorkingContract
  <2>6. QED
    BY <2>1, <2>5 DEF ReviewInv, RevisionsReviewed
<1>11. ASSUME NEW l \in Layouts, OldWriterSavesLayout(l) PROVE ReviewInv'
  <2>1. graph'.content = graph.content /\ graph'.version = graph.version
        /\ UNCHANGED <<contract, minted, revisions>>
    BY <1>11, GraphLayoutWritten DEF OldWriterSavesLayout, MaybeLayout, TypeOK
  <2>2. WorkingReviewed'
    BY <1>1, <2>1, WorkingKept DEF ReviewInv
  <2>3. QED
    BY <2>1, <2>2 DEF ReviewInv, RevisionsReviewed
<1>12. QED
  BY <1>2, <1>3, <1>4, <1>6, <1>7, <1>8, <1>9, <1>10, <1>11, ThreadStep
  DEF ThreadChange, OldWriterStep

\* No edit, restore, seeding or write of an older release attaches a review to a
\* diagram it was not made about.
THEOREM ReviewsStay == Spec => []ReviewsStayWithTheirContent
<1>1. Init => ReviewInv
  <2> SUFFICES ASSUME Init PROVE ReviewInv
    OBVIOUS
  <2>1. Len(minted) \in Nat
    BY LenProperties, TypeInit DEF TypeOK
  <2>2. RevisionsReviewed
    BY EmptySeq DEF Init, RevisionsReviewed
  <2>3. WorkingReviewed
    BY <2>1 DEF Init, WorkingReviewed, EffectiveContract, NoContract
  <2>4. QED
    BY <2>2, <2>3 DEF ReviewInv
<1>2. TypeOK /\ TypeOK' /\ ReviewInv /\ [Next]_vars => ReviewInv'
  BY ReviewStep
<1>3. TypeOK /\ ReviewInv => ReviewsStayWithTheirContent
  <2> SUFFICES ASSUME TypeOK, ReviewInv PROVE ReviewsStayWithTheirContent
    OBVIOUS
  <2>1. DOMAIN revisions = 1..Len(revisions)
    BY LenProperties DEF TypeOK
  <2>2. QED
    BY <2>1 DEF ReviewInv, RevisionsReviewed, WorkingReviewed, About, ReviewsStayWithTheirContent
<1>4. QED
  BY <1>1, <1>2, <1>3, TypeCorrect, PTL DEF Spec

-----------------------------------------------------------------------------
(* Together.                                                               *)

\* A version held by a tab, a generation or an answer keeps its diagram.
THEOREM VersionsReliable == Spec => []VersionsAreReliable
BY OneDiagramPerVersion, AnswersKeepTheirDiagrams, PTL DEF VersionsAreReliable

\* What was shown stays in the history, as it was (graph_history_store.py).
THEOREM HistoryKeeps == Spec => HistoryIsKept
BY HistoryGrows, ReplacedGraphsKept DEF HistoryIsKept

\* What replaces the working diagram was made from it, under a fresh version.
THEOREM ReplacementsCurrent == Spec => ReplacementsAreCurrent
BY CommitsReplaceTheirBase, ActivationsAlwaysNew DEF ReplacementsAreCurrent
=============================================================================
