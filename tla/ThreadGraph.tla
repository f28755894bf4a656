---------------------------- MODULE ThreadGraph ----------------------------
(***************************************************************************)
(* One saved conversation: its working diagram, its revision tree, its     *)
(* completed turns, the generations in flight on it and the browser tabs   *)
(* that hold a copy of it (backend/storage/thread_store.py and             *)
(* graph_history_store.py, as the chat transports and thread_route.py call *)
(* them).                                                                  *)
(*                                                                         *)
(* Every storage function runs in one database transaction that holds the  *)
(* thread row, so each is one action; what interleaves are the long turns  *)
(* (a base is read, models run for minutes, then the turn commits) and the *)
(* browser requests, which carry a version their tab read earlier.         *)
(*                                                                         *)
(* A diagram version is a uuid: here the next natural number.  Version 0   *)
(* stands for a diagram saved without a version by an early release.       *)
(***************************************************************************)
EXTENDS Integers, Sequences, FiniteSets

CONSTANTS
  Contents,       \* what diagrams can show, layout and version left out
  NoContent,      \* stands for "no diagram"
  LegacyContent,  \* what the diagram saved before this release shows
  Layouts,        \* saved view states
  NoLayout,       \* a diagram without a view state
  Oversized,      \* <<content, layout>> pairs beyond max_graph_data_bytes
  Related,        \* <<content, content>> pairs that share a node id
  Attempts,       \* chat requests reaching the server, retries included
  NoAttempt,
  Requests,       \* client_request_id values
  RequestOf,      \* the client_request_id each chat request carries
  Tabs,           \* browser tabs showing the conversation
  MaxMessages,    \* max_messages_per_thread
  MaxVersions,    \* bound: versions handed out
  MaxRevisions,   \* bound: revisions of the conversation
  Rollout         \* TRUE: an earlier release writes beside this one

ASSUME ConstantsAssumption ==
  /\ NoContent \notin Contents
  /\ LegacyContent \in Contents
  /\ NoLayout \notin Layouts
  /\ NoAttempt \notin Attempts
  /\ RequestOf \in [Attempts -> Requests]
  /\ MaxMessages \in Nat
  /\ MaxVersions \in Nat
  /\ MaxRevisions \in Nat
  /\ Rollout \in BOOLEAN

VARIABLES
  live,       \* the chat_threads row exists
  graph,      \* chat_threads.graph_data: the working diagram
  contract,   \* chat_threads.graph_contract
  active,     \* chat_threads.active_graph_revision_id, 0 for NULL
  revisions,  \* graph_revisions rows; the index is revision_number
  turns,      \* chat_messages: committed user/assistant pairs, in order
  phase,      \* where each chat request is
  base,       \* the diagram each running generation started from
  told,       \* whose answer each finished request was sent
  tab,        \* the version each tab holds and the diagram it showed for it
  minted      \* history: the content each version was created for

thread   == <<live, graph, contract, active, revisions, turns>>
requests == <<phase, base, told>>
vars     == <<thread, requests, tab, minted>>

Version  == Nat
MaybeContent == Contents \cup {NoContent}
MaybeLayout  == Layouts \cup {NoLayout}

\* A review contract names the graph version it belongs to and the content a
\* reviewer approved, NoContent when it keeps design context only.
Contract == [version: Version, approves: MaybeContent]
NoContract == [version |-> 0, approves |-> NoContent]

Graph   == [content: MaybeContent, version: Version, layout: MaybeLayout]
NoGraph == [content |-> NoContent, version |-> 0, layout |-> NoLayout]

Revision == [parent: Nat, content: Contents, version: Version,
             layout: MaybeLayout, contract: Contract]
Turn     == [request: Requests, by: Attempts, revision: Nat, version: Version]

Phases  == {"idle", "admitted", "running", "done", "failed"}
Base    == [version: Version, revision: Nat, content: MaybeContent]
NoBase  == [version |-> 0, revision |-> 0, content |-> NoContent]
Tab     == [version: Version, content: MaybeContent]

TypeOK ==
  /\ live \in BOOLEAN
  /\ graph \in Graph
  /\ contract \in Contract
  /\ active \in 0..Len(revisions)
  /\ revisions \in Seq(Revision)
  /\ turns \in Seq(Turn)
  /\ phase \in [Attempts -> Phases]
  /\ base \in [Attempts -> Base]
  /\ told \in [Attempts -> Attempts \cup {NoAttempt}]
  /\ tab \in [Tabs -> Tab]
  /\ minted \in Seq(Contents)

-----------------------------------------------------------------------------
(* The starting state: a conversation without a diagram, or one whose      *)
(* diagram an earlier release saved, with or without a version, and whose  *)
(* revision pointer the migration left NULL.                               *)

LegacyGraph(v) == [content |-> LegacyContent, version |-> v, layout |-> NoLayout]

Init ==
  /\ live = TRUE
  /\ \/ graph = NoGraph /\ minted = << >>
     \/ graph = LegacyGraph(0) /\ minted = << >>
     \/ graph = LegacyGraph(1) /\ minted = <<LegacyContent>>
  /\ contract = NoContract
  /\ active = 0
  /\ revisions = << >>
  /\ turns = << >>
  /\ phase = [a \in Attempts |-> "idle"]
  /\ base = [a \in Attempts |-> NoBase]
  /\ told = [a \in Attempts |-> NoAttempt]
  /\ tab = [t \in Tabs |-> [version |-> 0, content |-> NoContent]]

-----------------------------------------------------------------------------
(* Storage helpers.                                                        *)

HasGraph == graph.content # NoContent
Fits(c, l) == <<c, l>> \notin Oversized
FreshVersion == Len(minted) + 1
CanMint == Len(minted) < MaxVersions

\* A contract counts only while it names the version of the graph beside it.
EffectiveContract(g, k) ==
  IF g.version # 0 /\ k.version = g.version THEN k ELSE NoContract

NewRevision(parent, g, k) ==
  [parent |-> parent, content |-> g.content, version |-> g.version,
   layout |-> g.layout, contract |-> k]

\* Mutant: the snapshot takes the working version too.
SynchronizedWithVersion(r, g, k) ==
  [r EXCEPT !.layout = g.layout, !.version = g.version, !.contract = k]

\* seed_current, when the active revision still shows the working diagram:
\* the snapshot takes the working layout and contract and keeps its version.
Synchronized(r, g, k) ==
  [r EXCEPT !.layout = g.layout,
            !.contract = IF k # NoContract /\ r.version # 0
                         THEN [k EXCEPT !.version = r.version]
                         ELSE NoContract]

\* Mutant: any active revision is taken for a checkpoint of the working diagram.
AnyActive(g) == active # 0

ShowsActive(g) == active # 0 /\ revisions[active].content = g.content

\* Mutant: the working diagram is replaced without a checkpoint of it.
UnseededRevisions == revisions

SeededRevisions ==
  LET k == EffectiveContract(graph, contract)
  IN  IF ~HasGraph THEN revisions
      ELSE IF ShowsActive(graph)
           THEN [revisions EXCEPT ![active] = Synchronized(@, graph, k)]
           ELSE Append(revisions, NewRevision(active, graph, k))

\* Mutant: the pointer moves on although the active revision was kept.
MovedActive == IF HasGraph THEN Len(revisions) + 1 ELSE 0

SeededActive ==
  IF ~HasGraph THEN 0
  ELSE IF ShowsActive(graph) THEN active ELSE Len(revisions) + 1

\* A generated diagram that keeps nodes of the working one keeps its layout.
PreservedLayout(c) ==
  IF graph.layout # NoLayout /\ <<c, graph.content>> \in Related
  THEN graph.layout ELSE NoLayout

Committed(q) == {i \in DOMAIN turns : turns[i].request = q}
AnswerOf(q)  == turns[CHOOSE i \in Committed(q) : TRUE].by

LimitReached == 2 * Len(turns) + 2 > MaxMessages
RoomForRevisions == Len(revisions) + 2 <= MaxRevisions

-----------------------------------------------------------------------------
(* A chat request: admitted (chat_websocket.py), its base read, its result *)
(* committed by persist_turn.                                              *)

Move(a, p) == phase' = [phase EXCEPT ![a] = p]

Answer(a, by) ==
  /\ Move(a, "done")
  /\ told' = [told EXCEPT ![a] = by]

Replay(a) == Answer(a, AnswerOf(RequestOf[a]))

GiveUp(a) ==
  /\ Move(a, "failed")
  /\ UNCHANGED told

\* The thread is read, a stored turn of this request is replayed, the message
\* count is checked, and the activity record is written.
Admit(a) ==
  /\ phase[a] = "idle"
  /\ \/ live /\ Committed(RequestOf[a]) # {} /\ Replay(a)
     \/ /\ live /\ Committed(RequestOf[a]) = {} /\ ~LimitReached
        /\ Move(a, "admitted") /\ UNCHANGED told
     \/ (~live \/ (Committed(RequestOf[a]) = {} /\ LimitReached)) /\ GiveUp(a)
  /\ UNCHANGED <<thread, base, tab, minted>>

\* After registration: the thread and the stored turn are looked up again, the
\* input passes its checks, then get_graph_artifact reads version and revision.
ReadBase(a) ==
  /\ phase[a] = "admitted"
  /\ \/ ~live /\ GiveUp(a) /\ UNCHANGED base
     \/ live /\ Committed(RequestOf[a]) # {} /\ Replay(a) /\ UNCHANGED base
     \/ /\ live /\ Committed(RequestOf[a]) = {}
        /\ Move(a, "running")
        /\ base' = [base EXCEPT ![a] = [version |-> graph.version, revision |-> active,
                                        content |-> graph.content]]
        /\ UNCHANGED told
  /\ UNCHANGED <<thread, tab, minted>>

\* Mutant: a completion that never looks at the active diagram again.
AlwaysMatches(a) == TRUE

MatchesBase(a) ==
  /\ graph.version = base[a].version
  /\ active = base[a].revision

\* The diagram of a turn is dropped, its messages kept, when it is too large
\* as generated or with the layout it would inherit.
GraphSaved(a, c) ==
  /\ c # NoContent
  /\ Fits(c, NoLayout)
  /\ MatchesBase(a) => Fits(c, PreservedLayout(c))

StoreGraph(a, c, reviewed) ==
  LET v == FreshVersion
      g == [content |-> c, version |-> v,
            layout |-> IF MatchesBase(a) THEN PreservedLayout(c) ELSE NoLayout]
      k == IF reviewed THEN [version |-> v, approves |-> c] ELSE NoContract
  IN  /\ minted' = Append(minted, c)
      /\ IF MatchesBase(a)
         THEN /\ revisions' = Append(SeededRevisions, NewRevision(SeededActive, g, k))
              /\ active' = Len(SeededRevisions) + 1
              /\ graph' = g
              /\ contract' = k
         ELSE /\ revisions' = Append(revisions, NewRevision(base[a].revision, g, k))
              /\ UNCHANGED <<active, graph, contract>>
      /\ turns' = Append(turns, [request |-> RequestOf[a], by |-> a,
                                 revision |-> Len(revisions'), version |-> v])

StoreAnswer(a) ==
  /\ turns' = Append(turns, [request |-> RequestOf[a], by |-> a,
                             revision |-> 0, version |-> 0])
  /\ UNCHANGED <<graph, contract, active, revisions, minted>>

\* Mutant: no look at the rows of an earlier commit of the request.
NoPriorTurn(a) == FALSE

PriorTurn(a) == Committed(RequestOf[a]) # {}

\* Mutant: the messages are counted at admission only.
NoLimit(a) == FALSE

OverLimit(a) == LimitReached

\* persist_turn, then the transport reads the stored turn back and tells the
\* client; the reply may be lost with its connection or its server.
PersistTurn(a, c, reviewed) ==
  /\ \/ /\ ~live \/ (~PriorTurn(a) /\ OverLimit(a))
        /\ GiveUp(a)
        /\ UNCHANGED <<graph, contract, active, revisions, turns, minted>>
     \/ /\ live /\ PriorTurn(a)
        /\ Replay(a) \/ GiveUp(a)
        /\ UNCHANGED <<graph, contract, active, revisions, turns, minted>>
     \/ /\ live /\ ~PriorTurn(a) /\ ~OverLimit(a)
        /\ IF GraphSaved(a, c)
           THEN CanMint /\ RoomForRevisions /\ StoreGraph(a, c, reviewed)
           ELSE StoreAnswer(a)
        /\ Answer(a, a) \/ GiveUp(a)
  /\ UNCHANGED <<live, base, tab>>

\* A rejected input is stored as an answer without a diagram.
RejectInput(a) ==
  /\ phase[a] = "admitted"
  /\ PersistTurn(a, NoContent, FALSE)

Commit(a) ==
  /\ phase[a] = "running"
  /\ \E c \in MaybeContent, reviewed \in BOOLEAN : PersistTurn(a, c, reviewed)

\* A stop, a timeout, a failed agent, a failed transaction or a crashed server.
Abandon(a) ==
  /\ phase[a] \in {"admitted", "running"}
  /\ GiveUp(a)
  /\ UNCHANGED <<thread, base, tab, minted>>

-----------------------------------------------------------------------------
(* Browser tabs.  A tab sends the version it holds, however old; when the  *)
(* reply is lost it keeps that version.                                    *)

Shown(g) == [version |-> g.version, content |-> g.content]

LoadThread(t) ==
  /\ live
  /\ tab' = [tab EXCEPT ![t] = Shown(graph)]
  /\ UNCHANGED <<thread, requests, minted>>

\* list_history and get_revision checkpoint the working diagram first.
ReadHistory ==
  /\ live /\ HasGraph /\ RoomForRevisions
  /\ revisions' = SeededRevisions
  /\ active' = SeededActive
  /\ UNCHANGED <<live, graph, contract, turns, requests, tab, minted>>

HoldsVersion(t) == HasGraph /\ graph.version # 0 /\ tab[t].version = graph.version

\* Mutant: the layout is written on the working diagram alone.
UnmovedHistory(l) == SeededRevisions

MovedInHistory(l) == [SeededRevisions EXCEPT ![SeededActive].layout = l]

\* save_graph: only the layout, on the working diagram and its checkpoint.
SaveLayout(t, l) ==
  /\ live /\ HoldsVersion(t)
  /\ Fits(graph.content, l)
  /\ RoomForRevisions
  /\ graph' = [graph EXCEPT !.layout = l]
  /\ revisions' = MovedInHistory(l)
  /\ active' = SeededActive
  /\ UNCHANGED <<live, contract, turns, requests, tab, minted>>

\* Mutant: the review of the old content is kept for the edited one.
KeptContract(v) == [contract EXCEPT !.version = v]

\* _edited_graph_contract: design context without a review decision.
EditedContract(v) ==
  IF EffectiveContract(graph, contract) = NoContract THEN NoContract
  ELSE [version |-> v, approves |-> NoContent]

\* Mutant: an edited diagram keeps the version of the one it replaces.
WorkingVersion == graph.version

EditedVersion == FreshVersion

\* edit_graph_content: a diagram without a version is edited by a tab that
\* holds none; an edit that changes nothing, or that no longer fits, is void.
EditContent(t, c) ==
  /\ live /\ HasGraph /\ tab[t].version = graph.version
  /\ c # graph.content /\ Fits(c, graph.layout)
  /\ CanMint /\ RoomForRevisions
  /\ LET v == EditedVersion
         g == [content |-> c, version |-> v, layout |-> graph.layout]
     IN  /\ graph' = g
         /\ contract' = EditedContract(v)
         /\ revisions' = Append(SeededRevisions,
                                NewRevision(SeededActive, g, EditedContract(v)))
         /\ active' = Len(SeededRevisions) + 1
         /\ minted' = Append(minted, c)
         /\ tab' = [tab EXCEPT ![t] = Shown(g)] \/ UNCHANGED tab
  /\ UNCHANGED <<live, turns, requests>>

\* Mutant: a restored diagram comes back under the version of its snapshot.
SnapshotVersion(r) == r.version

RestoredVersion(r) == FreshVersion

\* restore_revision.  The active target is left as it is, whatever version the
\* tab holds; a refused restore rolls its checkpoint back.
RestoreRevision(t, n) ==
  /\ live /\ RoomForRevisions /\ HasGraph
  /\ n \in DOMAIN SeededRevisions
  /\ revisions' = SeededRevisions
  /\ LET r == SeededRevisions[n]
         g == [content |-> r.content, version |-> RestoredVersion(r), layout |-> r.layout]
     IN  \/ /\ n = SeededActive
            /\ active' = SeededActive
            /\ UNCHANGED <<graph, contract, minted>>
            /\ tab' = [tab EXCEPT ![t] = Shown(graph)] \/ UNCHANGED tab
         \/ /\ n # SeededActive
            /\ tab[t].version = graph.version
            /\ r.contract.version \in {0, r.version}
            /\ CanMint
            /\ graph' = g
            /\ contract' = IF r.contract = NoContract THEN NoContract
                           ELSE [r.contract EXCEPT !.version = g.version]
            /\ active' = n
            /\ minted' = Append(minted, r.content)
            /\ tab' = [tab EXCEPT ![t] = Shown(g)] \/ UNCHANGED tab
  /\ UNCHANGED <<live, turns, requests>>

\* delete_thread, or retention of another conversation's completion: messages,
\* thread and, by cascade, revisions.
DeleteThread ==
  /\ live
  /\ live' = FALSE
  /\ graph' = NoGraph
  /\ contract' = NoContract
  /\ active' = 0
  /\ revisions' = << >>
  /\ turns' = << >>
  /\ UNCHANGED <<requests, tab, minted>>

-----------------------------------------------------------------------------
(* An instance of the earlier release during a rollout: it knows neither   *)
(* revisions nor the pointer, and one older still leaves the contract.     *)

OldWriterSavesGraph(c) ==
  /\ Rollout /\ live /\ CanMint
  /\ LET v == FreshVersion
     IN  /\ graph' = [content |-> c, version |-> v, layout |-> NoLayout]
         /\ contract' \in {contract, [version |-> v, approves |-> c]}
  /\ minted' = Append(minted, c)
  /\ UNCHANGED <<live, active, revisions, turns, requests, tab>>

OldWriterSavesLayout(l) ==
  /\ Rollout /\ live /\ HasGraph
  /\ graph' = [graph EXCEPT !.layout = l]
  /\ UNCHANGED <<live, contract, active, revisions, turns, requests, tab, minted>>

-----------------------------------------------------------------------------

ChatStep == \E a \in Attempts :
  Admit(a) \/ ReadBase(a) \/ RejectInput(a) \/ Commit(a) \/ Abandon(a)

TabStep == \E t \in Tabs :
  \/ LoadThread(t)
  \/ \E l \in Layouts : SaveLayout(t, l)
  \/ \E c \in Contents : EditContent(t, c)
  \/ \E n \in 1..MaxRevisions : RestoreRevision(t, n)

OldWriterStep ==
  \/ \E c \in Contents : OldWriterSavesGraph(c)
  \/ \E l \in Layouts : OldWriterSavesLayout(l)

Next == ChatStep \/ TabStep \/ ReadHistory \/ DeleteThread \/ OldWriterStep

Spec == Init /\ [][Next]_vars

-----------------------------------------------------------------------------
(* Properties.                                                             *)

\* A version a tab or a running generation holds never names another diagram
\* than the one that was read under it: restore and edit hand out fresh
\* versions, so a delayed layout write, an edit or a commit that passes its
\* version check meets the diagram it was made for.
VersionNamesOneDiagram ==
  live =>
    /\ \A t \in Tabs :
         tab[t].content # NoContent /\ tab[t].version = graph.version
           => tab[t].content = graph.content
    /\ \A a \in Attempts :
         phase[a] = "running" /\ MatchesBase(a)
           => base[a].content = graph.content

\* Why it holds: a version belongs to the content it was minted for, version 0
\* to the diagram of the early release, wherever a copy of it is kept.
Names(m, v, c) ==
  IF v = 0 THEN c = LegacyContent ELSE v \in DOMAIN m /\ m[v] = c

GraphNamed ==
  IF HasGraph THEN Names(minted, graph.version, graph.content) ELSE graph.version = 0

HistoryNamed ==
  \A i \in 1..Len(revisions) : Names(minted, revisions[i].version, revisions[i].content)

TabsNamed == \A t \in Tabs :
  IF tab[t].content # NoContent
  THEN /\ Names(minted, tab[t].version, tab[t].content)
       /\ live => HasGraph
  ELSE tab[t].version = 0

BasesNamed == \A a \in Attempts : phase[a] = "running" =>
  IF base[a].content # NoContent
  THEN /\ Names(minted, base[a].version, base[a].content)
       /\ live => HasGraph
  ELSE base[a].version = 0 /\ (graph.version = 0 => ~HasGraph)

VersionsNameContents == GraphNamed /\ HistoryNamed /\ TabsNamed /\ BasesNamed

\* docs/graph-history-contract.md: an activation gets a fresh version, so that a
\* delayed layout write from an earlier activation cannot overwrite it.
ActivationsAreNew == [][
  live' /\ graph'.version # graph.version
    => \A t \in Tabs : tab[t].version # graph'.version]_vars

\* A client_request_id is stored as one turn however often it is sent, and
\* every copy of the request that is answered is told the stored answer.
OneAnswerPerRequest ==
  /\ \A i, j \in DOMAIN turns : turns[i].request = turns[j].request => i = j
  /\ \A a \in Attempts : phase[a] = "done" /\ live
       => \E i \in DOMAIN turns : /\ turns[i].request = RequestOf[a]
                                  /\ turns[i].by = told[a]

\* Parallel turns each pass the count at admission; the commit still keeps the
\* conversation within its message limit.
WithinMessageLimit == 2 * Len(turns) <= MaxMessages

\* The diagram linked to an answer stays the one its generation produced,
\* whatever seeding, layout writes and restores do to the revision later.
AnswerKeepsItsDiagram ==
  \A i \in DOMAIN turns : turns[i].revision # 0 =>
    /\ turns[i].revision \in DOMAIN revisions
    /\ revisions[turns[i].revision].version = turns[i].version
    /\ revisions[turns[i].revision].content = minted[turns[i].version]

\* No review decision is ever attached to content it was not made about, in
\* the working diagram as its readers see it or in any checkpoint.
ReviewsStayWithTheirContent ==
  /\ EffectiveContract(graph, contract).approves \in {NoContent, graph.content}
  /\ \A i \in DOMAIN revisions :
       /\ revisions[i].contract.version \in {0, revisions[i].version}
       /\ revisions[i].contract.approves \in {NoContent, revisions[i].content}

\* Without an older release writing beside it, the materialized diagram and
\* the active revision agree on content and layout.
MaterializationAgrees ==
  ~Rollout /\ active # 0 =>
    /\ revisions[active].content = graph.content
    /\ revisions[active].layout = graph.layout

\* Checkpoints are never rewritten: parent, content and version stay, and only
\* deleting the conversation removes them.  A parent is always an older one.
HistoryOnlyGrows == [][live' =>
  /\ Len(revisions') >= Len(revisions)
  /\ \A i \in DOMAIN revisions :
       /\ revisions'[i].parent = revisions[i].parent
       /\ revisions'[i].content = revisions[i].content
       /\ revisions'[i].version = revisions[i].version
  /\ \A i \in DOMAIN revisions' : revisions'[i].parent < i]_vars

\* When this release replaces the working diagram, the replaced one is in the
\* history with the layout it had last, even when an older release wrote it.
ReplacedGraphIsCheckpointed == [][
  (live' /\ HasGraph /\ graph'.content # graph.content /\ ~OldWriterStep) =>
    \E i \in DOMAIN revisions' :
      revisions'[i].content = graph.content /\ revisions'[i].layout = graph.layout]_vars

\* A finished generation replaces only the diagram it was generated from.
CommitReplacesOnlyItsBase == [][\A a \in Attempts :
  (phase[a] = "running" /\ turns' # turns /\ phase'[a] # phase[a]
     /\ graph' # graph) =>
    /\ graph.content = base[a].content
    /\ graph.version = base[a].version]_vars

\* docs/graph-history-contract.md: restoring shares the generation lease.
RestoreWaitsForGenerations == [][\A t \in Tabs, n \in 1..MaxRevisions :
  (RestoreRevision(t, n) /\ graph' # graph) =>
    \A a \in Attempts : phase[a] # "running"]_vars

\* docs/current-architecture.md: a result based on an older graph is stored as
\* a historical branch; so one stored as a branch had an older graph as base.
BranchesComeFromOlderGraphs == [][\A a \in Attempts :
  (phase[a] = "running" /\ phase'[a] # phase[a]
     /\ Len(revisions') > Len(revisions) /\ graph' = graph) =>
    base[a].version # graph.version]_vars

\* However many copies of a request are sent and however many turns run in parallel,
\* each request is stored once, its copies are told what was stored, and the
\* conversation stays within its limit (persist_turn).
TurnsAreStoredOnce == OneAnswerPerRequest /\ WithinMessageLimit

\* A version is a name one can rely on: for a tab, for a running generation and for the
\* answer that links to a revision (seed_current, persist_turn, restore_revision).
VersionsAreReliable == VersionNamesOneDiagram /\ AnswerKeepsItsDiagram

\* History keeps what was ever shown: no checkpoint is rewritten, and what is replaced is
\* checkpointed first (graph_history_store.py).
HistoryIsKept == HistoryOnlyGrows /\ ReplacedGraphIsCheckpointed

\* The working diagram is replaced under a version nobody holds, by a generation that
\* started from it (restore_revision, edit_graph_content, persist_turn).
ReplacementsAreCurrent == CommitReplacesOnlyItsBase /\ ActivationsAreNew
=============================================================================
