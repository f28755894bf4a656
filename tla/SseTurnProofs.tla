---------------------------- MODULE SseTurnProofs ----------------------------
(***************************************************************************)
(* Theorems of SseTurn, for any requests, ids, texts, diagrams and limits:  *)
(* the streams implement AnswerRegister, leave no reader with a preview or *)
(* without word of its diagram, leave no search row behind, and are never  *)
(* evicted from under.                                                     *)
(***************************************************************************)
EXTENDS SseTurn, TLAPS

-----------------------------------------------------------------------------
(* The turn of an id.                                                      *)

\* What is stored for an id, in any history.
Has(hist, id) == \E i \in DOMAIN hist : hist[i].id = id
Of(hist, id) == hist[CHOOSE i \in DOMAIN hist : hist[i].id = id]
Unique(hist) == \A i, j \in DOMAIN hist : hist[i].id = hist[j].id => i = j

LEMMA OfIsOne ==
  ASSUME NEW hist \in Seq(Turns), NEW id, Has(hist, id)
  PROVE  \E i \in DOMAIN hist : Of(hist, id) = hist[i] /\ hist[i].id = id
<1> DEFINE P(i) == i \in DOMAIN hist /\ hist[i].id = id
<1>1. \E i : P(i)
  BY DEF Has
<1>2. P(CHOOSE i : P(i))
  BY <1>1, Zenon
<1>3. (CHOOSE i : P(i)) = CHOOSE i \in DOMAIN hist : hist[i].id = id
  OBVIOUS
<1> QED
  BY <1>2, <1>3 DEF Of

LEMMA OfIs ==
  ASSUME NEW hist \in Seq(Turns), Unique(hist), NEW i \in DOMAIN hist
  PROVE  Of(hist, hist[i].id) = hist[i]
<1>1. Has(hist, hist[i].id)
  BY DEF Has
<1>2. PICK j \in DOMAIN hist : Of(hist, hist[i].id) = hist[j] /\ hist[j].id = hist[i].id
  BY <1>1, OfIsOne
<1> QED
  BY <1>2 DEF Unique

LEMMA OfTyped ==
  ASSUME NEW hist \in Seq(Turns), NEW id, Has(hist, id)
  PROVE  Of(hist, id) \in Turns /\ Of(hist, id).id = id
<1>1. PICK i \in DOMAIN hist : Of(hist, id) = hist[i] /\ hist[i].id = id
  BY OfIsOne
<1>2. hist[i] \in Turns
  BY <1>1
<1> QED
  BY <1>1, <1>2

\* A turn of a new id leaves the turns of the other ids alone.
LEMMA AppendTurn ==
  ASSUME NEW hist \in Seq(Turns), Unique(hist), NEW new \in Turns, ~Has(hist, new.id),
         NEW longer, longer = Append(hist, new)
  PROVE  /\ longer \in Seq(Turns) /\ Unique(longer)
         /\ Has(longer, new.id) /\ Of(longer, new.id) = new
         /\ \A id : id # new.id =>
              /\ Has(longer, id) <=> Has(hist, id)
              /\ Has(hist, id) => Of(longer, id) = Of(hist, id)
<1>1. /\ longer \in Seq(Turns) /\ DOMAIN hist = 1..Len(hist)
      /\ DOMAIN longer = 1..Len(hist) + 1 /\ Len(hist) \in Nat
      /\ \A i \in DOMAIN hist : longer[i] = hist[i]
      /\ longer[Len(hist) + 1] = new
  OBVIOUS
<1>2. \A i \in DOMAIN hist : hist[i].id # new.id
  BY DEF Has
<1>3. Unique(longer)
  BY <1>1, <1>2 DEF Unique
<1>4. Has(longer, new.id)
  BY <1>1 DEF Has
<1>5. Of(longer, new.id) = new
  <2>1. Len(hist) + 1 \in DOMAIN longer
    BY <1>1
  <2> QED
    BY <1>1, <1>3, <2>1, OfIs
<1>6. ASSUME NEW id, id # new.id
      PROVE  /\ Has(longer, id) <=> Has(hist, id)
             /\ Has(hist, id) => Of(longer, id) = Of(hist, id)
  <2>1. Has(longer, id) <=> Has(hist, id)
    BY <1>1, <1>2, <1>6 DEF Has
  <2>2. ASSUME Has(hist, id) PROVE Of(longer, id) = Of(hist, id)
    <3>1. PICK i \in DOMAIN hist : Of(hist, id) = hist[i] /\ hist[i].id = id
      BY <2>2, OfIsOne
    <3>2. i \in DOMAIN longer /\ longer[i] = hist[i]
      BY <1>1
    <3>3. Of(longer, longer[i].id) = longer[i]
      BY <1>1, <1>3, <3>2, OfIs
    <3> QED
      BY <3>1, <3>2, <3>3
  <2> QED
    BY <2>1, <2>2
<1> QED
  BY <1>1, <1>3, <1>4, <1>5, <1>6

LEMMA TurnsInHistory ==
  /\ \A id : Completed(id) <=> Has(turns, id)
  /\ \A id : StoredTurn(id) = Of(turns, id)
BY DEF Completed, StoredTurn, Has, Of

\* persist_turn stores a turn under an id of which there is none.
StoresNew(r, text, graph, retry) ==
  /\ ~Completed(IdOf[r])
  /\ turns' = Append(turns, [id |-> IdOf[r], text |-> text, graph |-> graph,
                             retry |-> retry])
  /\ archive' = archive \cup ({graph} \ {NoGraph})

\* What persist_turn does, whatever the history holds of the id.
LEMMA StoreEffect ==
  ASSUME TypeOK, NEW r \in Requests, NEW text \in Texts, NEW graph \in Graphs,
         NEW retry \in BOOLEAN, Store(r, text, graph, retry)
  PROVE  /\ turns' \in Seq(Turns) /\ saved' \in Graphs /\ archive' \subseteq Graphs
         /\ \/ Completed(IdOf[r]) /\ UNCHANGED <<turns, saved, archive>>
            \/ StoresNew(r, text, graph, retry)
         /\ Completed(IdOf[r])'
<1>1. [id |-> IdOf[r], text |-> text, graph |-> graph, retry |-> retry] \in Turns
  BY ConstantsAssumption DEF Turns
<1>2. CASE Completed(IdOf[r])
  <2>1. UNCHANGED <<turns, saved, archive>>
    BY <1>2 DEF Store
  <2> QED
    BY <1>2, <2>1 DEF TypeOK, Completed
<1>3. CASE ~Completed(IdOf[r])
  <2>1. StoresNew(r, text, graph, retry)
    BY <1>3 DEF Store, StoresNew
  <2>2. saved' \in Graphs
    BY <1>3 DEF Store, TypeOK
  <2>3. turns' \in Seq(Turns)
    BY <1>1, <2>1 DEF StoresNew, TypeOK
  <2>4. turns'[Len(turns) + 1].id = IdOf[r] /\ Len(turns) + 1 \in DOMAIN turns'
    BY <1>1, <2>1 DEF StoresNew, TypeOK
  <2>5. Completed(IdOf[r])'
    BY <2>4 DEF Completed
  <2>6. archive' \subseteq Graphs
    BY <2>1 DEF StoresNew, TypeOK
  <2> QED
    BY <2>1, <2>2, <2>3, <2>5, <2>6
<1> QED
  BY <1>2, <1>3


-----------------------------------------------------------------------------
(* Types.                                                                  *)

LEMMA TextsAndGraphs ==
  ASSUME NEW r \in Requests
  PROVE  TextOf[r] \in Texts /\ GraphOf[r] \in Graphs /\ IdOf[r] \in Ids
BY ConstantsAssumption DEF Texts, Graphs

\* The turn that the history holds after a step.
LEMMA CanonicalTyped ==
  ASSUME NEW r \in Requests, turns' \in Seq(Turns), Completed(IdOf[r])'
  PROVE  Canonical(r) \in Turns /\ Canonical(r) = Of(turns', IdOf[r])
<1>1. Has(turns', IdOf[r])
  BY DEF Completed, Has
<1>2. Canonical(r) = Of(turns', IdOf[r])
  BY DEF Canonical, StoredTurn, Of
<1> QED
  BY <1>1, <1>2, OfTyped

LEMMA ViewsTyped ==
  ASSUME TypeOK, NEW r \in Requests
  PROVE  /\ Refused(r) \in Views /\ Complaint(r) \in Views
         /\ [shown[r] EXCEPT !.graph = "preview"] \in Views
         /\ [shown[r] EXCEPT !.end = IF @ = "open" THEN "cut" ELSE @] \in Views
<1>1. shown[r] \in Views /\ SavedGraph \in Graphs
  BY DEF TypeOK, SavedGraph, Graphs
<1>2. Refused(r) \in Views
  BY <1>1 DEF Refused, Views
<1>3. Complaint(r) \in Views
  BY <1>1, <1>2 DEF Complaint, Views
<1> QED
  BY <1>1, <1>2, <1>3 DEF Views

LEMMA ReplayTyped ==
  ASSUME NEW turn \in Turns, NEW graph \in Graphs
  PROVE  Replay(turn, graph) \in Views
BY DEF Replay, Turns, Views

LEMMA ShowTyped ==
  ASSUME TypeOK, NEW r \in Requests, NEW view \in Views, Show(r, view)
  PROVE  shown' \in [Requests -> Views]
BY DEF TypeOK, Show

LEMMA NoRunTyped == NoRun \in Runs
BY ConstantsAssumption DEF NoRun, Runs, Graphs

LEMMA EndsTyped ==
  ASSUME TypeOK, NEW r \in Requests, Ends(r)
  PROVE  /\ pc' \in [Requests -> {"idle", "ended"} \cup InFlight]
         /\ run' \in [Requests -> Runs]
         /\ record' \in [Requests -> 0..AgentTime + Slack]
BY NoRunTyped, ConstantsAssumption DEF TypeOK, Ends

LEMMA RunTyped ==
  ASSUME TypeOK, NEW r \in Requests
  PROVE  run[r] \in Runs
BY DEF TypeOK

LEMMA LimitsAreCounts ==
  /\ AgentTime \in Nat \ {0} /\ Slack \in Nat \ {0} /\ QueueSize \in Nat \ {0}
  /\ MaxPreviews \in Nat \ {0} /\ AgentTime + Slack \in Nat
<1>1. /\ AgentTime \in Nat \ {0} /\ Slack \in Nat \ {0} /\ QueueSize \in Nat \ {0}
      /\ MaxPreviews \in Nat \ {0}
  BY ConstantsAssumption
<1> QED
  BY <1>1

LEMMA RunFields ==
  ASSUME TypeOK, NEW r \in Requests
  PROVE  /\ run[r].check \in 0..5 /\ run[r].busy \in 0..1 /\ run[r].left \in 0..AgentTime
         /\ run[r].queue \in 0..QueueSize /\ run[r].sent \in 0..MaxPreviews
         /\ run[r].previews \in BOOLEAN /\ run[r].base \in Graphs
BY RunTyped DEF Runs

LEMMA CancelTyped ==
  ASSUME TypeOK, NEW r \in Requests, CancelAgent(r)
  PROVE  /\ run' \in [Requests -> Runs] /\ waiter' \in {"none", "starting", "polling",
              "granted", "refused", "cancelled", "killed"}
         /\ row' \in {"none", "open", "marked"} /\ expired' = expired /\ click' = click
<1>1. [run[r] EXCEPT !.agent = "cancelled"] \in Runs
  BY RunTyped DEF Runs
<1>2. run' = [run EXCEPT ![r] = [run[r] EXCEPT !.agent = "cancelled"]]
  BY DEF CancelAgent, TypeOK
<1> QED
  BY <1>1, <1>2 DEF CancelAgent, TypeOK

THEOREM InitTyped == Init => TypeOK
<1> SUFFICES ASSUME Init PROVE TypeOK
  OBVIOUS
<1>1. Blank \in Views
  BY DEF Blank, Views
<1>2. start.saved \in Graphs
  BY ConstantsAssumption DEF Init, Graphs
<1>3. << >> \in Seq(Turns)
  OBVIOUS
<1>4. record \in [Requests -> 0..AgentTime + Slack]
  BY LimitsAreCounts DEF Init
<1>5. run \in [Requests -> Runs] /\ shown \in [Requests -> Views]
  BY <1>1, NoRunTyped DEF Init
<1>6. saved \in Graphs /\ turns \in Seq(Turns) /\ start \in Starts
  BY <1>2, <1>3 DEF Init
<1> QED
  BY <1>4, <1>5, <1>6 DEF Init, TypeOK, InFlight

LEMMA RunChanges ==
  ASSUME TypeOK, NEW r \in Requests, NEW new \in Runs, run' = [run EXCEPT ![r] = new]
  PROVE  run' \in [Requests -> Runs]
BY DEF TypeOK

LEMMA StepTyped == TypeOK /\ [Next]_vars => TypeOK'
<1> SUFFICES ASSUME TypeOK, [Next]_vars PROVE TypeOK'
  OBVIOUS
<1> USE DEF storage, browser, search
<1>1. ASSUME NEW r \in Requests, Post(r) PROVE TypeOK'
  <2>1. Completed(IdOf[r]) => Replay(StoredTurn(IdOf[r]), saved) \in Views
    BY OfTyped, TurnsInHistory, ReplayTyped DEF TypeOK
  <2>2. Refused(r) \in Views
    BY ViewsTyped
  <2>3. shown' \in [Requests -> Views]
    <3>1. CASE Show(r, Refused(r))
      BY <2>2, <3>1, ShowTyped
    <3>2. CASE Completed(IdOf[r]) /\ Show(r, Replay(StoredTurn(IdOf[r]), saved))
      BY <2>1, <3>2, ShowTyped
    <3>3. CASE UNCHANGED shown
      BY <3>3 DEF TypeOK
    <3> QED
      BY <1>1, <3>1, <3>2, <3>3 DEF Post
  <2>4. pc' \in [Requests -> {"idle", "ended"} \cup InFlight]
    BY <1>1 DEF Post, TypeOK, InFlight
  <2> QED
    BY <1>1, <2>3, <2>4 DEF Post, TypeOK
<1>2. ASSUME NEW r \in Requests, Open(r) PROVE TypeOK'
  <2>1. CASE thread = "kept" /\ ~Completed(IdOf[r])
    <3>1. [run[r] EXCEPT !.check = 1] \in Runs
      BY RunTyped DEF Runs
    <3>2. run' \in [Requests -> Runs]
      BY <1>2, <2>1, <3>1, RunChanges DEF Open, TypeOK
    <3>3. record' \in [Requests -> 0..AgentTime + Slack]
      BY <1>2, <2>1, LimitsAreCounts DEF Open, Register, TypeOK
    <3> QED
      BY <1>2, <2>1, <3>2, <3>3 DEF Open, TypeOK, InFlight
  <2>2. CASE ~(thread = "kept" /\ ~Completed(IdOf[r]))
    <3>1. Completed(IdOf[r]) => Replay(StoredTurn(IdOf[r]), saved) \in Views
      BY OfTyped, TurnsInHistory, ReplayTyped DEF TypeOK
    <3>2. Refused(r) \in Views
      BY ViewsTyped
    <3>3. shown' \in [Requests -> Views]
      BY <1>2, <2>2, <3>1, <3>2, ShowTyped DEF Open
    <3>4. Ends(r)
      BY <1>2, <2>2 DEF Open
    <3> QED
      BY <1>2, <3>3, <3>4, EndsTyped DEF Open, TypeOK
  <2> QED
    BY <2>1, <2>2
<1>3. ASSUME NEW r \in Requests, CheckPasses(r) PROVE TypeOK'
  <2>1. Checks(r) \in 1..5
    BY ConstantsAssumption DEF Checks
  <2>2. CASE run[r].check < Checks(r)
    <3>1. [[run[r] EXCEPT !.check = @ + 1] EXCEPT !.busy = 0] \in Runs
      <4> DEFINE checked == [run[r] EXCEPT !.check = @ + 1]
      <4>1. run[r].check + 1 \in 0..5
        BY <2>1, <2>2, RunFields
      <4>2. checked \in Runs
        BY <4>1, RunTyped DEF Runs
      <4> HIDE DEF checked
      <4>3. [checked EXCEPT !.busy = 0] \in Runs
        BY <4>2 DEF Runs
      <4> QED
        BY <4>3 DEF checked
    <3>2. run' = [run EXCEPT ![r] = [[run[r] EXCEPT !.check = @ + 1] EXCEPT !.busy = 0]]
      BY <1>3, <2>2 DEF CheckPasses, TypeOK
    <3>3. run' \in [Requests -> Runs]
      BY <3>1, <3>2, RunChanges
    <3> QED
      BY <1>3, <2>2, <3>3 DEF CheckPasses, TypeOK
  <2>3. CASE ~(run[r].check < Checks(r))
    <3>1. run' \in [Requests -> Runs]
      BY <1>3, <2>3, NoRunTyped, RunChanges DEF CheckPasses
    <3> QED
      BY <1>3, <2>3, <3>1 DEF CheckPasses, TypeOK, InFlight
  <2> QED
    BY <2>2, <2>3
<1>4. ASSUME NEW r \in Requests, CheckRefuses(r) PROVE TypeOK'
  <2>1. Ends(r) /\ UNCHANGED <<start, thread, reader, drew, search, crashed>>
    BY <1>4 DEF CheckRefuses
  <2>2. /\ turns' \in Seq(Turns) /\ saved' \in Graphs /\ archive' \subseteq Graphs
        /\ shown' \in [Requests -> Views]
    <3>1. ASSUME NEW refusal \in Refusals, Store(r, refusal, NoGraph, FALSE),
                 Show(r, Replay(Canonical(r), saved'))
          PROVE  <2>2
      <4>1. refusal \in Texts /\ NoGraph \in Graphs
        BY DEF Texts, Graphs
      <4>2. /\ turns' \in Seq(Turns) /\ saved' \in Graphs /\ archive' \subseteq Graphs
            /\ Completed(IdOf[r])'
        BY <3>1, <4>1, StoreEffect
      <4>3. Canonical(r) \in Turns
        BY <4>2, CanonicalTyped
      <4>4. Replay(Canonical(r), saved') \in Views
        BY <4>2, <4>3, ReplayTyped
      <4> QED
        BY <3>1, <4>2, <4>4, ShowTyped
    <3>2. CASE UNCHANGED <<turns, saved, archive>> /\ Show(r, Refused(r))
      BY <3>2, ViewsTyped, ShowTyped DEF TypeOK
    <3> QED
      BY <1>4, <3>1, <3>2 DEF CheckRefuses
  <2> QED
    BY <2>1, <2>2, EndsTyped DEF TypeOK
<1>5. ASSUME NEW r \in Requests, Start(r) PROVE TypeOK'
  <2>1. CASE pc' = [pc EXCEPT ![r] = "streaming"] /\ Begins(r) /\ UNCHANGED <<shown, record>>
    <3> DEFINE new == [run[r] EXCEPT !.base = SavedGraph, !.agent = "working", !.left = AgentTime]
    <3>1. SavedGraph \in Graphs
      BY DEF TypeOK, SavedGraph, Graphs
    <3>2. new \in Runs
      <4> DEFINE based == [run[r] EXCEPT !.base = SavedGraph]
                 working == [based EXCEPT !.agent = "working"]
      <4>1. based \in Runs
        BY <3>1, RunTyped DEF Runs
      <4> HIDE DEF based
      <4>2. working \in Runs
        BY <4>1 DEF Runs
      <4> HIDE DEF working
      <4>3. [working EXCEPT !.left = AgentTime] \in Runs
        BY <4>2, LimitsAreCounts DEF Runs
      <4> QED
        BY <4>3 DEF working, based
    <3>3. run' = [run EXCEPT ![r] = new]
      BY <2>1 DEF Begins, TypeOK
    <3>4. run' \in [Requests -> Runs]
      BY <3>2, <3>3, RunChanges
    <3> QED
      BY <1>5, <2>1, <3>4 DEF Start, TypeOK, InFlight
  <2>2. CASE Ends(r) /\ Show(r, Refused(r))
    <3>1. shown' \in [Requests -> Views]
      BY <2>2, ViewsTyped, ShowTyped
    <3> QED
      BY <1>5, <2>2, <3>1, EndsTyped DEF Start, TypeOK
  <2> QED
    BY <1>5, <2>1, <2>2 DEF Start
<1>6. ASSUME NEW r \in Requests, Forward(r) PROVE TypeOK'
  <2> DEFINE new == [run[r] EXCEPT !.queue = @ - 1, !.previews = TRUE]
  <2>1. new \in Runs
    <3> DEFINE taken == [run[r] EXCEPT !.queue = @ - 1]
    <3>1. run[r].queue - 1 \in 0..QueueSize
      <4>1. run[r].queue > 0
        BY <1>6 DEF Forward
      <4> QED
        BY <4>1, LimitsAreCounts, RunFields
    <3>2. taken \in Runs
      BY <3>1, RunTyped DEF Runs
    <3> HIDE DEF taken
    <3>3. [taken EXCEPT !.previews = TRUE] \in Runs
      BY <3>2 DEF Runs
    <3> QED
      BY <3>3 DEF taken
  <2>2. run' = [run EXCEPT ![r] = new]
    BY <1>6 DEF Forward, TypeOK
  <2>3. run' \in [Requests -> Runs]
    BY <2>1, <2>2, RunChanges
  <2>4. shown' \in [Requests -> Views]
    BY <1>6, ViewsTyped, ShowTyped DEF Forward
  <2> QED
    BY <1>6, <2>3, <2>4 DEF Forward, TypeOK
<1>7. ASSUME NEW r \in Requests, Quiet(r) PROVE TypeOK'
  <2>1. CASE CancelAgent(r) /\ pc' = [pc EXCEPT ![r] = "closing"]
    BY <1>7, <2>1, CancelTyped DEF Quiet, TypeOK, InFlight
  <2>2. CASE pc' = [pc EXCEPT ![r] = "finishing"] /\ UNCHANGED <<run, search>>
    BY <1>7, <2>2 DEF Quiet, TypeOK, InFlight
  <2> QED
    BY <1>7, <2>1, <2>2 DEF Quiet
<1>8. ASSUME NEW r \in Requests, Timeout(r) PROVE TypeOK'
  <2>1. shown' \in [Requests -> Views]
    BY <1>8, ViewsTyped, ShowTyped DEF Timeout
  <2> QED
    BY <1>8, <2>1, CancelTyped DEF Timeout, TypeOK, InFlight
<1>9. ASSUME NEW r \in Requests, Close(r) PROVE TypeOK'
  BY <1>9, EndsTyped DEF Close, TypeOK
<1>10. ASSUME NEW r \in Requests, Finish(r) PROVE TypeOK'
  <2>1. Ends(r) /\ UNCHANGED <<start, thread, reader, search, crashed>>
    BY <1>10 DEF Finish
  <2>2. /\ turns' \in Seq(Turns) /\ saved' \in Graphs /\ archive' \subseteq Graphs
        /\ shown' \in [Requests -> Views] /\ drew' \subseteq Requests
    <3>1. CASE NotStored(r)
      BY <3>1, ViewsTyped, ShowTyped DEF NotStored, TypeOK
    <3>2. CASE Stored(r)
      <4>1. PICK graph \in Graphs, large \in SUBSET {"too large"},
                 failed \in SUBSET {"generation failed"} :
              /\ Store(r, TextOf[r], graph, run[r].agent = "withheld")
              /\ Show(r, [text |-> CanonicalText(r), graph |-> saved', end |-> "done",
                          notices |-> InHistory(r) \cup large \cup failed])
        BY <3>2, TextsAndGraphs DEF Stored, Graphs
      <4>2. TextOf[r] \in Texts
        BY TextsAndGraphs
      <4>3. /\ turns' \in Seq(Turns) /\ saved' \in Graphs /\ archive' \subseteq Graphs
            /\ Completed(IdOf[r])'
        BY <4>1, <4>2, StoreEffect
      <4>4. CanonicalText(r) \in Texts
        BY <4>3, CanonicalTyped DEF CanonicalText, Turns
      <4>5. InHistory(r) \subseteq {"in history"}
        BY DEF InHistory
      <4>6. [text |-> CanonicalText(r), graph |-> saved', end |-> "done",
             notices |-> InHistory(r) \cup large \cup failed] \in Views
        BY <4>3, <4>4, <4>5 DEF Views
      <4>7. shown' \in [Requests -> Views]
        BY <4>1, <4>6, ShowTyped
      <4>8. drew' \subseteq Requests
        BY <3>2 DEF Stored, TypeOK
      <4> QED
        BY <4>3, <4>7, <4>8
    <3> QED
      BY <1>10, <3>1, <3>2 DEF Finish
  <2> QED
    BY <2>1, <2>2, EndsTyped DEF TypeOK
<1>11. ASSUME NEW r \in Requests, Cut(r) PROVE TypeOK'
  <2>1. CASE Ends(r) /\ UNCHANGED search
    BY <1>11, <2>1, EndsTyped DEF Cut, TypeOK
  <2>2. CASE CancelAgent(r) /\ pc' = [pc EXCEPT ![r] = "closing"] /\ UNCHANGED record
    BY <1>11, <2>2, CancelTyped DEF Cut, TypeOK, InFlight
  <2> QED
    BY <1>11, <2>1, <2>2 DEF Cut
<1>12. ASSUME NEW r \in Requests, AgentSends(r) PROVE TypeOK'
  <2> DEFINE new == [run[r] EXCEPT !.queue = @ + 1, !.sent = @ + 1]
  <2>1. new \in Runs
    <3> DEFINE queued == [run[r] EXCEPT !.queue = @ + 1]
    <3>1. run[r].queue + 1 \in 0..QueueSize /\ run[r].sent + 1 \in 0..MaxPreviews
      <4>1. run[r].queue < QueueSize /\ run[r].sent < MaxPreviews
        BY <1>12 DEF AgentSends
      <4> QED
        BY <4>1, LimitsAreCounts, RunFields
    <3>2. queued \in Runs /\ queued.sent = run[r].sent
      BY <3>1, RunTyped DEF Runs
    <3> HIDE DEF queued
    <3>3. [queued EXCEPT !.sent = @ + 1] \in Runs
      BY <3>1, <3>2 DEF Runs
    <3> QED
      BY <3>3 DEF queued
  <2>2. run' = [run EXCEPT ![r] = new]
    BY <1>12 DEF AgentSends, TypeOK
  <2>3. run' \in [Requests -> Runs]
    BY <2>1, <2>2, RunChanges
  <2> QED
    BY <1>12, <2>3 DEF AgentSends, TypeOK
<1>13. ASSUME NEW r \in Requests, AgentEnds(r) PROVE TypeOK'
  <2>1. PICK outcome \in Over : run' = [run EXCEPT ![r].agent = outcome]
    BY <1>13 DEF AgentEnds
  <2>2. [run[r] EXCEPT !.agent = outcome] \in Runs
    BY RunTyped DEF Runs
  <2>3. run' = [run EXCEPT ![r] = [run[r] EXCEPT !.agent = outcome]]
    BY <2>1 DEF TypeOK
  <2>4. run' \in [Requests -> Runs]
    BY <2>2, <2>3, RunChanges
  <2> QED
    BY <1>13, <2>4 DEF AgentEnds, TypeOK
<1>14. ASSUME NEW r \in Requests, Disconnect(r) PROVE TypeOK'
  <2>1. shown' = [shown EXCEPT ![r] = [shown[r] EXCEPT !.end = IF @ = "open" THEN "cut" ELSE @]]
    BY <1>14 DEF Disconnect, TypeOK
  <2>2. shown' \in [Requests -> Views]
    BY <2>1, ViewsTyped DEF TypeOK
  <2> QED
    BY <1>14, <2>2 DEF Disconnect, TypeOK
<1>15. CASE Offer \/ AgentWaits
  <2>1. PICK agent \in {"offering", "waiting", "answering"} :
          run' = [run EXCEPT ![Searcher].agent = agent]
    BY <1>15 DEF Offer, AgentWaits
  <2>2. run' \in [Requests -> Runs]
    <3> SUFFICES ASSUME NEW r \in Requests PROVE run'[r] \in Runs
      BY <2>1 DEF TypeOK
    <3>1. run'[r] \in {run[r], [run[r] EXCEPT !.agent = agent]}
      BY <2>1 DEF TypeOK
    <3> QED
      BY <3>1, RunTyped DEF Runs
  <2> QED
    BY <1>15, <2>2 DEF Offer, AgentWaits, TypeOK
<1>16. CASE WaiterSteps
  BY <1>16 DEF WaiterSteps, DeleteRow, TypeOK
<1>17. CASE RowExpires
  BY <1>17 DEF RowExpires, TypeOK
<1>18. CASE ClickReads
  BY <1>18 DEF ClickReads, TypeOK
<1>19. CASE ClickMarks
  BY <1>19 DEF ClickMarks, MarkRow, TypeOK
<1>20. CASE Crash
  <2>1. run' \in [Requests -> Runs]
    BY <1>20, NoRunTyped DEF Crash
  <2>2. shown' \in [Requests -> Views]
    <3> SUFFICES ASSUME NEW r \in Requests PROVE shown'[r] \in Views
      BY <1>20 DEF Crash
    <3>1. shown'[r] \in {shown[r], [shown[r] EXCEPT !.end = "cut"]}
      BY <1>20 DEF Crash
    <3> QED
      BY <3>1 DEF TypeOK, Views
  <2>3. pc' \in [Requests -> {"idle", "ended"} \cup InFlight]
    BY <1>20 DEF Crash, TypeOK
  <2> QED
    BY <1>20, <2>1, <2>2, <2>3 DEF Crash, TypeOK
<1>21. CASE Lose
  BY <1>21 DEF Lose, TypeOK
<1>22. CASE Tick
  <2>1. record' \in [Requests -> 0..AgentTime + Slack]
    BY <1>22, ConstantsAssumption DEF Tick, TypeOK
  <2>2. run' \in [Requests -> Runs]
    <3> SUFFICES ASSUME NEW r \in Requests PROVE run'[r] \in Runs
      BY <1>22 DEF Tick
    <3>1. CASE pc[r] = "streaming"
      <4>1. run'[r] = [run[r] EXCEPT !.left = @ - 1]
        BY <1>22, <3>1 DEF Tick
      <4>2. run[r].left > 0
        BY <1>22, <3>1 DEF Tick
      <4> QED
        BY <4>1, <4>2, LimitsAreCounts, RunTyped DEF Runs
    <3>2. CASE pc[r] = "checking"
      <4>1. run'[r] = [run[r] EXCEPT !.busy = 1]
        BY <1>22, <3>2 DEF Tick
      <4> QED
        BY <4>1, RunTyped DEF Runs
    <3>3. CASE pc[r] \notin {"streaming", "checking"}
      <4>1. run'[r] = run[r]
        BY <1>22, <3>3 DEF Tick
      <4> QED
        BY <4>1 DEF TypeOK
    <3> QED
      BY <3>1, <3>2, <3>3
  <2> QED
    BY <1>22, <2>1, <2>2 DEF Tick, TypeOK
<1>23. CASE UNCHANGED vars
  BY <1>23 DEF vars, TypeOK
<1> QED
  BY <1>1, <1>2, <1>3, <1>4, <1>5, <1>6, <1>7, <1>8, <1>9, <1>10, <1>11, <1>12, <1>13,
     <1>14, <1>15, <1>16, <1>17, <1>18, <1>19, <1>20, <1>21, <1>22, <1>23
     DEF Next, Stream

\* TypeOK: what the streams keep and tell is always well formed.
THEOREM TypeCorrect == Spec => []TypeOK
BY InitTyped, StepTyped, PTL DEF Spec

-----------------------------------------------------------------------------
(* One request at a time.                                                  *)

\* What requests may do.
Acts(r) == Post(r) \/ Stream(r) \/ AgentSends(r) \/ AgentEnds(r) \/ Disconnect(r)

\* What happens around them.
Around ==
  Offer \/ AgentWaits \/ WaiterSteps \/ RowExpires \/ ClickReads \/ ClickMarks \/ Lose

Same(q) ==
  /\ pc'[q] = pc[q] /\ run'[q] = run[q] /\ shown'[q] = shown[q]
  /\ reader'[q] = reader[q] /\ record'[q] = record[q] /\ (q \in drew' <=> q \in drew)

\* A request has no part in what another one does.
LEMMA OthersAreSame ==
  ASSUME TypeOK, NEW r \in Requests, Acts(r), NEW q \in Requests, q # r
  PROVE  Same(q)
<1> USE DEF TypeOK, Same, Ends, Show, CancelAgent, storage, browser, search
<1>1. CASE Post(r)
  BY <1>1 DEF Post
<1>2. CASE Open(r)
  BY <1>2 DEF Open, Register
<1>3. CASE CheckPasses(r)
  BY <1>3 DEF CheckPasses
<1>4. CASE CheckRefuses(r)
  BY <1>4 DEF CheckRefuses
<1>5. CASE Start(r)
  BY <1>5 DEF Start, Begins
<1>6. CASE Forward(r)
  BY <1>6 DEF Forward
<1>7. CASE Quiet(r)
  BY <1>7 DEF Quiet
<1>8. CASE Timeout(r)
  BY <1>8 DEF Timeout
<1>9. CASE Close(r)
  BY <1>9 DEF Close
<1>10. CASE Finish(r)
  BY <1>10 DEF Finish, NotStored, Stored
<1>11. CASE Cut(r)
  BY <1>11 DEF Cut
<1>12. CASE AgentSends(r)
  BY <1>12 DEF AgentSends
<1>13. CASE AgentEnds(r)
  BY <1>13 DEF AgentEnds
<1>14. CASE Disconnect(r)
  BY <1>14 DEF Disconnect
<1> QED
  BY <1>1, <1>2, <1>3, <1>4, <1>5, <1>6, <1>7, <1>8, <1>9, <1>10, <1>11, <1>12, <1>13,
     <1>14 DEF Acts, Stream

\* Around the requests nothing changes but what an agent is at.
LEMMA AroundThem ==
  ASSUME TypeOK, Around
  PROVE  /\ UNCHANGED <<pc, record, reader, shown, drew, turns, saved, archive>>
         /\ \A q \in Requests : /\ run'[q].previews = run[q].previews
                                /\ run'[q].check = run[q].check
                                /\ run'[q].busy = run[q].busy
                                /\ run'[q].left = run[q].left
<1> USE DEF storage, browser, search
<1>1. CASE Offer \/ AgentWaits
  <2>1. PICK agent \in {"offering", "waiting", "answering"} :
          run' = [run EXCEPT ![Searcher].agent = agent]
    BY <1>1 DEF Offer, AgentWaits
  <2>2. UNCHANGED <<pc, record, reader, shown, drew, turns, saved, archive>>
    BY <1>1 DEF Offer, AgentWaits
  <2> QED
    BY <2>1, <2>2 DEF TypeOK, Runs
<1>2. CASE WaiterSteps
  BY <1>2 DEF WaiterSteps
<1>3. CASE RowExpires \/ ClickReads \/ ClickMarks \/ Lose
  BY <1>3 DEF RowExpires, ClickReads, ClickMarks, Lose
<1> QED
  BY <1>1, <1>2, <1>3 DEF Around

-----------------------------------------------------------------------------
(* The search decision.                                                    *)

\* Only a click marks the row.
RowInv == RowsFollowWaiter /\ (row = "marked" => click = "ok")

LEMMA RowKept == TypeOK /\ RowInv /\ [Next]_vars => RowInv'
<1> SUFFICES ASSUME TypeOK, RowInv, [Next]_vars PROVE RowInv'
  OBVIOUS
<1> USE DEF RowInv, RowsFollowWaiter, search, browser, storage
<1>1. ASSUME NEW r \in Requests, CancelAgent(r) PROVE RowInv'
  BY <1>1 DEF CancelAgent
<1>2. CASE UNCHANGED search
  BY <1>2
<1>3. ASSUME NEW r \in Requests, Acts(r) PROVE RowInv'
  <2>1. UNCHANGED search \/ CancelAgent(r)
    BY <1>3 DEF Acts, Stream, Post, Open, CheckPasses, CheckRefuses, Start, Forward, Quiet,
       Timeout, Close, Finish, Cut, AgentSends, AgentEnds, Disconnect
  <2> QED
    BY <1>1, <1>2, <2>1
<1>4. CASE Offer
  BY <1>4 DEF Offer, TypeOK
<1>5. CASE AgentWaits
  BY <1>2, <1>5 DEF AgentWaits
<1>6. CASE WaiterSteps
  BY <1>6 DEF WaiterSteps, DeleteRow
<1>7. CASE RowExpires
  BY <1>7 DEF RowExpires
<1>8. CASE ClickReads
  BY <1>8 DEF ClickReads
<1>9. CASE ClickMarks
  BY <1>9 DEF ClickMarks, MarkRow, TypeOK
<1>10. CASE Crash
  BY <1>10 DEF Crash
<1>11. CASE Lose
  BY <1>2, <1>11 DEF Lose
<1>12. CASE Tick
  BY <1>2, <1>12 DEF Tick
<1>13. CASE UNCHANGED vars
  BY <1>2, <1>13 DEF vars
<1> QED
  BY <1>3, <1>4, <1>5, <1>6, <1>7, <1>8, <1>9, <1>10, <1>11, <1>12, <1>13 DEF Next, Acts

-----------------------------------------------------------------------------
(* The record of a stream.                                                 *)

\* The record outlasts the checks still to come, the time left to the agent and its end.
Covers(r) ==
  /\ pc[r] = "checking" =>
       run[r].check >= 1 /\ record[r] >= AgentTime + Slack - (run[r].check - 1) - run[r].busy
  /\ pc[r] = "accepted" => record[r] >= AgentTime + Slack - 5
  /\ pc[r] = "streaming" => record[r] >= run[r].left + Slack - 5
  /\ pc[r] \in {"closing", "finishing"} => record[r] > 0

CoversInv == \A r \in Requests : Covers(r)

LEMMA CoversKept == TypeOK /\ CoversInv /\ [Next]_vars => CoversInv'
<1> SUFFICES ASSUME TypeOK, CoversInv, [Next]_vars, NEW q \in Requests PROVE Covers(q)'
  BY DEF CoversInv
<1>1. /\ record[q] \in Int /\ run[q].left \in Nat /\ run[q].check \in 0..5
      /\ run[q].busy \in 0..1 /\ AgentTime \in Nat /\ Slack \in Nat /\ Slack > 5
      /\ Covers(q) /\ pc[q] \in {"idle", "ended"} \cup InFlight
      /\ DOMAIN pc = Requests /\ DOMAIN run = Requests /\ DOMAIN record = Requests
  BY RunFields, LimitsAreCounts, SlackAssumption DEF CoversInv, TypeOK
<1> USE DEF storage, browser, search
<1>2. CASE Same(q)
  BY <1>1, <1>2 DEF Same, Covers
<1>3. CASE Ends(q)
  BY <1>1, <1>3 DEF Ends, Covers
<1>4. CASE Acts(q)
  <2>1. CASE Post(q)
    BY <1>1, <2>1 DEF Post, Covers
  <2>2. CASE Open(q)
    <3>1. CASE thread = "kept" /\ ~Completed(IdOf[q])
      <4>1. /\ pc'[q] = "checking" /\ record'[q] = AgentTime + Slack
            /\ run' = [run EXCEPT ![q].check = 1]
        BY <1>1, <2>2, <3>1 DEF Open, Register
      <4>2. run'[q].check = 1 /\ run'[q].busy = run[q].busy
        BY <1>1, <4>1, RunTyped DEF Runs
      <4> QED
        BY <1>1, <4>1, <4>2 DEF Covers
    <3> QED
      BY <1>3, <2>2, <3>1 DEF Open
  <2>3. CASE CheckPasses(q)
    <3>1. CASE run[q].check < Checks(q)
      <4>1. /\ pc' = pc /\ record' = record /\ pc[q] = "checking"
            /\ run' = [run EXCEPT ![q].check = @ + 1, ![q].busy = 0]
        BY <2>3, <3>1 DEF CheckPasses
      <4>2. run'[q].check = run[q].check + 1 /\ run'[q].busy = 0
        BY <1>1, <4>1, RunTyped DEF Runs
      <4> QED
        BY <1>1, <4>1, <4>2 DEF Covers
    <3>2. CASE ~(run[q].check < Checks(q))
      <4>1. pc'[q] = "accepted" /\ record' = record /\ pc[q] = "checking"
        BY <1>1, <2>3, <3>2 DEF CheckPasses
      <4> QED
        BY <1>1, <4>1 DEF Covers
    <3> QED
      BY <3>1, <3>2
  <2>4. CASE Start(q)
    <3>1. CASE pc' = [pc EXCEPT ![q] = "streaming"] /\ Begins(q) /\ record' = record
      <4>1. pc[q] = "accepted" /\ pc'[q] = "streaming"
        BY <1>1, <2>4, <3>1 DEF Start
      <4>2. run'[q].left = AgentTime
        BY <1>1, <3>1, RunTyped DEF Begins, Runs
      <4> QED
        BY <1>1, <3>1, <4>1, <4>2 DEF Covers
    <3> QED
      BY <1>3, <2>4, <3>1 DEF Start
  <2>5. CASE Forward(q)
    <3>1. pc' = pc /\ record' = record /\ pc[q] = "streaming"
      BY <2>5 DEF Forward, Streaming
    <3>2. run'[q].left = run[q].left
      BY <1>1, <2>5, RunTyped DEF Forward, Runs
    <3> QED
      BY <1>1, <3>1, <3>2 DEF Covers
  <2>6. CASE Quiet(q) \/ Timeout(q) \/ (Cut(q) /\ pc[q] = "streaming")
    <3>1. /\ pc[q] = "streaming" /\ pc'[q] \in {"closing", "finishing"} /\ record' = record
      BY <1>1, <2>6 DEF Quiet, Timeout, Cut, Streaming
    <3> QED
      BY <1>1, <3>1 DEF Covers
  <2>7. CASE AgentSends(q) \/ AgentEnds(q)
    <3>1. pc' = pc /\ record' = record /\ pc[q] = "streaming"
      BY <2>7 DEF AgentSends, AgentEnds, AtWork
    <3>2. run'[q].left = run[q].left
      BY <1>1, <2>7, RunTyped DEF AgentSends, AgentEnds, Runs
    <3> QED
      BY <1>1, <3>1, <3>2 DEF Covers
  <2>8. CASE Disconnect(q)
    <3>1. UNCHANGED <<pc, run, record>>
      BY <2>8 DEF Disconnect
    <3> QED
      BY <1>1, <3>1 DEF Covers
  <2>9. CASE CheckRefuses(q) \/ Close(q) \/ Finish(q) \/ (Cut(q) /\ pc[q] # "streaming")
    BY <1>3, <2>9 DEF CheckRefuses, Close, Finish, Cut
  <2> QED
    BY <1>4, <2>1, <2>2, <2>3, <2>4, <2>5, <2>6, <2>7, <2>8, <2>9 DEF Acts, Stream
<1>5. CASE \E r \in Requests : Acts(r)
  BY <1>2, <1>4, <1>5, OthersAreSame
<1>6. CASE Around
  BY <1>1, <1>6, AroundThem DEF Covers
<1>7. CASE Crash
  BY <1>1, <1>7 DEF Crash, Covers, InFlight
<1>8. CASE Tick
  <2>1. pc' = pc /\ record'[q] = IF record[q] > 0 THEN record[q] - 1 ELSE 0
    BY <1>8 DEF Tick
  <2>2. CASE pc[q] = "streaming"
    <3>1. run'[q] = [run[q] EXCEPT !.left = @ - 1] /\ run[q].left > 0
      BY <1>8, <2>2 DEF Tick
    <3>2. run'[q].left = run[q].left - 1
      BY <3>1, RunTyped DEF Runs
    <3> QED
      BY <1>1, <2>1, <2>2, <3>1, <3>2 DEF Covers
  <2>3. CASE pc[q] = "checking"
    <3>1. run'[q] = [run[q] EXCEPT !.busy = 1] /\ run[q].busy = 0
      BY <1>8, <2>3 DEF Tick
    <3>2. run'[q].busy = 1 /\ run'[q].check = run[q].check
      BY <3>1, RunTyped DEF Runs
    <3> QED
      BY <1>1, <2>1, <2>3, <3>1, <3>2 DEF Covers
  <2>4. CASE pc[q] \in {"idle", "ended"}
    BY <2>1, <2>4 DEF Covers
  <2> QED
    BY <1>8, <2>2, <2>3, <2>4 DEF Tick
<1>9. CASE UNCHANGED vars
  BY <1>1, <1>9 DEF vars, Covers
<1> QED
  BY <1>5, <1>6, <1>7, <1>8, <1>9 DEF Next, Acts, Around

-----------------------------------------------------------------------------
(* What the browser shows of a request, and the turns it comes from.       *)

\* A view is final once the stream says so, and a preview is on show only while the
\* stream knows that it passed one on.
ViewInv(r) ==
  /\ shown[r].end = "done" => pc[r] = "ended" /\ shown[r].text \in Texts
  /\ pc[r] \notin {"closing", "ended"} => shown[r].end \in {"open", "cut"}
  /\ ~reader[r] => shown[r].end # "open"
  /\ shown[r].end = "cut" => ~reader[r] \/ pc[r] = "ended"
  /\ shown[r].graph = "preview" =>
       /\ shown[r].end \notin {"done", "error"}
       /\ shown[r].end = "open" => run[r].previews /\ pc[r] \in {"streaming", "finishing"}

\* What became of its diagram.
DiagramInv(r) ==
  /\ r \in drew => pc[r] = "ended"
  /\ "in history" \in shown[r].notices => GraphOf[r] \in archive
  /\ r \in drew /\ shown[r].end = "done" /\ shown[r].text = TextOf[r] =>
       \/ shown[r].graph = GraphOf[r]
       \/ shown[r].notices \cap {"in history", "too large"} # {}

\* A turn's diagram is in the history, and the stream that wrote its text has ended.
TurnsInv ==
  /\ Unique(turns)
  /\ \A i \in DOMAIN turns :
       /\ turns[i].graph \in archive \cup {NoGraph}
       /\ \A q \in Requests : turns[i].text = TextOf[q] => pc[q] = "ended"

ViewsInv == TurnsInv /\ \A r \in Requests : ViewInv(r) /\ DiagramInv(r)

\* Readers only leave.
LEMMA ReadersLeave ==
  ASSUME TypeOK, NEW r \in Requests, Acts(r)
  PROVE  reader' = reader \/ Disconnect(r)
BY DEF Acts, Stream, Post, Open, CheckPasses, CheckRefuses, Start, Forward, Quiet, Timeout,
   Close, Finish, Cut, AgentSends, AgentEnds, browser

\* A step of the history: nothing, or a new turn of a request that ends.
TurnsStep(r) ==
  \/ UNCHANGED <<turns, saved, archive>>
  \/ /\ pc'[r] = "ended"
     /\ \E text \in Refusals \cup {TextOf[r]}, graph \in Graphs, retry \in BOOLEAN :
          StoresNew(r, text, graph, retry)

\* A stream that has ended does nothing more, and the browser keeps what it shows.
LEMMA EndedStays ==
  ASSUME TypeOK, [Next]_vars, NEW q \in Requests, pc[q] = "ended"
  PROVE  pc'[q] = "ended" /\ shown'[q] = shown[q]
<1> USE DEF storage, browser, search
<1>1. CASE \E r \in Requests : Acts(r)
  <2>1. PICK r \in Requests : Acts(r)
    BY <1>1
  <2>2. r # q
    BY <2>1 DEF Acts, Post, Stream, Open, CheckPasses, CheckRefuses, Start, Forward, Quiet,
       Timeout, Close, Finish, Cut, AgentSends, AgentEnds, Disconnect, AtWork, Streaming,
       InFlight
  <2> QED
    BY <2>1, <2>2, OthersAreSame DEF Same
<1>2. CASE Around
  BY <1>2, AroundThem
<1>3. CASE Crash
  BY <1>3 DEF Crash, InFlight
<1>4. CASE Tick
  BY <1>4 DEF Tick
<1>5. CASE UNCHANGED vars
  BY <1>5 DEF vars
<1> QED
  BY <1>1, <1>2, <1>3, <1>4, <1>5 DEF Next, Acts, Around

LEMMA TurnsSteps ==
  ASSUME TypeOK, NEW r \in Requests, Acts(r)
  PROVE  TurnsStep(r)
<1> USE DEF TurnsStep, storage
<1>1. CASE CheckRefuses(r)
  <2>1. pc'[r] = "ended"
    BY <1>1 DEF CheckRefuses, Ends, TypeOK
  <2>2. ASSUME NEW refusal \in Refusals, Store(r, refusal, NoGraph, FALSE)
        PROVE  TurnsStep(r)
    <3>1. refusal \in Texts /\ NoGraph \in Graphs
      BY DEF Texts, Graphs
    <3>2. \/ UNCHANGED <<turns, saved, archive>>
          \/ StoresNew(r, refusal, NoGraph, FALSE)
      BY <2>2, <3>1, StoreEffect
    <3> QED
      BY <2>1, <3>1, <3>2
  <2> QED
    BY <1>1, <2>2 DEF CheckRefuses
<1>2. CASE Finish(r)
  <2>1. pc'[r] = "ended"
    BY <1>2 DEF Finish, Ends, TypeOK
  <2>2. ASSUME Stored(r) PROVE TurnsStep(r)
    <3>1. PICK graph \in Graphs : Store(r, TextOf[r], graph, run[r].agent = "withheld")
      BY <2>2, TextsAndGraphs DEF Stored, Graphs
    <3>2. \/ UNCHANGED <<turns, saved, archive>>
          \/ StoresNew(r, TextOf[r], graph, run[r].agent = "withheld")
      BY <3>1, StoreEffect, TextsAndGraphs
    <3> QED
      BY <2>1, <3>2
  <2> QED
    BY <1>2, <2>2 DEF Finish, NotStored
<1>3. CASE Acts(r) /\ ~CheckRefuses(r) /\ ~Finish(r)
  BY <1>3 DEF Acts, Stream, Post, Open, CheckPasses, Start, Forward, Quiet, Timeout, Close,
     Cut, AgentSends, AgentEnds, Disconnect
<1> QED
  BY <1>1, <1>2, <1>3

LEMMA ArchiveGrows ==
  ASSUME TypeOK, [Next]_vars
  PROVE  archive \subseteq archive'
<1>1. CASE \E r \in Requests : Acts(r)
  BY <1>1, TurnsSteps DEF TurnsStep, StoresNew
<1>2. CASE Around
  BY <1>2, AroundThem
<1>3. CASE Crash \/ Tick \/ UNCHANGED vars
  BY <1>3 DEF Crash, Tick, vars, storage
<1> QED
  BY <1>1, <1>2, <1>3 DEF Next, Acts, Around

LEMMA TurnsKept == TypeOK /\ TurnsInv /\ [Next]_vars => TurnsInv'
<1> SUFFICES ASSUME TypeOK, TurnsInv, [Next]_vars PROVE TurnsInv'
  OBVIOUS
<1>1. CASE UNCHANGED <<turns, archive>>
  <2> SUFFICES ASSUME NEW i \in DOMAIN turns, NEW q \in Requests, turns[i].text = TextOf[q]
               PROVE  pc'[q] = "ended"
    BY <1>1 DEF TurnsInv
  <2> QED
    BY EndedStays DEF TurnsInv
<1>2. ASSUME NEW r \in Requests, TurnsStep(r), ~UNCHANGED <<turns, archive>>
      PROVE  TurnsInv'
  <2>1. PICK text \in Refusals \cup {TextOf[r]}, graph \in Graphs, retry \in BOOLEAN :
          StoresNew(r, text, graph, retry)
    BY <1>2 DEF TurnsStep
  <2> DEFINE new == [id |-> IdOf[r], text |-> text, graph |-> graph, retry |-> retry]
  <2>2. new \in Turns /\ new.id = IdOf[r] /\ new.text = text /\ new.graph = graph
    BY TextsAndGraphs DEF Turns, Texts
  <2>3. turns' = Append(turns, new)
    BY <2>1 DEF StoresNew
  <2>4. ~Has(turns, IdOf[r]) /\ archive' = archive \cup ({graph} \ {NoGraph})
    BY <2>1, TurnsInHistory DEF StoresNew
  <2> HIDE DEF new
  <2>5. Unique(turns')
    BY <2>2, <2>3, <2>4, AppendTurn DEF TypeOK, TurnsInv
  <2>6. ASSUME NEW i \in DOMAIN turns'
        PROVE  turns'[i] = new \/ (i \in DOMAIN turns /\ turns'[i] = turns[i])
    BY <2>2, <2>3 DEF TypeOK
  <2>7. ASSUME NEW i \in DOMAIN turns', NEW q \in Requests, turns'[i].text = TextOf[q]
        PROVE  pc'[q] = "ended"
    <3>1. CASE turns'[i] = new
      <4>1. text = TextOf[q]
        BY <2>2, <2>7, <3>1
      <4>2. q = r
        BY <4>1, ConstantsAssumption
      <4> QED
        BY <1>2, <4>2 DEF TurnsStep
    <3>2. CASE i \in DOMAIN turns /\ turns'[i] = turns[i]
      BY <2>7, <3>2, EndedStays DEF TurnsInv
    <3> QED
      BY <2>6, <3>1, <3>2
  <2>8. ASSUME NEW i \in DOMAIN turns' PROVE turns'[i].graph \in archive' \cup {NoGraph}
    BY <2>2, <2>4, <2>6 DEF TurnsInv
  <2> QED
    BY <2>5, <2>7, <2>8 DEF TurnsInv
<1>3. CASE \E r \in Requests : Acts(r)
  BY <1>1, <1>2, <1>3, TurnsSteps
<1>4. CASE Around
  BY <1>1, <1>4, AroundThem
<1>5. CASE Crash \/ Tick \/ UNCHANGED vars
  BY <1>1, <1>5 DEF Crash, Tick, vars, storage
<1> QED
  BY <1>3, <1>4, <1>5 DEF Next, Acts, Around

\* What a request's own step makes of its view: nothing new, a preview, a loss of the
\* reader, an error, or the answer of its id.
Untold(r) == shown'[r] = shown[r]
Previewed(r) ==
  /\ pc[r] = "streaming" /\ pc'[r] = "streaming" /\ run'[r].previews
  /\ shown'[r] = [shown[r] EXCEPT !.graph = "preview"]
Lost(r) ==
  /\ pc' = pc /\ run' = run /\ ~reader'[r]
  /\ shown'[r] = [shown[r] EXCEPT !.end = IF @ = "open" THEN "cut" ELSE @]
Failed(r) == pc'[r] \in {"closing", "ended"} /\ shown'[r] = Complaint(r)
Answered(r) ==
  /\ pc'[r] = "ended"
  /\ Completed(IdOf[r])'
  /\ shown'[r].end = "done" /\ shown'[r].graph \in Graphs
  /\ shown'[r].text = Of(turns', IdOf[r]).text

\* A stream that has passed no preview on takes none back.
LEMMA NothingToTakeBack ==
  ASSUME NEW r \in Requests, ~run[r].previews
  PROVE  Complaint(r) = Refused(r)
BY DEF Complaint

\* Only a stream that has passed on a preview counts one.
PreviewsInv ==
  \A r \in Requests : run[r].previews => pc[r] \in {"streaming", "finishing", "closing"}

LEMMA PreviewsKept == TypeOK /\ PreviewsInv /\ [Next]_vars => PreviewsInv'
<1> SUFFICES ASSUME TypeOK, PreviewsInv, [Next]_vars, NEW q \in Requests,
                    run'[q].previews
             PROVE  pc'[q] \in {"streaming", "finishing", "closing"}
  BY DEF PreviewsInv
<1> USE DEF browser, search, storage
<1>0. ~NoRun.previews /\ DOMAIN run = Requests /\ DOMAIN pc = Requests
  BY DEF NoRun, TypeOK
<1>1. CASE Acts(q)
  <2>1. ~Ends(q)
    BY <1>0 DEF Ends
  <2>2. CASE Post(q)
    BY <2>2 DEF Post, PreviewsInv
  <2>3. CASE Open(q)
    <3>1. run' = [run EXCEPT ![q].check = 1] /\ pc[q] = "opened"
      BY <2>1, <2>3 DEF Open
    <3>2. run'[q].previews = run[q].previews
      BY <1>0, <3>1, RunTyped DEF Runs
    <3> QED
      BY <3>1, <3>2 DEF PreviewsInv
  <2>4. CASE CheckPasses(q)
    <3>1. pc[q] = "checking" /\ run'[q] \in {NoRun, [run[q] EXCEPT !.check = @ + 1, !.busy = 0]}
      BY <1>0, <2>4 DEF CheckPasses
    <3>2. run'[q].previews = run[q].previews
      BY <1>0, <3>1, RunTyped DEF Runs
    <3> QED
      BY <3>1, <3>2 DEF PreviewsInv
  <2>5. CASE Start(q) \/ Forward(q) \/ Quiet(q) \/ Timeout(q) \/ (Cut(q) /\ pc[q] = "streaming")
    BY <1>0, <2>1, <2>5 DEF Start, Forward, Quiet, Timeout, Cut, Streaming
  <2>6. CASE AgentSends(q) \/ AgentEnds(q)
    BY <2>6 DEF AgentSends, AgentEnds, AtWork
  <2>7. CASE Disconnect(q)
    BY <2>7 DEF Disconnect, PreviewsInv
  <2>8. CASE CheckRefuses(q) \/ Close(q) \/ Finish(q) \/ (Cut(q) /\ pc[q] # "streaming")
    BY <2>1, <2>8 DEF CheckRefuses, Close, Finish, Cut
  <2> QED
    BY <1>1, <2>2, <2>3, <2>4, <2>5, <2>6, <2>7, <2>8 DEF Acts, Stream
<1>2. CASE Same(q)
  BY <1>2 DEF Same, PreviewsInv
<1>3. CASE \E r \in Requests : Acts(r)
  BY <1>1, <1>2, <1>3, OthersAreSame
<1>4. CASE Around
  BY <1>4, AroundThem DEF PreviewsInv
<1>5. CASE Crash
  BY <1>0, <1>5 DEF Crash
<1>6. CASE Tick
  <2>1. pc' = pc /\ run'[q] \in {run[q], [run[q] EXCEPT !.left = @ - 1], [run[q] EXCEPT !.busy = 1]}
    BY <1>6 DEF Tick
  <2>2. run'[q].previews = run[q].previews
    BY <2>1, RunTyped DEF Runs
  <2> QED
    BY <2>1, <2>2 DEF PreviewsInv
<1>7. CASE UNCHANGED vars
  BY <1>7 DEF vars, PreviewsInv
<1> QED
  BY <1>3, <1>4, <1>5, <1>6, <1>7 DEF Next, Acts, Around

LEMMA ReplayAnswers ==
  ASSUME NEW r \in Requests, NEW turn, NEW graph \in Graphs, pc'[r] = "ended",
         Completed(IdOf[r])', turn = Of(turns', IdOf[r]),
         shown'[r] = Replay(turn, graph)
  PROVE  Answered(r)
<1>1. /\ Replay(turn, graph).end = "done" /\ Replay(turn, graph).graph = graph
      /\ Replay(turn, graph).text = turn.text
  BY DEF Replay
<1> QED
  BY <1>1 DEF Answered

\* The own steps of a request; a reader that has left is told nothing.
LEMMA OwnSteps ==
  ASSUME TypeOK, PreviewsInv, TurnsInv, NEW r \in Requests, Acts(r)
  PROVE  /\ Untold(r) \/ Previewed(r) \/ Lost(r) \/ Failed(r) \/ Answered(r)
         /\ Untold(r) \/ Lost(r) \/ (reader[r] /\ reader'[r])
<1> USE DEF browser, search, storage
<1>1. DOMAIN run = Requests /\ DOMAIN pc = Requests /\ DOMAIN shown = Requests
  BY DEF TypeOK
<1>2. ASSUME NEW view, Show(r, view)
      PROVE  \/ Untold(r) /\ ~reader[r]
             \/ shown'[r] = view /\ reader[r]
  BY <1>1, <1>2 DEF Show, Untold
<1>3. ASSUME pc'[r] = "ended", Completed(IdOf[r]), UNCHANGED storage,
             Show(r, Replay(StoredTurn(IdOf[r]), saved)), reader' = reader
      PROVE  /\ Untold(r) \/ Answered(r)
             /\ Untold(r) \/ (reader[r] /\ reader'[r])
  <2>1. Completed(IdOf[r])'
    BY <1>3 DEF Completed
  <2>2. StoredTurn(IdOf[r]) = Of(turns', IdOf[r])
    BY <1>3, TurnsInHistory
  <2>3. saved \in Graphs
    BY DEF TypeOK
  <2> QED
    BY <1>2, <1>3, <2>1, <2>2, <2>3, ReplayAnswers
<1>4. ASSUME pc[r] \in {"idle", "opened", "checking", "accepted"}, pc'[r] = "ended",
             Show(r, Refused(r)), reader' = reader
      PROVE  /\ Untold(r) \/ Failed(r)
             /\ Untold(r) \/ (reader[r] /\ reader'[r])
  <2>1. ~run[r].previews
    BY <1>4 DEF PreviewsInv
  <2> QED
    BY <1>2, <1>4, <2>1, NothingToTakeBack DEF Failed
<1>5. CASE Post(r)
  BY <1>1, <1>3, <1>4, <1>5 DEF Post, Untold
<1>6. CASE Open(r)
  BY <1>1, <1>3, <1>4, <1>6 DEF Open, Ends, Untold
<1>7. CASE CheckPasses(r) \/ Quiet(r) \/ Close(r) \/ Cut(r) \/ AgentSends(r) \/ AgentEnds(r)
  BY <1>7 DEF CheckPasses, Quiet, Close, Cut, AgentSends, AgentEnds, Untold
<1>8. CASE CheckRefuses(r)
  <2>1. pc[r] = "checking" /\ pc'[r] = "ended" /\ reader' = reader
    BY <1>1, <1>8 DEF CheckRefuses, Ends
  <2>2. ASSUME NEW refusal \in Refusals, Store(r, refusal, NoGraph, FALSE),
               Show(r, Replay(Canonical(r), saved'))
        PROVE  (Untold(r) \/ Answered(r)) /\ (Untold(r) \/ reader[r])
    <3>1. refusal \in Texts /\ NoGraph \in Graphs
      BY DEF Texts, Graphs
    <3>2. turns' \in Seq(Turns) /\ saved' \in Graphs /\ Completed(IdOf[r])'
      BY <2>2, <3>1, StoreEffect
    <3>3. Canonical(r) = Of(turns', IdOf[r])
      BY <3>2, CanonicalTyped
    <3> QED
      BY <1>2, <2>1, <2>2, <3>2, <3>3, ReplayAnswers
  <2> QED
    BY <1>4, <1>8, <2>1, <2>2 DEF CheckRefuses
<1>9. CASE Start(r)
  BY <1>1, <1>4, <1>9 DEF Start, Ends, Untold
<1>10. CASE Forward(r)
  <2>1. /\ pc[r] = "streaming" /\ pc' = pc /\ reader' = reader
        /\ Show(r, [shown[r] EXCEPT !.graph = "preview"])
    BY <1>10 DEF Forward, Streaming
  <2>2. run'[r].previews
    BY <1>1, <1>10, RunTyped DEF Forward, Runs
  <2> QED
    BY <1>2, <2>1, <2>2 DEF Previewed
<1>11. CASE Timeout(r)
  BY <1>1, <1>2, <1>11 DEF Timeout, Failed
<1>12. CASE Finish(r)
  <2>1. pc'[r] = "ended" /\ reader' = reader
    BY <1>1, <1>12 DEF Finish, Ends
  <2>2. CASE NotStored(r)
    BY <1>2, <2>1, <2>2 DEF NotStored, Failed
  <2>3. CASE Stored(r)
    <3>1. PICK graph \in Graphs :
            /\ Store(r, TextOf[r], graph, run[r].agent = "withheld")
            /\ \E notices : Show(r, [text |-> CanonicalText(r), graph |-> saved',
                                    end |-> "done", notices |-> notices])
      BY <2>3, TextsAndGraphs DEF Stored, Graphs
    <3>2. PICK notices : Show(r, [text |-> CanonicalText(r), graph |-> saved', end |-> "done",
                                  notices |-> notices])
      BY <3>1
    <3>3. turns' \in Seq(Turns) /\ saved' \in Graphs /\ Completed(IdOf[r])'
      BY <3>1, StoreEffect, TextsAndGraphs
    <3>4. CanonicalText(r) = Of(turns', IdOf[r]).text
      BY <3>3, CanonicalTyped DEF CanonicalText
    <3>5. ASSUME shown'[r] = [text |-> CanonicalText(r), graph |-> saved', end |-> "done",
                              notices |-> notices]
          PROVE  Answered(r)
      <4>1. shown'[r].end = "done"
        BY <3>5
      <4>2. shown'[r].graph \in Graphs
        BY <3>3, <3>5
      <4>3. shown'[r].text = CanonicalText(r)
        BY <3>5
      <4>4. Completed(IdOf[r])'
        BY <3>3
      <4> QED
        BY <2>1, <3>4, <4>1, <4>2, <4>3, <4>4 DEF Answered
    <3>6. \/ Untold(r)
          \/ /\ shown'[r] = [text |-> CanonicalText(r), graph |-> saved', end |-> "done",
                             notices |-> notices]
             /\ reader[r]
      BY <1>2, <3>2
    <3> QED
      BY <2>1, <3>5, <3>6
  <2> QED
    BY <1>12, <2>2, <2>3 DEF Finish
<1>13. CASE Disconnect(r)
  <2>1. shown' = [shown EXCEPT ![r] = [shown[r] EXCEPT !.end = IF @ = "open" THEN "cut" ELSE @]]
    BY <1>1, <1>13 DEF Disconnect
  <2>2. pc' = pc /\ run' = run /\ ~reader'[r]
    BY <1>13 DEF Disconnect, TypeOK
  <2> QED
    BY <1>1, <2>1, <2>2 DEF Lost
<1> QED
  BY <1>5, <1>6, <1>7, <1>8, <1>9, <1>10, <1>11, <1>12, <1>13 DEF Acts, Stream

\* While its reader waits a stream goes on, closes, or tells how it ended.
LEMMA StreamingStays ==
  ASSUME TypeOK, NEW r \in Requests, Acts(r), pc[r] \in {"streaming", "finishing"},
         reader[r], run[r].previews
  PROVE  \/ pc'[r] \in {"streaming", "finishing"} /\ run'[r].previews
         \/ shown'[r].end \in {"done", "error"}
<1> USE DEF browser, search, storage
<1>1. /\ DOMAIN run = Requests /\ DOMAIN pc = Requests /\ DOMAIN shown = Requests
      /\ shown[r] \in Views /\ run[r] \in Runs
  BY RunTyped DEF TypeOK
<1>2. Complaint(r).end = "error"
  BY <1>1 DEF Complaint, Refused, Views
<1>3. CASE CancelAgent(r) /\ Show(r, Complaint(r))
  BY <1>1, <1>2, <1>3 DEF Show
<1>4. CASE Forward(r)
  BY <1>1, <1>4 DEF Forward, Streaming, Runs
<1>5. CASE Quiet(r)
  BY <1>1, <1>5 DEF Quiet
<1>6. CASE Timeout(r)
  BY <1>3, <1>6 DEF Timeout
<1>7. CASE Finish(r)
  <2>1. CASE NotStored(r)
    BY <1>1, <1>2, <2>1 DEF NotStored, Show
  <2>2. CASE Stored(r)
    <3>1. PICK graph, notices :
            Show(r, [text |-> CanonicalText(r), graph |-> saved', end |-> "done",
                     notices |-> notices])
      BY <2>2 DEF Stored
    <3>2. shown'[r].end = "done"
      BY <1>1, <3>1 DEF Show
    <3> QED
      BY <3>2
  <2> QED
    BY <1>7, <2>1, <2>2 DEF Finish
<1>8. CASE AgentSends(r)
  BY <1>1, <1>8 DEF AgentSends, AtWork, Runs
<1>9. CASE AgentEnds(r)
  BY <1>1, <1>9 DEF AgentEnds, AtWork, Runs
<1>10. CASE Disconnect(r)
  BY <1>10 DEF Disconnect
<1> QED
  BY <1>4, <1>5, <1>6, <1>7, <1>8, <1>9, <1>10 DEF Acts, Stream, Post, Open, CheckPasses,
     CheckRefuses, Start, Close, Cut

LEMMA ClosingEnds ==
  ASSUME TypeOK, NEW r \in Requests, Acts(r), pc[r] = "closing"
  PROVE  pc'[r] \in {"closing", "ended"}
BY DEF TypeOK, Ends, Acts, Stream, Post, Open, CheckPasses, CheckRefuses, Start, Forward,
   Quiet, Timeout, Close, Finish, Cut, AgentSends, AgentEnds, Disconnect, AtWork, Streaming

LEMMA OwnView ==
  ASSUME TypeOK, PreviewsInv, TurnsInv, NEW r \in Requests, ViewInv(r), Acts(r)
  PROVE  ViewInv(r)'
<1>1. shown[r] \in Views /\ "preview" \notin Graphs
  BY ConstantsAssumption DEF TypeOK, Graphs
<1>2. pc[r] \in {"closing", "ended"} => pc'[r] \in {"closing", "ended"}
  BY ClosingEnds, EndedStays DEF Acts, Next
<1>3. pc[r] = "ended" => pc'[r] = "ended" /\ shown'[r] = shown[r]
  BY EndedStays DEF Acts, Next
<1>4. CASE Lost(r)
  <2>1. shown'[r] = [shown[r] EXCEPT !.end = IF @ = "open" THEN "cut" ELSE @]
    BY <1>4 DEF Lost
  <2>2. /\ shown'[r].end = IF shown[r].end = "open" THEN "cut" ELSE shown[r].end
        /\ shown'[r].graph = shown[r].graph /\ shown'[r].text = shown[r].text
    BY <1>1, <2>1 DEF Views
  <2> QED
    BY <1>4, <2>2 DEF Lost, ViewInv
<1>5. CASE Untold(r) /\ ~Lost(r)
  <2>1. reader' = reader
    <3>1. Disconnect(r) => Lost(r)
      BY DEF Disconnect, Lost, TypeOK, browser
    <3> QED
      BY <1>5, <3>1, ReadersLeave
  <2>2. ASSUME shown'[r].graph = "preview", shown'[r].end = "open"
        PROVE  run'[r].previews /\ pc'[r] \in {"streaming", "finishing"}
    <3>1. /\ run[r].previews /\ pc[r] \in {"streaming", "finishing"} /\ reader[r]
      BY <1>5, <2>2 DEF Untold, ViewInv, TypeOK
    <3> QED
      BY <2>2, <3>1, StreamingStays
  <2> QED
    BY <1>2, <1>3, <1>5, <2>1, <2>2 DEF Untold, ViewInv
<1>6. CASE ~Untold(r) /\ ~Lost(r)
  <2>1. reader[r] /\ reader'[r] /\ pc[r] # "ended"
    BY <1>3, <1>6, OwnSteps DEF Untold
  <2>2. CASE Previewed(r)
    <3>1. shown'[r].graph = "preview" /\ shown'[r].end = shown[r].end
      BY <1>1, <2>2 DEF Previewed, Views
    <3>2. shown'[r].end = "open"
      BY <2>1, <2>2, <3>1 DEF Previewed, ViewInv
    <3> QED
      BY <2>1, <2>2, <3>1, <3>2 DEF Previewed, ViewInv
  <2>3. CASE Failed(r)
    <3>1. SavedGraph \in Graphs /\ shown[r].graph = "preview" => shown[r].end \in {"open", "cut"}
      BY <1>1 DEF ViewInv, Views, TypeOK, SavedGraph, Graphs
    <3>2. Complaint(r).end = "error"
      BY <1>1 DEF Complaint, Refused, Views
    <3>3. Complaint(r).graph # "preview"
      <4>1. CASE run[r].previews
        <5>1. Complaint(r).graph = SavedGraph
          BY <1>1, <4>1 DEF Complaint, Refused, Views
        <5> QED
          BY <1>1, <5>1 DEF TypeOK, SavedGraph, Graphs
      <4>2. CASE ~run[r].previews
        <5>1. Complaint(r).graph = shown[r].graph
          BY <1>1, <4>2 DEF Complaint, Refused, Views
        <5>2. pc[r] # "closing"
          <6>1. CASE pc[r] = "closing"
            <7>1. Close(r) \/ Disconnect(r)
              BY <6>1 DEF Acts, Stream, Post, Open, CheckPasses, CheckRefuses, Start, Forward,
                 Quiet, Timeout, Finish, Cut, AgentSends, AgentEnds, AtWork, Streaming
            <7>2. Close(r)
              BY <2>1, <7>1 DEF Disconnect, TypeOK
            <7> QED
              BY <1>6, <7>2 DEF Close, Untold, browser
          <6> QED
            BY <6>1
        <5>3. shown[r].graph # "preview"
          BY <2>1, <4>2, <5>2 DEF ViewInv, TypeOK
        <5> QED
          BY <5>1, <5>3
      <4> QED
        BY <4>1, <4>2
    <3> QED
      BY <2>1, <2>3, <3>2, <3>3 DEF Failed, ViewInv
  <2>4. CASE Answered(r)
    <3>1. TypeOK'
      BY StepTyped DEF Acts, Next
    <3>2. Has(turns', IdOf[r])
      BY <2>4 DEF Answered, Completed, Has
    <3>3. Of(turns', IdOf[r]) \in Turns
      BY <3>1, <3>2, OfTyped DEF TypeOK
    <3>4. shown'[r].text \in Texts
      BY <2>4, <3>3 DEF Answered, Turns
    <3> QED
      BY <1>1, <2>1, <2>4, <3>4 DEF Answered, ViewInv
  <2> QED
    BY <1>6, <2>2, <2>3, <2>4, OwnSteps
<1> QED
  BY <1>4, <1>5, <1>6

ViewsKeep == \A r \in Requests : ViewInv(r)

LEMMA ViewsKept ==
  TypeOK /\ PreviewsInv /\ TurnsInv /\ ViewsKeep /\ [Next]_vars => ViewsKeep'
<1> SUFFICES ASSUME TypeOK, PreviewsInv, TurnsInv, ViewsKeep, [Next]_vars, NEW q \in Requests
             PROVE  ViewInv(q)'
  BY DEF ViewsKeep
<1> USE DEF browser, search, storage
<1>1. ViewInv(q)
  BY DEF ViewsKeep
<1>2. CASE Same(q)
  BY <1>1, <1>2 DEF Same, ViewInv
<1>3. CASE \E r \in Requests : Acts(r)
  BY <1>1, <1>2, <1>3, OthersAreSame, OwnView
<1>4. CASE Around
  BY <1>1, <1>4, AroundThem DEF ViewInv
<1>5. CASE Crash
  <2>1. shown[q] \in Views
    BY DEF TypeOK
  <2>2. CASE pc[q] \in InFlight /\ shown[q].end = "open"
    <3>1. shown'[q] = [shown[q] EXCEPT !.end = "cut"] /\ pc'[q] = "ended"
      BY <1>5, <2>2 DEF Crash
    <3>2. shown'[q].end = "cut"
      BY <2>1, <3>1 DEF Views
    <3> QED
      BY <3>1, <3>2 DEF ViewInv
  <2>3. CASE ~(pc[q] \in InFlight /\ shown[q].end = "open")
    <3>1. shown'[q] = shown[q] /\ reader' = reader /\ pc'[q] \in {pc[q], "ended"}
      BY <1>5, <2>3 DEF Crash
    <3> QED
      BY <1>1, <2>3, <3>1 DEF ViewInv, InFlight
  <2> QED
    BY <2>2, <2>3
<1>6. CASE Tick
  <2>1. /\ UNCHANGED <<pc, shown, reader>>
        /\ run'[q] \in {run[q], [run[q] EXCEPT !.left = @ - 1], [run[q] EXCEPT !.busy = 1]}
    BY <1>6 DEF Tick
  <2>2. run'[q].previews = run[q].previews
    BY <2>1, RunTyped DEF Runs
  <2> QED
    BY <1>1, <2>1, <2>2 DEF ViewInv
<1>7. CASE UNCHANGED vars
  BY <1>1, <1>7 DEF vars, ViewInv
<1> QED
  BY <1>3, <1>4, <1>5, <1>6, <1>7 DEF Next, Acts, Around

\* Only the storing of its turn tells a browser of the history or draws.
LEMMA NoNews ==
  ASSUME TypeOK, NEW r \in Requests, Acts(r), ~(Finish(r) /\ Stored(r))
  PROVE  /\ drew' = drew
         /\ "in history" \in shown'[r].notices => "in history" \in shown[r].notices
<1> USE DEF browser, search, storage
<1>1. DOMAIN shown = Requests /\ shown[r] \in Views
  BY DEF TypeOK
<1>2. ASSUME NEW view, "in history" \in view.notices => "in history" \in shown[r].notices,
             Show(r, view)
      PROVE  "in history" \in shown'[r].notices => "in history" \in shown[r].notices
  BY <1>1, <1>2 DEF Show
<1>3. Refused(r).notices = shown[r].notices /\ Complaint(r).notices = shown[r].notices
  <2>1. Refused(r) \in Views /\ Refused(r).notices = shown[r].notices
    BY <1>1 DEF Refused, Views
  <2>2. [Refused(r) EXCEPT !.graph = SavedGraph].notices = Refused(r).notices
    BY <2>1 DEF Views
  <2> QED
    BY <2>1, <2>2 DEF Complaint
<1>4. [shown[r] EXCEPT !.graph = "preview"].notices = shown[r].notices
  BY <1>1 DEF Views
<1>5. \A turn, graph : "in history" \notin Replay(turn, graph).notices
  BY DEF Replay
<1>6. CASE UNCHANGED <<shown, drew>>
  BY <1>6
<1>7. CASE drew' = drew /\ \E view : /\ Show(r, view)
                                      /\ \/ view \in {Refused(r), Complaint(r)}
                                         \/ view = [shown[r] EXCEPT !.graph = "preview"]
                                         \/ \E turn, graph : view = Replay(turn, graph)
  BY <1>2, <1>3, <1>4, <1>5, <1>7
<1>8. CASE Post(r)
  BY <1>6, <1>7, <1>8 DEF Post
<1>9. CASE Open(r)
  BY <1>6, <1>7, <1>9 DEF Open
<1>10. CASE CheckRefuses(r)
  BY <1>7, <1>10 DEF CheckRefuses
<1>11. CASE Start(r)
  BY <1>6, <1>7, <1>11 DEF Start
<1>12. CASE Forward(r) \/ Timeout(r)
  BY <1>7, <1>12 DEF Forward, Timeout
<1>13. CASE Finish(r)
  BY <1>7, <1>13 DEF Finish, NotStored
<1>14. CASE Disconnect(r)
  <2>1. /\ drew' = drew
        /\ shown' = [shown EXCEPT ![r] = [shown[r] EXCEPT !.end = IF @ = "open" THEN "cut" ELSE @]]
    BY <1>1, <1>14 DEF Disconnect
  <2>2. shown'[r].notices = shown[r].notices
    BY <1>1, <2>1 DEF Views
  <2> QED
    BY <2>1, <2>2
<1>15. CASE CheckPasses(r) \/ Quiet(r) \/ Close(r) \/ Cut(r) \/ AgentSends(r) \/ AgentEnds(r)
  BY <1>6, <1>15 DEF CheckPasses, Quiet, Close, Cut, AgentSends, AgentEnds
<1> QED
  BY <1>8, <1>9, <1>10, <1>11, <1>12, <1>13, <1>14, <1>15 DEF Acts, Stream

\* A browser told of its stored turn knows where its diagram is.
LEMMA StoredDiagram ==
  ASSUME TypeOK, TurnsInv, NEW r \in Requests, ViewInv(r), DiagramInv(r), Finish(r), Stored(r),
         Acts(r)
  PROVE  DiagramInv(r)'
<1> USE DEF browser, search, storage
<1>1. /\ DOMAIN shown = Requests /\ DOMAIN pc = Requests /\ GraphOf[r] \in Graphs \ {NoGraph}
      /\ TextOf[r] \in Texts /\ turns \in Seq(Turns)
  BY TextsAndGraphs, ConstantsAssumption DEF TypeOK
<1>2. pc[r] = "finishing" /\ pc'[r] = "ended"
  BY <1>1 DEF Finish, Ends
<1>3. PICK fits \in {TRUE} \cup {~Approved(r)} :
        LET graph == IF Approved(r) /\ fits THEN GraphOf[r] ELSE NoGraph
            tooLarge == ~fits /\ ~Completed(IdOf[r])
            failed == CanonicalText(r) # TextOf[r] /\ Canonical(r).retry
        IN  /\ Store(r, TextOf[r], graph, run[r].agent = "withheld")
            /\ Show(r, [text |-> CanonicalText(r), graph |-> saved', end |-> "done",
                        notices |-> InHistory(r)
                            \cup (IF tooLarge THEN {"too large"} ELSE {})
                            \cup (IF failed THEN {"generation failed"} ELSE {})])
            /\ drew' = IF Approved(r) THEN drew \cup {r} ELSE drew
  BY DEF Stored
<1> DEFINE graph == IF Approved(r) /\ fits THEN GraphOf[r] ELSE NoGraph
           retry == run[r].agent = "withheld"
           new == [id |-> IdOf[r], text |-> TextOf[r], graph |-> graph, retry |-> retry]
           notices == InHistory(r)
             \cup (IF ~fits /\ ~Completed(IdOf[r]) THEN {"too large"} ELSE {})
             \cup (IF CanonicalText(r) # TextOf[r] /\ Canonical(r).retry
                   THEN {"generation failed"} ELSE {})
           view == [text |-> CanonicalText(r), graph |-> saved', end |-> "done",
                    notices |-> notices]
<1>4. graph \in Graphs /\ retry \in BOOLEAN
  BY <1>1 DEF Graphs
<1>5. Store(r, TextOf[r], graph, retry) /\ Show(r, view)
  BY <1>3
<1>6. drew' = IF Approved(r) THEN drew \cup {r} ELSE drew
  BY <1>3
<1>7. new \in Turns /\ new.id = IdOf[r] /\ new.text = TextOf[r] /\ new.graph = graph
  BY <1>1, <1>4, TextsAndGraphs DEF Turns
<1> HIDE DEF retry
<1>8. /\ turns' \in Seq(Turns) /\ Completed(IdOf[r])'
      /\ \/ Completed(IdOf[r]) /\ UNCHANGED <<turns, saved, archive>>
         \/ StoresNew(r, TextOf[r], graph, retry)
  <2> HIDE DEF graph
  <2> QED
    BY <1>1, <1>4, <1>5, StoreEffect
<1>9. Canonical(r) = Of(turns', IdOf[r])
  BY <1>8, CanonicalTyped
<1>10. view.text = CanonicalText(r) /\ view.graph = saved' /\ view.notices = notices
  OBVIOUS
<1> HIDE DEF view
<1>11. shown'[r] = view \/ shown'[r] = shown[r]
  BY <1>1, <1>5 DEF Show
<1>12. "in history" \in notices => Canonical(r).graph = GraphOf[r] /\ Approved(r)
  BY DEF InHistory
<1>13. ASSUME "in history" \in shown'[r].notices PROVE GraphOf[r] \in archive'
  <2>1. CASE shown'[r] = shown[r]
    BY <1>13, <2>1, ArchiveGrows DEF DiagramInv, Next, Acts
  <2>2. CASE shown'[r] = view
    <3>1. Of(turns', IdOf[r]).graph = GraphOf[r]
      BY <1>9, <1>10, <1>12, <1>13, <2>2
    <3>2. PICK i \in DOMAIN turns' : Of(turns', IdOf[r]) = turns'[i]
      BY <1>8, OfIsOne DEF Completed, Has
    <3>3. TurnsInv'
      BY TurnsKept DEF Next, Acts
    <3> QED
      BY <1>1, <3>1, <3>2, <3>3 DEF TurnsInv
  <2> QED
    BY <1>11, <2>1, <2>2
<1>14. ASSUME r \in drew', shown'[r].end = "done", shown'[r].text = TextOf[r]
       PROVE  \/ shown'[r].graph = GraphOf[r]
              \/ shown'[r].notices \cap {"in history", "too large"} # {}
  <2>1. Approved(r) /\ shown'[r] = view
    <3>1. r \notin drew /\ shown[r].end # "done"
      BY <1>2 DEF DiagramInv, ViewInv
    <3> QED
      BY <1>6, <1>11, <1>14, <3>1
  <2>2. Of(turns', IdOf[r]).text = TextOf[r]
    BY <1>9, <1>10, <1>14, <2>1 DEF CanonicalText
  <2>3. ~Completed(IdOf[r])
    <3> SUFFICES ASSUME Completed(IdOf[r]) PROVE FALSE
      OBVIOUS
    <3>1. turns' = turns
      BY <1>8 DEF StoresNew
    <3>2. PICK i \in DOMAIN turns : Of(turns, IdOf[r]) = turns[i]
      BY <1>1, OfIsOne DEF Completed, Has
    <3>3. pc[r] = "ended"
      BY <2>2, <3>1, <3>2 DEF TurnsInv
    <3> QED
      BY <1>2, <3>3
  <2>4. turns' = Append(turns, new)
    BY <1>8, <2>3 DEF StoresNew
  <2>5. ~Has(turns, new.id) /\ Unique(turns)
    BY <1>7, <2>3, TurnsInHistory DEF TurnsInv
  <2> HIDE DEF new
  <2>6. Of(turns', new.id) = new
    BY <1>1, <1>7, <2>4, <2>5, AppendTurn
  <2>7. Canonical(r).graph = graph
    BY <1>7, <1>9, <2>6
  <2>8. CASE fits
    <3>1. graph = GraphOf[r]
      BY <2>1, <2>8
    <3>2. saved' # GraphOf[r] => "in history" \in notices
      BY <2>1, <2>7, <3>1 DEF InHistory
    <3> QED
      BY <1>10, <2>1, <3>2
  <2>9. CASE ~fits
    <3>1. "too large" \in notices
      BY <2>3, <2>9
    <3> QED
      BY <1>10, <2>1, <3>1
  <2> QED
    BY <2>8, <2>9
<1> QED
  BY <1>2, <1>13, <1>14 DEF DiagramInv

LEMMA DiagramsKept ==
  TypeOK /\ TurnsInv /\ ViewsKeep /\ (\A r \in Requests : DiagramInv(r)) /\ [Next]_vars
    => \A r \in Requests : DiagramInv(r)'
<1> SUFFICES ASSUME TypeOK, TurnsInv, ViewsKeep, \A r \in Requests : DiagramInv(r), [Next]_vars,
                    NEW q \in Requests
             PROVE  DiagramInv(q)'
  OBVIOUS
<1>1. DiagramInv(q) /\ ViewInv(q) /\ archive \subseteq archive' /\ shown[q] \in Views
  BY ArchiveGrows DEF ViewsKeep, TypeOK
<1>2. pc[q] = "ended" => pc'[q] = "ended" /\ shown'[q] = shown[q]
  BY EndedStays
<1>3. ASSUME "in history" \in shown'[q].notices => "in history" \in shown[q].notices,
             q \in drew' <=> q \in drew
      PROVE  DiagramInv(q)'
  <2>1. q \in drew => shown'[q] = shown[q] /\ pc'[q] = "ended"
    BY <1>1, <1>2 DEF DiagramInv
  <2> QED
    BY <1>1, <1>3, <2>1 DEF DiagramInv
<1>4. CASE Same(q)
  BY <1>3, <1>4 DEF Same
<1>5. CASE Acts(q)
  <2>1. CASE Finish(q) /\ Stored(q)
    BY <1>1, <1>5, <2>1, StoredDiagram
  <2>2. CASE ~(Finish(q) /\ Stored(q))
    BY <1>3, <1>5, <2>2, NoNews
  <2> QED
    BY <2>1, <2>2
<1>6. CASE \E r \in Requests : Acts(r)
  BY <1>4, <1>5, <1>6, OthersAreSame
<1>7. CASE Around
  BY <1>3, <1>7, AroundThem
<1>8. CASE Crash
  <2>1. drew' = drew /\ shown'[q] \in {shown[q], [shown[q] EXCEPT !.end = "cut"]}
    BY <1>8 DEF Crash, browser
  <2>2. shown'[q].notices = shown[q].notices
    BY <1>1, <2>1 DEF Views
  <2> QED
    BY <1>3, <2>1, <2>2
<1>9. CASE Tick \/ UNCHANGED vars
  BY <1>3, <1>9 DEF Tick, vars, browser
<1> QED
  BY <1>6, <1>7, <1>8, <1>9 DEF Next, Acts, Around

-----------------------------------------------------------------------------
(* The streams implement AnswerRegister.                                   *)

\* What the conversation has answered, and what each browser was told.
AnswerOf(id) == IF Completed(id) THEN StoredTurn(id).text ELSE "nothing"
ToldOf(r) == IF shown[r].end = "done" THEN shown[r].text ELSE "nothing"

RegisterStored == [id \in Ids |-> AnswerOf(id)]
RegisterTold == [r \in Requests |-> ToldOf(r)]

StreamInv ==
  /\ TypeOK /\ PreviewsInv /\ TurnsInv /\ ViewsKeep
  /\ \A r \in Requests : DiagramInv(r)

LEMMA NothingIsNoAnswer == "nothing" \notin Texts
BY ConstantsAssumption DEF Texts, Refusals

\* A step of the history answers the id of its request, if no answer was stored.
LEMMA StoresOnce ==
  ASSUME StreamInv, NEW r \in Requests, TurnsStep(r)
  PROVE  \/ RegisterStored' = RegisterStored
         \/ \E answer \in Texts : /\ RegisterStored[IdOf[r]] = "nothing"
                                  /\ RegisterStored' = [RegisterStored EXCEPT ![IdOf[r]] = answer]
<1>1. CASE UNCHANGED turns
  <2>1. ASSUME NEW id \in Ids PROVE AnswerOf(id)' = AnswerOf(id)
    BY <1>1 DEF AnswerOf, Completed, StoredTurn
  <2> QED
    BY <2>1 DEF RegisterStored
<1>2. ASSUME NEW text \in Refusals \cup {TextOf[r]}, NEW graph \in Graphs, NEW retry \in BOOLEAN,
             StoresNew(r, text, graph, retry)
      PROVE  /\ RegisterStored[IdOf[r]] = "nothing" /\ text \in Texts
             /\ RegisterStored' = [RegisterStored EXCEPT ![IdOf[r]] = text]
  <2> DEFINE new == [id |-> IdOf[r], text |-> text, graph |-> graph, retry |-> retry]
  <2>1. new \in Turns /\ new.id = IdOf[r] /\ new.text = text
    BY TextsAndGraphs DEF Turns, Texts
  <2>2. /\ turns' = Append(turns, new) /\ ~Has(turns, IdOf[r])
        /\ turns \in Seq(Turns) /\ Unique(turns)
    BY <1>2, TurnsInHistory DEF StoresNew, StreamInv, TypeOK, TurnsInv
  <2> HIDE DEF new
  <2>3. /\ Has(turns', IdOf[r]) /\ Of(turns', IdOf[r]) = new
        /\ \A id : id # IdOf[r] =>
             /\ Has(turns', id) <=> Has(turns, id)
             /\ Has(turns, id) => Of(turns', id) = Of(turns, id)
    <3>1. /\ Has(turns', new.id) /\ Of(turns', new.id) = new
          /\ \A id : id # new.id =>
               /\ Has(turns', id) <=> Has(turns, id)
               /\ Has(turns, id) => Of(turns', id) = Of(turns, id)
      BY <2>1, <2>2, AppendTurn
    <3> QED
      BY <2>1, <3>1
  <2>4. \A id : /\ AnswerOf(id) = IF Has(turns, id) THEN Of(turns, id).text ELSE "nothing"
                /\ AnswerOf(id)' = IF Has(turns', id) THEN Of(turns', id).text ELSE "nothing"
    BY DEF AnswerOf, Completed, StoredTurn, Has, Of
  <2>5. ASSUME NEW id \in Ids
        PROVE  AnswerOf(id)' = IF id = IdOf[r] THEN text ELSE AnswerOf(id)
    <3>1. CASE id = IdOf[r]
      BY <2>1, <2>3, <2>4, <3>1
    <3>2. CASE id # IdOf[r]
      BY <2>3, <2>4, <3>2
    <3> QED
      BY <3>1, <3>2
  <2>6. RegisterStored' = [RegisterStored EXCEPT ![IdOf[r]] = text]
    BY <2>5, TextsAndGraphs DEF RegisterStored
  <2>7. RegisterStored[IdOf[r]] = "nothing"
    BY <2>2, <2>4, TextsAndGraphs DEF RegisterStored
  <2> QED
    BY <2>6, <2>7, TextsAndGraphs DEF Texts
<1> QED
  BY <1>1, <1>2 DEF TurnsStep

\* What a request is told by its own step is the answer stored by then.
LEMMA TellsTheStored ==
  ASSUME StreamInv, NEW r \in Requests, Acts(r)
  PROVE  \/ RegisterTold' = RegisterTold
         \/ /\ RegisterTold[r] = "nothing" /\ RegisterStored'[IdOf[r]] # "nothing"
            /\ RegisterTold' = [RegisterTold EXCEPT ![r] = RegisterStored'[IdOf[r]]]
<1>1. /\ shown[r] \in Views
      /\ pc[r] = "ended" => shown'[r] = shown[r]
  BY EndedStays DEF StreamInv, TypeOK, Acts, Next
<1>2. \A q \in Requests \ {r} : ToldOf(q)' = ToldOf(q)
  BY OthersAreSame DEF Same, ToldOf, StreamInv
<1>3. CASE ToldOf(r)' = ToldOf(r)
  BY <1>2, <1>3 DEF RegisterTold
<1>4. CASE pc[r] # "ended" /\ Answered(r)
  <2>1. ToldOf(r) = "nothing"
    BY <1>4 DEF ToldOf, StreamInv, ViewsKeep, ViewInv
  <2>2. Has(turns', IdOf[r]) /\ turns' \in Seq(Turns)
    BY <1>4, StepTyped DEF Answered, Completed, Has, StreamInv, TypeOK, Acts, Next
  <2>3. Of(turns', IdOf[r]) \in Turns
    BY <2>2, OfTyped
  <2>4. Of(turns', IdOf[r]).text \in Texts
    BY <2>3 DEF Turns
  <2>5. RegisterStored'[IdOf[r]] = Of(turns', IdOf[r]).text
    <3>1. AnswerOf(IdOf[r])' = Of(turns', IdOf[r]).text
      BY <2>2 DEF AnswerOf, Completed, StoredTurn, Has, Of
    <3> QED
      BY <3>1, TextsAndGraphs DEF RegisterStored
  <2>6. ToldOf(r)' = RegisterStored'[IdOf[r]]
    BY <1>4, <2>5 DEF ToldOf, Answered
  <2>7. RegisterTold' = [RegisterTold EXCEPT ![r] = RegisterStored'[IdOf[r]]]
    BY <1>2, <2>6 DEF RegisterTold
  <2> QED
    BY <2>1, <2>4, <2>5, <2>7, NothingIsNoAnswer DEF RegisterTold
<1>5. CASE pc[r] = "ended" \/ Untold(r)
  BY <1>1, <1>3, <1>5 DEF ToldOf, Untold
<1>6. CASE Previewed(r)
  <2>1. shown'[r].end = shown[r].end /\ shown'[r].text = shown[r].text
    BY <1>1, <1>6 DEF Previewed, Views
  <2> QED
    BY <1>3, <2>1 DEF ToldOf
<1>7. CASE Lost(r)
  <2>1. /\ shown'[r].end = IF shown[r].end = "open" THEN "cut" ELSE shown[r].end
        /\ shown'[r].text = shown[r].text
    BY <1>1, <1>7 DEF Lost, Views
  <2> QED
    BY <1>3, <2>1 DEF ToldOf
<1>8. CASE pc[r] # "ended" /\ Failed(r)
  <2>1. Complaint(r).end = "error"
    BY <1>1 DEF Complaint, Refused, Views
  <2>2. shown[r].end # "done"
    BY <1>8 DEF StreamInv, ViewsKeep, ViewInv
  <2> QED
    BY <1>3, <1>8, <2>1, <2>2 DEF Failed, ToldOf
<1> QED
  BY <1>4, <1>5, <1>6, <1>7, <1>8, OwnSteps DEF StreamInv

\* Nothing else answers or tells.
LEMMA OthersAnswerNothing ==
  ASSUME StreamInv, Around \/ Crash \/ Tick \/ UNCHANGED vars
  PROVE  RegisterStored' = RegisterStored /\ RegisterTold' = RegisterTold
<1>1. turns' = turns
  BY AroundThem DEF StreamInv, Crash, Tick, vars, storage
<1>2. ASSUME NEW id \in Ids PROVE AnswerOf(id)' = AnswerOf(id)
  BY <1>1 DEF AnswerOf, Completed, StoredTurn
<1>3. ASSUME NEW q \in Requests PROVE ToldOf(q)' = ToldOf(q)
  <2>1. CASE shown'[q] = shown[q]
    BY <2>1 DEF ToldOf
  <2>2. CASE Crash
    <3>1. shown[q] \in Views
      BY DEF StreamInv, TypeOK
    <3>2. \/ shown'[q] = shown[q]
          \/ shown'[q] = [shown[q] EXCEPT !.end = "cut"] /\ shown[q].end = "open"
      BY <2>2 DEF Crash
    <3>3. \/ shown'[q] = shown[q]
          \/ shown'[q].end = "cut" /\ shown[q].end = "open"
      BY <3>1, <3>2 DEF Views
    <3> QED
      BY <2>1, <3>3 DEF ToldOf
  <2> QED
    BY <2>1, <2>2, AroundThem DEF StreamInv, Tick, vars, browser
<1> QED
  BY <1>2, <1>3 DEF RegisterStored, RegisterTold

LEMMA StepsAnswer == StreamInv /\ [Next]_vars => [Answers!Next]_(Answers!vars)
<1> SUFFICES ASSUME StreamInv, [Next]_vars PROVE [Answers!Next]_(Answers!vars)
  OBVIOUS
<1>1. RegisterStored' = RegisterStored /\ RegisterTold' = RegisterTold => UNCHANGED Answers!vars
  BY DEF Answers!vars, RegisterStored, RegisterTold, AnswerOf, ToldOf
<1>2. ASSUME NEW r \in Requests, Acts(r) PROVE [Answers!Next]_(Answers!vars)
  <2>1. \A id, answer : Answers!Store(id, answer) <=>
          /\ RegisterStored[id] = "nothing"
          /\ RegisterStored' = [RegisterStored EXCEPT ![id] = answer]
    BY DEF Answers!Store, RegisterStored, AnswerOf
  <2>2. Answers!Tell(r) <=>
          /\ RegisterTold[r] = "nothing" /\ RegisterStored'[IdOf[r]] # "nothing"
          /\ RegisterTold' = [RegisterTold EXCEPT ![r] = RegisterStored'[IdOf[r]]]
    BY DEF Answers!Tell, RegisterStored, RegisterTold, AnswerOf, ToldOf
  <2>3. \/ RegisterStored' = RegisterStored
        \/ \E answer \in Texts : Answers!Store(IdOf[r], answer)
    BY <1>2, <2>1, StoresOnce, TurnsSteps DEF StreamInv
  <2>4. RegisterTold' = RegisterTold \/ Answers!Tell(r)
    BY <1>2, <2>2, TellsTheStored
  <2>5. (\/ \E answer \in Texts :
               Answers!Store(IdOf[r], answer) /\ RegisterTold' = RegisterTold
         \/ RegisterStored' = RegisterStored /\ Answers!Tell(r)
         \/ \E answer \in Texts : Answers!Store(IdOf[r], answer) /\ Answers!Tell(r))
        => Answers!Next
    BY DEF Answers!Next, RegisterStored, RegisterTold, AnswerOf, ToldOf
  <2> QED
    BY <1>1, <2>3, <2>4, <2>5
<1>3. CASE Around \/ Crash \/ Tick \/ UNCHANGED vars
  BY <1>1, <1>3, OthersAnswerNothing
<1> QED
  BY <1>2, <1>3 DEF Next, Acts, Around

-----------------------------------------------------------------------------
(* The theorems.                                                           *)

AllInv == StreamInv /\ RowInv /\ CoversInv

LEMMA InitHolds == Init => AllInv
<1> SUFFICES ASSUME Init PROVE AllInv
  OBVIOUS
<1>1. TypeOK
  BY InitTyped
<1>2. ASSUME NEW r \in Requests
      PROVE  /\ shown[r].text = "nothing" /\ shown[r].graph = "as before"
             /\ shown[r].notices = {} /\ shown[r].end = "open"
             /\ ~run[r].previews /\ pc[r] = "idle" /\ reader[r] /\ r \notin drew
  BY DEF Init, Blank, NoRun
<1>3. \A r \in Requests : ViewInv(r) /\ DiagramInv(r)
  BY <1>2 DEF ViewInv, DiagramInv
<1>4. TurnsInv
  BY DEF Init, TurnsInv, Unique
<1>5. RowInv /\ CoversInv /\ PreviewsInv
  BY <1>2 DEF Init, RowInv, RowsFollowWaiter, CoversInv, Covers, PreviewsInv
<1> QED
  BY <1>1, <1>3, <1>4, <1>5 DEF AllInv, StreamInv, ViewsKeep

LEMMA StepHolds == AllInv /\ [Next]_vars => AllInv'
<1> SUFFICES ASSUME AllInv, [Next]_vars PROVE AllInv'
  OBVIOUS
<1>1. \A r \in Requests : DiagramInv(r)'
  BY DiagramsKept DEF AllInv, StreamInv
<1>2. StreamInv'
  BY <1>1, StepTyped, PreviewsKept, TurnsKept, ViewsKept DEF AllInv, StreamInv
<1>3. RowInv' /\ CoversInv'
  BY RowKept, CoversKept DEF AllInv, StreamInv
<1> QED
  BY <1>2, <1>3 DEF AllInv

LEMMA Always == Spec => []AllInv
BY InitHolds, StepHolds, PTL DEF Spec

\* StreamsEndClean: whatever ends a stream, the browser is left with no mere preview, knows
\* what became of its diagram, and no search decision outlives its waiter (sse_handler.py).
THEOREM EndsAreClean == Spec => []StreamsEndClean
<1>1. AllInv => StreamsEndClean
  <2> SUFFICES ASSUME AllInv PROVE StreamsEndClean
    OBVIOUS
  <2>1. NoPreviewLeft
    BY DEF AllInv, StreamInv, ViewsKeep, ViewInv, NoPreviewLeft
  <2>2. NoDiagramLost
    BY DEF AllInv, StreamInv, DiagramInv, NoDiagramLost
  <2> QED
    BY <2>1, <2>2 DEF AllInv, RowInv, StreamsEndClean
<1> QED
  BY <1>1, Always, PTL

\* InFlightKept: retention takes no conversation from under a running stream, because the
\* record of the stream outlasts its checks, its agent and its end (sse_handler.py).
THEOREM RunningStreamsAreKept == Spec => InFlightKept
<1> DEFINE Kept == thread = "kept" /\ thread' = "evicted"
                     => \A r \in Requests : pc[r] \notin InFlight \ {"opened"}
<1>1. AllInv /\ [Next]_vars => [Kept]_vars
  <2> SUFFICES ASSUME AllInv, Next, thread = "kept", thread' = "evicted",
                      NEW r \in Requests, pc[r] \in InFlight \ {"opened"}
               PROVE  FALSE
    BY DEF vars
  <2>1. Lose
    <3>1. ASSUME NEW q \in Requests, Acts(q) PROVE thread' = thread
      BY <3>1 DEF storage, Acts, Post, Stream, Open, CheckPasses, CheckRefuses, Start,
         Forward, Quiet, Timeout, Close, Finish, Cut, AgentSends, AgentEnds, Disconnect
    <3>2. CASE Offer \/ AgentWaits \/ WaiterSteps \/ RowExpires \/ ClickReads \/ ClickMarks
                 \/ Crash \/ Tick
      BY <3>2 DEF storage, Offer, AgentWaits, WaiterSteps, RowExpires, ClickReads, ClickMarks,
         Crash, Tick
    <3> QED
      BY <3>1, <3>2 DEF Next, Acts
  <2>2. record[r] = 0
    BY <2>1 DEF Lose
  <2>3. /\ run[r].left \in Nat /\ run[r].check \in 0..5 /\ run[r].busy \in 0..1
        /\ AgentTime \in Nat /\ Slack \in Nat /\ Slack > 5
    BY RunFields, LimitsAreCounts, SlackAssumption DEF AllInv, StreamInv
  <2>4. record[r] > 0
    <3>1. Covers(r) /\ record[r] \in Int
      BY DEF AllInv, StreamInv, TypeOK, CoversInv
    <3> QED
      BY <2>3, <3>1 DEF Covers, InFlight
  <2> QED
    BY <2>2, <2>4
<1> QED
  BY <1>1, Always, PTL DEF Spec, InFlightKept

\* OneAnswerPerId: the streams implement AnswerRegister, by which the conversation keeps
\* one answer for an id and tells no other (sse_handler.py, persist_turn).
THEOREM StreamsImplementRegister == Spec => OneAnswerPerId
<1>1. Init => Answers!Init
  <2> SUFFICES ASSUME Init PROVE Answers!Init
    OBVIOUS
  <2>1. \A id : ~Completed(id)
    BY DEF Init, Completed
  <2>2. \A r \in Requests : shown[r].end = "open"
    BY DEF Init, Blank
  <2> QED
    BY <2>1, <2>2 DEF Answers!Init
<1>2. AllInv /\ [Next]_vars => [Answers!Next]_(Answers!vars)
  BY StepsAnswer DEF AllInv
<1> QED
  BY <1>1, <1>2, Always, PTL DEF Spec, OneAnswerPerId, Answers!Spec
=============================================================================
