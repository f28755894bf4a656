--------------------------- MODULE StageCorrections ---------------------------
(***************************************************************************)
(* The corrections of one stage of a new diagram                           *)
(* (backend/agent/nodes/staged_graph_generation.py and the stage loops of  *)
(* backend/agent/staged_graph_workflow.py): a candidate is written,        *)
(* reviewed (StageReview) and, when it is rejected, corrected by a delta   *)
(* that may only touch what the findings cite, for a few calls.            *)
(*                                                                         *)
(* A candidate is [root, records]: the components and the root position,   *)
(* or, with root 0, the connections.  Connections are written as exchanges *)
(* [source, target, label, reply], whose reply (0 for none) the server     *)
(* expands into a second connection; "pairs" remembers which connections   *)
(* came from one exchange.  Positions start at 1.                          *)
(***************************************************************************)
EXTENDS DiagramContract, StageReview

CONSTANTS Requests,       \* [stage, maturity, capabilities, recovery]: what is built,
                          \*   recovery unless a stored diagram is being replaced
          CallLimit,          \* generation calls of each stage
          Accepted,       \* the accepted components, in the connection stage
          Written,        \* candidates a model writes from nothing, by stage
          Rewrites,       \* records a model puts in the place of one, by stage
          Added,          \* records a model adds, by stage
          ComponentLimit, EdgeLimit,
          MaxAdditions,       \* bound: records added by one correction
          MaxCited        \* bound: records cited by one verdict of the reviewer

VARIABLES request,   \* what is built
          calls,     \* calls made so far
          stand,     \* write, review, accepted, failed
          wire,      \* the last candidate
          pairs,     \* its exchanges, as positions <<request, reply or 0>>
          findings,  \* semantic findings about it, when the next call corrects it
          previous,  \* the last complete review
          told,      \* what the reviewer was last told about it
          answer,    \* the review that accepted the candidate
          asked      \* calls that reached the model

correctionVars == <<request, calls, stand, wire, pairs, findings, previous, told, answer, asked>>

Stage == request.stage
NoWire == [root |-> 0, records |-> <<>>]
NoAnswer == [finished |-> FALSE, reviews |-> NoReviews, audits |-> <<>>]

Parses(w) ==
  IF Stage = "components"
  THEN ParsedComponents([root |-> w.root, components |-> w.records], ComponentLimit)
  ELSE ParsedConnections(w.records, Accepted, 1, EdgeLimit)

-----------------------------------------------------------------------------
(* Exchanges.                                                              *)

Forward(x) == [source |-> x.source, target |-> x.target, label |-> x.label]
Reply(x) == [source |-> x.target, target |-> x.source, label |-> x.reply]

\* The connections of a sequence of exchanges, and the positions of each.
Expanded(xs) ==
  FoldLeft(LAMBDA acc, x :
             LET n == Len(acc.records)
             IN  [records |-> acc.records \o IF x.reply = 0 THEN <<Forward(x)>>
                                             ELSE <<Forward(x), Reply(x)>>,
                  pairs |-> Append(acc.pairs, <<n + 1, IF x.reply = 0 THEN 0 ELSE n + 2>>)],
           [records |-> <<>>, pairs |-> <<>>], xs)

\* The exchanges a candidate was written as, read back from its pairs.
ExchangesOf(records, ps) ==
  [j \in DOMAIN ps |->
    LET e == records[ps[j][1]]
    IN  [source |-> e.source, target |-> e.target, label |-> e.label,
         reply |-> IF ps[j][2] = 0 THEN 0 ELSE records[ps[j][2]].label]]

\* Only pairs that give back the whole candidate can be corrected by exchange.
WholeProvenance(w, ps) ==
  Expanded(ExchangesOf(w.records, ps)) = [records |-> w.records, pairs |-> ps]

\* The pairs must lie one after the other, each a request and its reversed reply,
\* and cover the candidate.
ValidatedPairs(w, ps) ==
  /\ \A j \in DOMAIN ps :
       LET before == IF j = 1 THEN 0 ELSE Max({ps[j - 1][1], ps[j - 1][2]})
       IN  /\ ps[j][1] = before + 1 /\ ps[j][1] \in DOMAIN w.records
           /\ ps[j][2] # 0 =>
                /\ ps[j][2] = ps[j][1] + 1 /\ ps[j][2] \in DOMAIN w.records
                /\ w.records[ps[j][1]].source = w.records[ps[j][2]].target
                /\ w.records[ps[j][1]].target = w.records[ps[j][2]].source
  /\ UNION {{ps[j][1], ps[j][2]} : j \in DOMAIN ps} \ {0} = DOMAIN w.records

Located(before, p, after) ==
  <<SelectInSeq(after.records, LAMBDA e : e = before.records[p[1]]),
    IF p[2] = 0 THEN 0 ELSE SelectInSeq(after.records, LAMBDA e : e = before.records[p[2]])>>

\* Mutant: a pair is kept as soon as its request is.
RequestsRetained(before, ps, after) ==
  SelectSeq([j \in DOMAIN ps |-> <<Located(before, ps[j], after)[1], ps[j][2]>>],
            LAMBDA p : p[1] # 0)

\* A pair survives a correction of the connections when both of its connections do.
RetainedPairs(before, ps, after) ==
  LET kept == SelectSeq(ps, LAMBDA p : LET q == Located(before, p, after)
                                       IN  q[1] # 0 /\ (p[2] # 0 => q[2] # 0))
  IN  [j \in DOMAIN kept |-> Located(before, kept[j], after)]

-----------------------------------------------------------------------------
(* The delta that corrects a rejected candidate.                           *)

CitedRecords == UNION {f.indexes : f \in findings}
IsGlobal == \E f \in findings : f.indexes = {}

ByExchange == Stage = "connections" /\ pairs # <<>> /\ request.recovery /\ ~IsGlobal

\* Mutant: the connections cited are taken for exchanges.
UnmappedSlots(cited) == cited

\* A citation of one connection of an exchange opens the whole exchange.
CitedSlots(cited) ==
  IF ByExchange THEN {j \in DOMAIN pairs : \E i \in cited : i \in {pairs[j][1], pairs[j][2]}}
  ELSE cited

Rejected == IF ByExchange THEN ExchangesOf(wire.records, pairs) ELSE wire.records

\* A finding without citation opens every record, but lets none be removed.
Editable == IF IsGlobal THEN DOMAIN Rejected ELSE CitedSlots(CitedRecords)
Removable == IF request.recovery THEN CitedSlots(CitedRecords) ELSE {}

RootEditable ==
  /\ Stage = "components"
  /\ \/ IsGlobal
     \/ \E f \in findings : f.code = "objective_fidelity"
     \/ request.recovery /\ wire.root \in Removable

\* Expanded connections, or components, that the limits leave room for.
Room == (IF Stage = "components" THEN ComponentLimit ELSE EdgeLimit)
          - Len(Rejected) + Cardinality(Removable)

\* What a model can answer for a record: leave it, replace it, drop it.
Offers(k) ==
  {[do |-> "keep"]}
  \cup {[do |-> "update", with |-> u] :
          u \in IF k \in Editable THEN Rewrites[IF ByExchange THEN "exchanges" ELSE Stage] ELSE {}}
  \cup IF k \in Removable THEN {[do |-> "drop"]} ELSE {}

Deltas ==
  LET open == Editable \cup Removable
  IN  {[k \in DOMAIN Rejected |-> IF k \in open THEN f[k] ELSE [do |-> "keep"]] :
         f \in {g \in [open -> UNION {Offers(k) : k \in open}] :
                  \A k \in open : g[k] \in Offers(k)}}

Updated(k, u) ==
  IF ByExchange THEN [Rejected[k] EXCEPT !.label = u.label, !.reply = u.reply] ELSE u

\* An exchange that has a reply keeps one.
KeepsReply(k, u) == ByExchange /\ Rejected[k].reply # 0 => u.reply # 0

Survivors(choice) == SelectSeq([k \in DOMAIN Rejected |-> k], LAMBDA k : choice[k].do # "drop")

\* Mutant: the parent of an untouched component keeps its number.
SameParent(choice, k) == Rejected[k].parent

\* The parent of an untouched component is found again after the removals.
ParentAfter(choice, k) ==
  IF Rejected[k].parent = 0 THEN 0
  ELSE SelectInSeq(Survivors(choice), LAMBDA j : j = Rejected[k].parent)

LosesParent(choice) ==
  Stage = "components" /\ \E k \in ToSet(Survivors(choice)) :
    /\ choice[k].do = "keep" /\ Rejected[k].parent # 0
    /\ choice[Rejected[k].parent].do = "drop"

RecordAfter(choice, k) ==
  IF choice[k].do = "update" THEN Updated(k, choice[k].with)
  ELSE IF Stage = "components" THEN [Rejected[k] EXCEPT !.parent = ParentAfter(choice, k)]
  ELSE Rejected[k]

Assembled(choice, additions) ==
  [j \in DOMAIN Survivors(choice) |-> RecordAfter(choice, Survivors(choice)[j])] \o additions

\* The root named by the answer: <<"old", position>> in the rejected candidate, or
\* <<"new", position>> among the additions; the old root unless the answer may choose.
RootChoices(choice, additions) ==
  {<<"old", wire.root>>}
  \cup IF RootEditable
       THEN {<<"old", k>> : k \in IF request.recovery THEN DOMAIN wire.records
                                  ELSE 1..ComponentLimit}
            \cup {<<"new", k>> : k \in IF request.recovery THEN DOMAIN additions ELSE {}}
       ELSE {}

RootAfter(choice, root) ==
  IF root[1] = "new" THEN Len(Survivors(choice)) + root[2]
  ELSE IF request.recovery THEN SelectInSeq(Survivors(choice), LAMBDA j : j = root[2])
  ELSE root[2]

-----------------------------------------------------------------------------

CorrectionInit ==
  /\ request \in Requests
  /\ calls = 0 /\ stand = "write" /\ wire = NoWire /\ pairs = <<>> /\ findings = {}
  /\ previous = NoSnapshot /\ told = PreviousReview(NoSnapshot, <<>>, <<>>)
  /\ answer = NoAnswer /\ asked = 0

\* A call without a usable candidate: the next call gets no record to correct.
NextCall ==
  /\ findings' = {}
  /\ stand' = IF calls + 1 < CallLimit[Stage] THEN "write" ELSE "failed"
  /\ calls' = calls + 1
  /\ UNCHANGED <<request, wire, pairs, previous, told, answer>>

\* A parsed candidate is reviewed unless it was proposed before.
Propose(w, ps) ==
  IF w = wire THEN NextCall
  ELSE /\ wire' = w /\ pairs' = ps /\ findings' = {}
       /\ stand' = "review"
       /\ calls' = calls + 1
       /\ UNCHANGED <<request, previous, told, answer>>

\* The first call, or one after a failure that cites no record, writes it all.
Write ==
  /\ stand = "write" /\ findings = {}
  /\ asked' = asked + 1
  /\ \E c \in Written[Stage] :
       IF Stage = "components" THEN Parses(c) /\ Propose(c, <<>>)
       ELSE LET x == Expanded(c)
                w == [root |-> 0, records |-> x.records]
            IN  Parses(w) /\ ValidatedPairs(w, x.pairs) /\ Propose(w, x.pairs)

\* The model fails, or what it wrote is refused.
Unusable ==
  /\ stand = "write"
  /\ asked' = asked + 1
  /\ NextCall

\* The pairs that are left do not give back the candidate: the call is refused
\* before the model is asked, and a call that was never asked ends the request.
Unaskable ==
  /\ stand = "write" /\ findings # {} /\ ByExchange /\ ~WholeProvenance(wire, pairs)
  /\ stand' = "failed" /\ calls' = calls + 1 /\ findings' = {}
  /\ UNCHANGED <<request, wire, pairs, previous, told, answer, asked>>

Correct ==
  /\ stand = "write" /\ findings # {}
  /\ ByExchange => WholeProvenance(wire, pairs)
  /\ asked' = asked + 1
  /\ \E choice \in Deltas,
        additions \in {s \in SeqOf(Added[IF ByExchange THEN "exchanges" ELSE Stage], MaxAdditions) :
                         Len(s) <= Room} :
     \E root \in RootChoices(choice, additions) :
       LET records == Assembled(choice, additions)
           x == IF ByExchange THEN Expanded(records) ELSE [records |-> records, pairs |-> <<>>]
           w == [root    |-> IF Stage = "components" THEN RootAfter(choice, root) ELSE 0,
                 records |-> x.records]
       IN  /\ \A k \in DOMAIN Rejected :
                choice[k].do = "update" => KeepsReply(k, choice[k].with)
           /\ ~LosesParent(choice)
           /\ Parses(w)
           /\ Propose(w, IF ByExchange THEN x.pairs ELSE RetainedPairs(wire, pairs, w))

\* The verdicts a reviewer can give on n records: at most one rule fails by itself.
Verdict(n) ==
  {[ok |-> FALSE, indexes |-> s] :
     s \in {t \in SUBSET (1..n) : Cardinality(t) <= MaxCited \/ Cardinality(t) > MaxIndexes}}

Satisfied == [ok |-> TRUE, indexes |-> {}]
Clean(r) == [code \in RuleCodes(r) |-> Satisfied]

Audits(n, failed) ==
  [k \in 1..n |-> [index |-> k, outcome |-> IF k \in failed THEN "unsatisfied" ELSE "satisfied"]]

ReviewAnswers(r, n) ==
  LET audits == IF Audited(r)
                THEN {Audits(n, s) : s \in {t \in SUBSET (1..n) :
                        Cardinality(t) <= MaxCited \/ Cardinality(t) > MaxIndexes}}
                ELSE {<<>>}
      verdicts == {Clean(r)} \cup {[Clean(r) EXCEPT ![code] = v] :
                                     code \in RuleCodes(r), v \in Verdict(n)}
  IN  {[finished |-> TRUE, reviews |-> v, audits |-> a] : v \in verdicts, a \in audits}
      \cup {[finished |-> FALSE, reviews |-> Clean(r), audits |-> a] : a \in audits}
      \cup {[finished |-> TRUE, reviews |-> [code \in RuleCodes(r) \ {c} |-> Satisfied],
             audits |-> a] : c \in RuleCodes(r), a \in audits}
      \cup {[finished |-> TRUE, reviews |-> Clean(r), audits |-> Tail(a)] : a \in audits \ {<<>>}}

Review ==
  /\ stand = "review"
  /\ \E a \in ReviewAnswers(request, Len(wire.records)) :
       LET result == Reviewed(request, Len(wire.records), a)
       IN  /\ told' = PreviousReview(previous, wire.records, pairs)
           /\ previous' = IF result.terminal THEN NoSnapshot
                          ELSE Snapshot(wire.records, pairs)
           /\ IF result.approved THEN stand' = "accepted" /\ answer' = a /\ findings' = {}
              ELSE /\ answer' = NoAnswer
                   /\ IF result.terminal \/ calls = CallLimit[Stage]
                      THEN stand' = "failed" /\ findings' = {}
                      ELSE stand' = "write" /\ findings' = result.findings
  /\ UNCHANGED <<request, calls, wire, pairs, asked>>

CorrectionNext == Write \/ Unusable \/ Unaskable \/ Correct \/ Review

CorrectionSpec == CorrectionInit /\ [][CorrectionNext]_correctionVars
-----------------------------------------------------------------------------
(* Properties.                                                             *)

CorrectionTypeOK ==
  /\ request \in Requests
  /\ calls \in 0..CallLimit[Stage] /\ asked \in 0..calls
  /\ stand \in {"write", "review", "accepted", "failed"}
  /\ \A f \in findings : f.code \in RuleCodes(request) /\ f.indexes \subseteq DOMAIN wire.records
  /\ Stage = "components" => pairs = <<>>
  /\ findings # {} => stand = "write"

\* What is accepted was cleared as a whole: the answer names every rule as
\* satisfied and, where an audit is due, holds a row that clears each record of
\* the candidate (_review_result); an audit cannot be overruled by its rule.
AcceptedWasCleared ==
  stand = "accepted" =>
    /\ Parses(wire)
    /\ \A code \in RuleCodes(request) : code \in DOMAIN answer.reviews /\ answer.reviews[code].ok
    /\ Audited(request) => \A k \in DOMAIN wire.records :
         /\ \E j \in DOMAIN answer.audits : answer.audits[j].index = k
         /\ \A j \in DOMAIN answer.audits :
              answer.audits[j].index = k => answer.audits[j].outcome # "unsatisfied"

\* The pairs a reviewer is shown are requests with their own reversed replies in the
\* candidate under review, however it was corrected (_retained_connection_exchanges).
PairsAreReplies ==
  stand = "review" => \A p \in ToSet(pairs) :
    /\ p[1] \in DOMAIN wire.records
    /\ p[2] # 0 => /\ p[2] \in DOMAIN wire.records
                   /\ wire.records[p[1]].source = wire.records[p[2]].target
                   /\ wire.records[p[1]].target = wire.records[p[2]].source

\* What the findings leave closed: all they do not cite, exchanges as a whole.
Exchange(i) ==
  {i} \cup IF request.recovery
           THEN UNION {{p[1], p[2]} : p \in {q \in ToSet(pairs) : i \in {q[1], q[2]}}} ELSE {}
Uncited == IF IsGlobal THEN {}
          ELSE DOMAIN wire.records \ UNION {Exchange(i) : i \in CitedRecords}

\* A record without its position-dependent parent.
Content(c) == IF Stage = "components" THEN <<c.label, c.type>> ELSE Edge(c)

Corrects == findings # {} /\ wire' # wire

UncitedIn(w) == SelectSeq([k \in DOMAIN w |-> k], LAMBDA k : k \in Uncited)

\* s is a subsequence of t.
Subsequence(s, t) ==
  FoldLeft(LAMBDA k, e : IF k < Len(s) /\ s[k + 1] = e THEN k + 1 ELSE k, 0, t) = Len(s)

\* A correction keeps every record that no finding cites, in its order, and drops no
\* more records than are cited; without recovery it drops none (_EditDelta).
OnlyCitedChanges ==
  [][Corrects =>
       LET closed == UncitedIn(wire.records)
       IN  /\ Subsequence([k \in DOMAIN closed |-> Content(wire.records[closed[k]])],
                          [k \in DOMAIN wire'.records |-> Content(wire'.records[k])])
           /\ ~request.recovery => Len(wire'.records) >= Len(wire.records)
    ]_correctionVars

\* A component the findings do not cite stays with its service, although a removal
\* moves the positions parents are named by, and an uncited root stays the root
\* (_reindex_component_parents, _assemble_recovery).
OwnersAreKept ==
  [][Corrects /\ Stage = "components" =>
       /\ \A i \in Uncited :
            wire.records[i].parent \in Uncited =>
              \E j \in DOMAIN wire'.records :
                /\ Content(wire'.records[j]) = Content(wire.records[i])
                /\ Content(wire'.records[wire'.records[j].parent])
                     = Content(wire.records[wire.records[i].parent])
       /\ wire.root \in Uncited /\ (\A f \in findings : f.code # "objective_fidelity") =>
            Content(wire'.records[wire'.root]) = Content(wire.records[wire.root])
    ]_correctionVars

\* The reviewer of a correction is told of every record that is not what the review
\* before it judged, through failed calls, additions and removals
\* (_previous_review_evidence).
ChangesAreReported ==
  [][stand = "review" /\ stand' # "review" =>
       \A k \in DOMAIN wire.records \cup DOMAIN previous.records : k \notin told'.changed =>
         /\ k \in DOMAIN wire.records \cap DOMAIN previous.records
         /\ wire.records[k] = previous.records[k]
    ]_correctionVars

\* Every call a stage counts reaches the model.  Refuted: a correction that cannot be
\* compiled is counted too.
EveryCallIsAsked == asked = calls

\* What a reviewer is shown and what it clears is the candidate, with its own requests
\* and replies (staged_graph_gate.py).
ReviewsAreWhole == AcceptedWasCleared /\ PairsAreReplies

\* A correction changes what was cited, keeps owners, and every change is reported to
\* the next review (_EditDelta, _previous_review_evidence).
CorrectionsAreConfined == OnlyCitedChanges /\ OwnersAreKept /\ ChangesAreReported
=============================================================================
