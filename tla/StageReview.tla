----------------------------- MODULE StageReview -----------------------------
(***************************************************************************)
(* The review of one stage of a diagram                                    *)
(* (backend/agent/nodes/staged_graph_gate.py): the rules a review has to   *)
(* cover, the per-record trust audit, and the verdict the server derives   *)
(* from the answer.  The reviewer never says "approved": approval is the   *)
(* absence of findings in an answer that covers everything.                *)
(*                                                                         *)
(* A request is [stage, maturity, capabilities, ...].  An answer is        *)
(* [finished, reviews, audits]: whether the model ended by itself, a       *)
(* verdict [ok, indexes] for each rule it names, and the audit rows        *)
(* [index, outcome].  The reasons are left out.                            *)
(***************************************************************************)
EXTENDS Integers, Sequences, FiniteSets

CONSTANTS ComponentRules,   \* rules of the component stage
          ConnectionRules,  \* rules of the connection stage at every maturity
          MaxIndexes        \* records one finding may cite (32 in the code)

\* The production guarantees that the capabilities of a plan call for.
Guarantees(r) ==
  IF r.maturity = "prototype" THEN {}
  ELSE {"audit_and_provenance"}
    \cup (IF "external_effects" \in r.capabilities
          THEN {"authorization_and_compensation", "state_effect_reconciliation"} ELSE {})
    \cup (IF "retrieval_or_reuse" \in r.capabilities
          THEN {"retrieval_and_reuse_trust"} ELSE {})
    \cup (IF "learning_or_release" \in r.capabilities
          THEN {"learning_and_release"} ELSE {})

RuleCodes(r) ==
  IF r.stage = "components" THEN ComponentRules ELSE ConnectionRules \cup Guarantees(r)

\* Whether each record is audited for trust, and the rule the audit belongs to.
Audited(r) == r.stage = "components" \/ "retrieval_and_reuse_trust" \in Guarantees(r)
TrustRule(r) == IF r.stage = "components" THEN "brief_coverage"
                ELSE "retrieval_and_reuse_trust"

AuditedIndexes(answer) == {answer.audits[k].index : k \in DOMAIN answer.audits}

\* A usable answer ends by itself, names every rule and no other, cites records
\* that exist, and audits every record once where an audit is due.
Complete(r, n, answer) ==
  /\ answer.finished
  /\ DOMAIN answer.reviews = RuleCodes(r)
  /\ \A code \in RuleCodes(r) : answer.reviews[code].indexes \subseteq 1..n
  /\ Len(answer.audits) = IF Audited(r) THEN n ELSE 0
  /\ Audited(r) => AuditedIndexes(answer) = 1..n

\* More records than a finding may cite means all of them: no citation.
Bounded(indexes) == IF Cardinality(indexes) > MaxIndexes THEN {} ELSE indexes

RuleVerdicts(answer) ==
  [code \in DOMAIN answer.reviews |->
     [answer.reviews[code] EXCEPT !.indexes = Bounded(@)]]

Untrusted(answer) ==
  {answer.audits[k].index : k \in {j \in DOMAIN answer.audits :
                                     answer.audits[j].outcome = "unsatisfied"}}

\* The records the trust rule fails on, by the audit or by its own verdict.
TrustFailures(r, answer) ==
  LET own == RuleVerdicts(answer)[TrustRule(r)]
  IN  Untrusted(answer) \cup IF own.ok THEN {} ELSE own.indexes

\* Mutant: the audit only adds to a trust rule that already failed.
VerdictFindings(r, answer) ==
  {[code |-> code, indexes |-> RuleVerdicts(answer)[code].indexes] :
     code \in {c \in RuleCodes(r) : ~answer.reviews[c].ok}}

\* One finding per failed rule, and one per record that failed the audit.
Findings(r, answer) ==
  {[code |-> code, indexes |-> RuleVerdicts(answer)[code].indexes] :
     code \in {c \in RuleCodes(r) : ~answer.reviews[c].ok}}
  \cup {[code |-> TrustRule(r), indexes |-> {i}] : i \in Untrusted(answer)}

\* A failed audit makes the trust rule fail, whatever its own verdict says.
RuleReviews(r, answer) ==
  LET v   == RuleVerdicts(answer)
      own == v[TrustRule(r)]
  IN  IF Untrusted(answer) = {} THEN v
      ELSE [v EXCEPT ![TrustRule(r)] =
              [ok |-> FALSE,
               indexes |-> IF ~own.ok /\ own.indexes = {} THEN {}
                           ELSE TrustFailures(r, answer)]]

NoReviews == [code \in {} |-> [ok |-> FALSE, indexes |-> {}]]

Terminal == [approved |-> FALSE, terminal |-> TRUE, findings |-> {}, reviews |-> NoReviews]

\* The server's verdict on n records.
Reviewed(r, n, answer) ==
  IF \/ ~Complete(r, n, answer)
     \/ /\ Untrusted(answer) # {}
        /\ Cardinality(TrustFailures(r, answer)) > MaxIndexes
  THEN Terminal
  ELSE [approved |-> Findings(r, answer) = {}, terminal |-> FALSE,
        findings |-> Findings(r, answer), reviews |-> RuleReviews(r, answer)]

-----------------------------------------------------------------------------
(* What the reviewer of a correction is told about the review before it.   *)

\* A review is kept for the next one when it is complete: its records and the
\* context it was given (and its verdicts, which only the reviewer reads).
Snapshot(records, context) == [records |-> records, context |-> context]
NoSnapshot == Snapshot(<<>>, <<>>)

\* Positions whose record differs, was added or was removed.
ChangedIndexes(before, after) ==
  {k \in DOMAIN before \cup DOMAIN after :
     \/ k \notin DOMAIN before \/ k \notin DOMAIN after
     \/ before[k] # after[k]}

\* Mutant: only records present in both candidates are compared.
CommonIndexes(previous, records, context) ==
  [changed |-> {k \in DOMAIN previous.records \cap DOMAIN records :
                  previous.records[k] # records[k]},
   context |-> previous.context # context]

PreviousReview(previous, records, context) ==
  [changed |-> ChangedIndexes(previous.records, records),
   context |-> previous.context # context]
=============================================================================
