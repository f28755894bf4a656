------------------------ MODULE AgentWorkflowProofs ------------------------
(***************************************************************************)
(* Theorems of AgentWorkflow, for any number of repairs, corrections and   *)
(* critic calls, any reserves and times, and however often a run is        *)
(* cancelled and started again: only what was reviewed is published, and   *)
(* the calls and the time set aside for reviews are not overspent.         *)
(***************************************************************************)
EXTENDS AgentWorkflow, TLAPS

(***************************************************************************)
(* Times.                                                                  *)
(***************************************************************************)
LEMMA Constants ==
  /\ MaxRepairs \in Nat /\ MaxProtocol \in Nat /\ MaxContract \in Nat /\ MaxCritic \in Nat
  /\ MaxSteers \in Nat /\ StartTimes \subseteq Nat
  /\ Reserve.critic \in Nat /\ Reserve.patch \in Nat /\ Reserve.synthesis \in Nat
  /\ Reserve.finalization \in Nat /\ Reserve.orchestration \in Nat
  /\ Cap.design \in Nat /\ Cap.critic \in Nat /\ Cap.patch \in Nat /\ Cap.architect \in Nat
  /\ Cap.render \in Nat
BY WorkflowAssumption

LEMMA MinOfTwo == ASSUME NEW a \in Int, NEW b \in Int PROVE Min({a, b}) = IF a <= b THEN a ELSE b
<1> DEFINE least == IF a <= b THEN a ELSE b
<1>1. least \in {a, b} /\ \A y \in {a, b} : least =< y
  OBVIOUS
<1>2. \A x \in {a, b} : (\A y \in {a, b} : x =< y) => x = least
  OBVIOUS
<1> HIDE DEF least
<1>3. (CHOOSE x \in {a, b} : \A y \in {a, b} : x =< y) = least
  BY <1>1, <1>2
<1>4. Min({a, b}) = least
  BY <1>3 DEF Min
<1> QED
  BY <1>4 DEF least

LEMMA MaxOfTwo == ASSUME NEW a \in Int, NEW b \in Int PROVE Max({a, b}) = IF a >= b THEN a ELSE b
<1> DEFINE most == IF a >= b THEN a ELSE b
<1>1. most \in {a, b} /\ \A y \in {a, b} : most >= y
  OBVIOUS
<1>2. \A x \in {a, b} : (\A y \in {a, b} : x >= y) => x = most
  OBVIOUS
<1> HIDE DEF most
<1>3. (CHOOSE x \in {a, b} : \A y \in {a, b} : x >= y) = most
  BY <1>1, <1>2
<1>4. Max({a, b}) = most
  BY <1>3 DEF Max
<1> QED
  BY <1>4 DEF most

\* What a stage may take leaves the stages after it their time, and is all it asks for when
\* there is time enough.
LEMMA AllowedFacts ==
  ASSUME left \in Nat, NEW cap \in Nat, NEW downstream \in Nat
  PROVE  /\ Allowed(cap, downstream) \in 0 .. left
         /\ Allowed(cap, downstream) > 0 =>
              left - Allowed(cap, downstream) >= downstream + Reserve.orchestration
         /\ cap > 0 /\ left > downstream + Reserve.orchestration
              => Allowed(cap, downstream) > 0
         /\ left >= cap + downstream + Reserve.orchestration => Allowed(cap, downstream) = cap
<1> DEFINE rest == left - downstream - Reserve.orchestration
           room == IF 0 >= rest THEN 0 ELSE rest
<1>1. rest \in Int /\ Max({0, rest}) = room
  <2>1. rest \in Int /\ 0 \in Int
    BY Constants
  <2> HIDE DEF rest
  <2> QED
    BY <2>1, MaxOfTwo
<1>2. room \in Int
  BY <1>1
<1>3. Allowed(cap, downstream) = IF cap <= room THEN cap ELSE room
  <2>1. Allowed(cap, downstream) = Min({cap, room})
    BY <1>1 DEF Allowed
  <2> HIDE DEF room
  <2> QED
    BY <1>2, <2>1, MinOfTwo
<1> QED
  BY <1>3, Constants

LEMMA SpentTime ==
  ASSUME left \in Nat, NEW d \in Nat
  PROVE  Max({0, left - d}) \in Nat /\ Max({0, left - d}) + d >= left
                                   /\ Max({0, left - d}) <= left
<1>1. left - d \in Int /\ 0 \in Int
  OBVIOUS
<1>2. Max({0, left - d}) = IF 0 >= left - d THEN 0 ELSE left - d
  BY <1>1, MaxOfTwo
<1> QED
  BY <1>2

\* More rounds are dearer than fewer, and none costs nothing.
LEMMA RoundsCost ==
  ASSUME NEW n \in Nat, NEW m \in Nat, n <= m
  PROVE  n * Repair \in Nat /\ n * Repair <= m * Repair /\ Repair \in Nat
<1>1. Repair \in Nat
  BY Constants DEF Repair
<1>2. \A a, b, c \in Nat : a * c \in Nat /\ (a <= b => a * c <= b * c)
  <2>1. ASSUME NEW a \in Nat, NEW b \in Nat, NEW c \in Nat, a <= b PROVE a * c <= b * c
    <3>1. PICK e \in Nat : b = a + e
      <4>1. b - a \in Nat /\ b = a + (b - a)
        BY <2>1
      <4> QED
        BY <4>1
    <3>2. b * c = a * c + e * c /\ e * c \in Nat /\ a * c \in Nat
      BY <3>1
    <3> QED
      BY <3>2
  <2> QED
    BY <2>1
<1> QED
  BY <1>1, <1>2

(***************************************************************************)
(* The graph fields of the agent's state.                                  *)
(***************************************************************************)
Operations == {"none", "candidate", "applied", "failed", "needs_clarification"}

Publications ==
  {"none", "unchanged", "preserved", "withheld", "unreviewed", "approved", "user_accepted"}

Reviews == {"none", "passed", "local", "terminal"}

States ==
  [graph : Nat, contract : Nat, changed : BOOLEAN, rounds : 0 .. MaxRepairs,
   op : Operations, pub : Publications, review : Reviews, rendered : Nat,
   pending : BOOLEAN, parallel : BOOLEAN]

\* One field at a time.
LEMMA FieldTyped ==
  ASSUME NEW r \in States
  PROVE  /\ \A x \in Nat : /\ [r EXCEPT !.graph = x] \in States
                           /\ [r EXCEPT !.contract = x] \in States
                           /\ [r EXCEPT !.rendered = x] \in States
         /\ \A x \in BOOLEAN : /\ [r EXCEPT !.changed = x] \in States
                               /\ [r EXCEPT !.pending = x] \in States
                               /\ [r EXCEPT !.parallel = x] \in States
         /\ \A x \in 0 .. MaxRepairs : [r EXCEPT !.rounds = x] \in States
         /\ \A x \in Operations : [r EXCEPT !.op = x] \in States
         /\ \A x \in Publications : [r EXCEPT !.pub = x] \in States
         /\ \A x \in Reviews : [r EXCEPT !.review = x] \in States
<1>1. \A x \in Nat : /\ [r EXCEPT !.graph = x] \in States
                     /\ [r EXCEPT !.contract = x] \in States
                     /\ [r EXCEPT !.rendered = x] \in States
  BY DEF States
<1>2. \A x \in BOOLEAN : /\ [r EXCEPT !.changed = x] \in States
                         /\ [r EXCEPT !.pending = x] \in States
                         /\ [r EXCEPT !.parallel = x] \in States
  BY DEF States
<1>3. /\ \A x \in 0 .. MaxRepairs : [r EXCEPT !.rounds = x] \in States
      /\ \A x \in Operations : [r EXCEPT !.op = x] \in States
      /\ \A x \in Publications : [r EXCEPT !.pub = x] \in States
      /\ \A x \in Reviews : [r EXCEPT !.review = x] \in States
  BY DEF States
<1> QED
  BY <1>1, <1>2, <1>3

LEMMA FreshFields ==
  ASSUME NEW t \in Turns
  PROVE  LET n == Fresh(t) IN
         /\ n \in States /\ n.graph = Prior(t) /\ n.contract = t.contract /\ ~n.changed
         /\ n.rounds = 0 /\ n.pub \in {"none", "unchanged"} /\ n.review = "none"
         /\ n.rendered = None /\ ~n.pending /\ ~n.parallel
         /\ n.op \in {"none", "failed"} /\ (n.op = "failed" => t.intent = "edit")
<1> DEFINE op == IF t.intent = "edit" /\ t.prior # "applied" THEN "failed" ELSE "none"
           pub == IF t.prior = "none" THEN "none" ELSE "unchanged"
<1>1. op \in {"none", "failed"} /\ pub \in {"none", "unchanged"}
      /\ (op = "failed" => t.intent = "edit")
  OBVIOUS
<1>2. Prior(t) \in Nat /\ t.contract \in Nat /\ 0 \in 0 .. MaxRepairs /\ None \in Nat
  BY Constants DEF Prior, None, Turns
<1>3. Fresh(t) = [graph |-> Prior(t), contract |-> t.contract, changed |-> FALSE, rounds |-> 0,
                  op |-> op, pub |-> pub, review |-> "none", rendered |-> None,
                  pending |-> FALSE, parallel |-> FALSE]
  BY DEF Fresh
<1> HIDE DEF op, pub
<1>4. op \in Operations /\ pub \in Publications /\ "none" \in Reviews
  BY <1>1 DEF Operations, Publications, Reviews
<1>5. Fresh(t) \in States
  BY <1>2, <1>3, <1>4 DEF States
<1> QED
  BY <1>1, <1>3, <1>5

LEMMA PriorFacts ==
  ASSUME turn \in Turns
  PROVE  /\ Prior(turn) \in {0, 1} /\ turn.contract \in {0, 1}
         /\ turn.contract = 1 => Prior(turn) = 1
BY DEF Turns, Prior, None

LEMMA KeptTyped == Kept \in {"preserved", "none"} /\ Kept \in Publications
BY DEF Kept, Publications

LEMMA RestoredFields ==
  ASSUME turn \in Turns, s \in States, NEW pub \in Publications, NEW op \in Operations
  PROVE  LET r == Restored(pub)
             n == [r EXCEPT !.op = op]
         IN  /\ r \in States /\ r.op = s.op
             /\ r.graph = Prior(turn) /\ r.contract = turn.contract /\ ~r.changed /\ r.pub = pub
             /\ n \in States /\ n.op = op /\ n.graph = Prior(turn)
             /\ n.contract = turn.contract /\ ~n.changed /\ n.pub = pub
             /\ n.pending = s.pending /\ n.parallel = s.parallel
<1> DEFINE a == [s EXCEPT !.graph = Prior(turn)]
           b == [a EXCEPT !.contract = turn.contract]
           c == [b EXCEPT !.changed = FALSE]
           r == Restored(pub)
           n == [r EXCEPT !.op = op]
<1>1. Prior(turn) \in Nat /\ turn.contract \in Nat
  BY PriorFacts
<1>2. a \in States
  BY <1>1, FieldTyped
<1>3. b \in States
  <2> HIDE DEF a
  <2> QED
    BY <1>1, <1>2, FieldTyped
<1>4. c \in States
  <2> HIDE DEF b
  <2> QED
    BY <1>3, FieldTyped
<1>5. r = [c EXCEPT !.pub = pub]
  BY DEF Restored
<1>6. r \in States
  <2> HIDE DEF c, r
  <2> QED
    BY <1>4, <1>5, FieldTyped
<1>7. /\ r.graph = Prior(turn) /\ r.contract = turn.contract /\ ~r.changed /\ r.pub = pub
      /\ r.op = s.op /\ r.pending = s.pending /\ r.parallel = s.parallel
  BY DEF Restored, States
<1> HIDE DEF r
<1>8. n \in States
  BY <1>6, FieldTyped
<1>9. /\ n.op = op /\ n.graph = r.graph /\ n.contract = r.contract /\ n.changed = r.changed
      /\ n.pub = r.pub /\ n.pending = r.pending /\ n.parallel = r.parallel
  BY <1>6 DEF States
<1> HIDE DEF n
<1>10. r \in States /\ n \in States
  BY <1>6, <1>8
<1> QED
  BY <1>7, <1>9, <1>10 DEF r, n

LEMMA DrawnFields ==
  ASSUME s \in States, NEW g \in Nat
  PROVE  LET n == Drawn(g) IN
         /\ n \in States /\ n.graph = g /\ n.contract = None /\ n.changed
         /\ n.op = (IF turn.intent = "none" THEN s.op ELSE "candidate")
         /\ n.pub = s.pub /\ n.rounds = s.rounds /\ n.pending = s.pending
         /\ n.parallel = s.parallel /\ n.review = s.review /\ n.rendered = s.rendered
<1> DEFINE op == IF turn.intent = "none" THEN s.op ELSE "candidate"
           a == [s EXCEPT !.graph = g]
           b == [a EXCEPT !.contract = None]
           c == [b EXCEPT !.changed = TRUE]
           n == [c EXCEPT !.op = op]
<1>1. None \in Nat /\ op \in Operations
  BY DEF None, Operations, States
<1>2. a \in States
  BY FieldTyped
<1>3. b \in States
  <2> HIDE DEF a
  <2> QED
    BY <1>1, <1>2, FieldTyped
<1>4. c \in States
  <2> HIDE DEF b
  <2> QED
    BY <1>3, FieldTyped
<1>5. Drawn(g) = n
  BY DEF Drawn, States
<1>6. n \in States
  <2> HIDE DEF c, op
  <2> QED
    BY <1>1, <1>4, FieldTyped
<1>7. /\ n.graph = g /\ n.contract = None /\ n.changed /\ n.op = op
      /\ n.pub = s.pub /\ n.rounds = s.rounds /\ n.pending = s.pending
      /\ n.parallel = s.parallel /\ n.review = s.review /\ n.rendered = s.rendered
  BY DEF States
<1> HIDE DEF n
<1> QED
  BY <1>5, <1>6, <1>7

LEMMA ReviewedFields ==
  ASSUME s \in States, NEW answer \in Reviews, NEW op \in Operations
  PROVE  LET n == Reviewed(answer, op) IN
         /\ n \in States /\ n.review = answer /\ ~n.pending
         /\ n.op = (IF answer = "passed" /\ op = "candidate" THEN "applied" ELSE op)
         /\ n.pub = (IF ~s.changed THEN IF s.graph # None THEN "unchanged" ELSE "none"
                     ELSE IF answer = "passed" THEN "approved" ELSE "withheld")
         /\ n.graph = s.graph /\ n.contract = s.contract /\ n.changed = s.changed
         /\ n.rounds = s.rounds /\ n.rendered = s.rendered /\ n.parallel = s.parallel
<1> DEFINE o == IF answer = "passed" /\ op = "candidate" THEN "applied" ELSE op
           p == IF ~s.changed THEN IF s.graph # None THEN "unchanged" ELSE "none"
                ELSE IF answer = "passed" THEN "approved" ELSE "withheld"
           a == [s EXCEPT !.review = answer]
           b == [a EXCEPT !.pending = FALSE]
           c == [b EXCEPT !.op = o]
           n == [c EXCEPT !.pub = p]
<1>1. o \in Operations /\ p \in Publications
  BY DEF Operations, Publications
<1>2. a \in States
  BY FieldTyped
<1>3. b \in States
  <2> HIDE DEF a
  <2> QED
    BY <1>2, FieldTyped
<1>4. c \in States
  <2> HIDE DEF b, o
  <2> QED
    BY <1>1, <1>3, FieldTyped
<1>5. Reviewed(answer, op) = n
  BY DEF Reviewed
<1>6. n \in States
  <2> HIDE DEF c, p
  <2> QED
    BY <1>1, <1>4, FieldTyped
<1> HIDE DEF o, p
<1>7. /\ n.review = answer /\ ~n.pending /\ n.op = o /\ n.pub = p
      /\ n.graph = s.graph /\ n.contract = s.contract /\ n.changed = s.changed
      /\ n.rounds = s.rounds /\ n.rendered = s.rendered /\ n.parallel = s.parallel
  BY DEF States
<1> HIDE DEF n
<1> QED
  BY <1>5, <1>6, <1>7 DEF o, p

(***************************************************************************)
(* The invariant.                                                          *)
(***************************************************************************)
Legacy == turn.lane = "legacy"

WorkTyped ==
  /\ turn \in Turns /\ pc \in Steps /\ s \in States
  /\ critic \in {"off", "none", "protocol", "contract"}
  /\ budget \in [critic : 0 .. MaxCritic, protocol : 0 .. MaxProtocol,
                 contract : 0 .. MaxContract]
  /\ calls \in Nat /\ left \in Nat /\ limit \in Nat /\ minted \in Nat /\ steers \in Nat
  /\ minted >= 1 /\ s.graph <= minted
  /\ passed \subseteq 1 .. minted /\ fits \subseteq 1 .. minted

\* What is not new is what the thread has, and what is new has no older diagram's contract.
Owned ==
  /\ ~s.changed => s.graph = Prior(turn) /\ s.contract = turn.contract
  /\ s.changed => s.graph > 1 /\ s.contract \in {None, s.graph}

\* A run begins with what the thread has, and only the legacy lane goes through its nodes.
Entered ==
  /\ pc \in {"route", "staged", "draft"} => s = Fresh(turn)
  /\ pc = "staged" => turn.lane = "staged"
  /\ pc \notin {"route", "staged", "synthesise", "ended", "raised"} => Legacy

\* Before its review a candidate is neither published nor withheld, and has not failed.
Candidate ==
  /\ s.changed /\ (pc \in {"render", "architect", "review", "correct", "critic"}
                   \/ (pc = "frame" /\ ~s.parallel)) => s.pub = "unreviewed"
  /\ pc \in {"render", "architect", "review"} \/ (pc = "frame" /\ ~s.parallel)
       => s.op # "failed" /\ ~s.pending
  /\ pc = "architect" => ~s.parallel
  /\ pc = "architect" \/ (pc = "frame" /\ ~s.parallel) => s.rounds = 0
  /\ pc = "correct" => s.changed /\ Applied(s.graph) /\ s.pending
  /\ pc = "critic" => s.changed /\ Applied(s.graph) /\ (s.op = "failed" => s.pending)

\* After it, what passed is approved and what is to be repaired may be.
Decided ==
  /\ pc \in {"judged", "gate", "revise"} => ~s.pending
  /\ pc \in {"judged", "gate"} /\ s.review = "passed"
       => s.op # "failed" /\ (s.changed => s.pub = "approved")
  /\ pc \in {"judged", "gate"} /\ s.review = "local" /\ s.changed => Applied(s.graph)
  /\ pc = "gate" \/ (pc = "frame" /\ s.parallel)
       => ~s.pending /\ s.review = "passed" /\ s.op # "failed" /\ (s.changed => s.pub = "approved")
  /\ pc = "revise" => s.changed /\ Applied(s.graph) /\ s.rounds < MaxRepairs
  /\ pc \in {"synthesise", "ended", "raised"} =>
       /\ s.op = "failed" => ~s.changed
       /\ s.changed => s.pub \in {"approved", "user_accepted"}
  /\ pc = "ended" => s.pub # "unreviewed"

\* Once it is through the browser check, the picture beside a candidate is its own.
Pictured ==
  pc \in {"architect", "frame", "review", "critic", "judged", "gate", "revise", "correct"}
    /\ s.changed /\ Applied(s.graph) => s.rendered = s.graph /\ s.graph \in fits

Approved == Legacy /\ s.pub = "approved" /\ Applied(s.graph) => s.graph \in passed \cap fits

\* The time that is left when a review, or a repair, is through.
Explained == AfterReview + Reserve.orchestration
RepairsLeft == (MaxRepairs - s.rounds + CorrectionsLeft) * Repair

Timely ==
  /\ s.pub = "approved" => s.changed
  /\ Legacy /\ s.pub = "approved" => left >= Explained
  /\ pc = "critic" => limit >= Explained /\ left >= limit
  /\ pc = "render" /\ s.rounds > 0 => left >= Reserve.critic + Explained + RepairsLeft
  /\ pc = "review" /\ s.rounds > 0
       => left + Cap.render >= Reserve.critic + Explained + RepairsLeft
  /\ pc = "correct"
       => left >= Reserve.critic + Explained + (MaxRepairs - s.rounds) * Repair

WorkInv ==
  /\ WorkTyped /\ Owned /\ Entered /\ Candidate /\ Decided /\ Pictured /\ Approved
  /\ calls = budget.critic /\ Timely

LEMMA StateFields ==
  ASSUME WorkInv
  PROVE  /\ s \in States /\ s.graph \in Nat /\ s.contract \in Nat /\ s.changed \in BOOLEAN
         /\ s.rounds \in 0 .. MaxRepairs /\ s.op \in Operations /\ s.pub \in Publications
         /\ s.review \in Reviews /\ s.rendered \in Nat /\ s.pending \in BOOLEAN
         /\ s.parallel \in BOOLEAN
         /\ turn \in Turns /\ left \in Nat /\ limit \in Nat /\ minted \in Nat
         /\ budget.critic \in 0 .. MaxCritic /\ budget.contract \in 0 .. MaxContract
         /\ budget.protocol \in 0 .. MaxProtocol
BY DEF WorkInv, WorkTyped, States

LEMMA ReserveFacts ==
  ASSUME WorkInv
  PROVE  /\ AfterReview \in Nat /\ Explained \in Nat /\ CorrectionsLeft \in Nat
         /\ RepairsLeft \in Nat /\ Repair \in Nat
         /\ CriticReserve \in Nat /\ CriticReserve >= AfterReview
         /\ ~s.pending => CriticReserve <= AfterReview + RepairsLeft
         /\ s.pending => CriticReserve = AfterReview + (MaxRepairs - s.rounds) * Repair
         /\ s.rounds < MaxRepairs => PatchReserve \in Nat
         /\ ArchitectReserve \in Nat /\ ArchitectReserve >= AfterReview
<1> DEFINE rounds == MaxRepairs - s.rounds
           more == IF s.rounds < MaxRepairs /\ ~s.pending THEN CorrectionsLeft ELSE 0
<1>1. AfterReview \in Nat /\ Explained \in Nat
  BY Constants DEF AfterReview, Explained
<1>2. CorrectionsLeft \in Nat /\ rounds \in Nat
  BY StateFields, Constants DEF CorrectionsLeft
<1>3. more \in Nat /\ more <= CorrectionsLeft
  BY <1>2
<1>4. /\ (rounds + more) * Repair \in Nat
      /\ (rounds + more) * Repair <= (rounds + CorrectionsLeft) * Repair
      /\ Repair \in Nat
  <2> HIDE DEF rounds, more
  <2>1. rounds + more \in Nat /\ rounds + CorrectionsLeft \in Nat
        /\ rounds + more <= rounds + CorrectionsLeft
    BY <1>2, <1>3
  <2> QED
    BY <2>1, RoundsCost
<1>5. RepairsLeft = (rounds + CorrectionsLeft) * Repair
  BY DEF RepairsLeft
<1>6. RepairsLeft \in Nat
  <2>1. rounds + CorrectionsLeft \in Nat /\ rounds + CorrectionsLeft <= rounds + CorrectionsLeft
    BY <1>2
  <2> HIDE DEF rounds
  <2> QED
    BY <1>5, <2>1, RoundsCost
<1>7. CriticReserve = AfterReview + (rounds + more) * Repair
  BY DEF CriticReserve
<1>8. s.pending => more = 0 /\ rounds + more = rounds
  BY <1>2
<1>9. s.rounds < MaxRepairs => PatchReserve \in Nat
  <2>1. SUFFICES ASSUME s.rounds < MaxRepairs PROVE PatchReserve \in Nat
    OBVIOUS
  <2>2. rounds - 1 + CorrectionsLeft \in Nat
    BY <1>2, <2>1, StateFields, Constants
  <2> HIDE DEF rounds
  <2>3. (rounds - 1 + CorrectionsLeft) * Repair \in Nat
    BY <2>2, RoundsCost
  <2>4. PatchReserve = Reserve.critic + AfterReview + (rounds - 1 + CorrectionsLeft) * Repair
    BY DEF PatchReserve, rounds
  <2> QED
    BY <1>1, <2>3, <2>4, Constants
<1>10. ArchitectReserve \in Nat /\ ArchitectReserve >= AfterReview
  <2>1. MaxRepairs + MaxContract \in Nat
    BY Constants
  <2>2. (MaxRepairs + MaxContract) * Repair \in Nat
    BY <2>1, RoundsCost
  <2>3. ArchitectReserve = Reserve.critic + AfterReview + (MaxRepairs + MaxContract) * Repair
    BY DEF ArchitectReserve
  <2> QED
    BY <1>1, <2>2, <2>3, Constants
<1> HIDE DEF more
<1>11. s.pending => CriticReserve = AfterReview + rounds * Repair
  BY <1>7, <1>8
<1> QED
  BY <1>1, <1>2, <1>4, <1>5, <1>6, <1>7, <1>9, <1>10, <1>11

(***************************************************************************)
(* The steps.                                                              *)
(***************************************************************************)

\* The step is over for the graph: the turn is rejected, or told as it is.
LEMMA GivenUpKeeps ==
  ASSUME WorkInv, UNCHANGED <<turn, budget, calls, limit, passed, fits, steers>>,
         critic' = critic \/ critic' = "off", pc' = "reject", Legacy,
         s' \in States, left' \in Nat, minted' \in Nat, minted' >= minted,
         s'.graph <= minted', Owned',
         s'.pub = "approved" => s'.changed /\ s.pub = "approved" /\ s'.graph = s.graph
                                /\ left' >= Explained
  PROVE  WorkInv'
<1>1. WorkTyped'
  BY DEF WorkInv, WorkTyped, Steps
<1>2. Entered' /\ Candidate' /\ Decided' /\ Pictured'
  BY DEF Entered, Candidate, Decided, Pictured, Legacy
<1>3. Approved'
  BY DEF WorkInv, Approved, Legacy, Applied
<1>4. Timely'
  BY DEF Timely
<1>5. calls' = budget'.critic
  BY DEF WorkInv
<1> QED
  BY <1>1, <1>2, <1>3, <1>4, <1>5 DEF WorkInv

LEMMA AnsweredKeeps == ASSUME WorkInv, Answered PROVE WorkInv'
<1>1. /\ pc = "route" /\ pc' = "ended" /\ turn.intent = "none"
      /\ UNCHANGED <<left, minted, turn, critic, budget, calls, limit, passed, fits, steers>>
      /\ s' = s \/ s' = [s EXCEPT !.op = "needs_clarification"]
  BY DEF Answered, Quiet, Go
<1>2. s = Fresh(turn) /\ turn \in Turns /\ s \in States
  BY <1>1, StateFields DEF WorkInv, Entered
<1>3. /\ ~s.changed /\ s.pub \in {"none", "unchanged"} /\ s.op # "failed"
  BY <1>1, <1>2, FreshFields
<1>4. "needs_clarification" \in Operations
  BY DEF Operations
<1>5. s' \in States
  BY <1>1, <1>2, <1>4, FieldTyped
<1>6. /\ s'.graph = s.graph /\ s'.contract = s.contract /\ s'.changed = s.changed
      /\ s'.pub = s.pub /\ s'.op # "failed"
  BY <1>1, <1>2, <1>3 DEF States
<1>7. WorkTyped'
  BY <1>1, <1>5, <1>6 DEF WorkInv, WorkTyped, Steps
<1>8. Owned' /\ Entered' /\ Candidate' /\ Decided' /\ Pictured' /\ Approved'
  BY <1>1, <1>3, <1>6
     DEF WorkInv, Owned, Entered, Candidate, Decided, Pictured, Approved, Legacy, Applied
<1>9. Timely' /\ calls' = budget'.critic
  BY <1>1, <1>3, <1>6 DEF WorkInv, Timely
<1> QED
  BY <1>7, <1>8, <1>9 DEF WorkInv

LEMMA RoutedKeeps == ASSUME WorkInv, Routed PROVE WorkInv'
<1>1. /\ pc = "route" /\ pc' = IF turn.lane = "staged" THEN "staged" ELSE "draft"
      /\ UNCHANGED <<s, left, minted, turn, critic, budget, calls, limit, passed, fits, steers>>
  BY DEF Routed, Quiet, Go
<1>2. turn.lane \in {"legacy", "staged"}
  BY StateFields DEF Turns
<1>3. WorkTyped'
  BY <1>1 DEF WorkInv, WorkTyped, Steps
<1>4. Owned' /\ Entered' /\ Candidate' /\ Decided' /\ Pictured' /\ Approved'
  BY <1>1, <1>2
     DEF WorkInv, Owned, Entered, Candidate, Decided, Pictured, Approved, Legacy, Applied
<1>5. Timely' /\ calls' = budget'.critic
  BY <1>1 DEF WorkInv, Timely, Legacy
<1> QED
  BY <1>3, <1>4, <1>5 DEF WorkInv

\* The staged lane returns a diagram with its contract, or the one the run began with.
LEMMA StagedKeeps == ASSUME WorkInv, Staged PROVE WorkInv'
<1>1. /\ pc = "staged" /\ pc' = "synthesise"
      /\ UNCHANGED <<turn, critic, budget, calls, limit, passed, fits, steers>>
  BY DEF Staged, Quiet, Go
<1>2. s = Fresh(turn) /\ turn \in Turns /\ s \in States /\ left \in Nat /\ minted \in Nat
  BY <1>1, StateFields DEF WorkInv, Entered
<1>3. left' \in Nat
  <2>1. PICK d \in 0 .. Cap.design : left' = Max({0, left - d})
    BY DEF Staged
  <2>2. d \in Nat
    BY Constants
  <2> QED
    BY <1>2, <2>1, <2>2, SpentTime
<1> DEFINE Returned ==
             /\ s' \in States /\ minted' \in Nat /\ minted' >= minted /\ s'.graph <= minted'
             /\ Owned'
             /\ s'.op = "failed" => ~s'.changed
             /\ s'.changed => s'.pub \in {"approved", "user_accepted"} /\ turn.lane = "staged"
             /\ s'.pub # "unreviewed" /\ (s'.pub = "approved" => s'.changed)
<1>4. Returned
  <2> DEFINE kept == IF Prior(turn) # None THEN "preserved" ELSE "withheld"
  <2>1. minted >= 1 /\ Prior(turn) \in {0, 1} /\ turn.lane = "staged" /\ s.pub \in {"none", "unchanged"}
    <3>1. turn.lane = "staged"
      BY <1>1 DEF WorkInv, Entered
    <3> QED
      BY <1>2, <3>1, FreshFields, PriorFacts DEF WorkInv, WorkTyped
  <2>2. \/ \E pub \in {"approved", "user_accepted"} :
             /\ s' = [s EXCEPT !.graph = minted', !.contract = minted', !.changed = TRUE,
                               !.op = "applied", !.pub = pub]
             /\ minted' = minted + 1
        \/ s' = [Restored(kept) EXCEPT !.op = "failed"] /\ minted' = minted
        \/ s' = [Restored(s.pub) EXCEPT !.op = "needs_clarification"] /\ minted' = minted
    BY DEF Staged
  <2>3. kept \in Publications /\ s.pub \in Publications /\ kept \in {"preserved", "withheld"}
    BY <1>2 DEF Publications, States
  <2>4. "failed" \in Operations /\ "needs_clarification" \in Operations /\ "applied" \in Operations
    BY DEF Operations
  <2> HIDE DEF kept
  <2>5. ASSUME NEW pub \in Publications, NEW op \in Operations, pub # "approved",
               pub # "unreviewed", s' = [Restored(pub) EXCEPT !.op = op], minted' = minted
        PROVE  Returned
    <3>1. /\ s' \in States /\ s'.graph = Prior(turn) /\ s'.contract = turn.contract
          /\ ~s'.changed /\ s'.pub = pub
      BY <1>2, <2>5, RestoredFields
    <3> QED
      BY <1>1, <1>2, <2>1, <2>5, <3>1 DEF Owned
  <2>6. ASSUME NEW pub \in {"approved", "user_accepted"}, minted' = minted + 1,
               s' = [s EXCEPT !.graph = minted', !.contract = minted', !.changed = TRUE,
                              !.op = "applied", !.pub = pub]
        PROVE  Returned
    <3> DEFINE a == [s EXCEPT !.graph = minted']
               b == [a EXCEPT !.contract = minted']
               c == [b EXCEPT !.changed = TRUE]
               e == [c EXCEPT !.op = "applied"]
    <3>1. minted' \in Nat /\ pub \in Publications
      BY <1>2, <2>6 DEF Publications
    <3>2. a \in States
      BY <1>2, <3>1, FieldTyped
    <3>3. b \in States
      <4> HIDE DEF a
      <4> QED
        BY <3>1, <3>2, FieldTyped
    <3>4. c \in States
      <4> HIDE DEF b
      <4> QED
        BY <3>3, FieldTyped
    <3>5. e \in States
      <4> HIDE DEF c
      <4> QED
        BY <2>4, <3>4, FieldTyped
    <3>6. s' = [e EXCEPT !.pub = pub]
      BY <2>6
    <3>7. s' \in States
      <4> HIDE DEF e
      <4> QED
        BY <3>1, <3>5, <3>6, FieldTyped
    <3>8. /\ s'.graph = minted' /\ s'.contract = minted' /\ s'.changed /\ s'.op = "applied"
          /\ s'.pub = pub
      BY <1>2, <2>6 DEF States
    <3> QED
      BY <1>2, <2>1, <2>6, <3>1, <3>7, <3>8 DEF Owned
  <2> QED
    BY <2>1, <2>2, <2>3, <2>4, <2>5, <2>6
<1>5. WorkTyped'
  BY <1>1, <1>3, <1>4 DEF WorkInv, WorkTyped, Steps
<1>6. Entered' /\ Candidate' /\ Decided' /\ Pictured' /\ Approved'
  BY <1>1, <1>4 DEF Entered, Candidate, Decided, Pictured, Approved, Legacy
<1>7. Timely' /\ calls' = budget'.critic
  BY <1>1, <1>4 DEF WorkInv, Timely, Legacy
<1> QED
  BY <1>4, <1>5, <1>6, <1>7 DEF WorkInv

\* A draft ends: with a candidate that is still unreviewed, or with what the run began with.
LEMMA DraftKeeps ==
  ASSUME WorkInv, pc = "draft", Quiet, left' \in Nat, minted' \in Nat, minted' >= minted,
         s' \in States, s'.graph <= minted', Owned', ~s'.pending, s'.rounds = 0,
         s'.pub # "approved", s'.changed => s'.pub = "unreviewed",
         pc' \in {"reject", "render"}, pc' = "render" => s'.op # "failed"
  PROVE  WorkInv'
<1>1. UNCHANGED <<turn, critic, budget, calls, limit, passed, fits, steers>>
  BY DEF Quiet
<1>2. WorkTyped'
  BY <1>1 DEF WorkInv, WorkTyped, Steps
<1>3. Legacy /\ Legacy'
  BY <1>1 DEF WorkInv, Entered, Legacy
<1>4. Entered' /\ Candidate' /\ Decided' /\ Pictured' /\ Approved'
  BY <1>1, <1>3 DEF Entered, Candidate, Decided, Pictured, Approved, Legacy
<1>5. Timely' /\ calls' = budget'.critic
  BY <1>1 DEF WorkInv, Timely
<1> QED
  BY <1>2, <1>4, <1>5 DEF WorkInv

LEMMA DraftFacts ==
  ASSUME WorkInv, Drafting
  PROVE  /\ pc = "draft" /\ left' \in Nat /\ s = Fresh(turn) /\ s \in States /\ turn \in Turns
         /\ minted \in Nat /\ minted >= 1 /\ Prior(turn) \in {0, 1}
         /\ s.graph = Prior(turn) /\ s.contract = turn.contract /\ ~s.changed /\ ~s.pending
         /\ s.rounds = 0 /\ s.pub \in {"none", "unchanged"} /\ s.op \in {"none", "failed"}
         /\ (s.op = "failed" => turn.intent = "edit")
<1>1. pc = "draft" /\ \E d \in 0 .. Cap.design : left' = Max({0, left - d})
  BY DEF Drafting
<1>2. PICK d \in 0 .. Cap.design : left' = Max({0, left - d})
  BY <1>1
<1>3. d \in Nat /\ left \in Nat /\ turn \in Turns /\ s \in States /\ minted \in Nat /\ minted >= 1
  BY Constants, StateFields DEF WorkInv, WorkTyped
<1>4. left' \in Nat
  BY <1>2, <1>3, SpentTime
<1>5. s = Fresh(turn)
  BY <1>1 DEF WorkInv, Entered
<1> QED
  BY <1>1, <1>3, <1>4, <1>5, FreshFields, PriorFacts

\* A new diagram is drawn.
LEMMA DrawnDraftKeeps ==
  ASSUME WorkInv, Drafting, s.op # "failed", DraftEnds(Drawn(minted + 1)) PROVE WorkInv'
<1> DEFINE r == Drawn(minted + 1)
<1>1. minted + 1 \in Nat /\ s \in States
  BY DraftFacts
<1>2. /\ r \in States /\ r.graph = minted + 1 /\ r.contract = None /\ r.changed
      /\ r.op = (IF turn.intent = "none" THEN s.op ELSE "candidate")
      /\ r.rounds = 0 /\ ~r.pending
  BY <1>1, DrawnFields, DraftFacts
<1>3. /\ s' = [r EXCEPT !.pub = DraftPublication(r)]
      /\ minted' = IF r.changed THEN minted + 1 ELSE minted
      /\ pc' = IF r.op = "failed" THEN "reject" ELSE "render"
      /\ Quiet
  BY DEF DraftEnds, Go
<1> HIDE DEF r
<1>4. DraftPublication(r) = "unreviewed"
  BY <1>2 DEF DraftPublication
<1>5. "unreviewed" \in Publications
  BY DEF Publications
<1>6. s' \in States
  BY <1>2, <1>3, <1>4, <1>5, FieldTyped
<1>7. /\ s'.graph = minted + 1 /\ s'.contract = None /\ s'.changed /\ s'.op = r.op
      /\ s'.rounds = 0 /\ ~s'.pending /\ s'.pub = "unreviewed"
  BY <1>2, <1>3, <1>4 DEF States
<1>8. Owned'
  BY <1>7, DraftFacts DEF Owned
<1> QED
  BY <1>1, <1>2, <1>3, <1>6, <1>7, <1>8, DraftFacts, DraftKeeps

\* What the run began with is kept, whatever becomes of the operation.
LEMMA KeptDraftKeeps ==
  ASSUME WorkInv, Drafting, NEW op \in Operations, DraftEnds([s EXCEPT !.op = op])
  PROVE  WorkInv'
<1> DEFINE r == [s EXCEPT !.op = op]
<1>1. r \in States
  BY DraftFacts, FieldTyped
<1>2. /\ r.graph = s.graph /\ r.contract = s.contract /\ ~r.changed /\ r.op = op
      /\ r.rounds = 0 /\ ~r.pending
  BY DraftFacts DEF States
<1>3. /\ s' = [r EXCEPT !.pub = DraftPublication(r)]
      /\ minted' = IF r.changed THEN minted + 1 ELSE minted
      /\ pc' = IF r.op = "failed" THEN "reject" ELSE "render"
      /\ Quiet
  BY DEF DraftEnds, Go
<1> HIDE DEF r
<1>4. DraftPublication(r) \in {"preserved", "none", "unchanged"}
  BY <1>2, KeptTyped DEF DraftPublication
<1>5. {"preserved", "none", "unchanged"} \subseteq Publications
  BY DEF Publications
<1> DEFINE p == DraftPublication(r)
<1>6. p \in Publications /\ p \in {"preserved", "none", "unchanged"}
  BY <1>4, <1>5
<1>7. s' = [r EXCEPT !.pub = p]
  BY <1>3
<1> HIDE DEF p
<1>8. s' \in States
  BY <1>1, <1>6, <1>7, FieldTyped
<1>9. /\ s'.graph = s.graph /\ s'.contract = s.contract /\ ~s'.changed /\ s'.op = op
      /\ s'.rounds = 0 /\ ~s'.pending /\ s'.pub = p
  BY <1>1, <1>2, <1>7 DEF States
<1>10. Owned'
  BY <1>3, <1>9, DraftFacts DEF Owned, Quiet
<1> QED
  BY <1>2, <1>3, <1>6, <1>8, <1>9, <1>10, DraftFacts, DraftKeeps

LEMMA DraftTimesOutKeeps == ASSUME WorkInv, DraftTimesOut PROVE WorkInv'
<1>1. /\ Drafting /\ s' = [Restored(Kept) EXCEPT !.op = FailedOp]
      /\ pc' = (IF s'.op = "failed" THEN "reject" ELSE "render")
      /\ minted' = minted /\ Quiet
  BY DEF DraftTimesOut, Go
<1>2. FailedOp \in Operations
  BY DEF FailedOp, Operations
<1>3. turn \in Turns /\ s \in States /\ Kept \in Publications
  BY <1>1, DraftFacts, KeptTyped
<1>4. /\ s' \in States /\ s'.graph = Prior(turn) /\ s'.contract = turn.contract
      /\ ~s'.changed /\ s'.pub = Kept /\ s'.pending = s.pending
  BY <1>1, <1>2, <1>3, RestoredFields
<1>5. s'.rounds = s.rounds
  BY <1>1, <1>3 DEF Restored, States
<1>6. Owned'
  BY <1>1, <1>4 DEF Owned, Quiet
<1>7. s'.graph <= minted'
  BY <1>1, <1>4, DraftFacts
<1> QED
  BY <1>1, <1>4, <1>5, <1>6, <1>7, DraftFacts, KeptTyped, DraftKeeps

LEMMA DraftsKeep ==
  ASSUME WorkInv, DraftDesign \/ DraftFails \/ DraftConcept \/ DraftKept \/ DraftTimesOut
  PROVE  WorkInv'
<1>1. CASE DraftDesign
  BY <1>1, DrawnDraftKeeps DEF DraftDesign
<1>2. CASE DraftFails
  <2>1. "failed" \in Operations
    BY DEF Operations
  <2> QED
    BY <1>2, <2>1, KeptDraftKeeps DEF DraftFails
<1>3. CASE DraftConcept
  <2>1. s.op # "failed"
    BY <1>3, DraftFacts DEF DraftConcept
  <2> QED
    BY <1>3, <2>1, DrawnDraftKeeps DEF DraftConcept
<1>4. CASE DraftKept
  <2>1. s = [s EXCEPT !.op = s.op] /\ s.op \in Operations
    BY StateFields DEF States
  <2> QED
    BY <1>4, <2>1, KeptDraftKeeps DEF DraftKept
<1>5. CASE DraftTimesOut
  BY <1>5, DraftTimesOutKeeps
<1> QED
  BY <1>1, <1>2, <1>3, <1>4, <1>5

\* A candidate is rendered, or passes because it is none.
LEMMA RenderKeeps == ASSUME WorkInv, Render PROVE WorkInv'
<1>1. /\ pc = "render"
      /\ UNCHANGED <<turn, critic, budget, calls, limit, minted, passed, steers>>
  BY DEF Render
<1>2. /\ s \in States /\ left \in Nat /\ Legacy /\ s.graph \in Nat /\ turn \in Turns
      /\ (s.changed => s.pub = "unreviewed") /\ s.op # "failed" /\ ~s.pending
      /\ (s.rounds > 0 => left >= Reserve.critic + Explained + RepairsLeft)
      /\ s.rounds \in Nat
  BY <1>1, StateFields, Constants DEF WorkInv, Entered, Candidate, Timely
<1>3. left' \in Nat /\ left' + Cap.render >= left
  <2>1. PICK d \in 0 .. Cap.render : left' = Max({0, left - d})
    BY DEF Render
  <2>2. d \in Nat /\ d <= Cap.render
    BY Constants
  <2> QED
    BY <1>2, <2>1, <2>2, SpentTime, Constants
<1>4. s.pub = "approved" => FALSE
  BY <1>1, <1>2 DEF WorkInv, Timely
<1>5. CASE pc' = "reject"
  <2>1. /\ s' = [s EXCEPT !.review = "terminal", !.pending = FALSE] /\ UNCHANGED fits
    BY <1>5 DEF Render, Go, AfterRender
  <2> DEFINE a == [s EXCEPT !.review = "terminal"]
  <2>2. a \in States
    <3>1. "terminal" \in Reviews
      BY DEF Reviews
    <3> QED
      BY <1>2, <3>1, FieldTyped
  <2>3. s' \in States
    <3>1. s' = [a EXCEPT !.pending = FALSE]
      BY <2>1
    <3> HIDE DEF a
    <3> QED
      BY <2>2, <3>1, FieldTyped
  <2>4. /\ s'.graph = s.graph /\ s'.contract = s.contract /\ s'.changed = s.changed
        /\ s'.pub = s.pub
    BY <1>2, <2>1 DEF States
  <2>5. Owned'
    BY <1>1, <2>4 DEF WorkInv, Owned
  <2>6. s'.graph <= minted' /\ minted' \in Nat /\ minted' >= minted
    BY <1>1, <2>4 DEF WorkInv, WorkTyped
  <2> QED
    BY <1>1, <1>2, <1>3, <1>4, <1>5, <2>1, <2>3, <2>4, <2>5, <2>6, GivenUpKeeps
<1>6. CASE pc' # "reject"
  <2> DEFINE par == s.rounds = 0 /\ turn.prototype
             ren == IF s.changed /\ Applied(s.graph) THEN s.graph ELSE s.rendered
  <2>1. /\ pc' = AfterRender
        /\ \/ /\ ~(s.changed /\ Applied(s.graph)) /\ fits' = fits
              /\ s' = [s EXCEPT !.parallel = par]
           \/ /\ s.changed /\ Applied(s.graph) /\ fits' = fits \cup {s.graph}
              /\ s' = [s EXCEPT !.rendered = s.graph, !.parallel = par]
    BY <1>6 DEF Render, Go
  <2>2. par \in BOOLEAN /\ ren \in Nat /\ (s.rounds > 0 => ~par)
    BY <1>2 DEF Turns, States
  <2>3. /\ pc' \in {"review", "architect"}
        /\ pc' = "architect" => s.rounds = 0 /\ ~par
    BY <1>2, <2>1 DEF AfterRender, Turns
  <2> DEFINE a == [s EXCEPT !.rendered = s.graph]
  <2>4. s' \in States
    <3> HIDE DEF par
    <3>1. [s EXCEPT !.parallel = par] \in States
      BY <1>2, <2>2, FieldTyped
    <3>2. a \in States
      BY <1>2, FieldTyped
    <3>3. [s EXCEPT !.rendered = s.graph, !.parallel = par] = [a EXCEPT !.parallel = par]
      OBVIOUS
    <3>4. [a EXCEPT !.parallel = par] \in States
      <4> HIDE DEF a
      <4> QED
        BY <2>2, <3>2, FieldTyped
    <3> QED
      BY <2>1, <3>1, <3>3, <3>4
  <2> HIDE DEF a
  <2>5. /\ s'.graph = s.graph /\ s'.contract = s.contract /\ s'.changed = s.changed
        /\ s'.rounds = s.rounds /\ s'.op = s.op /\ s'.pub = s.pub /\ s'.pending = s.pending
        /\ s'.parallel = par
        /\ (s.changed /\ Applied(s.graph) => s'.rendered = s.graph /\ s.graph \in fits')
    <3> HIDE DEF par
    <3> QED
      BY <1>2, <2>1, <2>2 DEF States
  <2> HIDE DEF par
  <2>6. WorkTyped'
    <3>1. fits' \subseteq 1 .. minted'
      BY <1>1, <1>2, <2>1 DEF WorkInv, WorkTyped, Owned
    <3> QED
      BY <1>1, <1>3, <2>3, <2>4, <2>5, <3>1 DEF WorkInv, WorkTyped, Steps
  <2>7. Owned' /\ Entered' /\ Candidate' /\ Decided'
    BY <1>1, <1>2, <2>3, <2>5
       DEF WorkInv, Owned, Entered, Candidate, Decided, Legacy
  <2>8. Pictured' /\ Approved'
    BY <1>1, <1>2, <1>4, <2>3, <2>5 DEF Pictured, Approved, Applied
  <2>9. RepairsLeft' = RepairsLeft
    BY <1>1, <2>5 DEF RepairsLeft, CorrectionsLeft
  <2>10. Timely'
    <3>1. pc' = "review" /\ s'.rounds > 0
            => left' + Cap.render >= Reserve.critic + Explained + RepairsLeft'
      BY <1>2, <1>3, <2>5, <2>9, ReserveFacts, Constants
    <3> QED
      BY <1>4, <2>3, <2>5, <3>1 DEF Timely
  <2>11. calls' = budget'.critic
    BY <1>1 DEF WorkInv
  <2> QED
    BY <2>6, <2>7, <2>8, <2>10, <2>11 DEF WorkInv
<1> QED
  BY <1>5, <1>6

LEMMA ArchitectTimeFacts ==
  ASSUME WorkInv, NEW d \in 0 .. ArchitectTime, left' = left - d
  PROVE  left' \in Nat /\ (left >= Explained => left' >= Explained)
<1>1. /\ ArchitectTime \in 0 .. left
      /\ ArchitectTime > 0 => left - ArchitectTime >= ArchitectReserve + Reserve.orchestration
  BY StateFields, ReserveFacts, Constants, AllowedFacts DEF ArchitectTime
<1> QED
  BY <1>1, StateFields, ReserveFacts, Constants DEF Explained

LEMMA ArchitectKeeps == ASSUME WorkInv, Architect PROVE WorkInv'
<1>1. /\ pc = "architect" /\ minted' = minted
      /\ UNCHANGED <<turn, critic, budget, calls, limit, passed, fits, steers>>
      /\ \/ pc' = "frame" /\ s' = s
         \/ pc' = "reject" /\ s' = [s EXCEPT !.review = "terminal"]
  BY DEF Architect, Quiet, Go
<1>2. PICK d \in 0 .. ArchitectTime : left' = left - d
  BY DEF Architect
<1>3. left' \in Nat /\ (left >= Explained => left' >= Explained)
  BY <1>2, ArchitectTimeFacts
<1>4. /\ s \in States /\ Legacy /\ ~s.parallel
      /\ (s.changed => s.pub = "unreviewed") /\ s.op # "failed" /\ ~s.pending
  BY <1>1, StateFields DEF WorkInv, Entered, Candidate
<1>5. s.pub = "approved" => FALSE
  BY <1>4 DEF WorkInv, Timely
<1>6. CASE pc' = "frame" /\ s' = s
  <2>1. WorkTyped' /\ Owned' /\ Entered' /\ Candidate' /\ Decided'
    BY <1>1, <1>3, <1>4, <1>6
       DEF WorkInv, WorkTyped, Steps, Owned, Entered, Candidate, Decided, Legacy
  <2>2. Pictured' /\ Approved'
    BY <1>1, <1>5, <1>6 DEF WorkInv, Pictured, Approved, Applied
  <2>3. Timely' /\ calls' = budget'.critic
    BY <1>1, <1>5, <1>6 DEF WorkInv, Timely
  <2> QED
    BY <2>1, <2>2, <2>3 DEF WorkInv
<1>7. CASE pc' = "reject" /\ s' = [s EXCEPT !.review = "terminal"]
  <2>1. s' \in States
    <3>1. "terminal" \in Reviews
      BY DEF Reviews
    <3> QED
      BY <1>4, <1>7, <3>1, FieldTyped
  <2>2. /\ s'.graph = s.graph /\ s'.contract = s.contract /\ s'.changed = s.changed
        /\ s'.pub = s.pub
    BY <1>4, <1>7 DEF States
  <2>3. Owned' /\ s'.graph <= minted' /\ minted' \in Nat /\ minted' >= minted
    BY <1>1, <2>2 DEF WorkInv, WorkTyped, Owned
  <2> QED
    BY <1>1, <1>3, <1>4, <1>5, <1>7, <2>1, <2>2, <2>3, GivenUpKeeps
<1> QED
  BY <1>1, <1>6, <1>7

LEMMA FrameKeeps == ASSUME WorkInv, Frame PROVE WorkInv'
<1>1. /\ pc = "frame" /\ pc' = IF s.parallel THEN "gate" ELSE "review"
      /\ UNCHANGED <<s, left, minted, turn, critic, budget, calls, limit, passed, fits, steers>>
  BY DEF Frame, Quiet, Go
<1>2. /\ s.parallel \in BOOLEAN /\ Legacy /\ pc' \in {"gate", "review"}
      /\ (s.parallel => pc' = "gate") /\ (~s.parallel => pc' = "review")
  BY <1>1, StateFields DEF WorkInv, Entered
<1>3. WorkTyped'
  BY <1>1, <1>2 DEF WorkInv, WorkTyped, Steps
<1>4. Owned' /\ Entered'
  BY <1>1, <1>2 DEF WorkInv, Owned, Entered, Legacy
<1>5. /\ ~s.parallel => /\ s.rounds = 0 /\ s.op # "failed" /\ ~s.pending
                        /\ (s.changed => s.pub = "unreviewed")
      /\ s.parallel => /\ s.review = "passed" /\ s.op # "failed"
                       /\ (s.changed => s.pub = "approved")
      /\ ~s.pending
  BY <1>1 DEF WorkInv, Candidate, Decided
<1>6. Candidate'
  BY <1>1, <1>2, <1>5 DEF Candidate
<1>7. Decided'
  BY <1>1, <1>2, <1>5 DEF Decided
<1>8. Pictured' /\ Approved'
  BY <1>1, <1>2 DEF WorkInv, Pictured, Approved, Applied, Legacy
<1>9. Timely' /\ calls' = budget'.critic
  BY <1>1, <1>2, <1>5 DEF WorkInv, Timely, Legacy
<1> QED
  BY <1>3, <1>4, <1>6, <1>7, <1>8, <1>9 DEF WorkInv

(***************************************************************************)
(* The review.                                                             *)
(***************************************************************************)

\* A stage that is admitted leaves the explanation its time.
LEMMA CriticTimeFacts ==
  ASSUME WorkInv
  PROVE  /\ CriticTime \in 0 .. left
         /\ CriticTime > 0 => left - CriticTime >= Explained
<1>1. /\ CriticTime \in 0 .. left
      /\ CriticTime > 0 => left - CriticTime >= CriticReserve + Reserve.orchestration
  BY StateFields, ReserveFacts, Constants, AllowedFacts DEF CriticTime
<1> QED
  BY <1>1, StateFields, ReserveFacts, Constants DEF Explained

\* A review ends with its answer.
LEMMA ConcludedKeeps ==
  ASSUME WorkInv, pc \in {"review", "correct", "critic"}, pc' = "judged",
         UNCHANGED <<turn, budget, calls, limit, minted, fits, steers>>,
         critic' \in {"off", "none", "protocol", "contract"}, left' \in Nat,
         NEW answer \in {"passed", "local", "terminal"}, NEW op \in Operations,
         s' = Reviewed(answer, op),
         passed \subseteq passed', passed' \subseteq 1 .. minted,
         answer = "passed" =>
           /\ op # "failed"
           /\ s.changed => left' >= Explained /\ (Applied(s.graph) => s.graph \in passed'),
         answer = "local" => Applied(s.graph)
  PROVE  WorkInv'
<1>1. answer \in Reviews /\ s \in States /\ Legacy
  BY StateFields DEF Reviews, WorkInv, Entered
<1>2. /\ s' \in States /\ s'.review = answer /\ ~s'.pending
      /\ s'.op = (IF answer = "passed" /\ op = "candidate" THEN "applied" ELSE op)
      /\ s'.pub = (IF ~s.changed THEN IF s.graph # None THEN "unchanged" ELSE "none"
                   ELSE IF answer = "passed" THEN "approved" ELSE "withheld")
      /\ s'.graph = s.graph /\ s'.contract = s.contract /\ s'.changed = s.changed
      /\ s'.rounds = s.rounds /\ s'.rendered = s.rendered /\ s'.parallel = s.parallel
  BY <1>1, ReviewedFields
<1>3. WorkTyped'
  BY <1>2 DEF WorkInv, WorkTyped, Steps
<1>4. Owned' /\ Entered' /\ Candidate'
  BY <1>1, <1>2 DEF WorkInv, Owned, Entered, Candidate, Legacy
<1>5. Applied(s.graph)' = Applied(s.graph)
  BY <1>2 DEF Applied
<1>6. Decided'
  BY <1>2, <1>5 DEF Decided
<1>7. Pictured'
  BY <1>2, <1>5 DEF WorkInv, Pictured
<1>8. s'.pub = "approved" => s.changed /\ answer = "passed"
  BY <1>2
<1>9. Approved'
  BY <1>2, <1>5, <1>7, <1>8 DEF Approved, Pictured
<1>10. Explained' = Explained
  BY DEF Explained, AfterReview
<1>11. Timely'
  BY <1>2, <1>8 DEF Timely
<1>12. calls' = budget'.critic
  BY DEF WorkInv
<1> QED
  BY <1>3, <1>4, <1>6, <1>7, <1>9, <1>11, <1>12 DEF WorkInv

LEMMA AcceptedKeeps == ASSUME WorkInv, Accepted PROVE WorkInv'
<1>1. /\ pc = "review" /\ ~(s.changed /\ Applied(s.graph)) /\ (s.changed => CriticTime > 0)
      /\ s' = Reviewed("passed", s.op) /\ pc' = "judged"
      /\ UNCHANGED <<turn, critic, budget, calls, left, limit, minted, passed, fits, steers>>
  BY DEF Accepted, Go
<1>2. /\ s.op # "failed" /\ s.op \in Operations /\ left \in Nat /\ passed \subseteq 1 .. minted
      /\ critic \in {"off", "none", "protocol", "contract"}
  BY <1>1, StateFields DEF WorkInv, WorkTyped, Candidate
<1>3. s.changed => left >= Explained
  BY <1>1, <1>2, CriticTimeFacts, ReserveFacts
<1>4. "passed" \in {"passed", "local", "terminal"}
  OBVIOUS
<1> QED
  BY <1>1, <1>2, <1>3, <1>4, ConcludedKeeps

LEMMA UnreviewedKeeps == ASSUME WorkInv, Unreviewed PROVE WorkInv'
<1>1. /\ pc \in {"review", "correct"} /\ s' = Reviewed("terminal", s.op) /\ pc' = "judged"
      /\ UNCHANGED <<turn, critic, budget, calls, left, limit, minted, passed, fits, steers>>
  BY DEF Unreviewed, Go
<1>2. /\ s.op \in Operations /\ left \in Nat /\ passed \subseteq 1 .. minted
      /\ critic \in {"off", "none", "protocol", "contract"}
  BY StateFields DEF WorkInv, WorkTyped
<1>3. "terminal" \in {"passed", "local", "terminal"}
  OBVIOUS
<1> QED
  BY <1>1, <1>2, <1>3, ConcludedKeeps

\* A call is counted where it is charged.
LEMMA SendFacts ==
  ASSUME WorkInv, NEW kind \in {"none", "protocol", "contract"}, Send(kind)
  PROVE  /\ budget' \in [critic : 0 .. MaxCritic, protocol : 0 .. MaxProtocol,
                         contract : 0 .. MaxContract]
         /\ calls' = budget'.critic /\ calls' \in Nat /\ pc' = "critic" /\ critic' = kind
<1>1. /\ CanClaim(kind) /\ budget' = Charged(kind) /\ calls' = Min({calls + 1, MaxCritic + 1})
      /\ critic' = kind /\ pc' = "critic"
  BY DEF Send, Go
<1> DEFINE B == [critic : 0 .. MaxCritic, protocol : 0 .. MaxProtocol, contract : 0 .. MaxContract]
<1>2. /\ budget \in B /\ calls = budget.critic /\ calls \in Nat /\ MaxCritic \in Nat
      /\ MaxProtocol \in Nat /\ MaxContract \in Nat
  BY Constants DEF WorkInv, WorkTyped
<1>3. budget.critic < MaxCritic
  BY <1>1 DEF CanClaim
<1>4. kind = "protocol" => budget.protocol < MaxProtocol
  BY <1>1 DEF CanClaim
<1>5. kind = "contract" => budget.contract < MaxContract
  BY <1>1 DEF CanClaim
<1> DEFINE p == IF kind = "protocol" THEN budget.protocol + 1 ELSE budget.protocol
           k == IF kind = "contract" THEN budget.contract + 1 ELSE budget.contract
<1>6. p \in 0 .. MaxProtocol /\ k \in 0 .. MaxContract /\ budget.critic + 1 \in 0 .. MaxCritic
  <2>1. /\ budget.protocol \in 0 .. MaxProtocol /\ budget.contract \in 0 .. MaxContract
        /\ budget.critic \in 0 .. MaxCritic
    BY <1>2
  <2>2. p \in 0 .. MaxProtocol
    BY <1>2, <1>4, <2>1
  <2>3. k \in 0 .. MaxContract
    BY <1>2, <1>5, <2>1
  <2>4. budget.critic + 1 \in 0 .. MaxCritic
    BY <1>2, <1>3, <2>1
  <2> HIDE DEF p, k
  <2> QED
    BY <2>2, <2>3, <2>4
<1>7. Charged(kind) = [critic |-> budget.critic + 1, protocol |-> p, contract |-> k]
  <2>1. Charged(kind) = [budget EXCEPT !.critic = budget.critic + 1, !.protocol = p, !.contract = k]
    BY <1>2 DEF Charged
  <2>2. DOMAIN budget = {"critic", "protocol", "contract"}
    BY <1>2
  <2> HIDE DEF p, k
  <2> QED
    BY <1>2, <2>1, <2>2
<1> HIDE DEF p, k
<1>8. Charged(kind) \in B /\ Charged(kind).critic = budget.critic + 1
  BY <1>6, <1>7
<1>9. Min({calls + 1, MaxCritic + 1}) = calls + 1
  <2>1. calls + 1 \in Int /\ MaxCritic + 1 \in Int /\ calls + 1 <= MaxCritic + 1
    BY <1>2, <1>3
  <2> QED
    BY <2>1, MinOfTwo
<1> QED
  BY <1>1, <1>2, <1>8, <1>9

\* A call is sent: nothing is decided by it.
LEMMA SentKeeps ==
  ASSUME WorkInv, pc \in {"review", "correct", "critic"}, NEW kind \in {"none", "protocol", "contract"},
         Send(kind), UNCHANGED <<turn, s, minted, passed, fits, steers>>,
         s.changed, Applied(s.graph), s.op = "failed" => s.pending,
         left' \in Nat, limit' \in Nat, limit' >= Explained, left' >= limit'
  PROVE  WorkInv'
<1>1. /\ budget' \in [critic : 0 .. MaxCritic, protocol : 0 .. MaxProtocol,
                      contract : 0 .. MaxContract]
      /\ calls' = budget'.critic /\ calls' \in Nat /\ pc' = "critic" /\ critic' = kind
  BY SendFacts
<1>2. Legacy /\ s.pub = "unreviewed"
  BY DEF WorkInv, Entered, Candidate
<1>3. WorkTyped'
  BY <1>1 DEF WorkInv, WorkTyped, Steps
<1>4. Applied(s.graph)' = Applied(s.graph)
  BY DEF Applied
<1>5. Owned' /\ Entered' /\ Candidate' /\ Decided'
  BY <1>1, <1>2, <1>4 DEF WorkInv, Owned, Entered, Candidate, Decided, Legacy
<1>6. Pictured' /\ Approved'
  BY <1>1, <1>2, <1>4 DEF WorkInv, Pictured, Approved
<1>7. Explained' = Explained
  BY DEF Explained, AfterReview
<1>8. Timely'
  BY <1>1, <1>2, <1>7 DEF Timely
<1> QED
  BY <1>1, <1>3, <1>5, <1>6, <1>8 DEF WorkInv

LEMMA ReviewKeeps == ASSUME WorkInv, Review PROVE WorkInv'
<1>1. /\ pc \in {"review", "correct"} /\ s.changed /\ Applied(s.graph) /\ CriticTime > 0
      /\ Send(IF s.pending THEN "contract" ELSE "none")
      /\ limit' = left - CriticTime
      /\ UNCHANGED <<turn, s, left, minted, passed, fits, steers>>
  BY DEF Review
<1> DEFINE kind == IF s.pending THEN "contract" ELSE "none"
<1>2. kind \in {"none", "protocol", "contract"} /\ Send(kind)
  BY <1>1
<1> HIDE DEF kind
<1>3. s.op = "failed" => s.pending
  BY <1>1 DEF WorkInv, Candidate
<1>4. left' \in Nat /\ limit' \in Nat /\ limit' >= Explained /\ left' >= limit'
  BY <1>1, StateFields, CriticTimeFacts
<1> QED
  BY <1>1, <1>2, <1>3, <1>4, SentKeeps

LEMMA AnswerKeeps == ASSUME WorkInv, Answer PROVE WorkInv'
<1>1. pc = "critic" /\ UNCHANGED <<turn, limit, minted, fits, steers>>
  BY DEF Answer
<1>2. /\ s.changed /\ Applied(s.graph) /\ (s.op = "failed" => s.pending)
      /\ limit >= Explained /\ left >= limit /\ left \in Nat /\ limit \in Nat
      /\ s.op \in Operations /\ passed \subseteq 1 .. minted /\ s.graph \in 1 .. minted
  BY <1>1, StateFields DEF WorkInv, WorkTyped, Owned, Candidate, Timely
<1>3. left' \in Nat /\ left' >= limit
  BY <1>2 DEF Answer
<1>4. left' >= Explained
  BY <1>2, <1>3, ReserveFacts
<1>5. ASSUME NEW answer \in {"passed", "local", "terminal"},
             s' = Reviewed(answer, OpAfter(answer)), critic' = "off", pc' = "judged",
             passed' = IF answer = "passed" THEN passed \cup {s.graph} ELSE passed,
             UNCHANGED <<budget, calls>>
      PROVE  WorkInv'
  <2> DEFINE op == OpAfter(answer)
  <2>1. op \in Operations /\ (answer = "passed" => op # "failed")
    BY <1>2 DEF OpAfter, Operations
  <2>2. s' = Reviewed(answer, op)
    BY <1>5
  <2> HIDE DEF op
  <2>3. passed \subseteq passed' /\ passed' \subseteq 1 .. minted
        /\ (answer = "passed" => s.graph \in passed')
    BY <1>2, <1>5
  <2>4. critic' \in {"off", "none", "protocol", "contract"} /\ pc \in {"review", "correct", "critic"}
    BY <1>1, <1>5
  <2> QED
    BY <1>1, <1>2, <1>3, <1>4, <1>5, <2>1, <2>2, <2>3, <2>4, ConcludedKeeps
<1>6. ASSUME NEW kind \in {"none", "protocol", "contract"}, Send(kind), UNCHANGED <<s, passed>>
      PROVE  WorkInv'
  <2>1. pc \in {"review", "correct", "critic"} /\ limit' \in Nat /\ limit' >= Explained
        /\ left' >= limit'
    BY <1>1, <1>2, <1>3
  <2> QED
    BY <1>1, <1>2, <1>3, <1>6, <2>1, SentKeeps
<1>7. \/ \E answer \in {"passed", "local", "terminal"} :
           /\ s' = Reviewed(answer, OpAfter(answer))
           /\ passed' = IF answer = "passed" THEN passed \cup {s.graph} ELSE passed
           /\ critic' = "off" /\ pc' = "judged" /\ UNCHANGED <<budget, calls>>
      \/ Send("protocol") /\ UNCHANGED <<s, passed>>
      \/ Send("contract") /\ UNCHANGED <<s, passed>>
  BY DEF Answer, Go
<1>8. "protocol" \in {"none", "protocol", "contract"} /\ "contract" \in {"none", "protocol", "contract"}
  OBVIOUS
<1> QED
  BY <1>5, <1>6, <1>7, <1>8

\* What follows a verdict: the candidate is explained, repaired or rejected.
LEMMA VerdictKeeps ==
  ASSUME WorkInv, pc \in {"judged", "gate"}, pc' = Verdict,
         UNCHANGED <<turn, critic, budget, calls, limit, minted, passed, fits, steers>>,
         s' \in States, s'.graph = s.graph, s'.contract = s.contract, s'.changed = s.changed,
         s'.rounds = s.rounds, s'.op = s.op, s'.pub = s.pub, s'.rendered = s.rendered,
         s'.pending = s.pending, left' \in Nat, left >= Explained => left' >= Explained
  PROVE  WorkInv'
<1>1. /\ Legacy /\ ~s.pending /\ s.rounds \in 0 .. MaxRepairs
      /\ (s.review = "passed" => s.op # "failed" /\ (s.changed => s.pub = "approved"))
      /\ (s.review = "local" /\ s.changed => Applied(s.graph))
  BY StateFields DEF WorkInv, Entered, Decided
<1>2. /\ pc' \in {"reject", "synthesise", "revise"}
      /\ pc' = "synthesise" => ~s.changed \/ s.review = "passed"
      /\ pc' = "revise" => s.changed /\ s.review = "local" /\ s.rounds < MaxRepairs
  BY DEF Verdict
<1>3. Applied(s.graph)' = Applied(s.graph)
  BY DEF Applied
<1>4. WorkTyped'
  BY <1>2 DEF WorkInv, WorkTyped, Steps
<1>5. Owned' /\ Entered' /\ Candidate'
  BY <1>1, <1>2 DEF WorkInv, Owned, Entered, Candidate, Legacy
<1>6. Decided'
  BY <1>1, <1>2, <1>3 DEF Decided
<1>7. Pictured'
  BY <1>2, <1>3 DEF WorkInv, Pictured
<1>8. Approved'
  BY <1>3 DEF WorkInv, Approved, Legacy
<1>9. Explained' = Explained
  BY DEF Explained, AfterReview
<1>10. Timely'
  BY <1>1, <1>2, <1>9 DEF WorkInv, Timely, Legacy
<1>11. calls' = budget'.critic
  BY DEF WorkInv
<1> QED
  BY <1>4, <1>5, <1>6, <1>7, <1>8, <1>10, <1>11 DEF WorkInv

LEMMA JudgedKeeps == ASSUME WorkInv, Judged PROVE WorkInv'
<1>1. /\ pc \in {"judged", "gate"} /\ pc' = Verdict
      /\ UNCHANGED <<s, left, minted, turn, critic, budget, calls, limit, passed, fits, steers>>
  BY DEF Judged, Quiet, Go
<1> QED
  BY <1>1, StateFields, VerdictKeeps

LEMMA JudgedWithPlanKeeps == ASSUME WorkInv, JudgedWithPlan PROVE WorkInv'
<1>1. /\ pc = "judged" /\ s.parallel /\ minted' = minted
      /\ UNCHANGED <<turn, critic, budget, calls, limit, passed, fits, steers>>
  BY DEF JudgedWithPlan, Quiet
<1>2. \/ /\ pc' = (IF s.review = "passed" THEN "frame" ELSE Verdict)
         /\ s' = [s EXCEPT !.parallel = (s.review = "passed")]
      \/ /\ pc' = "reject"
         /\ s' = [s EXCEPT !.parallel = FALSE, !.review = "terminal",
                           !.pub = IF s.changed THEN "withheld" ELSE "none"]
  BY DEF JudgedWithPlan, Go
<1>3. PICK d \in 0 .. ArchitectTime : left' = left - d
  BY DEF JudgedWithPlan
<1>4. left' \in Nat /\ (left >= Explained => left' >= Explained)
  BY <1>3, ArchitectTimeFacts
<1>5. /\ s \in States /\ Legacy /\ ~s.pending
      /\ (s.review = "passed" => s.op # "failed" /\ (s.changed => s.pub = "approved"))
  BY <1>1, StateFields DEF WorkInv, Entered, Decided
<1>6. ASSUME pc' = (IF s.review = "passed" THEN "frame" ELSE Verdict),
             s' = [s EXCEPT !.parallel = (s.review = "passed")]
      PROVE  WorkInv'
  <2> DEFINE par == s.review = "passed"
  <2>1. par \in BOOLEAN /\ s' = [s EXCEPT !.parallel = par]
    BY <1>6
  <2>2. s' \in States
    <3> HIDE DEF par
    <3> QED
      BY <1>5, <2>1, FieldTyped
  <2>3. /\ s'.graph = s.graph /\ s'.contract = s.contract /\ s'.changed = s.changed
        /\ s'.rounds = s.rounds /\ s'.op = s.op /\ s'.pub = s.pub /\ s'.rendered = s.rendered
        /\ s'.pending = s.pending /\ s'.review = s.review /\ s'.parallel = par
    BY <1>5, <1>6 DEF States
  <2>4. CASE s.review # "passed"
    BY <1>1, <1>4, <1>6, <2>2, <2>3, <2>4, VerdictKeeps
  <2>5. CASE s.review = "passed"
    <3>1. pc' = "frame" /\ s'.parallel
      BY <1>6, <2>3, <2>5
    <3>2. Applied(s.graph)' = Applied(s.graph)
      BY <1>1, <2>3 DEF Applied
    <3>3. WorkTyped'
      BY <1>1, <1>4, <2>2, <2>3, <3>1 DEF WorkInv, WorkTyped, Steps
    <3>4. Owned' /\ Entered' /\ Candidate' /\ Decided'
      BY <1>1, <1>5, <2>3, <2>5, <3>1
         DEF WorkInv, Owned, Entered, Candidate, Decided, Legacy
    <3>5. Pictured' /\ Approved'
      BY <1>1, <2>3, <3>1, <3>2 DEF WorkInv, Pictured, Approved, Legacy
    <3>6. Explained' = Explained
      BY DEF Explained, AfterReview
    <3>7. Timely' /\ calls' = budget'.critic
      BY <1>1, <1>4, <2>3, <3>1, <3>6 DEF WorkInv, Timely, Legacy
    <3> QED
      BY <3>3, <3>4, <3>5, <3>7 DEF WorkInv
  <2> QED
    BY <2>4, <2>5
<1>7. ASSUME pc' = "reject",
             s' = [s EXCEPT !.parallel = FALSE, !.review = "terminal",
                            !.pub = IF s.changed THEN "withheld" ELSE "none"]
      PROVE  WorkInv'
  <2> DEFINE pub == IF s.changed THEN "withheld" ELSE "none"
             a == [s EXCEPT !.parallel = FALSE]
             b == [a EXCEPT !.review = "terminal"]
  <2>1. pub \in Publications /\ "terminal" \in Reviews /\ FALSE \in BOOLEAN /\ pub # "approved"
    BY DEF Publications, Reviews
  <2>2. a \in States
    BY <1>5, <2>1, FieldTyped
  <2>3. b \in States
    <3> HIDE DEF a
    <3> QED
      BY <2>1, <2>2, FieldTyped
  <2>4. s' = [b EXCEPT !.pub = pub]
    BY <1>7
  <2>5. s' \in States
    <3> HIDE DEF b, pub
    <3> QED
      BY <2>1, <2>3, <2>4, FieldTyped
  <2>6. /\ s'.graph = s.graph /\ s'.contract = s.contract /\ s'.changed = s.changed
        /\ s'.pub = pub
    BY <1>5, <1>7 DEF States
  <2>7. Owned' /\ s'.graph <= minted' /\ minted' \in Nat /\ minted' >= minted
    BY <1>1, <2>6 DEF WorkInv, WorkTyped, Owned
  <2> HIDE DEF pub
  <2> QED
    BY <1>1, <1>4, <1>5, <1>7, <2>1, <2>5, <2>6, <2>7, GivenUpKeeps
<1> QED
  BY <1>2, <1>6, <1>7

(***************************************************************************)
(* Repairs, the rejection and the explanation.                             *)
(***************************************************************************)

\* A repair that is admitted leaves its review, the later repairs and the explanation
\* their time.
LEMMA PatchTimeFacts ==
  ASSUME WorkInv, pc = "revise"
  PROVE  /\ PatchTime \in 0 .. left /\ s.rounds + 1 \in 0 .. MaxRepairs
         /\ (MaxRepairs - s.rounds - 1 + CorrectionsLeft) * Repair \in Nat
         /\ PatchTime > 0 =>
              left - PatchTime >= Reserve.critic + Explained
                                    + (MaxRepairs - s.rounds - 1 + CorrectionsLeft) * Repair
<1>1. s.rounds < MaxRepairs /\ s.rounds \in Nat /\ MaxRepairs \in Nat /\ CorrectionsLeft \in Nat
  BY StateFields, ReserveFacts, Constants DEF WorkInv, Decided
<1>2. /\ PatchTime \in 0 .. left
      /\ PatchTime > 0 => left - PatchTime >= PatchReserve + Reserve.orchestration
  BY <1>1, StateFields, ReserveFacts, Constants, AllowedFacts DEF PatchTime
<1> DEFINE n == MaxRepairs - s.rounds - 1 + CorrectionsLeft
           time == n * Repair
<1>3. n \in Nat
  BY <1>1
<1>4. time \in Nat
  <2> HIDE DEF n
  <2> QED
    BY <1>3, RoundsCost
<1>5. PatchReserve = Reserve.critic + AfterReview + time
  BY DEF PatchReserve
<1>6. s.rounds + 1 \in 0 .. MaxRepairs
  BY <1>1
<1> HIDE DEF time
<1>7. PatchTime > 0 => left - PatchTime >= Reserve.critic + Explained + time
  BY <1>2, <1>4, <1>5, StateFields, ReserveFacts, Constants DEF Explained
<1> QED
  BY <1>2, <1>4, <1>6, <1>7 DEF time

LEMMA UnrepairedKeeps == ASSUME WorkInv, Unrepaired PROVE WorkInv'
<1>1. /\ pc = "revise" /\ left' = left - PatchTime /\ pc' = "reject" /\ minted' = minted
      /\ s' = [Restored(Kept) EXCEPT !.op = "failed"]
      /\ UNCHANGED <<turn, critic, budget, calls, limit, passed, fits, steers>>
  BY DEF Unrepaired, Quiet, Go
<1>2. left' \in Nat
  BY <1>1, StateFields, PatchTimeFacts
<1>3. turn \in Turns /\ s \in States /\ Legacy /\ Kept \in Publications /\ Kept # "approved"
      /\ "failed" \in Operations
  BY <1>1, StateFields, KeptTyped DEF WorkInv, Entered, Operations
<1>4. /\ s' \in States /\ s'.graph = Prior(turn) /\ s'.contract = turn.contract
      /\ ~s'.changed /\ s'.pub = Kept
  BY <1>1, <1>3, RestoredFields
<1>5. Owned'
  BY <1>1, <1>4 DEF Owned
<1>6. s'.graph <= minted' /\ minted' \in Nat /\ minted' >= minted
  BY <1>1, <1>3, <1>4, PriorFacts DEF WorkInv, WorkTyped
<1> QED
  BY <1>1, <1>2, <1>3, <1>4, <1>5, <1>6, GivenUpKeeps

LEMMA RepairingFacts ==
  ASSUME WorkInv, Repairing
  PROVE  /\ pc = "revise" /\ left' \in Nat /\ s \in States /\ Legacy /\ ~s.pending
         /\ s.changed /\ Applied(s.graph) /\ s.graph > 1 /\ turn.intent # "none"
         /\ left' >= Reserve.critic + Explained
                       + (MaxRepairs - s.rounds - 1 + CorrectionsLeft) * Repair
<1>1. pc = "revise" /\ PatchTime > 0
  BY DEF Repairing
<1>2. PICK d \in 0 .. PatchTime : left' = left - d
  BY DEF Repairing
<1> DEFINE need == Reserve.critic + Explained
                     + (MaxRepairs - s.rounds - 1 + CorrectionsLeft) * Repair
<1>3. PatchTime \in 0 .. left /\ left - PatchTime >= need /\ need \in Nat
  BY <1>1, PatchTimeFacts, ReserveFacts, Constants
<1> HIDE DEF need
<1>4. left' \in Nat /\ left' >= need
  BY <1>2, <1>3, StateFields
<1>5. /\ s \in States /\ Legacy /\ ~s.pending /\ s.changed /\ Applied(s.graph) /\ s.graph > 1
  BY <1>1, StateFields DEF WorkInv, Entered, Decided, Owned
<1>6. turn.intent # "none"
  BY <1>5, StateFields DEF Applied
<1> QED
  BY <1>1, <1>4, <1>5, <1>6 DEF need

LEMMA RepairedKeeps == ASSUME WorkInv, Repaired PROVE WorkInv'
<1>1. /\ Repairing /\ minted' = minted + 1 /\ pc' = "render"
      /\ s' = [Drawn(minted') EXCEPT !.rounds = @ + 1, !.pub = "unreviewed"]
      /\ UNCHANGED <<turn, critic, budget, calls, limit, passed, fits, steers>>
  BY DEF Repaired, Quiet, Go
<1> DEFINE r == Drawn(minted')
           a == [r EXCEPT !.rounds = s.rounds + 1]
<1>2. /\ pc = "revise" /\ minted' \in Nat /\ minted >= 1 /\ minted \in Nat /\ s \in States
      /\ Legacy /\ turn.intent # "none" /\ ~s.pending /\ left' \in Nat
  BY <1>1, RepairingFacts, StateFields DEF WorkInv, WorkTyped
<1>3. /\ r \in States /\ r.graph = minted' /\ r.contract = None /\ r.changed
      /\ r.op = "candidate" /\ r.rounds = s.rounds /\ r.pending = s.pending
  BY <1>2, DrawnFields
<1>4. s.rounds + 1 \in 0 .. MaxRepairs /\ "unreviewed" \in Publications
  BY <1>2, PatchTimeFacts DEF Publications
<1> HIDE DEF r
<1>5. a \in States
  BY <1>3, <1>4, FieldTyped
<1>6. s' = [a EXCEPT !.pub = "unreviewed"]
  BY <1>1, <1>3 DEF r
<1>7. /\ a.graph = minted' /\ a.contract = None /\ a.changed /\ a.op = "candidate"
      /\ a.rounds = s.rounds + 1 /\ a.pending = s.pending
  BY <1>3, <1>4 DEF States
<1> HIDE DEF a
<1>8. s' \in States
  BY <1>4, <1>5, <1>6, FieldTyped
<1>9. /\ s'.graph = minted' /\ s'.contract = None /\ s'.changed /\ s'.op = "candidate"
      /\ s'.rounds = s.rounds + 1 /\ s'.pending = s.pending /\ s'.pub = "unreviewed"
  BY <1>5, <1>6, <1>7 DEF States
<1>10. WorkTyped'
  BY <1>1, <1>2, <1>8, <1>9 DEF WorkInv, WorkTyped, Steps
<1>11. Owned' /\ Entered' /\ Candidate' /\ Decided' /\ Pictured' /\ Approved'
  BY <1>1, <1>2, <1>9
     DEF Owned, Entered, Candidate, Decided, Pictured, Approved, Legacy
<1> DEFINE time == (MaxRepairs - s.rounds - 1 + CorrectionsLeft) * Repair
<1>12. RepairsLeft' = time
  <2>1. CorrectionsLeft' = CorrectionsLeft /\ Repair' = Repair
    BY <1>1 DEF CorrectionsLeft, Repair
  <2>2. MaxRepairs - s'.rounds = MaxRepairs - s.rounds - 1
    BY <1>9, StateFields, Constants
  <2> QED
    BY <2>1, <2>2 DEF RepairsLeft
<1>13. left' >= Reserve.critic + Explained + time
  BY <1>1, RepairingFacts
<1> HIDE DEF time
<1>14. Explained' = Explained
  BY DEF Explained, AfterReview
<1>15. Timely'
  BY <1>1, <1>9, <1>12, <1>13, <1>14 DEF Timely
<1>16. calls' = budget'.critic
  BY <1>1 DEF WorkInv
<1> QED
  BY <1>10, <1>11, <1>15, <1>16 DEF WorkInv

LEMMA RepairRejectedKeeps == ASSUME WorkInv, RepairRejected PROVE WorkInv'
<1>1. /\ Repairing /\ minted' = minted
      /\ UNCHANGED <<turn, critic, budget, calls, limit, passed, fits, steers>>
  BY DEF RepairRejected, Quiet
<1>2. PICK pending \in {FALSE, CanClaim("contract")} :
        s' = PatchRejected(pending) /\ pc' = IF pending THEN "correct" ELSE "reject"
  BY DEF RepairRejected, Go
<1>3. /\ pc = "revise" /\ s \in States /\ Legacy /\ ~s.pending /\ left' \in Nat
      /\ s.changed /\ Applied(s.graph)
  BY <1>1, RepairingFacts
<1>4. pending \in BOOLEAN /\ (pending => budget.contract < MaxContract)
  BY <1>2 DEF CanClaim
<1>5. /\ s' \in States /\ s'.graph = s.graph /\ s'.contract = s.contract
      /\ s'.changed = s.changed /\ s'.rounds = s.rounds /\ s'.rendered = s.rendered
      /\ s'.pending = pending /\ s'.pub = "unreviewed"
  <2> DEFINE a == [s EXCEPT !.op = "failed"]
             b == [a EXCEPT !.pub = "unreviewed"]
  <2>1. "failed" \in Operations /\ "unreviewed" \in Publications
    BY DEF Operations, Publications
  <2>2. a \in States
    BY <1>3, <2>1, FieldTyped
  <2>3. b \in States
    <3> HIDE DEF a
    <3> QED
      BY <2>1, <2>2, FieldTyped
  <2>4. s' = [b EXCEPT !.pending = pending]
    BY <1>2 DEF PatchRejected
  <2>5. s' \in States
    <3> HIDE DEF b
    <3> QED
      BY <1>4, <2>3, <2>4, FieldTyped
  <2>6. /\ s'.graph = s.graph /\ s'.contract = s.contract
        /\ s'.changed = s.changed /\ s'.rounds = s.rounds /\ s'.rendered = s.rendered
        /\ s'.pending = pending /\ s'.pub = "unreviewed"
    BY <1>2, <1>3 DEF PatchRejected, States
  <2> QED
    BY <2>5, <2>6
<1>6. Owned' /\ s'.graph <= minted' /\ minted' \in Nat /\ minted' >= minted
  BY <1>1, <1>5 DEF WorkInv, WorkTyped, Owned
<1>7. CASE ~pending
  BY <1>1, <1>2, <1>3, <1>5, <1>6, <1>7, GivenUpKeeps
<1>8. CASE pending
  <2>1. pc' = "correct" /\ s'.pending
    BY <1>2, <1>5, <1>8
  <2>2. Applied(s.graph)' = Applied(s.graph)
    BY <1>1, <1>5 DEF Applied
  <2>3. WorkTyped'
    BY <1>1, <1>3, <1>5, <1>6, <2>1 DEF WorkInv, WorkTyped, Steps
  <2>4. Entered' /\ Candidate' /\ Decided'
    BY <1>1, <1>3, <1>5, <2>1, <2>2 DEF Entered, Candidate, Decided, Legacy
  <2>5. Pictured' /\ Approved'
    BY <1>1, <1>3, <1>5, <2>1, <2>2 DEF WorkInv, Pictured, Approved, Legacy
  <2> DEFINE n == MaxRepairs - s.rounds
             m == MaxRepairs - s.rounds - 1 + CorrectionsLeft
  <2>6. n \in Nat /\ m \in Nat /\ n <= m
    BY <1>4, <1>8, StateFields, Constants DEF CorrectionsLeft
  <2>7. n * Repair \in Nat /\ m * Repair \in Nat /\ n * Repair <= m * Repair
    <3> HIDE DEF n, m
    <3>1. m <= m
      BY <2>6
    <3> QED
      BY <2>6, <3>1, RoundsCost
  <2>8. left' >= Reserve.critic + Explained + m * Repair
    BY <1>1, RepairingFacts
  <2>9. left' >= Reserve.critic + Explained + n * Repair
    <3> HIDE DEF n, m
    <3> DEFINE x == n * Repair
               y == m * Repair
    <3>1. x \in Nat /\ y \in Nat /\ x <= y /\ left' >= Reserve.critic + Explained + y
      BY <2>7, <2>8
    <3> HIDE DEF x, y
    <3>2. left' >= Reserve.critic + Explained + x
      BY <1>3, <3>1, ReserveFacts, Constants
    <3> QED
      BY <3>2 DEF x
  <2>10. (MaxRepairs - s.rounds)' = n /\ Repair' = Repair /\ Explained' = Explained
    BY <1>5 DEF Repair, Explained, AfterReview
  <2>11. left' >= Reserve.critic + Explained' + (MaxRepairs - s'.rounds) * Repair'
    BY <2>9, <2>10
  <2>12. Timely'
    BY <1>5, <2>1, <2>11 DEF Timely
  <2>13. calls' = budget'.critic
    BY <1>1 DEF WorkInv
  <2> QED
    BY <1>6, <2>3, <2>4, <2>5, <2>12, <2>13 DEF WorkInv
<1> QED
  BY <1>7, <1>8

LEMMA RejectKeeps == ASSUME WorkInv, Reject PROVE WorkInv'
<1> DEFINE pub == IF Prior(turn) # None THEN "preserved"
                  ELSE IF s.pub \in {"unreviewed", "withheld"} \/ s.changed THEN "withheld"
                  ELSE "none"
           op == IF s.op = "none" THEN s.op ELSE "failed"
           r == Restored(pub)
<1>1. /\ pc = "reject" /\ pc' = "synthesise"
      /\ s' = [r EXCEPT !.op = IF @ = "none" THEN @ ELSE "failed"]
      /\ UNCHANGED <<left, minted, turn, critic, budget, calls, limit, passed, fits, steers>>
  BY DEF Reject, Quiet, Go
<1>2. turn \in Turns /\ s \in States /\ Legacy
  BY <1>1, StateFields DEF WorkInv, Entered
<1>3. /\ pub \in Publications /\ op \in Operations
      /\ pub \in {"preserved", "withheld", "none"}
  BY StateFields DEF Publications, Operations
<1> HIDE DEF pub
<1>4. r \in States /\ r.op = s.op
  BY <1>2, <1>3, RestoredFields
<1>5. s' = [r EXCEPT !.op = op]
  <2> HIDE DEF r
  <2> QED
    BY <1>1, <1>4
<1> HIDE DEF op
<1>6. /\ s' \in States /\ s'.graph = Prior(turn) /\ s'.contract = turn.contract
      /\ ~s'.changed /\ s'.pub = pub
  BY <1>2, <1>3, <1>5, RestoredFields
<1>7. WorkTyped'
  BY <1>1, <1>2, <1>6, PriorFacts DEF WorkInv, WorkTyped, Steps
<1>8. Owned' /\ Entered' /\ Candidate' /\ Decided' /\ Pictured'
  BY <1>1, <1>3, <1>6 DEF Owned, Entered, Candidate, Decided, Pictured, Legacy
<1>9. Approved' /\ Timely' /\ calls' = budget'.critic
  BY <1>1, <1>3, <1>6 DEF WorkInv, Approved, Timely
<1> QED
  BY <1>7, <1>8, <1>9 DEF WorkInv

\* The last resort of the explanation changes what is published only of an unchanged diagram.
LEMMA FailClosedFields ==
  ASSUME WorkInv, pc = "synthesise"
  PROVE  LET n == FailClosed IN
         /\ n \in States /\ n.graph = s.graph /\ n.contract = s.contract
         /\ n.changed = s.changed /\ n.op = s.op /\ n.pub # "unreviewed"
         /\ n.pub = s.pub \/ n.pub \in {"preserved", "withheld"}
<1>1. s \in States /\ turn \in Turns
  BY StateFields
<1>2. CASE s.pub \notin {"unreviewed", "withheld"}
  BY <1>1, <1>2 DEF FailClosed
<1>3. CASE s.pub \in {"unreviewed", "withheld"}
  <2> DEFINE pub == IF Prior(turn) # None THEN "preserved" ELSE "withheld"
             a == [s EXCEPT !.graph = Prior(turn)]
             b == [a EXCEPT !.changed = FALSE]
             n == [b EXCEPT !.pub = pub]
  <2>1. ~s.changed /\ s.graph = Prior(turn)
    BY <1>3 DEF WorkInv, Decided, Owned
  <2>2. /\ pub \in Publications /\ pub \in {"preserved", "withheld"} /\ FALSE \in BOOLEAN
        /\ Prior(turn) \in Nat
    BY <1>1, PriorFacts DEF Publications
  <2>3. a \in States
    BY <1>1, <2>2, FieldTyped
  <2>4. b \in States
    <3> HIDE DEF a
    <3> QED
      BY <2>2, <2>3, FieldTyped
  <2>5. n \in States
    <3> HIDE DEF b, pub
    <3> QED
      BY <2>2, <2>4, FieldTyped
  <2>6. FailClosed = n
    BY <1>3 DEF FailClosed
  <2>7. /\ n.graph = s.graph /\ n.contract = s.contract /\ n.changed = s.changed
        /\ n.op = s.op /\ n.pub = pub
    <3> HIDE DEF pub
    <3> QED
      BY <1>1, <2>1 DEF States
  <2> HIDE DEF n, pub
  <2> QED
    BY <2>2, <2>5, <2>6, <2>7
<1> QED
  BY <1>2, <1>3

LEMMA SynthesiseKeeps == ASSUME WorkInv, Synthesise PROVE WorkInv'
<1>1. /\ pc = "synthesise" /\ pc' \in {"ended", "raised"} /\ s' = FailClosed
      /\ UNCHANGED <<left, minted, turn, critic, budget, calls, limit, passed, fits, steers>>
  BY DEF Synthesise, Quiet, Go
<1>2. /\ s' \in States /\ s'.graph = s.graph /\ s'.contract = s.contract
      /\ s'.changed = s.changed /\ s'.op = s.op /\ s'.pub # "unreviewed"
      /\ s'.pub = s.pub \/ s'.pub \in {"preserved", "withheld"}
  BY <1>1, FailClosedFields
<1>3. /\ s.op = "failed" => ~s.changed
      /\ s.changed => s.pub \in {"approved", "user_accepted"}
  BY <1>1 DEF WorkInv, Decided
<1>4. s.changed => s'.pub = s.pub
  <2>1. s.pub \notin {"unreviewed", "withheld"} => s'.pub = s.pub
    BY <1>1 DEF FailClosed
  <2> QED
    BY <1>3, <2>1
<1>5. Applied(s.graph)' = Applied(s.graph)
  BY <1>1, <1>2 DEF Applied
<1>6. WorkTyped'
  BY <1>1, <1>2 DEF WorkInv, WorkTyped, Steps
<1>7. Owned' /\ Entered' /\ Candidate' /\ Decided' /\ Pictured'
  BY <1>1, <1>2, <1>3, <1>4
     DEF WorkInv, Owned, Entered, Candidate, Decided, Pictured, Legacy
<1>8. Approved'
  BY <1>1, <1>2, <1>5 DEF WorkInv, Approved, Legacy
<1>9. Explained' = Explained
  BY DEF Explained, AfterReview
<1>10. Timely' /\ calls' = budget'.critic
  BY <1>1, <1>2, <1>9 DEF WorkInv, Timely, Legacy
<1> QED
  BY <1>6, <1>7, <1>8, <1>10 DEF WorkInv

LEMMA SteerKeeps == ASSUME WorkInv, Steer PROVE WorkInv'
<1>1. /\ steers' = steers + 1 /\ pc' = "route" /\ critic' = "off"
      /\ UNCHANGED <<budget, calls, left, limit, minted, passed, fits>>
  BY DEF Steer, Go
<1>2. PICK t \in Turns :
        /\ t.prior = turn.prior /\ t.contract = turn.contract
        /\ turn' = t /\ s' = Fresh(t)
  BY DEF Steer
<1>3. turn' \in Turns /\ s' = Fresh(turn)'
  BY <1>2 DEF Fresh, Prior
<1>4. /\ s' \in States /\ s'.graph = Prior(turn') /\ s'.contract = turn'.contract
      /\ ~s'.changed /\ s'.pub \in {"none", "unchanged"}
  BY <1>2, FreshFields
<1>5. s'.graph \in {0, 1}
  BY <1>2, <1>4 DEF Prior, None
<1>6. WorkTyped'
  BY <1>1, <1>3, <1>4, <1>5 DEF WorkInv, WorkTyped, Steps
<1>7. Owned' /\ Entered' /\ Candidate' /\ Decided' /\ Pictured'
  BY <1>1, <1>3, <1>4 DEF Owned, Entered, Candidate, Decided, Pictured, Legacy
<1>8. Approved' /\ Timely' /\ calls' = budget'.critic
  BY <1>1, <1>4 DEF WorkInv, Approved, Timely
<1> QED
  BY <1>6, <1>7, <1>8 DEF WorkInv

LEMMA WorkStarts == Init => WorkInv
<1> SUFFICES ASSUME Init PROVE WorkInv
  OBVIOUS
<1>1. /\ turn \in Turns /\ left \in Nat /\ pc = "route" /\ s = Fresh(turn) /\ critic = "off"
      /\ budget = [critic |-> 0, protocol |-> 0, contract |-> 0]
      /\ calls = 0 /\ limit = 0 /\ minted = 1 /\ passed = {} /\ fits = {} /\ steers = 0
  BY Constants DEF Init
<1>2. /\ s \in States /\ s.graph = Prior(turn) /\ s.contract = turn.contract /\ ~s.changed
      /\ s.pub \in {"none", "unchanged"}
  BY <1>1, FreshFields
<1>3. budget \in [critic : 0 .. MaxCritic, protocol : 0 .. MaxProtocol,
                  contract : 0 .. MaxContract]
  BY <1>1, Constants
<1>4. WorkTyped
  BY <1>1, <1>2, <1>3, PriorFacts DEF WorkTyped, Steps
<1>5. Owned /\ Entered /\ Candidate /\ Decided /\ Pictured
  BY <1>1, <1>2 DEF Owned, Entered, Candidate, Decided, Pictured, Legacy
<1>6. Approved /\ Timely /\ calls = budget.critic
  BY <1>1, <1>2 DEF Approved, Timely
<1> QED
  BY <1>4, <1>5, <1>6 DEF WorkInv

LEMMA WorkStutters == ASSUME WorkInv, UNCHANGED vars PROVE WorkInv'
<1>1. UNCHANGED <<turn, pc, s, critic, budget, calls, left, limit, minted, passed, fits, steers>>
  BY DEF vars
<1>2. /\ Applied(s.graph)' = Applied(s.graph) /\ Explained' = Explained
      /\ RepairsLeft' = RepairsLeft /\ Repair' = Repair /\ Prior(turn)' = Prior(turn)
      /\ Fresh(turn)' = Fresh(turn)
  BY <1>1 DEF Applied, Explained, AfterReview, RepairsLeft, CorrectionsLeft, Repair, Prior, Fresh
<1>3. WorkTyped' /\ Owned' /\ Entered' /\ Candidate' /\ Decided' /\ Pictured' /\ Approved'
  BY <1>1, <1>2 DEF WorkInv, WorkTyped, Owned, Entered, Candidate, Decided, Pictured,
                    Approved, Legacy
<1>4. Timely' /\ calls' = budget'.critic
  BY <1>1, <1>2 DEF WorkInv, Timely, Legacy
<1> QED
  BY <1>3, <1>4 DEF WorkInv

LEMMA WorkSteps == WorkInv /\ [Next]_vars => WorkInv'
<1> SUFFICES ASSUME WorkInv, [Next]_vars PROVE WorkInv'
  OBVIOUS
<1>1. CASE Answered
  BY <1>1, AnsweredKeeps
<1>2. CASE Routed
  BY <1>2, RoutedKeeps
<1>3. CASE Staged
  BY <1>3, StagedKeeps
<1>4. CASE DraftDesign \/ DraftFails \/ DraftConcept \/ DraftKept \/ DraftTimesOut
  BY <1>4, DraftsKeep
<1>5. CASE Render
  BY <1>5, RenderKeeps
<1>6. CASE Architect
  BY <1>6, ArchitectKeeps
<1>7. CASE Frame
  BY <1>7, FrameKeeps
<1>8. CASE Accepted
  BY <1>8, AcceptedKeeps
<1>9. CASE Review
  BY <1>9, ReviewKeeps
<1>10. CASE Unreviewed
  BY <1>10, UnreviewedKeeps
<1>11. CASE Answer
  BY <1>11, AnswerKeeps
<1>12. CASE Judged
  BY <1>12, JudgedKeeps
<1>13. CASE JudgedWithPlan
  BY <1>13, JudgedWithPlanKeeps
<1>14. CASE Unrepaired
  BY <1>14, UnrepairedKeeps
<1>15. CASE Repaired
  BY <1>15, RepairedKeeps
<1>16. CASE RepairRejected
  BY <1>16, RepairRejectedKeeps
<1>17. CASE Reject
  BY <1>17, RejectKeeps
<1>18. CASE Synthesise
  BY <1>18, SynthesiseKeeps
<1>19. CASE Steer
  BY <1>19, SteerKeeps
<1>20. CASE UNCHANGED vars
  BY <1>20, WorkStutters
<1> QED
  BY <1>1, <1>2, <1>3, <1>4, <1>5, <1>6, <1>7, <1>8, <1>9, <1>10, <1>11, <1>12, <1>13, <1>14,
     <1>15, <1>16, <1>17, <1>18, <1>19, <1>20 DEF Next, Work

LEMMA WorkInvAlways == Spec => []WorkInv
BY WorkStarts, WorkSteps, PTL DEF Spec

(***************************************************************************)
(* The theorems.                                                           *)
(***************************************************************************)

\* The state of a run is well formed: among others no repair beyond the limit, no call
\* beyond the budget of the request, and no approval of a diagram that was never made.
THEOREM WorkflowTypeCorrect == Spec => []TypeOK
<1>1. WorkInv => TypeOK
  BY DEF WorkInv, WorkTyped, TypeOK, States, Operations, Publications, Reviews
<1> QED
  BY <1>1, WorkInvAlways, PTL

\* What the legacy lane publishes as approved is the candidate a reviewer approved, with the
\* layout the browser check admitted; a reviewer judges the picture of the candidate before
\* it; and what a run returns belongs together (run_graph_review, graph_critic_node,
\* _restore_approved_graph_state, synthesise).
THEOREM ResultsWereReviewed == Spec => []ReviewsAreOfTheResult
<1>1. WorkInv => PublishedWasReviewed
  BY DEF WorkInv, Approved, PublishedWasReviewed, Legacy
<1>2. WorkInv => ReviewSeesItsCandidate
  BY DEF WorkInv, Candidate, Pictured, Owned, ReviewSeesItsCandidate
<1>3. WorkInv => ReturnIsWhole
  <2> SUFFICES ASSUME WorkInv, pc = "ended"
               PROVE  /\ s.op = "failed" \/ s.pub \in {"preserved", "withheld"} =>
                           s.graph = Prior(turn) /\ s.contract = turn.contract /\ ~s.changed
                      /\ s.contract # None => s.contract = s.graph
                      /\ s.pub # "unreviewed"
    BY DEF ReturnIsWhole
  <2>1. /\ s.op = "failed" => ~s.changed
        /\ s.changed => s.pub \in {"approved", "user_accepted"}
        /\ s.pub # "unreviewed"
    BY DEF WorkInv, Decided
  <2>2. /\ ~s.changed => s.graph = Prior(turn) /\ s.contract = turn.contract
        /\ s.changed => s.contract \in {None, s.graph}
    BY DEF WorkInv, Owned
  <2>3. turn.contract \in {0, 1} /\ (turn.contract = 1 => Prior(turn) = 1)
    BY StateFields, PriorFacts
  <2> QED
    BY <2>1, <2>2, <2>3 DEF None
<1> QED
  BY <1>1, <1>2, <1>3, WorkInvAlways, PTL DEF ReviewsAreOfTheResult

\* The reviewer is called no more often than the request allows, whatever is cancelled, and
\* the time set aside for a review and for the explanation is there when they begin
\* (graph_review_budget.py, deadlines.py).
THEOREM BudgetsAreKept == Spec => []BudgetsHold
<1>1. WorkInv => CallsWithinCeiling
  BY StateFields, Constants DEF WorkInv, CallsWithinCeiling
<1>2. ASSUME WorkInv, pc = "correct" \/ (pc = "review" /\ s.rounds > 0) PROVE CriticTime > 0
  <2>1. /\ left \in Nat /\ CriticReserve \in Nat /\ Cap.critic \in Nat /\ Cap.critic > 0
        /\ Reserve.critic > Cap.render /\ Reserve.critic \in Nat /\ Cap.render \in Nat
        /\ Reserve.orchestration \in Nat /\ AfterReview \in Nat
    BY <1>2, StateFields, ReserveFacts, Constants, ReserveAssumption
  <2>2. left > CriticReserve + Reserve.orchestration
    <3>1. CASE pc = "correct"
      <4> DEFINE x == (MaxRepairs - s.rounds) * Repair
      <4>1. /\ s.pending /\ left >= Reserve.critic + Explained + x
            /\ CriticReserve = AfterReview + x
        BY <1>2, <3>1, ReserveFacts DEF WorkInv, Candidate, Timely
      <4>2. x \in Int
        BY <1>2, <2>1, <4>1, StateFields, Constants, ReserveFacts
      <4> HIDE DEF x
      <4> QED
        BY <2>1, <4>1, <4>2 DEF Explained
    <3>2. CASE pc = "review" /\ s.rounds > 0
      <4>1. ~s.pending /\ left + Cap.render >= Reserve.critic + Explained + RepairsLeft
        BY <1>2, <3>2 DEF WorkInv, Candidate, Timely
      <4>2. CriticReserve <= AfterReview + RepairsLeft /\ RepairsLeft \in Nat
        BY <1>2, <4>1, ReserveFacts
      <4> QED
        BY <2>1, <4>1, <4>2 DEF Explained
    <3> QED
      BY <1>2, <3>1, <3>2
  <2> QED
    BY <2>1, <2>2, AllowedFacts DEF CriticTime
<1>3. ASSUME WorkInv, turn.lane = "legacy", s.pub = "approved"
      PROVE  SynthesisTime = Reserve.synthesis
  <2>1. left >= Explained /\ left \in Nat /\ Reserve.synthesis \in Nat
        /\ Reserve.finalization \in Nat /\ Reserve.orchestration \in Nat
    BY <1>3, StateFields, Constants DEF WorkInv, Timely, Legacy
  <2>2. left >= Reserve.synthesis + Reserve.finalization + Reserve.orchestration
    BY <2>1 DEF Explained, AfterReview
  <2> QED
    BY <2>1, <2>2, AllowedFacts DEF SynthesisTime
<1>4. WorkInv => ReservesHold
  BY <1>2, <1>3 DEF ReservesHold
<1> QED
  BY <1>1, <1>4, WorkInvAlways, PTL DEF BudgetsHold
=============================================================================
