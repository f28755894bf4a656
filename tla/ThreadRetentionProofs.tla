------------------------ MODULE ThreadRetentionProofs ------------------------
(***************************************************************************)
(* Theorems of ThreadRetention, for any number of threads and turns and    *)
(* any cap.                                                                *)
(***************************************************************************)
EXTENDS ThreadRetention, FiniteSetTheorems, TLAPS

\* A transaction selects threads of the set it is shown, none that is active.
LEMMA ExcessOfSet ==
  ASSUME NEW S, NEW time
  PROVE  Excess(S, time) \subseteq S
  BY DEF Excess

LEMMA LockedTyped ==
  ASSUME TypeOK, NEW o \in Threads \cup Turns, NEW V \in SUBSET Threads, Locked(o, V)
  PROVE  /\ lock' \in [owner : Threads \cup Turns \cup {Nobody}, victims : SUBSET Threads,
                       spared : SUBSET Threads, conversations : SUBSET Threads,
                       ages : [Threads -> Nat]]
         /\ lock'.owner = o /\ lock'.victims = V
         /\ lock'.conversations = saved \cap Here /\ lock'.ages = seen
<1>1. Active \in SUBSET Threads /\ Here \in SUBSET Threads /\ seen \in [Threads -> Nat]
  BY DEF Active, Here, TypeOK
<1>2. QED
  BY <1>1 DEF Locked

LEMMA NoTxTyped ==
  /\ NoTx \in [owner : Threads \cup Turns \cup {Nobody}, victims : SUBSET Threads,
               spared : SUBSET Threads, conversations : SUBSET Threads,
               ages : [Threads -> Nat]]
  /\ NoTx.owner = Nobody /\ NoTx.victims = {}
  BY DEF NoTx

-----------------------------------------------------------------------------
(* The type invariant.                                                     *)

LEMMA InitTyped == Init => TypeOK
<1> SUFFICES ASSUME Init PROVE TypeOK
  OBVIOUS
<1>1. clock \in Nat
  <2>1. IsFiniteSet({x \in Threads : row[x] = "here"})
    BY RetentionAssumption, FS_Subset
  <2>2. QED
    BY <2>1, FS_CardinalityType DEF Init
<1>2. created \in [Threads -> Nat] /\ seen \in [Threads -> Nat]
  BY <1>1 DEF Init
<1>3. QED
  BY <1>1, <1>2, NoTxTyped, RetentionAssumption DEF Init, TypeOK, Live

\* Opening a draft: the threads' steps.
LEMMA DraftTyped ==
  ASSUME TypeOK, NEW x \in Threads,
         OpenDraft(x) \/ DraftStep(x) \/ DeleteThread(x) \/ Touch(x)
  PROVE  TypeOK'
<1>1. CASE OpenDraft(x)
  BY <1>1 DEF TypeOK, OpenDraft
<1>2. CASE SelectDrafts(x)
  <2> DEFINE V == Excess({y \in Here \ Active : Empty(y)}, created)
  <2>1. V \in SUBSET Threads
    BY ExcessOfSet DEF Here
  <2>2. /\ Locked(x, V) /\ row[x] = "opening" /\ lock.owner = Nobody
        /\ row' = [row EXCEPT ![x] = "creating"]
        /\ UNCHANGED <<saved, created, seen, clock, turn, target, stamp, record, deleted>>
    BY <1>2 DEF SelectDrafts, LockFree
  <2> HIDE DEF V
  <2>3. QED
    BY <2>1, <2>2, LockedTyped, RetentionAssumption DEF TypeOK
<1>3. CASE CommitDraft(x)
  BY <1>3, NoTxTyped, RetentionAssumption DEF TypeOK, CommitDraft, Removed
<1>4. CASE DraftFails(x)
  BY <1>4, NoTxTyped, RetentionAssumption DEF TypeOK, DraftFails
<1>5. CASE DeleteThread(x)
  BY <1>5 DEF TypeOK, DeleteThread
<1>6. CASE Touch(x)
  BY <1>6 DEF TypeOK, Touch
<1>7. QED
  BY <1>1, <1>2, <1>3, <1>4, <1>5, <1>6 DEF DraftStep

LEMMA TurnTyped ==
  ASSUME TypeOK, NEW t \in Turns, Admit(t) \/ TurnStep(t) \/ Crash(t) \/ Expire(t)
  PROVE  TypeOK'
<1>1. CASE Admit(t)
  BY <1>1, RetentionAssumption DEF TypeOK, Admit, Goto
<1>2. CASE Register(t)
  BY <1>2, RetentionAssumption DEF TypeOK, Register, Goto, Live, AfterCancelledCall, LockFree
<1>3. CASE Recheck(t)
  BY <1>3, RetentionAssumption DEF TypeOK, Recheck, Goto, Live
<1>4. CASE StartCompletion(t)
  BY <1>4, RetentionAssumption DEF TypeOK, StartCompletion, Goto, Live
<1>5. CASE SelectConversations(t)
  <2> DEFINE V == Excess({y \in Here \ (Active \cup {target[t]}) : ~Empty(y)}, seen)
  <2>1. V \in SUBSET Threads
    BY ExcessOfSet DEF Here
  <2>2. /\ Locked(t, V) /\ turn[t] = "waiting" /\ lock.owner = Nobody
        /\ turn' = [turn EXCEPT ![t] = "storing"]
        /\ UNCHANGED <<row, saved, created, seen, clock, target, stamp, record, deleted>>
    BY <1>5 DEF SelectConversations, LockFree, Goto
  <2> HIDE DEF V
  <2>3. QED
    BY <2>1, <2>2, LockedTyped, RetentionAssumption DEF TypeOK, Live
<1>6. CASE CommitTurn(t)
  BY <1>6, NoTxTyped, RetentionAssumption DEF TypeOK, CommitTurn, Goto, Removed, Live
<1>7. CASE NothingStored(t)
  BY <1>7, NoTxTyped, RetentionAssumption DEF TypeOK, NothingStored, Goto, Live
<1>8. CASE Abandon(t)
  BY <1>8, RetentionAssumption DEF TypeOK, Abandon, Goto, Live
<1>9. CASE Release(t)
  BY <1>9, RetentionAssumption DEF TypeOK, Release, Goto, Live
<1>10. CASE Crash(t)
  BY <1>10, NoTxTyped, RetentionAssumption DEF TypeOK, Crash, Goto, Live
<1>11. CASE Expire(t)
  BY <1>11, RetentionAssumption DEF TypeOK, Expire
<1>12. QED
  BY <1>1, <1>2, <1>3, <1>4, <1>5, <1>6, <1>7, <1>8, <1>9, <1>10, <1>11 DEF TurnStep

LEMMA StepTyped == TypeOK /\ [Next]_vars => TypeOK'
<1> SUFFICES ASSUME TypeOK, [Next]_vars PROVE TypeOK'
  OBVIOUS
<1>1. CASE UNCHANGED vars
  BY <1>1 DEF TypeOK, vars
<1>2. CASE Next
  BY <1>2, DraftTyped, TurnTyped DEF Next
<1>3. QED
  BY <1>1, <1>2

\* The lock is held by exactly the draft that is being created or the turn that
\* is being stored, and everything else has its type.
THEOREM TypeCorrect == Spec => []TypeOK
<1>1. QED
  BY InitTyped, StepTyped, PTL DEF Spec

-----------------------------------------------------------------------------
(* Records.                                                                *)

\* A record exists only for a turn that will release it, or for a dead process,
\* however its registration was cancelled.
THEOREM RecordsAlwaysOwned == Spec => []RecordsOwned
<1>1. Init => RecordsOwned
  BY DEF Init, RecordsOwned
<1>2. TypeOK /\ RecordsOwned /\ [Next]_vars => RecordsOwned'
  <2> SUFFICES ASSUME TypeOK, RecordsOwned, [Next]_vars PROVE RecordsOwned'
    OBVIOUS
  <2>1. ASSUME NEW x \in Threads,
               OpenDraft(x) \/ DraftStep(x) \/ DeleteThread(x) \/ Touch(x)
        PROVE  RecordsOwned'
    BY <2>1 DEF RecordsOwned, OpenDraft, DraftStep, SelectDrafts, CommitDraft, DraftFails,
                DeleteThread, Touch
  <2>2. ASSUME NEW t \in Turns, Admit(t) \/ TurnStep(t) \/ Crash(t) \/ Expire(t)
        PROVE  RecordsOwned'
    <3>1. CASE Admit(t)
      BY <3>1 DEF RecordsOwned, TypeOK, Admit, Goto
    <3>2. CASE Register(t)
      BY <3>2 DEF RecordsOwned, TypeOK, Register, Goto, AfterCancelledCall
    <3>3. CASE Recheck(t) \/ StartCompletion(t)
      BY <3>3 DEF RecordsOwned, TypeOK, Recheck, StartCompletion, Goto
    <3>4. CASE SelectConversations(t) \/ CommitTurn(t)
      BY <3>4 DEF RecordsOwned, TypeOK, SelectConversations, CommitTurn, Goto
    <3>5. CASE NothingStored(t) \/ Abandon(t)
      BY <3>5 DEF RecordsOwned, TypeOK, NothingStored, Abandon, Goto
    <3>6. CASE Release(t) \/ Crash(t) \/ Expire(t)
      BY <3>6 DEF RecordsOwned, TypeOK, Release, Crash, Expire, Goto
    <3>7. QED
      BY <2>2, <3>1, <3>2, <3>3, <3>4, <3>5, <3>6 DEF TurnStep
  <2>3. CASE UNCHANGED vars
    BY <2>3 DEF RecordsOwned, vars
  <2>4. QED
    BY <2>1, <2>2, <2>3 DEF Next
<1>3. QED
  BY <1>1, <1>2, TypeCorrect, PTL DEF Spec

-----------------------------------------------------------------------------
(* Threads of turns in flight.  A transaction that removes threads took    *)
(* the profile lock before it looked at the records, and registrations     *)
(* take the same lock: the records it saw are all there are until it ends. *)

\* A turn between registration and completion has its record.
HasRecord == \A t \in Turns : turn[t] \in Live => t \in record

\* No transaction is about to remove the thread of a registered turn.
TargetsSpared == \A t \in Turns : turn[t] \in Live => target[t] \notin lock.victims

NothingLocked == lock.owner = Nobody => lock.victims = {}

RetentionInv == TypeOK /\ HasRecord /\ TargetsSpared /\ NothingLocked /\ InFlightThreadKept

\* What is selected excludes the threads of registered turns.
LEMMA ActiveSpared ==
  ASSUME HasRecord, NEW t \in Turns, turn[t] \in Live
  PROVE  target[t] \in Active
  BY DEF HasRecord, Active

LEMMA DraftRetains ==
  ASSUME RetentionInv, NEW x \in Threads,
         OpenDraft(x) \/ DraftStep(x) \/ DeleteThread(x) \/ Touch(x)
  PROVE  (HasRecord /\ TargetsSpared /\ NothingLocked /\ InFlightThreadKept)'
<1> USE DEF RetentionInv
<1>1. CASE OpenDraft(x) \/ DeleteThread(x) \/ Touch(x)
  BY <1>1 DEF OpenDraft, DeleteThread, Touch, HasRecord, TargetsSpared, NothingLocked,
              InFlightThreadKept, TypeOK, Live
<1>2. CASE SelectDrafts(x)
  <2> DEFINE V == Excess({y \in Here \ Active : Empty(y)}, created)
  <2>1. V \subseteq Here \ Active
    BY ExcessOfSet
  <2>2. /\ Locked(x, V) /\ row[x] = "opening"
        /\ row' = [row EXCEPT ![x] = "creating"]
        /\ UNCHANGED <<turn, target, record, deleted>>
    BY <1>2 DEF SelectDrafts
  <2> HIDE DEF V
  <2>3. lock'.owner = x /\ lock'.victims = V
    BY <2>1, <2>2, LockedTyped DEF Here
  <2>4. TargetsSpared'
    BY <2>1, <2>2, <2>3, ActiveSpared DEF TargetsSpared
  <2>5. QED
    BY <2>2, <2>3, <2>4, RetentionAssumption
       DEF HasRecord, NothingLocked, InFlightThreadKept, TypeOK
<1>3. CASE CommitDraft(x)
  BY <1>3, NoTxTyped DEF CommitDraft, Removed, HasRecord, TargetsSpared, NothingLocked,
                         InFlightThreadKept, TypeOK, Live
<1>4. CASE DraftFails(x)
  BY <1>4, NoTxTyped DEF DraftFails, HasRecord, TargetsSpared, NothingLocked,
                         InFlightThreadKept, TypeOK, Live
<1>5. QED
  BY <1>1, <1>2, <1>3, <1>4 DEF DraftStep

LEMMA TurnRetains ==
  ASSUME RetentionInv, NEW t \in Turns, Admit(t) \/ TurnStep(t) \/ Crash(t) \/ Expire(t)
  PROVE  (HasRecord /\ TargetsSpared /\ NothingLocked /\ InFlightThreadKept)'
<1> USE DEF RetentionInv
<1>1. CASE Admit(t)
  BY <1>1 DEF Admit, Goto, HasRecord, TargetsSpared, NothingLocked, InFlightThreadKept,
              TypeOK, Live
<1>2. CASE Register(t)
  BY <1>2 DEF Register, Goto, AfterCancelledCall, LockFree, HasRecord, TargetsSpared,
              NothingLocked, InFlightThreadKept, TypeOK, Live
<1>3. CASE Recheck(t)
  BY <1>3 DEF Recheck, Found, Goto, HasRecord, TargetsSpared, NothingLocked,
              InFlightThreadKept, TypeOK, Live
<1>4. CASE StartCompletion(t)
  BY <1>4 DEF StartCompletion, Goto, HasRecord, TargetsSpared, NothingLocked,
              InFlightThreadKept, TypeOK, Live
<1>5. CASE SelectConversations(t)
  <2> DEFINE V == Excess({y \in Here \ (Active \cup {target[t]}) : ~Empty(y)}, seen)
  <2>1. V \subseteq Here \ Active
    BY ExcessOfSet
  <2>2. /\ Locked(t, V) /\ turn[t] = "waiting"
        /\ turn' = [turn EXCEPT ![t] = "storing"]
        /\ UNCHANGED <<row, target, record, deleted>>
    BY <1>5 DEF SelectConversations, Goto
  <2> HIDE DEF V
  <2>3. lock'.owner = t /\ lock'.victims = V
    BY <2>1, <2>2, LockedTyped DEF Here
  <2>4. \A u \in Turns : turn'[u] \in Live => turn[u] \in Live
    BY <2>2 DEF TypeOK, Live
  <2>5. TargetsSpared' /\ HasRecord'
    BY <2>1, <2>2, <2>3, <2>4, ActiveSpared DEF TargetsSpared, HasRecord
  <2>6. QED
    BY <2>2, <2>3, <2>5, RetentionAssumption DEF NothingLocked, InFlightThreadKept, TypeOK
<1>6. CASE CommitTurn(t)
  BY <1>6, NoTxTyped DEF CommitTurn, Goto, Removed, HasRecord, TargetsSpared, NothingLocked,
                         InFlightThreadKept, TypeOK, Live
<1>7. CASE NothingStored(t)
  BY <1>7, NoTxTyped DEF NothingStored, Goto, HasRecord, TargetsSpared, NothingLocked,
                         InFlightThreadKept, TypeOK, Live
<1>8. CASE Abandon(t) \/ Release(t)
  BY <1>8 DEF Abandon, Release, Goto, HasRecord, TargetsSpared, NothingLocked,
              InFlightThreadKept, TypeOK, Live
<1>9. CASE Crash(t)
  BY <1>9, NoTxTyped DEF Crash, Goto, HasRecord, TargetsSpared, NothingLocked,
                         InFlightThreadKept, TypeOK, Live
<1>10. CASE Expire(t)
  BY <1>10 DEF Expire, Expires, HasRecord, TargetsSpared, NothingLocked,
               InFlightThreadKept, TypeOK, Live
<1>11. QED
  BY <1>1, <1>2, <1>3, <1>4, <1>5, <1>6, <1>7, <1>8, <1>9, <1>10 DEF TurnStep

LEMMA RetentionInvariant == Spec => []RetentionInv
<1>1. Init => HasRecord /\ TargetsSpared /\ NothingLocked /\ InFlightThreadKept
  BY NoTxTyped DEF Init, HasRecord, TargetsSpared, NothingLocked, InFlightThreadKept, Live
<1>2. RetentionInv /\ [Next]_vars => RetentionInv'
  <2> SUFFICES ASSUME RetentionInv, [Next]_vars PROVE RetentionInv'
    OBVIOUS
  <2>1. CASE UNCHANGED vars
    BY <2>1 DEF RetentionInv, TypeOK, HasRecord, TargetsSpared, NothingLocked,
                InFlightThreadKept, vars
  <2>2. CASE Next
    BY <2>2, DraftRetains, TurnRetains, StepTyped DEF Next, RetentionInv
  <2>3. QED
    BY <2>1, <2>2
<1>3. QED
  BY <1>1, <1>2, InitTyped, PTL DEF Spec, RetentionInv

\* Retention never removes the thread of a turn that passed its second lookup,
\* however many turns, drafts, crashes and deletions surround it.
THEOREM InFlightThreadsKept == Spec => []InFlightThreadKept
<1>1. RetentionInv => InFlightThreadKept
  BY DEF RetentionInv
<1>2. QED
  BY <1>1, RetentionInvariant, PTL

-----------------------------------------------------------------------------
(* Evictions.                                                              *)

\* Only committing transactions and the user remove a row that is there.
LEMMA WhoRemoves ==
  ASSUME TypeOK, [Next]_vars, NEW z \in Threads, row[z] = "here", row'[z] = "gone"
  PROVE  \/ z \in deleted'
         \/ \E x \in Threads : CommitDraft(x) /\ z \in lock.victims /\ Empty(z)
         \/ \E t \in Turns : CommitTurn(t) /\ z \in lock.victims
<1>1. CASE UNCHANGED vars
  BY <1>1 DEF vars
<1>2. ASSUME NEW x \in Threads,
             OpenDraft(x) \/ DraftStep(x) \/ DeleteThread(x) \/ Touch(x)
      PROVE  z \in deleted' \/ (CommitDraft(x) /\ z \in lock.victims /\ Empty(z))
  <2>1. CASE OpenDraft(x) \/ Touch(x) \/ SelectDrafts(x) \/ DraftFails(x)
    BY <2>1 DEF TypeOK, OpenDraft, Touch, SelectDrafts, DraftFails
  <2>2. CASE DeleteThread(x)
    BY <2>2 DEF TypeOK, DeleteThread
  <2>3. CASE CommitDraft(x)
    BY <2>3 DEF TypeOK, CommitDraft, Removed
  <2>4. QED
    BY <1>2, <2>1, <2>2, <2>3 DEF DraftStep
<1>3. ASSUME NEW t \in Turns, Admit(t) \/ TurnStep(t) \/ Crash(t) \/ Expire(t)
      PROVE  CommitTurn(t) /\ z \in lock.victims
  <2>1. CASE CommitTurn(t)
    BY <2>1 DEF TypeOK, CommitTurn, Removed
  <2>2. CASE ~CommitTurn(t)
    BY <1>3, <2>2 DEF TurnStep, Admit, Register, Recheck, StartCompletion,
       SelectConversations, NothingStored, Abandon, Release, Crash, Expire
  <2>3. QED
    BY <2>1, <2>2
<1>4. QED
  BY <1>1, <1>2, <1>3 DEF Next

\* Opening a blank composer never evicts a conversation.
THEOREM DraftsEvictNothing == Spec => OnlyCompletionsEvict
<1>1. TypeOK /\ [Next]_vars =>
        [\A x \in saved : row[x] = "here" /\ row'[x] = "gone" =>
           x \in deleted' \/ lock.owner \in Turns]_vars
  <2> SUFFICES ASSUME TypeOK, [Next]_vars, NEW x \in saved,
                      row[x] = "here", row'[x] = "gone"
               PROVE  x \in deleted' \/ lock.owner \in Turns
    OBVIOUS
  <2>1. x \in Threads
    BY DEF TypeOK
  <2>2. QED
    BY <2>1, WhoRemoves DEF CommitTurn, Empty
<1>2. QED
  BY <1>1, TypeCorrect, PTL DEF Spec, OnlyCompletionsEvict

\* What makes room for the thread of t: it, and what the transaction saw later.
Newer(t, x) == {y \in lock.conversations : lock.ages[y] > lock.ages[x]} \cup {target[t]}

\* A conversation that is about to be evicted has its MaxThreads successors.
VictimsOutdated ==
  \A t \in Turns : lock.owner = t =>
    \A x \in lock.victims : Cardinality(Newer(t, x)) >= MaxThreads

\* Among the selected conversations of S, one is in excess only behind
\* MaxThreads - 1 others, and the completing turn's own is not one of them.
LEMMA OneMore ==
  ASSUME TypeOK, NEW t \in Turns, NEW S \in SUBSET (saved \cap Here), target[t] \notin S,
         NEW x \in Excess(S, seen)
  PROVE  Cardinality({y \in saved \cap Here : seen[y] > seen[x]} \cup {target[t]})
           >= MaxThreads
<1> DEFINE A == {y \in S : Later(seen, y, x)}
           B == {y \in saved \cap Here : seen[y] > seen[x]} \cup {target[t]}
<1>1. IsFiniteSet(A) /\ IsFiniteSet(B) /\ IsFiniteSet(A \cup {target[t]})
  <2>1. A \subseteq Threads /\ B \subseteq Threads /\ A \cup {target[t]} \subseteq Threads
    BY DEF Here, TypeOK
  <2>2. QED
    BY <2>1, RetentionAssumption, FS_Subset
<1>2. Cardinality(A) >= MaxThreads - 1
  BY DEF Excess
<1>3. Cardinality(A \cup {target[t]}) = Cardinality(A) + 1
  BY <1>1, FS_AddElement
<1>4. A \cup {target[t]} \subseteq B
  BY DEF Later
<1>5. Cardinality(A \cup {target[t]}) <= Cardinality(B)
  BY <1>1, <1>4, FS_Subset
<1>6. Cardinality(A) \in Nat /\ Cardinality(B) \in Nat
  BY <1>1, FS_CardinalityType
<1>7. QED
  BY <1>2, <1>3, <1>5, <1>6, RetentionAssumption

LEMMA OutdatedKept == TypeOK /\ VictimsOutdated /\ [Next]_vars => VictimsOutdated'
<1> SUFFICES ASSUME TypeOK, VictimsOutdated, [Next]_vars,
                    NEW t \in Turns, lock'.owner = t, NEW x \in lock'.victims
             PROVE  Cardinality(Newer(t, x)') >= MaxThreads
  BY DEF VictimsOutdated
<1>1. target' = target
  BY DEF Next, vars, OpenDraft, DraftStep, SelectDrafts, CommitDraft, DraftFails,
         DeleteThread, Touch, Admit, TurnStep, Register, Recheck, StartCompletion,
         SelectConversations, CommitTurn, NothingStored, Abandon, Release, Crash, Expire
<1>2. CASE lock' = lock
  BY <1>1, <1>2 DEF VictimsOutdated, Newer
<1>3. CASE lock' # lock
  <2>1. SelectConversations(t)
    <3>1. ASSUME NEW y \in Threads,
                 OpenDraft(y) \/ DraftStep(y) \/ DeleteThread(y) \/ Touch(y)
          PROVE  lock'.owner \notin Turns
      <4>1. CASE SelectDrafts(y)
        <5>1. lock'.owner = y
          BY <4>1 DEF SelectDrafts, Locked
        <5>2. QED
          BY <5>1, RetentionAssumption
      <4>2. CASE ~SelectDrafts(y)
        BY <1>3, <3>1, <4>2, NoTxTyped, RetentionAssumption
           DEF OpenDraft, DraftStep, CommitDraft, DraftFails, DeleteThread, Touch
      <4>3. QED
        BY <4>1, <4>2
    <3>2. ASSUME NEW u \in Turns, Admit(u) \/ TurnStep(u) \/ Crash(u) \/ Expire(u)
          PROVE  SelectConversations(u) \/ lock'.owner = Nobody
      BY <1>3, <3>2, NoTxTyped
         DEF TurnStep, Admit, Register, Recheck, StartCompletion, CommitTurn,
             NothingStored, Abandon, Release, Crash, Expire
    <3>3. ASSUME NEW u \in Turns, SelectConversations(u) PROVE lock'.owner = u
      BY <3>3 DEF SelectConversations, Locked
    <3>4. ~UNCHANGED vars
      BY <1>3 DEF vars
    <3>5. QED
      BY <3>1, <3>2, <3>3, <3>4, RetentionAssumption DEF Next
  <2> DEFINE S == {y \in Here \ (Active \cup {target[t]}) : ~Empty(y)}
  <2>2. S \in SUBSET (saved \cap Here) /\ target[t] \notin S
    BY DEF Empty
  <2>3. Locked(t, Excess(S, seen))
    BY <2>1 DEF SelectConversations
  <2> HIDE DEF S
  <2>4. Excess(S, seen) \in SUBSET Threads
    BY <2>2, ExcessOfSet DEF Here
  <2>5. /\ lock'.victims = Excess(S, seen)
        /\ lock'.conversations = saved \cap Here /\ lock'.ages = seen
    BY <2>3, <2>4, LockedTyped
  <2>6. Cardinality({y \in saved \cap Here : seen[y] > seen[x]} \cup {target[t]})
          >= MaxThreads
    BY <2>2, <2>5, OneMore
  <2>7. QED
    BY <1>1, <2>5, <2>6 DEF Newer
<1>4. QED
  BY <1>2, <1>3

\* A conversation is evicted only behind MaxThreads others.
THEOREM TheOldestGo == Spec => EvictsTheOldest
<1>1. Init => VictimsOutdated
  BY NoTxTyped, RetentionAssumption DEF Init, VictimsOutdated
<1>2. TypeOK /\ VictimsOutdated /\ [Next]_vars =>
        [\A x \in saved : row[x] = "here" /\ row'[x] = "gone" /\ x \notin deleted' =>
           Cardinality({y \in lock.conversations : lock.ages[y] > lock.ages[x]}
                       \cup {target[t] : t \in {u \in Turns : lock.owner = u}})
             >= MaxThreads]_vars
  <2> SUFFICES ASSUME TypeOK, VictimsOutdated, [Next]_vars, NEW x \in saved,
                      row[x] = "here", row'[x] = "gone", x \notin deleted'
               PROVE  Cardinality({y \in lock.conversations : lock.ages[y] > lock.ages[x]}
                        \cup {target[t] : t \in {u \in Turns : lock.owner = u}})
                        >= MaxThreads
    OBVIOUS
  <2>1. x \in Threads
    BY DEF TypeOK
  <2>2. PICK t \in Turns : CommitTurn(t) /\ x \in lock.victims
    BY <2>1, WhoRemoves DEF Empty
  <2>3. lock.owner = t
    BY <2>2 DEF CommitTurn
  <2>4. {target[u] : u \in {w \in Turns : lock.owner = w}} = {target[t]}
    BY <2>3
  <2>5. Cardinality(Newer(t, x)) >= MaxThreads
    BY <2>2, <2>3 DEF VictimsOutdated
  <2>6. QED
    BY <2>4, <2>5 DEF Newer
<1>3. QED
  BY <1>1, <1>2, TypeCorrect, OutdatedKept, PTL DEF Spec, EvictsTheOldest

-----------------------------------------------------------------------------
(* The cap.                                                                *)

\* No two threads that are being created or there are of the same age, and no two turns complete at
\* the same time.
Completing == {t \in Turns : turn[t] \in {"waiting", "storing"}}
Made == {x \in Threads : row[x] \in {"opening", "creating", "here"}}

AgesDiffer ==
  /\ \A x \in Threads : created[x] <= clock /\ seen[x] <= clock
  /\ \A t \in Completing : stamp[t] <= clock
  /\ \A x, y \in Made : x # y => created[x] # created[y] /\ seen[x] # seen[y]
  /\ \A t \in Completing : \A x \in Threads : stamp[t] # seen[x]
  /\ \A t, u \in Completing : t # u => stamp[t] # stamp[u]

LEMMA AgesStart == Init => AgesDiffer
<1> SUFFICES ASSUME Init PROVE AgesDiffer
  OBVIOUS
<1>1. TypeOK
  BY InitTyped
<1>2. Completing = {} /\ Made = {x \in Threads : row[x] = "here"}
  BY DEF Init, Completing, Made
<1>3. \A x \in Threads : created[x] <= clock /\ seen[x] <= clock
  BY <1>1 DEF Init, TypeOK
<1>4. \A x, y \in Made : x # y => created[x] # created[y] /\ seen[x] # seen[y]
  BY <1>2 DEF Init
<1>5. QED
  BY <1>2, <1>3, <1>4 DEF AgesDiffer

\* A step leaves the ages alone, or sets one to a time nobody has.
LEMMA AgesKept == TypeOK /\ AgesDiffer /\ [Next]_vars => AgesDiffer'
<1> SUFFICES ASSUME TypeOK, AgesDiffer, [Next]_vars PROVE AgesDiffer'
  OBVIOUS
<1>1. /\ row \in [Threads -> {"new", "opening", "creating", "here", "gone"}]
      /\ created \in [Threads -> Nat] /\ seen \in [Threads -> Nat] /\ clock \in Nat
      /\ stamp \in [Turns -> Nat] /\ target \in [Turns -> Threads] /\ DOMAIN turn = Turns
  BY DEF TypeOK
<1>2. ASSUME UNCHANGED <<created, seen, clock, stamp>>,
             Made' \subseteq Made, Completing' \subseteq Completing
      PROVE  AgesDiffer'
  BY <1>1, <1>2 DEF AgesDiffer
<1>3. CASE UNCHANGED vars
  BY <1>2, <1>3 DEF vars, Made, Completing
<1>4. ASSUME NEW x \in Threads, OpenDraft(x) \/ DraftStep(x) \/ DeleteThread(x) \/ Touch(x)
      PROVE  AgesDiffer'
  <2>1. CASE OpenDraft(x)
    <3>1. /\ clock' = clock + 1 /\ stamp' = stamp /\ Completing' = Completing
          /\ created' = [created EXCEPT ![x] = clock + 1]
          /\ seen' = [seen EXCEPT ![x] = clock + 1]
          /\ Made' \subseteq Made \cup {x}
      BY <1>1, <2>1 DEF OpenDraft, Completing, Made
    <3>2. QED
      BY <1>1, <3>1 DEF AgesDiffer, Made, Completing
  <2>2. CASE Touch(x)
    <3>1. /\ clock' = clock + 1 /\ UNCHANGED <<stamp, created>>
          /\ Completing' = Completing /\ Made' = Made
          /\ seen' = [seen EXCEPT ![x] = clock + 1]
      BY <2>2 DEF Touch, Completing, Made
    <3>2. QED
      BY <1>1, <3>1 DEF AgesDiffer, Made, Completing
  <2>3. CASE SelectDrafts(x) \/ DraftFails(x) \/ DeleteThread(x)
    <3>1. UNCHANGED <<created, seen, clock, stamp>> /\ Completing' = Completing
      BY <2>3 DEF SelectDrafts, DraftFails, DeleteThread, Completing
    <3>2. Made' \subseteq Made
      BY <1>1, <2>3 DEF SelectDrafts, DraftFails, DeleteThread, Made
    <3>3. QED
      BY <1>2, <3>1, <3>2
  <2>4. CASE CommitDraft(x)
    <3>1. UNCHANGED <<created, seen, clock, stamp>> /\ Completing' = Completing
      BY <2>4 DEF CommitDraft, Completing
    <3>2. x \in Made
      BY <2>4, RetentionAssumption DEF CommitDraft, TypeOK, Made
    <3>3. Made' \subseteq Made
      BY <1>1, <2>4, <3>2 DEF CommitDraft, Removed, Made
    <3>4. QED
      BY <1>2, <3>1, <3>3
  <2>5. QED
    BY <1>4, <2>1, <2>2, <2>3, <2>4 DEF DraftStep
<1>5. ASSUME NEW t \in Turns, Admit(t) \/ TurnStep(t) \/ Crash(t) \/ Expire(t)
      PROVE  AgesDiffer'
  <2>1. CASE StartCompletion(t)
    <3>1. /\ clock' = clock + 1 /\ UNCHANGED <<created, seen>> /\ Made' = Made
          /\ stamp' = [stamp EXCEPT ![t] = clock + 1]
          /\ Completing' \subseteq Completing \cup {t}
      BY <1>1, <2>1 DEF StartCompletion, Goto, Completing, Made
    <3>2. QED
      BY <1>1, <3>1 DEF AgesDiffer, Made, Completing
  <2>2. CASE CommitTurn(t)
    <3>1. /\ UNCHANGED <<created, clock, stamp>>
          /\ seen' = [seen EXCEPT ![target[t]] = stamp[t]]
      BY <2>2 DEF CommitTurn
    <3>2. t \in Completing /\ Completing' = Completing \ {t}
      BY <1>1, <2>2 DEF CommitTurn, Goto, Completing, TypeOK
    <3>3. Made' \subseteq Made
      BY <1>1, <2>2 DEF CommitTurn, Removed, Made
    <3>4. QED
      BY <1>1, <3>1, <3>2, <3>3 DEF AgesDiffer, Made, Completing
  <2>3. CASE ~StartCompletion(t) /\ ~CommitTurn(t)
    <3>1. UNCHANGED <<created, seen, clock, stamp>> /\ Made' = Made
      BY <1>5, <2>3 DEF TurnStep, Admit, Register, Recheck, SelectConversations,
         NothingStored, Abandon, Release, Crash, Expire, Made
    <3>2. Completing' \subseteq Completing
      BY <1>1, <1>5, <2>3 DEF TurnStep, Admit, Register, Recheck, SelectConversations,
         NothingStored, Abandon, Release, Crash, Expire, Goto, AfterCancelledCall, Completing
    <3>3. QED
      BY <1>2, <3>1, <3>2
  <2>4. QED
    BY <2>1, <2>2, <2>3
<1>6. QED
  BY <1>3, <1>4, <1>5 DEF Next


\* Every set of natural numbers that is not empty has a least element.
LEMMA LeastExists ==
  ASSUME NEW T \in SUBSET Nat, T # {} PROVE \E x \in T : \A y \in T : x <= y
<1> DEFINE R == {ss \in Nat \X Nat : ss[1] < ss[2]}
<1>1. IsWellFoundedOn(R, Nat)
  BY NatLessThanWellFounded DEF OpToRel
<1>2. \A x, y \in Nat : <<y, x>> \in R <=> y < x
  OBVIOUS
<1> HIDE DEF R
<1>3. PICK x \in T : \A y \in T : ~(<<y, x>> \in R)
  <2>1. \E x \in T : \A y \in T : ~(<<y, x>> \in R)
    BY <1>1, WFMin
  <2> QED
    BY <2>1
<1>4. ASSUME NEW y \in T PROVE x <= y
  <2>1. x \in Nat /\ y \in Nat
    OBVIOUS
  <2>2. ~(y < x)
    BY <1>2, <1>3, <2>1
  <2> QED
    BY <2>1, <2>2
<1> QED
  BY <1>4

\* Of threads of different ages all but MaxThreads - 1 are in excess: the oldest of the
\* others has all of them before it.
LEMMA FewRemain ==
  ASSUME NEW S \in SUBSET Threads, NEW time \in [Threads -> Nat],
         \A x, y \in S : x # y => time[x] # time[y]
  PROVE  Cardinality(S \ Excess(S, time)) <= MaxThreads - 1
<1> DEFINE T == S \ Excess(S, time)
<1>1. IsFiniteSet(S) /\ IsFiniteSet(T) /\ Cardinality(T) \in Nat
  BY RetentionAssumption, FS_Subset, FS_CardinalityType
<1>2. CASE T = {}
  <2>1. Cardinality(T) = 0
    BY <1>2, FS_EmptySet
  <2> HIDE DEF T
  <2>2. Cardinality(T) <= MaxThreads - 1
    BY <2>1, RetentionAssumption
  <2>3. QED
    BY <2>2 DEF T
<1>3. CASE T # {}
  <2>1. PICK x \in T : \A y \in T : time[x] <= time[y]
    <3> DEFINE times == {time[y] : y \in T}
    <3>1. times \in SUBSET Nat /\ times # {}
      BY <1>3
    <3>2. PICK least \in times : \A n \in times : least <= n
      BY <3>1, LeastExists
    <3>3. QED
      BY <3>2
  <2> DEFINE A == {y \in S : Later(time, y, x)}
  <2>2. IsFiniteSet(A) /\ IsFiniteSet(T \ {x}) /\ Cardinality(A) \in Nat
    BY <1>1, FS_Subset, FS_CardinalityType
  <2>3. T \ {x} \subseteq A
    BY <2>1 DEF Later
  <2>4. Cardinality(T \ {x}) <= Cardinality(A)
    BY <2>2, <2>3, FS_Subset
  <2>5. Cardinality(T \ {x}) = Cardinality(T) - 1
    BY <1>1, <2>1, FS_RemoveElement
  <2>6. ~(Cardinality(A) >= MaxThreads - 1)
    BY <2>1 DEF Excess
  <2>7. QED
    BY <1>1, <2>2, <2>4, <2>5, <2>6, RetentionAssumption
<1>4. QED
  BY <1>2, <1>3

\* What a transaction will leave beside its own thread.
DraftsLeft == Here \ (saved \cup lock.spared \cup lock.victims)
TurnsLeft(t) == (Here \cap saved) \ (lock.spared \cup lock.victims \cup {target[t]})

RoomMade ==
  /\ \A x \in Threads : lock.owner = x => Cardinality(DraftsLeft) <= MaxThreads - 1
  /\ \A t \in Turns : lock.owner = t => Cardinality(TurnsLeft(t)) <= MaxThreads - 1

\* A smaller set is in no excess of the cap.
LEMMA StillRoom ==
  ASSUME NEW S \in SUBSET Threads, NEW T \in SUBSET S, NEW n \in Int, Cardinality(S) <= n
  PROVE  Cardinality(T) <= n
<1>1. IsFiniteSet(S) /\ IsFiniteSet(T)
  BY RetentionAssumption, FS_Subset
<1>2. Cardinality(T) <= Cardinality(S) /\ Cardinality(T) \in Nat /\ Cardinality(S) \in Nat
  BY <1>1, FS_Subset, FS_CardinalityType
<1>3. QED
  BY <1>2

LEMMA SparedActive ==
  ASSUME TypeOK, NEW o \in Threads \cup Turns, NEW V \in SUBSET Threads, Locked(o, V)
  PROVE  lock'.spared = Active /\ lock'.victims = V /\ lock'.owner = o
BY LockedTyped DEF Locked

\* A selection leaves at most MaxThreads - 1.
LEMMA DraftMakesRoom ==
  ASSUME TypeOK, AgesDiffer, NEW x \in Threads, SelectDrafts(x)
  PROVE  RoomMade'
<1> DEFINE S == {y \in Here \ Active : Empty(y)}
<1>1. S \in SUBSET Threads /\ created \in [Threads -> Nat]
  BY DEF Here, TypeOK
<1>2. \A y, z \in S : y # z => created[y] # created[z]
  BY DEF AgesDiffer, Made, Here
<1>3. Locked(x, Excess(S, created)) /\ row' = [row EXCEPT ![x] = "creating"] /\ saved' = saved
  BY DEF SelectDrafts
<1>4. Here' \subseteq Here
  BY <1>3 DEF Here, TypeOK
<1>5. S = (Here \ saved) \ Active
  BY DEF Empty, Here
<1> HIDE DEF S
<1>6. Excess(S, created) \in SUBSET Threads
  BY <1>1, ExcessOfSet
<1>7. /\ lock'.spared = Active /\ lock'.victims = Excess(S, created) /\ lock'.owner = x
  BY <1>3, <1>6, SparedActive
<1>8. DraftsLeft' \subseteq S \ Excess(S, created)
  BY <1>3, <1>4, <1>5, <1>7 DEF DraftsLeft
<1>9. Cardinality(S \ Excess(S, created)) <= MaxThreads - 1
  BY <1>1, <1>2, FewRemain
<1>10. Cardinality(DraftsLeft') <= MaxThreads - 1
  BY <1>1, <1>8, <1>9, StillRoom, RetentionAssumption
<1>11. QED
  BY <1>7, <1>10, RetentionAssumption DEF RoomMade

LEMMA TurnMakesRoom ==
  ASSUME TypeOK, AgesDiffer, NEW t \in Turns, SelectConversations(t)
  PROVE  RoomMade'
<1> DEFINE S == {y \in Here \ (Active \cup {target[t]}) : ~Empty(y)}
<1>1. S \in SUBSET Threads /\ seen \in [Threads -> Nat]
  BY DEF Here, TypeOK
<1>2. \A y, z \in S : y # z => seen[y] # seen[z]
  BY DEF AgesDiffer, Made, Here
<1>3. Locked(t, Excess(S, seen)) /\ UNCHANGED <<row, saved, target>>
  BY DEF SelectConversations
<1>4. Here' = Here
  BY <1>3 DEF Here
<1>5. S = (Here \cap saved) \ (Active \cup {target[t]})
  BY DEF Empty, Here
<1> HIDE DEF S
<1>6. Excess(S, seen) \in SUBSET Threads
  BY <1>1, ExcessOfSet
<1>7. /\ lock'.spared = Active /\ lock'.victims = Excess(S, seen) /\ lock'.owner = t
  BY <1>3, <1>6, SparedActive
<1>8. TurnsLeft(t)' \subseteq S \ Excess(S, seen)
  BY <1>3, <1>4, <1>5, <1>7 DEF TurnsLeft
<1>9. Cardinality(S \ Excess(S, seen)) <= MaxThreads - 1
  BY <1>1, <1>2, FewRemain
<1>10. Cardinality(TurnsLeft(t)') <= MaxThreads - 1
  BY <1>1, <1>8, <1>9, StillRoom, RetentionAssumption
<1>11. QED
  BY <1>7, <1>10, RetentionAssumption DEF RoomMade

\* While the lock is held nothing comes to be there and nothing is saved.
LEMMA LockHolds ==
  ASSUME TypeOK, [Next]_vars, lock' = lock, lock.owner # Nobody
  PROVE  Here' \subseteq Here /\ saved' = saved /\ target' = target
<1>1. row \in [Threads -> {"new", "opening", "creating", "here", "gone"}]
  BY DEF TypeOK
<1>2. CASE UNCHANGED vars
  BY <1>2 DEF vars, Here
<1>3. ASSUME NEW x \in Threads, OpenDraft(x) \/ DraftStep(x) \/ DeleteThread(x) \/ Touch(x)
      PROVE  Here' \subseteq Here /\ saved' = saved /\ target' = target
  <2>1. ~CommitDraft(x) /\ ~SelectDrafts(x)
    BY NoTxTyped DEF CommitDraft, SelectDrafts, LockFree
  <2>2. QED
    BY <1>1, <1>3, <2>1 DEF OpenDraft, DraftStep, DraftFails, DeleteThread, Touch, Here
<1>4. ASSUME NEW t \in Turns, Admit(t) \/ TurnStep(t) \/ Crash(t) \/ Expire(t)
      PROVE  Here' \subseteq Here /\ saved' = saved /\ target' = target
  <2>1. ~CommitTurn(t)
    BY NoTxTyped DEF CommitTurn
  <2>2. QED
    BY <1>4, <2>1 DEF TurnStep, Admit, Register, Recheck, StartCompletion,
       SelectConversations, NothingStored, Abandon, Release, Crash, Expire, Here
<1>5. QED
  BY <1>2, <1>3, <1>4 DEF Next

LEMMA RoomKept == TypeOK /\ AgesDiffer /\ RoomMade /\ [Next]_vars => RoomMade'
<1> SUFFICES ASSUME TypeOK, AgesDiffer, RoomMade, [Next]_vars PROVE RoomMade'
  OBVIOUS
<1>1. CASE lock' = lock /\ lock.owner # Nobody
  <2>1. Here' \subseteq Here /\ saved' = saved /\ target' = target
    BY <1>1, LockHolds
  <2>2. DraftsLeft \in SUBSET Threads /\ DraftsLeft' \subseteq DraftsLeft
    BY <1>1, <2>1 DEF DraftsLeft, Here
  <2>3. \A t \in Turns : TurnsLeft(t) \in SUBSET Threads /\ TurnsLeft(t)' \subseteq TurnsLeft(t)
    BY <1>1, <2>1 DEF TurnsLeft, Here
  <2>4. QED
    BY <1>1, <2>2, <2>3, StillRoom, RetentionAssumption DEF RoomMade
<1>2. CASE lock'.owner = Nobody
  BY <1>2, RetentionAssumption DEF RoomMade
<1>3. CASE lock' # lock /\ lock'.owner # Nobody
  <2>1. ~UNCHANGED vars
    BY <1>3 DEF vars
  <2>2. ASSUME NEW x \in Threads,
               OpenDraft(x) \/ DraftStep(x) \/ DeleteThread(x) \/ Touch(x)
        PROVE  SelectDrafts(x)
    BY <1>3, <2>2, NoTxTyped DEF OpenDraft, DraftStep, CommitDraft, DraftFails, DeleteThread,
       Touch
  <2>3. ASSUME NEW t \in Turns, Admit(t) \/ TurnStep(t) \/ Crash(t) \/ Expire(t)
        PROVE  SelectConversations(t)
    BY <1>3, <2>3, NoTxTyped DEF TurnStep, Admit, Register, Recheck, StartCompletion,
       CommitTurn, NothingStored, Abandon, Release, Crash, Expire
  <2>4. QED
    BY <2>1, <2>2, <2>3, DraftMakesRoom, TurnMakesRoom DEF Next
<1>4. QED
  BY <1>1, <1>2, <1>3

\* The transaction's own thread is one more.
LEMMA OneMoreFits ==
  ASSUME NEW S \in SUBSET Threads, NEW x \in Threads, NEW T \in SUBSET (S \cup {x}),
         Cardinality(S) <= MaxThreads - 1
  PROVE  Cardinality(T) <= MaxThreads
<1>1. IsFiniteSet(S)
  BY RetentionAssumption, FS_Subset
<1>2. Cardinality(S) \in Nat /\ Cardinality(S \cup {x}) \in Nat /\ IsFiniteSet(S \cup {x})
  BY <1>1, FS_AddElement, FS_CardinalityType
<1>3. Cardinality(S \cup {x}) <= Cardinality(S) + 1
  BY <1>1, <1>2, FS_AddElement
<1>4. Cardinality(S \cup {x}) <= MaxThreads
  BY <1>2, <1>3, RetentionAssumption
<1>5. QED
  BY <1>4, StillRoom, RetentionAssumption

\* A completed turn leaves at most MaxThreads conversations, and a new draft as many drafts,
\* but for those a registered turn protected.
THEOREM CapsAreEnforced == Spec => CapEnforced
<1> DEFINE Within ==
      /\ \A t \in Turns : CommitTurn(t) =>
           Cardinality((Here' \cap saved') \ (lock.spared \ {target[t]})) <= MaxThreads
      /\ \A x \in Threads : CommitDraft(x) =>
           Cardinality((Here' \ saved') \ lock.spared) <= MaxThreads
<1>1. Init => RoomMade
  BY NoTxTyped, RetentionAssumption DEF Init, RoomMade
<1>2. TypeOK /\ RoomMade /\ [Next]_vars => [Within]_vars
  <2> SUFFICES ASSUME TypeOK, RoomMade PROVE Within
    OBVIOUS
  <2>1. row \in [Threads -> {"new", "opening", "creating", "here", "gone"}]
        /\ target \in [Turns -> Threads]
    BY DEF TypeOK
  <2>2. ASSUME NEW t \in Turns, CommitTurn(t)
        PROVE  Cardinality((Here' \cap saved') \ (lock.spared \ {target[t]})) <= MaxThreads
    <3>1. lock.owner = t /\ saved' = saved \cup {target[t]} /\ Here' \subseteq Here \ lock.victims
      BY <2>1, <2>2 DEF CommitTurn, Removed, Here
    <3>2. Cardinality(TurnsLeft(t)) <= MaxThreads - 1
      BY <3>1 DEF RoomMade
    <3>3. TurnsLeft(t) \in SUBSET Threads /\ target[t] \in Threads
      BY <2>1 DEF TurnsLeft, Here
    <3>4. (Here' \cap saved') \ (lock.spared \ {target[t]}) \subseteq TurnsLeft(t) \cup {target[t]}
      BY <3>1 DEF TurnsLeft
    <3>5. QED
      BY <3>2, <3>3, <3>4, OneMoreFits
  <2>3. ASSUME NEW x \in Threads, CommitDraft(x)
        PROVE  Cardinality((Here' \ saved') \ lock.spared) <= MaxThreads
    <3>1. /\ lock.owner = x /\ saved' = saved
          /\ \A y \in Here' : y = x \/ (y \in Here /\ ~(y \in lock.victims /\ Empty(y)))
      BY <2>1, <2>3 DEF CommitDraft, Removed, Here
    <3>2. Cardinality(DraftsLeft) <= MaxThreads - 1
      BY <3>1 DEF RoomMade
    <3>3. DraftsLeft \in SUBSET Threads
      BY DEF DraftsLeft, Here
    <3>4. (Here' \ saved') \ lock.spared \subseteq DraftsLeft \cup {x}
      BY <3>1 DEF DraftsLeft, Empty
    <3>5. QED
      BY <3>2, <3>3, <3>4, OneMoreFits
  <2>4. QED
    BY <2>2, <2>3
<1>3. QED
  BY <1>1, <1>2, TypeCorrect, AgesStart, AgesKept, RoomKept, PTL DEF Spec, CapEnforced

\* Together: conversations go only when another turn completes, the oldest first, and until
\* the cap is met.
THEOREM EvictionsAreFair == Spec => EvictionIsFair
BY DraftsEvictNothing, TheOldestGo, CapsAreEnforced, PTL DEF EvictionIsFair

-----------------------------------------------------------------------------
\* Together: retention spares the threads at work and nothing else for ever.
THEOREM ActiveThreadsKept == Spec => []ActiveThreadsAreKept
BY InFlightThreadsKept, RecordsAlwaysOwned, PTL DEF ActiveThreadsAreKept
=============================================================================
