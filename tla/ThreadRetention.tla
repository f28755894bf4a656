--------------------------- MODULE ThreadRetention ---------------------------
(***************************************************************************)
(* Which threads of one user are kept (backend/storage/thread_store.py,    *)
(* runtime_state_store.py): opening a draft removes old idle drafts, a     *)
(* completed turn removes old idle conversations, and the active_streams   *)
(* record of a turn protects its thread from both.                         *)
(*                                                                         *)
(* Drafts, completions and registrations lock the user's profile row;      *)
(* admission, release, deletion and edits do not.  A transaction reads its *)
(* victims and deletes them later; nobody sees it before it commits.       *)
(* Timestamps are those of the start of a transaction, as in Postgres.     *)
(***************************************************************************)
EXTENDS Naturals, FiniteSets

CONSTANTS
  Threads,     \* thread ids
  Turns,       \* chat requests
  Nobody,      \* no owner of the profile lock
  MaxThreads,  \* max_threads_per_user
  MaxClock     \* bound: timestamps

ASSUME RetentionAssumption ==
  /\ MaxThreads \in Nat \ {0} /\ MaxClock \in Nat
  /\ IsFiniteSet(Threads)
  /\ Threads \cap Turns = {} /\ Nobody \notin Threads \cup Turns

VARIABLES
  row,      \* what became of a thread's row
  saved,    \* threads with a message or a diagram (_HAS_CONTENT_SQL)
  created,  \* created_at
  seen,     \* last_seen_at
  clock,
  lock,     \* the transaction that holds the profile row
  turn,     \* where a turn is
  target,   \* its thread
  stamp,    \* when its completing transaction started
  record,   \* turns with an unexpired active_streams record
  deleted   \* history: threads the user deleted

vars == <<row, saved, created, seen, clock, lock, turn, target, stamp, record, deleted>>

\* conversations and ages are history: what the transaction read.
NoTx   == [owner |-> Nobody, victims |-> {}, spared |-> {}, conversations |-> {},
           ages |-> [x \in Threads |-> 0]]

Live == {"registered", "running", "waiting", "storing"}

TypeOK ==
  /\ row \in [Threads -> {"new", "opening", "creating", "here", "gone"}]
  /\ saved \subseteq Threads
  /\ created \in [Threads -> Nat] /\ seen \in [Threads -> Nat]
  /\ clock \in Nat
  /\ lock \in [owner : Threads \cup Turns \cup {Nobody}, victims : SUBSET Threads,
               spared : SUBSET Threads, conversations : SUBSET Threads,
               ages : [Threads -> Nat]]
  /\ turn \in [Turns -> {"idle", "registering", "cancelled", "releasing",
                         "ended", "crashed"} \cup Live]
  /\ target \in [Turns -> Threads]
  /\ stamp \in [Turns -> Nat]
  /\ record \subseteq Turns
  /\ deleted \subseteq Threads
  /\ \A x \in Threads : row[x] = "creating" <=> lock.owner = x
  /\ \A t \in Turns : turn[t] = "storing" <=> lock.owner = t

\* The user comes with some threads, as many drafts and conversations as may be.
Init ==
  /\ row \in [Threads -> {"new", "here"}]
  /\ saved \in SUBSET {x \in Threads : row[x] = "here"}
  /\ Cardinality(saved) <= MaxThreads
  /\ Cardinality({x \in Threads : row[x] = "here"} \ saved) <= MaxThreads
  /\ clock = Cardinality({x \in Threads : row[x] = "here"})
  /\ created \in [Threads -> 0..clock]
  /\ \A x \in Threads : created[x] = 0 <=> row[x] = "new"
  /\ \A x, y \in Threads : row[x] = "here" /\ created[x] = created[y] => x = y
  /\ seen = created
  /\ lock = NoTx
  /\ turn = [t \in Turns |-> "idle"]
  /\ target \in [Turns -> Threads]
  /\ stamp = [t \in Turns |-> 0]
  /\ record = {} /\ deleted = {}

-----------------------------------------------------------------------------
(* What a transaction removes.                                             *)

Here == {x \in Threads : row[x] = "here"}

\* Mutant: a new chat counts conversations as drafts.
AnyThread(x) == x \in Threads

Empty(x) == x \notin saved

\* Mutant: retention does not look at the active streams.
NobodyActive == {}

Active == {target[t] : t \in record}

\* Mutant: the oldest are kept.
Earlier(time, x, y) == time[x] < time[y]

Later(time, x, y) == time[x] > time[y]

\* Mutant: one thread too many is kept.
BeyondCap(S, time) == {x \in S : Cardinality({y \in S : Later(time, y, x)}) >= MaxThreads}

\* rows[max_threads_per_user - 1 :] of the newest first.
Excess(S, time) == {x \in S : Cardinality({y \in S : Later(time, y, x)}) >= MaxThreads - 1}

Locked(owner, victims) ==
  lock' = [owner |-> owner, victims |-> victims, spared |-> Active,
           conversations |-> saved \cap Here, ages |-> seen]

Removed(victims) == [x \in Threads |-> IF x \in victims THEN "gone" ELSE row[x]]

\* Mutant: the profile row is not locked.
NoLockTaken == TRUE

LockFree == lock.owner = Nobody

-----------------------------------------------------------------------------
(* Opening a draft: create_thread.                                         *)

OpenDraft(x) ==
  /\ row[x] = "new" /\ clock < MaxClock
  /\ row' = [row EXCEPT ![x] = "opening"]
  /\ clock' = clock + 1
  /\ created' = [created EXCEPT ![x] = clock + 1]
  /\ seen' = [seen EXCEPT ![x] = clock + 1]
  /\ UNCHANGED <<saved, lock, turn, target, stamp, record, deleted>>

SelectDrafts(x) ==
  /\ row[x] = "opening" /\ LockFree
  /\ row' = [row EXCEPT ![x] = "creating"]
  /\ Locked(x, Excess({y \in Here \ Active : Empty(y)}, created))
  /\ UNCHANGED <<saved, created, seen, clock, turn, target, stamp, record, deleted>>

\* The deletion checks once more that a draft is still empty.
CommitDraft(x) ==
  /\ lock.owner = x
  /\ row' = [Removed({y \in lock.victims : Empty(y)}) EXCEPT ![x] = "here"]
  /\ lock' = NoTx
  /\ UNCHANGED <<saved, created, seen, clock, turn, target, stamp, record, deleted>>

DraftFails(x) ==
  /\ row[x] \in {"opening", "creating"}
  /\ row' = [row EXCEPT ![x] = "gone"]
  /\ lock' = IF lock.owner = x THEN NoTx ELSE lock
  /\ UNCHANGED <<saved, created, seen, clock, turn, target, stamp, record, deleted>>

-----------------------------------------------------------------------------
(* A turn, as far as retention knows it.                                   *)

Goto(t, place) == turn' = [turn EXCEPT ![t] = place]

Admit(t) ==
  /\ turn[t] = "idle" /\ row[target[t]] = "here"
  /\ Goto(t, "registering")
  /\ UNCHANGED <<row, saved, created, seen, clock, lock, target, stamp, record, deleted>>

\* Mutant: a cancelled registration leaves its record behind.
LeavesRecord == "ended"

\* The record's id never reached the turn: the storage call releases it.
AfterCancelledCall == "releasing"

Register(t) ==
  /\ turn[t] \in {"registering", "cancelled"} /\ LockFree
  /\ record' = record \cup {t}
  /\ Goto(t, IF turn[t] = "cancelled" THEN AfterCancelledCall ELSE "registered")
  /\ UNCHANGED <<row, saved, created, seen, clock, lock, target, stamp, deleted>>

\* Mutant: the thread is looked up only before the registration.
AlwaysFound(t) == TRUE

Found(t) == row[target[t]] = "here"

Recheck(t) ==
  /\ turn[t] = "registered"
  /\ Goto(t, IF Found(t) THEN "running" ELSE "releasing")
  /\ UNCHANGED <<row, saved, created, seen, clock, lock, target, stamp, record, deleted>>

\* persist_turn, from the start of its transaction.
StartCompletion(t) ==
  /\ turn[t] = "running" /\ clock < MaxClock
  /\ Goto(t, "waiting")
  /\ clock' = clock + 1
  /\ stamp' = [stamp EXCEPT ![t] = clock + 1]
  /\ UNCHANGED <<row, saved, created, seen, lock, target, record, deleted>>

SelectConversations(t) ==
  /\ turn[t] = "waiting" /\ LockFree
  /\ row[target[t]] = "here"
  /\ Goto(t, "storing")
  /\ Locked(t, Excess({y \in Here \ (Active \cup {target[t]}) : ~Empty(y)}, seen))
  /\ UNCHANGED <<row, saved, created, seen, clock, target, stamp, record, deleted>>

CommitTurn(t) ==
  /\ lock.owner = t
  /\ saved' = saved \cup {target[t]}
  /\ seen' = [seen EXCEPT ![target[t]] = stamp[t]]
  /\ row' = Removed(lock.victims)
  /\ lock' = NoTx
  /\ Goto(t, "releasing")
  /\ UNCHANGED <<created, clock, target, stamp, record, deleted>>

\* The thread is gone, the turn was stored before, the thread is full, the
\* transaction failed.
NothingStored(t) ==
  /\ turn[t] = "waiting" \/ lock.owner = t
  /\ lock' = IF lock.owner = t THEN NoTx ELSE lock
  /\ Goto(t, "releasing")
  /\ UNCHANGED <<row, saved, created, seen, clock, target, stamp, record, deleted>>

\* The turn ends without an answer, the server shuts down.
Abandon(t) ==
  /\ turn[t] \in {"registering", "registered", "running"}
  /\ Goto(t, IF turn[t] = "registering" THEN "cancelled" ELSE "releasing")
  /\ UNCHANGED <<row, saved, created, seen, clock, lock, target, stamp, record, deleted>>

Release(t) ==
  /\ turn[t] = "releasing"
  /\ record' = record \ {t}
  /\ Goto(t, "ended")
  /\ UNCHANGED <<row, saved, created, seen, clock, lock, target, stamp, deleted>>

\* The process dies; the database rolls its transaction back.
Crash(t) ==
  /\ turn[t] \notin {"idle", "ended", "crashed"}
  /\ Goto(t, "crashed")
  /\ lock' = IF lock.owner = t THEN NoTx ELSE lock
  /\ UNCHANGED <<row, saved, created, seen, clock, target, stamp, record, deleted>>

\* expires_at_epoch lies after every end of a turn.
Expires(t) == turn[t] = "crashed"

Expire(t) ==
  /\ t \in record /\ Expires(t)
  /\ record' = record \ {t}
  /\ UNCHANGED <<row, saved, created, seen, clock, lock, turn, target, stamp, deleted>>

-----------------------------------------------------------------------------
(* The user, meanwhile, outside the profile lock.  A completing turn holds *)
(* its thread's row.                                                       *)

RowFree(x) == \A t \in Turns : lock.owner = t => target[t] # x

DeleteThread(x) ==
  /\ row[x] = "here" /\ RowFree(x)
  /\ row' = [row EXCEPT ![x] = "gone"]
  /\ deleted' = deleted \cup {x}
  /\ UNCHANGED <<saved, created, seen, clock, lock, turn, target, stamp, record>>

\* An edit, a restore, a layout or a title is stored.
Touch(x) ==
  /\ row[x] = "here" /\ x \in saved /\ RowFree(x)
  /\ clock < MaxClock
  /\ clock' = clock + 1
  /\ seen' = [seen EXCEPT ![x] = clock + 1]
  /\ UNCHANGED <<row, saved, created, lock, turn, target, stamp, record, deleted>>

-----------------------------------------------------------------------------

DraftStep(x) == SelectDrafts(x) \/ CommitDraft(x) \/ DraftFails(x)

TurnStep(t) ==
  \/ Register(t) \/ Recheck(t) \/ StartCompletion(t) \/ SelectConversations(t)
  \/ CommitTurn(t) \/ NothingStored(t) \/ Abandon(t) \/ Release(t)

Next ==
  \/ \E x \in Threads : OpenDraft(x) \/ DraftStep(x) \/ DeleteThread(x) \/ Touch(x)
  \/ \E t \in Turns : Admit(t) \/ TurnStep(t) \/ Crash(t) \/ Expire(t)

\* Transactions end, a turn ends at its deadline at the latest, time passes.
Fairness ==
  /\ \A x \in Threads : WF_vars(DraftStep(x))
  /\ \A t \in Turns : WF_vars(TurnStep(t)) /\ WF_vars(Expire(t))

Spec == Init /\ [][Next]_vars

FairSpec == Spec /\ Fairness

-----------------------------------------------------------------------------
(* Properties.                                                             *)

\* Retention never takes the thread of a turn that passed the check after its
\* registration: only the user can.
InFlightThreadKept ==
  \A t \in Turns : turn[t] \in {"running", "waiting", "storing"} =>
    row[target[t]] = "here" \/ target[t] \in deleted

\* "Opening a blank composer must never evict a conversation": one disappears
\* when the user deletes it or another turn of the user completes.
OnlyCompletionsEvict ==
  [][\A x \in saved : row[x] = "here" /\ row'[x] = "gone" =>
       x \in deleted' \/ lock.owner \in Turns]_vars

\* A conversation is evicted only for MaxThreads others: the one that completed
\* and conversations that were seen later when the transaction read them.
EvictsTheOldest ==
  [][\A x \in saved : row[x] = "here" /\ row'[x] = "gone" /\ x \notin deleted' =>
       Cardinality({y \in lock.conversations : lock.ages[y] > lock.ages[x]}
                   \cup {target[t] : t \in {u \in Turns : lock.owner = u}})
         >= MaxThreads]_vars

\* A completed turn leaves MaxThreads conversations and a new draft MaxThreads
\* drafts, but for those an active turn protected.
CapEnforced ==
  [][/\ \A t \in Turns : CommitTurn(t) =>
          Cardinality((Here' \cap saved') \ (lock.spared \ {target[t]})) <= MaxThreads
     /\ \A x \in Threads : CommitDraft(x) =>
          Cardinality((Here' \ saved') \ lock.spared) <= MaxThreads]_vars

\* A record exists only for a turn that will release it, or for a dead process.
RecordsOwned ==
  \A t \in record : turn[t] \notin {"idle", "registering", "cancelled", "ended"}

\* Every record stops to protect its thread.
RecordsEnd == \A t \in Turns : t \in record ~> t \notin record

\* Whatever retention and registration do to each other, the thread of a running turn
\* stays, and no record protects a thread for nobody (runtime_state_store.py).
ActiveThreadsAreKept == InFlightThreadKept /\ RecordsOwned

\* Conversations go only when another turn completes, the oldest first, and no more
\* than the cap asks for, nor fewer (thread_store.py).
EvictionIsFair == OnlyCompletionsEvict /\ EvictsTheOldest /\ CapEnforced
=============================================================================
