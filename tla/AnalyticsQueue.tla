--------------------------- MODULE AnalyticsQueue ---------------------------
(***************************************************************************)
(* The queue between the requests and the analytics tables                 *)
(* (backend/analytics/events.py): a bounded queue with one worker, started *)
(* and stopped with the application.  Without a queue an event is written  *)
(* by whoever reports it.  Stopping waits a second for room to put the     *)
(* stop marker and five for the worker to reach it, then cancels the       *)
(* worker; a write that has begun goes on in its thread.                   *)
(***************************************************************************)
EXTENDS Integers, Sequences, FiniteSets, SequencesExt

CONSTANTS
  Events,     \* events to report: 1..n, in this order
  QueueSize   \* max(1, analytics_queue_max_size)

ASSUME QueueAssumption ==
  /\ QueueSize \in Nat \ {0}
  /\ IsFiniteSet(Events) /\ Events = 1..Cardinality(Events)

VARIABLES
  open,      \* _queue is set
  queue,     \* the queue
  worker,    \* _analytics_worker: none, idle, gone, or the event it is writing
  writing,   \* writes that go on without their worker
  stopping,  \* how far stop_analytics_worker is
  accepted,  \* events that enqueue_analytics_event answered TRUE to, in order
  log,       \* events whose write has ended, in order, whether it worked or not
  dropped,   \* _dropped_events
  lost,      \* history: accepted events left behind by a stop
  reported   \* history: how many events were reported

queueVars == <<open, queue, worker, writing, stopping, accepted, log, dropped, lost, reported>>

Marker == 0
Idle == -1
NoWorker == -2
Gone == -3

QueueTypeOK ==
  /\ open \in BOOLEAN /\ queue \in Seq(Events \cup {Marker}) /\ Len(queue) <= QueueSize
  /\ worker \in Events \cup {Idle, NoWorker, Gone} /\ writing \subseteq Events
  /\ stopping \in {"no", "marking", "waiting"}
  /\ accepted \in Seq(Events) /\ log \in Seq(Events)
  /\ dropped \in Nat /\ lost \subseteq Events /\ reported \in Nat

QueueInit ==
  /\ open = FALSE /\ queue = << >> /\ worker = NoWorker /\ writing = {} /\ stopping = "no"
  /\ accepted = << >> /\ log = << >> /\ dropped = 0 /\ lost = {} /\ reported = 0

\* start_analytics_worker: a worker that still runs keeps its queue.
\* Mutant: a start replaces the queue under a running worker.
StartAnew == stopping = "no"

Startable == worker \in {NoWorker, Gone} /\ stopping = "no"

StartWorker ==
  /\ Startable
  /\ open' = TRUE /\ queue' = << >> /\ worker' = Idle
  /\ UNCHANGED <<writing, stopping, accepted, log, dropped, lost, reported>>

\* An event that is invalid, or finds the queue full, is counted and dropped.
Report ==
  /\ reported < Cardinality(Events)
  /\ reported' = reported + 1
  /\ \/ dropped' = dropped + 1 /\ UNCHANGED <<queue, accepted, log>>
     \/ IF ~open
        THEN \* written at once: accepted if the write works
             /\ \/ accepted' = Append(accepted, reported')
                \/ UNCHANGED accepted
             /\ log' = Append(log, reported')
             /\ UNCHANGED <<queue, dropped>>
        ELSE /\ Len(queue) < QueueSize
             /\ queue' = Append(queue, reported')
             /\ accepted' = Append(accepted, reported')
             /\ UNCHANGED <<log, dropped>>
  /\ UNCHANGED <<open, worker, writing, stopping, lost>>

\* The worker takes the next event; at the marker it returns.
Take ==
  /\ worker = Idle /\ queue # << >>
  /\ worker' = IF Head(queue) = Marker THEN Gone ELSE Head(queue)
  /\ queue' = Tail(queue)
  /\ UNCHANGED <<open, writing, stopping, accepted, log, dropped, lost, reported>>

\* A write that fails is only logged.
Written ==
  /\ \/ worker \in Events /\ log' = Append(log, worker) /\ worker' = Idle
        /\ UNCHANGED writing
     \/ /\ \E e \in writing : writing' = writing \ {e} /\ log' = Append(log, e)
        /\ UNCHANGED worker
  /\ UNCHANGED <<open, queue, stopping, accepted, dropped, lost, reported>>

\* stop_analytics_worker: the marker waits for room, for a second.
StopMarks ==
  /\ \/ /\ stopping = "no" /\ open /\ worker # NoWorker /\ stopping' = "marking"
        /\ UNCHANGED queue
     \/ /\ stopping = "marking" /\ stopping' = "waiting"
        /\ \/ Len(queue) < QueueSize /\ queue' = Append(queue, Marker)
           \/ Len(queue) = QueueSize /\ UNCHANGED queue
  /\ UNCHANGED <<open, worker, writing, accepted, log, dropped, lost, reported>>

\* Mutant: a worker that is still busy is waited for without end.
WaitsForWorker == worker = Gone

\* The worker has returned, or its five seconds are over and it is cancelled.
WaitIsOver == TRUE

StopEnds ==
  /\ stopping = "waiting" /\ WaitIsOver
  /\ open' = FALSE /\ queue' = << >> /\ worker' = NoWorker /\ stopping' = "no"
  /\ writing' = writing \cup ({worker} \cap Events)
  /\ lost' = lost \cup (ToSet(queue) \ {Marker})
  /\ UNCHANGED <<accepted, log, dropped, reported>>

QueueNext == StartWorker \/ Report \/ Take \/ Written \/ StopMarks \/ StopEnds

\* The worker runs and writes end; a stop that has begun is carried through.
QueueFairness ==
  /\ WF_queueVars(Take) /\ WF_queueVars(Written) /\ WF_queueVars(StopEnds)
  /\ WF_queueVars(stopping = "marking" /\ StopMarks)

QueueSpec == QueueInit /\ [][QueueNext]_queueVars /\ QueueFairness

-----------------------------------------------------------------------------
(* Properties.                                                             *)

\* No accepted event is lost but by a stop that gave up on its worker: it is queued, being
\* written or written, and written only once, whatever starts and stops come between.
AcceptedIsKept ==
  \A e \in ToSet(accepted) :
    /\ e \in ToSet(queue) \cup {worker} \cup writing \cup ToSet(log) \cup lost
    /\ Cardinality({i \in DOMAIN log : log[i] = e}) <= 1
    /\ e \in lost => e \notin ToSet(log) \cup writing

\* Every accepted event is written in the end, or was left behind by a stop; and a stop
\* ends, however full the queue is and however long the write in hand takes.
AcceptedIsWritten ==
  \A e \in Events : e \in ToSet(accepted) ~> e \in ToSet(log) \cup lost

StopComesToAnEnd == stopping # "no" ~> stopping = "no"
=============================================================================
