-------------------------- MODULE DiagramEvaluation --------------------------
(***************************************************************************)
(* The private rendering of candidates                                     *)
(* (backend/api/diagram_evaluation_channel.py, as chat_websocket.py uses   *)
(* it): the agent sends a candidate to the browser and waits; the browser  *)
(* renders it out of sight and uploads a report and a picture in chunks;   *)
(* the receiver task puts them together and wakes the agent, unless the    *)
(* wait timed out or its run was cancelled.                                *)
(*                                                                         *)
(* The WebSocket keeps the order of the frames.  The channel says that it  *)
(* also copes with frames out of order or twice: both are modelled.        *)
(***************************************************************************)
EXTENDS Naturals, Sequences, FiniteSets

CONSTANTS
  Evaluations,  \* evaluation ids
  Versions,     \* versions of candidates
  Chunks,       \* chunks of a picture
  None

ASSUME EvaluationAssumption ==
  /\ Chunks \in Nat \ {0}
  /\ None \notin Evaluations \cup Versions

VARIABLES
  agent,     \* the agent's await, and the evaluation it is about
  asked,     \* the version each evaluation was requested for
  waiters,   \* _waiters
  uploads,   \* _uploads: the chunks each upload has, by evaluation
  future,    \* the future of the waiter
  returned,  \* what each request returned
  shown,     \* the candidate the browser renders
  captured,  \* evaluations the browser uploaded
  wire,      \* frames on their way to the server
  orderly,   \* the connection neither reorders nor repeats
  receiver   \* the receiver task runs

vars == <<agent, asked, waiters, uploads, future, returned, shown, captured, wire,
          orderly, receiver>>

Pieces == 1..Chunks

\* How a capture went: a picture, a failure the browser reports, a report or a
\* picture the server rejects.
Captures == {"good", "failed", "badReport", "badPicture"}

\* of: the evaluation a part of an answer was rendered for.
Chunk  == [of : Evaluations, index : Pieces, capture : Captures]
Frame  == [type : {"start", "complete"}, id : Evaluations, capture : Captures]
          \cup [type : {"chunk"}, id : Evaluations, capture : Captures, index : Pieces]
Answer == [kind : {"picture", "error"}, report : Evaluations, chunks : SUBSET Chunk]

\* The report an upload began with and its chunks, keyed by index.
Upload == [report : Evaluations, capture : Captures,
           chunks : UNION {[D -> Chunk] : D \in SUBSET Pieces}]

TypeOK ==
  /\ agent \in [at : {"working", "sending", "waiting", "leaving"},
                id : Evaluations \cup {None}]
  /\ asked \in [Evaluations -> Versions \cup {None}]
  /\ waiters \subseteq Evaluations
  /\ DOMAIN uploads \subseteq Evaluations
  /\ \A e \in DOMAIN uploads : uploads[e] \in Upload
  /\ future \in [state : {"pending", "done", "cancelled"},
                 answer : Answer \cup {None}]
  /\ returned \in [Evaluations -> Answer \cup {None}]
  /\ shown \in Evaluations \cup {None}
  /\ captured \subseteq Evaluations
  /\ wire \in Seq(Frame)
  /\ orderly \in BOOLEAN /\ receiver \in BOOLEAN

NoFuture == [state |-> "cancelled", answer |-> None]

Init ==
  /\ agent = [at |-> "working", id |-> None]
  /\ asked = [e \in Evaluations |-> None]
  /\ waiters = {}
  /\ uploads = << >>
  /\ future = NoFuture
  /\ returned = [e \in Evaluations |-> None]
  /\ shown = None
  /\ captured = {}
  /\ wire = << >>
  /\ orderly \in BOOLEAN
  /\ receiver = TRUE

-----------------------------------------------------------------------------
(* The agent: request.                                                     *)

Drop(f, e) == [d \in DOMAIN f \ {e} |-> f[d]]

Request(e, v) ==
  /\ agent.at = "working" /\ asked[e] = None
  /\ agent' = [at |-> "sending", id |-> e]
  /\ asked' = [asked EXCEPT ![e] = v]
  /\ waiters' = waiters \cup {e}
  /\ future' = [state |-> "pending", answer |-> None]
  /\ UNCHANGED <<uploads, returned, shown, captured, wire, orderly, receiver>>

\* The browser renders the newest candidate only.
Show ==
  /\ agent.at = "sending" /\ shown # agent.id
  /\ shown' = agent.id
  /\ UNCHANGED <<agent, asked, waiters, uploads, future, returned, captured, wire,
                 orderly, receiver>>

\* The send is over, perhaps after the browser answered.
Await ==
  /\ agent.at = "sending" /\ shown = agent.id
  /\ agent' = [agent EXCEPT !.at = "waiting"]
  /\ UNCHANGED <<asked, waiters, uploads, future, returned, shown, captured, wire,
                 orderly, receiver>>

\* A steer, a stop, a timeout or a failed send.  A future that is awaited is
\* cancelled at once and its task runs later; an answer that came first is lost.
Abandon ==
  /\ agent.at \in {"sending", "waiting"}
  /\ agent' = [agent EXCEPT !.at = "leaving"]
  /\ future' = IF agent.at = "waiting" /\ future.state = "pending"
               THEN NoFuture ELSE future
  /\ UNCHANGED <<asked, waiters, uploads, returned, shown, captured, wire, orderly,
                 receiver>>

\* Mutant: an unfinished upload is not forgotten.
KeptUploads == uploads

DroppedUploads == Drop(uploads, agent.id)

\* The finally block of request.
Forget ==
  /\ waiters' = waiters \ {agent.id}
  /\ uploads' = DroppedUploads
  /\ agent' = [at |-> "working", id |-> None]
  /\ future' = NoFuture
  /\ UNCHANGED <<asked, captured, wire, orderly, receiver>>

Return ==
  /\ agent.at = "waiting" /\ future.state = "done"
  /\ returned' = [returned EXCEPT ![agent.id] = future.answer]
  /\ Forget
  /\ UNCHANGED shown

\* The client is told of a steer or an end of the turn and drops the candidate;
\* after a timeout it may go on with it.
Leave ==
  /\ agent.at = "leaving"
  /\ Forget
  /\ shown' \in {shown, None}
  /\ UNCHANGED returned

-----------------------------------------------------------------------------
(* The browser: HiddenGraphEvaluator and submitDiagramEvaluation.          *)

Start(e, c)    == [type |-> "start", id |-> e, capture |-> c]
Piece(e, c, i) == [type |-> "chunk", id |-> e, capture |-> c, index |-> i]
Complete(e, c) == [type |-> "complete", id |-> e, capture |-> c]

Submit(c) ==
  /\ shown # None /\ shown \notin captured
  /\ captured' = captured \cup {shown}
  /\ wire' = wire \o <<Start(shown, c)>> \o [i \in Pieces |-> Piece(shown, c, i)]
                  \o <<Complete(shown, c)>>
  /\ UNCHANGED <<agent, asked, waiters, uploads, future, returned, shown, orderly,
                 receiver>>

-----------------------------------------------------------------------------
(* The receiver task: accept.                                              *)

\* Mutant: the channel takes whatever comes while something waits.
AnyWaiter(f) == waiters

Addressed(f) == waiters \cap {f.id}

\* Mutant: nobody looks whether the request was answered before.
AlwaysOpen == TRUE

FutureOpen == future.state = "pending"

\* Setting the result of a future that is done raises in the receiver.
SetResult(answer) ==
  IF FutureOpen
  THEN /\ future' = IF future.state = "pending"
                    THEN [state |-> "done", answer |-> answer] ELSE future
       /\ receiver' = (future.state = "pending")
  ELSE UNCHANGED <<future, receiver>>

Reject(report) == SetResult([kind |-> "error", report |-> report, chunks |-> {}])

\* A report of another version is ignored; a new start begins the upload anew.
AcceptStart(e, f) ==
  IF asked[f.id] # asked[e] THEN UNCHANGED <<uploads, future, receiver>>
  ELSE IF f.capture \in {"failed", "badReport"}
       THEN Reject(f.id) /\ UNCHANGED uploads
       ELSE /\ uploads' = [d \in DOMAIN uploads \cup {e} |->
                 IF d = e THEN [report |-> f.id, capture |-> f.capture, chunks |-> << >>]
                 ELSE uploads[d]]
            /\ UNCHANGED <<future, receiver>>

\* Mutant: the first chunk is chunk 1 here and chunk 0 there.
OneOff(chunks, f) ==
  [i \in DOMAIN chunks \cup {f.index + 1} |->
     IF i = f.index + 1 THEN [of |-> f.id, index |-> i, capture |-> f.capture]
     ELSE chunks[i]]

With(chunks, f) ==
  [i \in DOMAIN chunks \cup {f.index} |->
     IF i = f.index THEN [of |-> f.id, index |-> i, capture |-> f.capture] ELSE chunks[i]]

AcceptChunk(e, f) ==
  /\ uploads' = IF e \in DOMAIN uploads
                THEN [uploads EXCEPT ![e].chunks = With(@, f)] ELSE uploads
  /\ UNCHANGED <<future, receiver>>

\* Mutant: the count is one too high.
MoreThanWhole(u) == Cardinality(DOMAIN u.chunks) > Chunks

\* Mutant: the last chunk is not waited for.
AlmostWhole(u) == Cardinality(DOMAIN u.chunks) >= Chunks - 1

Whole(u) == Cardinality(DOMAIN u.chunks) = Chunks

AcceptComplete(e, f) ==
  IF e \notin DOMAIN uploads \/ ~Whole(uploads[e])
  THEN UNCHANGED <<uploads, future, receiver>>
  ELSE IF uploads[e].capture = "badPicture"
       THEN Reject(uploads[e].report) /\ UNCHANGED uploads
       ELSE /\ SetResult([kind |-> "picture", report |-> uploads[e].report,
                          chunks |-> {uploads[e].chunks[i] : i \in DOMAIN uploads[e].chunks}])
            /\ uploads' = IF FutureOpen THEN Drop(uploads, e) ELSE uploads

Accept(f) ==
  IF Addressed(f) = {} THEN UNCHANGED <<uploads, future, receiver>>
  ELSE \E e \in Addressed(f) :
         \/ f.type = "start"    /\ AcceptStart(e, f)
         \/ f.type = "chunk"    /\ AcceptChunk(e, f)
         \/ f.type = "complete" /\ AcceptComplete(e, f)

Receive ==
  /\ receiver /\ wire # << >>
  /\ IF orderly
     THEN Accept(Head(wire)) /\ wire' = Tail(wire)
     ELSE (\E i \in DOMAIN wire : Accept(wire[i])) /\ UNCHANGED wire
  /\ UNCHANGED <<agent, asked, waiters, returned, shown, captured, orderly>>

-----------------------------------------------------------------------------

AgentStep ==
  \/ \E e \in Evaluations, v \in Versions : Request(e, v)
  \/ Show \/ Abandon

Resume == Await \/ Return \/ Leave

Browse == \E c \in Captures : Submit(c)

Next == AgentStep \/ Resume \/ Browse \/ Receive

\* asyncio resumes tasks and runs the receiver.  No wait has to time out.
Spec == Init /\ [][Next]_vars /\ WF_vars(Resume) /\ WF_vars(Receive)

-----------------------------------------------------------------------------
(* Properties.                                                             *)

\* "a late browser result" never approves "a newer candidate": what a request
\* returns was rendered for it, the report and every chunk, and is complete.
AnswersMatch ==
  \A e \in Evaluations : returned[e] # None =>
    /\ returned[e].report = e
    /\ returned[e].kind = "picture" =>
         /\ {c.index : c \in returned[e].chunks} = Pieces
         /\ \A c \in returned[e].chunks : c.of = e /\ c.capture = "good"

\* Nothing of a request outlives it, however it ended and whatever came after.
NothingLeftBehind == agent.at = "working" => waiters = {} /\ DOMAIN uploads = {}

\* A second answer never raises in the receiver, which would end the turn.
ReceiverSurvives == receiver

\* On an orderly connection a capture that was sent for a waiting request ends
\* its wait, without the help of the timeout.
CaptureAnswers ==
  \A e \in Evaluations :
    (orderly /\ agent = [at |-> "waiting", id |-> e] /\ e \in captured) ~> (agent.id # e)

\* Whatever frames come and however a request ends, an evaluation gets the measurement
\* of its own candidate, leaves nothing behind and never ends the receiving loop
\* (diagram_evaluation_channel.py).
MeasurementsAreSound == AnswersMatch /\ NothingLeftBehind /\ ReceiverSurvives
=============================================================================
