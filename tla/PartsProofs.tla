----------------------------- MODULE PartsProofs -----------------------------
(***************************************************************************)
(* Theorems of the parts beside a turn, each about the part's own          *)
(* specification and for every value of its constants: the diagram         *)
(* evaluation channel, the analytics queue, the operation a prompt asks    *)
(* for, and the runs of the browser suite.                                 *)
(***************************************************************************)
EXTENDS DiagramEvaluation, AnalyticsQueue, Conversation, BrowserRuns,
        FiniteSetTheorems, SequenceTheorems, TLAPS

(***************************************************************************)
(* The diagram evaluation channel: for any evaluations, versions and       *)
(* number of chunks, over a connection that may reorder and repeat frames. *)
(***************************************************************************)
Chunkings == UNION {[D -> Chunk] : D \in SUBSET Pieces}

\* Only the request the agent is in has a waiter, and only it has an upload.
OneWaiter ==
  /\ agent.at # "working" => agent.id \in Evaluations
  /\ waiters = IF agent.at = "working" THEN {} ELSE {agent.id}
  /\ DOMAIN uploads \subseteq waiters

\* Every frame is of a capture the browser made, one for each evaluation.
FramesMatch(cap) ==
  \A i \in DOMAIN wire :
    wire[i].id \in captured /\ wire[i].capture = cap[wire[i].id]

\* An upload holds its own capture and nothing else.
UploadsMatch(cap) ==
  \A e \in DOMAIN uploads :
    /\ e \in captured
    /\ uploads[e].report = e /\ uploads[e].capture = cap[e]
    /\ cap[e] \in {"good", "badPicture"}
    /\ \A i \in DOMAIN uploads[e].chunks :
         uploads[e].chunks[i] = [of |-> e, index |-> i, capture |-> cap[e]]

OneCapture == \E cap \in [Evaluations -> Captures] : FramesMatch(cap) /\ UploadsMatch(cap)

\* An answer for e: its report and, with a picture, all its chunks.
Rendered(e, answer) ==
  /\ answer.report = e
  /\ answer.kind = "picture" =>
       /\ {c.index : c \in answer.chunks} = Pieces
       /\ \A c \in answer.chunks : c.of = e /\ c.capture = "good"

FutureMatches ==
  future.state = "done" =>
    /\ agent.at # "working"
    /\ future.answer \in Answer /\ Rendered(agent.id, future.answer)

ChannelInv ==
  /\ TypeOK /\ OneWaiter /\ OneCapture /\ FutureMatches
  /\ AnswersMatch /\ ReceiverSurvives

-----------------------------------------------------------------------------
(* The operators.                                                          *)

LEMMA ChunksTyped ==
  ASSUME NEW chunks \in Chunkings, NEW f \in Frame, f.type = "chunk"
  PROVE  With(chunks, f) \in Chunkings
<1>1. PICK D \in SUBSET Pieces : chunks \in [D -> Chunk]
  BY DEF Chunkings
<1>2. f.index \in Pieces /\ f.id \in Evaluations /\ f.capture \in Captures
  BY DEF Frame
<1>3. With(chunks, f) \in [D \cup {f.index} -> Chunk]
  BY <1>1, <1>2 DEF With, Chunk
<1>4. D \cup {f.index} \in SUBSET Pieces
  BY <1>2
<1>5. QED
  BY <1>3, <1>4 DEF Chunkings

\* As many chunks as there are pieces are all of them.
LEMMA WholeMeansAll ==
  ASSUME NEW u \in Upload, Whole(u)
  PROVE  DOMAIN u.chunks = Pieces
<1>1. DOMAIN u.chunks \in SUBSET Pieces
  BY DEF Upload
<1>2. IsFiniteSet(Pieces) /\ Cardinality(Pieces) = Chunks
  BY EvaluationAssumption, FS_Interval DEF Pieces
<1>3. QED
  BY <1>1, <1>2, FS_Subset DEF Whole

FutureTyped ==
  future \in [state : {"pending", "done", "cancelled"}, answer : Answer \cup {None}]

\* Whatever is answered while a request waits, the receiver survives it.
LEMMA SetResultKeeps ==
  ASSUME TypeOK, OneWaiter, FutureMatches, receiver, UNCHANGED agent,
         agent.at # "working",
         NEW answer \in Answer, Rendered(agent.id, answer), SetResult(answer)
  PROVE  FutureTyped' /\ FutureMatches' /\ receiver'
<1>1. CASE FutureOpen
  <2>1. future' = [state |-> "done", answer |-> answer] /\ receiver'
    BY <1>1 DEF SetResult, FutureOpen
  <2>2. FutureTyped'
    BY <2>1 DEF FutureTyped
  <2>3. future'.answer = answer /\ agent' = agent
    BY <2>1
  <2>4. Rendered(agent'.id, future'.answer)
    BY <2>3
  <2>5. FutureMatches'
    BY <2>3, <2>4 DEF FutureMatches
  <2>6. QED
    BY <2>1, <2>2, <2>5
<1>2. CASE ~FutureOpen
  <2>1. future' = future /\ receiver' = receiver /\ agent' = agent
    BY <1>2 DEF SetResult
  <2>2. FutureTyped'
    BY <2>1 DEF TypeOK, FutureTyped
  <2>3. FutureMatches'
    BY <2>1 DEF FutureMatches
  <2>4. QED
    BY <2>1, <2>2, <2>3
<1>3. QED
  BY <1>1, <1>2

LEMMA RejectKeeps ==
  ASSUME TypeOK, OneWaiter, FutureMatches, receiver, UNCHANGED agent,
         NEW e \in waiters, Reject(e)
  PROVE  FutureTyped' /\ FutureMatches' /\ receiver'
<1> DEFINE answer == [kind |-> "error", report |-> e, chunks |-> {}]
<1>1. e = agent.id /\ e \in Evaluations /\ agent.at # "working"
  BY DEF OneWaiter
<1>2. answer \in Answer /\ Rendered(agent.id, answer)
  BY <1>1 DEF Answer, Rendered
<1>3. SetResult(answer)
  BY DEF Reject
<1>4. QED
  BY <1>1, <1>2, <1>3, SetResultKeeps

-----------------------------------------------------------------------------
(* The receiver.                                                           *)

UploadsTyped ==
  DOMAIN uploads \subseteq Evaluations /\ \A d \in DOMAIN uploads : uploads[d] \in Upload

\* What handling one frame leaves right.
Kept(cap) ==
  /\ UploadsTyped /\ FutureTyped
  /\ DOMAIN uploads \subseteq waiters /\ UploadsMatch(cap)
  /\ FutureMatches /\ receiver

\* A frame of the capture that was made for e.
LEMMA StartKeeps ==
  ASSUME TypeOK, OneWaiter, FutureMatches, receiver,
         NEW cap \in [Evaluations -> Captures], UploadsMatch(cap),
         NEW f \in Frame, f.id \in captured, f.capture = cap[f.id], f.id \in waiters,
         UNCHANGED <<agent, waiters, captured>>, AcceptStart(f.id, f)
  PROVE  Kept(cap)'
<1> DEFINE e == f.id
<1>1. e \in Evaluations /\ e = agent.id /\ f.capture \in Captures
  BY DEF Frame, OneWaiter
<1>2. CASE UNCHANGED <<uploads, future, receiver>>
  BY <1>2 DEF Kept, UploadsTyped, FutureTyped, TypeOK, OneWaiter, UploadsMatch, FutureMatches
<1>3. CASE Reject(e) /\ UNCHANGED uploads
  <2>1. FutureTyped' /\ FutureMatches' /\ receiver'
    BY <1>3, RejectKeeps
  <2>2. QED
    BY <1>3, <2>1 DEF Kept, UploadsTyped, TypeOK, OneWaiter, UploadsMatch
<1>4. CASE /\ f.capture \in {"good", "badPicture"}
           /\ uploads' = [d \in DOMAIN uploads \cup {e} |->
                 IF d = e THEN [report |-> e, capture |-> f.capture, chunks |-> << >>]
                 ELSE uploads[d]]
           /\ UNCHANGED <<future, receiver>>
  <2>1. << >> \in Chunkings
    <3>1. << >> \in [{} -> Chunk] /\ {} \in SUBSET Pieces
      OBVIOUS
    <3>2. QED
      BY <3>1 DEF Chunkings
  <2>2. [report |-> e, capture |-> f.capture, chunks |-> << >>] \in Upload
    BY <1>1, <2>1 DEF Upload, Chunkings
  <2>3. UploadsTyped'
    BY <1>1, <1>4, <2>2 DEF UploadsTyped, TypeOK
  <2>4. UploadsMatch(cap)'
    BY <1>1, <1>4 DEF UploadsMatch
  <2>5. QED
    BY <1>1, <1>4, <2>3, <2>4 DEF Kept, FutureTyped, FutureMatches, TypeOK, OneWaiter
<1>5. f.capture \notin {"failed", "badReport"} => f.capture \in {"good", "badPicture"}
  BY <1>1 DEF Captures
<1>6. QED
  BY <1>2, <1>3, <1>4, <1>5 DEF AcceptStart

LEMMA ChunkKeeps ==
  ASSUME TypeOK, OneWaiter, FutureMatches, receiver,
         NEW cap \in [Evaluations -> Captures], UploadsMatch(cap),
         NEW f \in Frame, f.type = "chunk", f.capture = cap[f.id], f.id \in waiters,
         UNCHANGED <<agent, waiters, captured>>, AcceptChunk(f.id, f)
  PROVE  Kept(cap)'
<1> DEFINE e == f.id
<1>1. FutureTyped' /\ FutureMatches' /\ receiver'
  BY DEF AcceptChunk, FutureTyped, FutureMatches, TypeOK
<1>2. CASE e \notin DOMAIN uploads
  BY <1>1, <1>2 DEF AcceptChunk, Kept, UploadsTyped, TypeOK, OneWaiter, UploadsMatch
<1>3. CASE e \in DOMAIN uploads
  <2> DEFINE more == With(uploads[e].chunks, f)
  <2>1. uploads[e] \in Upload /\ uploads[e].chunks \in Chunkings
    BY <1>3 DEF TypeOK, Upload, Chunkings
  <2>2. more \in Chunkings
    BY <2>1, ChunksTyped
  <2>3. uploads' = [uploads EXCEPT ![e] = [uploads[e] EXCEPT !.chunks = more]]
    BY <1>3 DEF AcceptChunk
  <2>4. [uploads[e] EXCEPT !.chunks = more] \in Upload
    BY <2>1, <2>2 DEF Upload, Chunkings
  <2>5. UploadsTyped' /\ DOMAIN uploads' \subseteq waiters'
    BY <2>3, <2>4 DEF UploadsTyped, TypeOK, OneWaiter
  <2>6. \A i \in DOMAIN more : more[i] = [of |-> e, index |-> i, capture |-> cap[e]]
    BY <1>3 DEF With, UploadsMatch
  <2>7. uploads'[e].chunks = more
    BY <1>3, <2>1, <2>3 DEF Upload
  <2>8. /\ uploads'[e].report = uploads[e].report
        /\ uploads'[e].capture = uploads[e].capture
    BY <1>3, <2>1, <2>3 DEF Upload
  <2>9. DOMAIN uploads' = DOMAIN uploads
        /\ \A d \in DOMAIN uploads \ {e} : uploads'[d] = uploads[d]
    BY <2>3
  <2>10. UploadsMatch(cap)'
    BY <1>3, <2>6, <2>7, <2>8, <2>9 DEF UploadsMatch
  <2>11. QED
    BY <1>1, <2>5, <2>10 DEF Kept
<1>4. QED
  BY <1>2, <1>3

LEMMA CompleteKeeps ==
  ASSUME TypeOK, OneWaiter, FutureMatches, receiver,
         NEW cap \in [Evaluations -> Captures], UploadsMatch(cap),
         NEW f \in Frame, f.id \in waiters,
         UNCHANGED <<agent, waiters, captured>>, AcceptComplete(f.id, f)
  PROVE  Kept(cap)'
<1> DEFINE e == f.id
           u == uploads[e]
           answer == [kind |-> "picture", report |-> u.report,
                      chunks |-> {u.chunks[i] : i \in DOMAIN u.chunks}]
<1>1. e \in Evaluations /\ e = agent.id /\ agent.at # "working"
  BY DEF OneWaiter
<1>2. CASE UNCHANGED <<uploads, future, receiver>>
  BY <1>2 DEF Kept, UploadsTyped, FutureTyped, TypeOK, OneWaiter, UploadsMatch, FutureMatches
<1>3. ASSUME e \in DOMAIN uploads, u.capture = "badPicture", Reject(u.report),
             UNCHANGED uploads
      PROVE  Kept(cap)'
  <2>1. u.report = e
    BY <1>3 DEF UploadsMatch
  <2>2. FutureTyped' /\ FutureMatches' /\ receiver'
    BY <1>3, <2>1, RejectKeeps
  <2>3. QED
    BY <1>3, <2>2 DEF Kept, UploadsTyped, TypeOK, OneWaiter, UploadsMatch
<1>4. ASSUME e \in DOMAIN uploads, Whole(u), u.capture # "badPicture", SetResult(answer),
             uploads' = IF FutureOpen THEN Drop(uploads, e) ELSE uploads
      PROVE  Kept(cap)'
  <2>1. u \in Upload /\ DOMAIN u.chunks = Pieces
    BY <1>4, WholeMeansAll DEF TypeOK
  <2>2. u.report = e /\ cap[e] = "good"
        /\ \A i \in Pieces : u.chunks[i] = [of |-> e, index |-> i, capture |-> "good"]
    BY <1>4, <2>1 DEF UploadsMatch
  <2>3. /\ \A x \in answer.chunks : \E i \in Pieces : x = u.chunks[i]
        /\ \A i \in Pieces : u.chunks[i] \in answer.chunks
    BY <2>1
  <2> HIDE DEF answer, u, e
  <2>4. \A i \in Pieces : /\ u.chunks[i] \in Chunk /\ u.chunks[i].index = i
                          /\ u.chunks[i].of = e /\ u.chunks[i].capture = "good"
    <3> SUFFICES ASSUME NEW i \in Pieces
                 PROVE  /\ u.chunks[i] \in Chunk /\ u.chunks[i].index = i
                        /\ u.chunks[i].of = e /\ u.chunks[i].capture = "good"
      OBVIOUS
    <3>1. u.chunks[i] = [of |-> e, index |-> i, capture |-> "good"]
      BY <2>2
    <3>2. [of |-> e, index |-> i, capture |-> "good"] \in Chunk
      BY <1>1 DEF Chunk, Captures
    <3>3. QED
      BY <3>1, <3>2
  <2>5. /\ answer.chunks \in SUBSET Chunk
        /\ {x.index : x \in answer.chunks} = Pieces
        /\ \A x \in answer.chunks : x.of = e /\ x.capture = "good"
    <3>1. \A x \in answer.chunks :
            x \in Chunk /\ x.index \in Pieces /\ x.of = e /\ x.capture = "good"
      BY <2>3, <2>4
    <3>2. \A i \in Pieces : \E x \in answer.chunks : x.index = i
      BY <2>3, <2>4
    <3>3. QED
      BY <3>1, <3>2
  <2> USE DEF answer, u, e
  <2>6. answer \in Answer
    BY <1>1, <2>2, <2>5 DEF Answer
  <2>7. Rendered(agent.id, answer)
    BY <1>1, <2>2, <2>5 DEF Rendered
  <2>8. FutureTyped' /\ FutureMatches' /\ receiver'
    BY <1>1, <1>4, <2>6, <2>7, SetResultKeeps
  <2>9. DOMAIN uploads' \subseteq DOMAIN uploads
        /\ \A d \in DOMAIN uploads' : uploads'[d] = uploads[d]
    <3>1. CASE FutureOpen
      <4>1. uploads' = Drop(uploads, e)
        BY <1>4, <3>1
      <4>2. QED
        BY <4>1 DEF Drop
    <3>2. CASE ~FutureOpen
      <4>1. uploads' = uploads
        BY <1>4, <3>2
      <4>2. QED
        BY <4>1
    <3>3. QED
      BY <3>1, <3>2
  <2>10. UploadsTyped' /\ UploadsMatch(cap)' /\ DOMAIN uploads' \subseteq waiters'
    BY <2>9 DEF UploadsTyped, TypeOK, UploadsMatch, OneWaiter
  <2>11. QED
    BY <2>8, <2>10 DEF Kept
<1>5. QED
  BY <1>2, <1>3, <1>4 DEF AcceptComplete

LEMMA AcceptKeeps ==
  ASSUME TypeOK, OneWaiter, FutureMatches, receiver,
         NEW cap \in [Evaluations -> Captures], UploadsMatch(cap),
         NEW f \in Frame, f.id \in captured, f.capture = cap[f.id],
         UNCHANGED <<agent, waiters, captured>>, Accept(f)
  PROVE  Kept(cap)'
<1>1. CASE f.id \notin waiters
  <2>1. UNCHANGED <<uploads, future, receiver>>
    BY <1>1 DEF Accept, Addressed
  <2>2. QED
    BY <2>1 DEF Kept, UploadsTyped, FutureTyped, TypeOK, OneWaiter, UploadsMatch, FutureMatches
<1>2. CASE f.id \in waiters
  <2>1. \/ AcceptStart(f.id, f)
        \/ f.type = "chunk" /\ AcceptChunk(f.id, f)
        \/ AcceptComplete(f.id, f)
    BY <1>2 DEF Accept, Addressed
  <2>2. QED
    BY <1>2, <2>1, StartKeeps, ChunkKeeps, CompleteKeeps
<1>3. QED
  BY <1>1, <1>2

LEMMA ReceiveKeeps ==
  ASSUME ChannelInv, Receive
  PROVE  ChannelInv'
<1> USE DEF ChannelInv, ReceiverSurvives
<1>1. PICK cap \in [Evaluations -> Captures] : FramesMatch(cap) /\ UploadsMatch(cap)
  BY DEF OneCapture
<1>2. wire \in Seq(Frame) /\ UNCHANGED <<agent, asked, waiters, returned, shown, captured, orderly>>
  BY DEF TypeOK, Receive
<1>3. PICK i \in DOMAIN wire : Accept(wire[i])
  <2>1. CASE orderly
    BY <1>2, <2>1, HeadTailProperties DEF Receive
  <2>2. CASE ~orderly
    BY <2>2 DEF Receive
  <2>3. QED
    BY <2>1, <2>2
<1>4. wire' \in Seq(Frame) /\ \A j \in DOMAIN wire' : \E k \in DOMAIN wire : wire'[j] = wire[k]
  <2>1. CASE orderly
    <3>1. wire' = Tail(wire) /\ wire # << >>
      BY <2>1 DEF Receive
    <3>2. wire' \in Seq(Frame) /\ Len(wire') = Len(wire) - 1
          /\ \A j \in 1..Len(wire') : wire'[j] = wire[j + 1]
      BY <1>2, <3>1, HeadTailProperties
    <3>3. DOMAIN wire' = 1..Len(wire') /\ DOMAIN wire = 1..Len(wire) /\ Len(wire) \in Nat
      BY <1>2, <3>2, LenProperties
    <3>4. \A j \in DOMAIN wire' : j + 1 \in DOMAIN wire
      BY <3>2, <3>3
    <3>5. QED
      BY <3>2, <3>3, <3>4
  <2>2. CASE ~orderly
    BY <1>2, <2>2 DEF Receive
  <2>3. QED
    BY <2>1, <2>2
<1>5. wire[i] \in Frame /\ wire[i].id \in captured /\ wire[i].capture = cap[wire[i].id]
  BY <1>1, <1>2 DEF FramesMatch
<1>6. Kept(cap)'
  BY <1>1, <1>2, <1>3, <1>5, AcceptKeeps
<1>7. FramesMatch(cap)'
  BY <1>1, <1>2, <1>4 DEF FramesMatch
<1>8. TypeOK'
  BY <1>2, <1>4, <1>6 DEF TypeOK, Kept, UploadsTyped, FutureTyped
<1>9. OneWaiter' /\ AnswersMatch'
  BY <1>2, <1>6 DEF OneWaiter, AnswersMatch, Kept
<1>10. OneCapture'
  BY <1>6, <1>7 DEF OneCapture, Kept
<1>11. QED
  BY <1>6, <1>8, <1>9, <1>10 DEF Kept

-----------------------------------------------------------------------------
(* The browser.                                                            *)

LEMMA ConcatElements ==
  ASSUME NEW S, NEW s \in Seq(S), NEW t \in Seq(S)
  PROVE  /\ s \o t \in Seq(S)
         /\ \A i \in DOMAIN (s \o t) :
              \/ \E j \in DOMAIN s : (s \o t)[i] = s[j]
              \/ \E j \in DOMAIN t : (s \o t)[i] = t[j]
<1>1. /\ s \o t \in Seq(S) /\ Len(s \o t) = Len(s) + Len(t)
      /\ \A i \in 1 .. Len(s) + Len(t) :
           (s \o t)[i] = IF i <= Len(s) THEN s[i] ELSE t[i - Len(s)]
  BY ConcatProperties
<1>2. Len(s) \in Nat /\ Len(t) \in Nat /\ DOMAIN s = 1..Len(s) /\ DOMAIN t = 1..Len(t)
      /\ DOMAIN (s \o t) = 1..(Len(s) + Len(t))
  BY <1>1, LenProperties
<1>3. ASSUME NEW i \in 1..(Len(s) + Len(t)), i > Len(s)
      PROVE  i - Len(s) \in 1..Len(t)
  BY <1>2, <1>3
<1>4. QED
  BY <1>1, <1>2, <1>3

LEMMA SubmitKeeps ==
  ASSUME ChannelInv, NEW c \in Captures, Submit(c)
  PROVE  ChannelInv'
<1> USE DEF ChannelInv
<1> DEFINE e == shown
           A == <<Start(e, c)>>
           B == [i \in Pieces |-> Piece(e, c, i)]
           Z == <<Complete(e, c)>>
<1>1. e \in Evaluations /\ e \notin captured /\ captured' = captured \cup {e}
      /\ wire' = wire \o A \o B \o Z
      /\ UNCHANGED <<agent, asked, waiters, uploads, future, returned, shown, orderly, receiver>>
  BY DEF Submit, TypeOK
<1>2. Start(e, c) \in Frame /\ Complete(e, c) \in Frame
      /\ \A i \in Pieces : Piece(e, c, i) \in Frame
  BY <1>1 DEF Start, Complete, Piece, Frame
<1>3. A \in Seq(Frame) /\ Z \in Seq(Frame) /\ wire \in Seq(Frame)
  BY <1>2 DEF TypeOK
<1>4. B \in Seq(Frame)
  BY <1>2, EvaluationAssumption, IsASeq DEF Pieces
<1>5. \A i \in DOMAIN A : A[i].id = e /\ A[i].capture = c
  BY DEF Start
<1>6. \A i \in DOMAIN Z : Z[i].id = e /\ Z[i].capture = c
  BY DEF Complete
<1>7. \A i \in DOMAIN B : B[i].id = e /\ B[i].capture = c
  BY DEF Piece
<1> HIDE DEF A, B, Z
<1>8. wire' \in Seq(Frame)
      /\ \A i \in DOMAIN wire' :
           \/ \E j \in DOMAIN wire : wire'[i] = wire[j]
           \/ wire'[i].id = e /\ wire'[i].capture = c
  <2>1. wire \o A \in Seq(Frame) /\ wire \o A \o B \in Seq(Frame)
        /\ wire \o A \o B \o Z \in Seq(Frame)
    BY <1>3, <1>4, ConcatElements
  <2>2. \A i \in DOMAIN (wire \o A) :
           \/ \E j \in DOMAIN wire : (wire \o A)[i] = wire[j]
           \/ (wire \o A)[i].id = e /\ (wire \o A)[i].capture = c
    BY <1>3, <1>5, ConcatElements
  <2>3. \A i \in DOMAIN (wire \o A \o B) :
           \/ \E j \in DOMAIN wire : (wire \o A \o B)[i] = wire[j]
           \/ (wire \o A \o B)[i].id = e /\ (wire \o A \o B)[i].capture = c
    BY <1>4, <1>7, <2>1, <2>2, ConcatElements
  <2>4. \A i \in DOMAIN (wire \o A \o B \o Z) :
           \/ \E j \in DOMAIN wire : (wire \o A \o B \o Z)[i] = wire[j]
           \/ (wire \o A \o B \o Z)[i].id = e /\ (wire \o A \o B \o Z)[i].capture = c
    BY <1>3, <1>6, <2>1, <2>3, ConcatElements
  <2>5. QED
    BY <1>1, <2>1, <2>4
<1>9. PICK cap \in [Evaluations -> Captures] : FramesMatch(cap) /\ UploadsMatch(cap)
  BY DEF OneCapture
<1>10. PICK new \in [Evaluations -> Captures] :
         new[e] = c /\ \A d \in captured : d \in Evaluations /\ new[d] = cap[d]
  <2>1. [cap EXCEPT ![e] = c] \in [Evaluations -> Captures]
    BY <1>1
  <2>2. \A d \in captured : d \in Evaluations /\ d # e
    BY <1>1 DEF TypeOK
  <2>3. QED
    BY <1>1, <2>1, <2>2
<1>11. FramesMatch(new)'
  <2> SUFFICES ASSUME NEW i \in DOMAIN wire'
               PROVE  wire'[i].id \in captured' /\ wire'[i].capture = new[wire'[i].id]
    BY DEF FramesMatch
  <2>1. CASE wire'[i].id = e /\ wire'[i].capture = c
    BY <1>1, <1>10, <2>1
  <2>2. ASSUME NEW j \in DOMAIN wire, wire'[i] = wire[j]
        PROVE  wire'[i].id \in captured' /\ wire'[i].capture = new[wire'[i].id]
    <3>1. wire[j].id \in captured /\ wire[j].capture = cap[wire[j].id]
      BY <1>9 DEF FramesMatch
    <3>2. QED
      BY <1>1, <1>10, <2>2, <3>1
  <2>3. QED
    BY <1>8, <2>1, <2>2
<1>12. UploadsMatch(new)'
  BY <1>1, <1>9, <1>10 DEF UploadsMatch
<1>13. TypeOK'
  BY <1>1, <1>8 DEF TypeOK
<1>14. OneWaiter' /\ FutureMatches' /\ AnswersMatch' /\ ReceiverSurvives'
  BY <1>1 DEF OneWaiter, FutureMatches, AnswersMatch, ReceiverSurvives
<1>15. OneCapture'
  BY <1>10, <1>11, <1>12 DEF OneCapture
<1>16. QED
  BY <1>13, <1>14, <1>15

-----------------------------------------------------------------------------
(* The agent.                                                              *)

\* What the agent does leaves frames and captures alone and starts no upload.
LEMMA CapturesKept ==
  ASSUME OneCapture, UNCHANGED <<captured, wire>>,
         DOMAIN uploads' \subseteq DOMAIN uploads,
         \A d \in DOMAIN uploads' : uploads'[d] = uploads[d]
  PROVE  OneCapture'
<1>1. PICK cap \in [Evaluations -> Captures] : FramesMatch(cap) /\ UploadsMatch(cap)
  BY DEF OneCapture
<1>2. FramesMatch(cap)'
  BY <1>1 DEF FramesMatch
<1>3. UploadsMatch(cap)'
  BY <1>1 DEF UploadsMatch
<1>4. QED
  BY <1>2, <1>3 DEF OneCapture

LEMMA ForgetKeeps ==
  ASSUME ChannelInv, Forget, agent.at # "working"
  PROVE  /\ uploads' = << >> /\ OneCapture' /\ OneWaiter' /\ FutureMatches' /\ ReceiverSurvives'
         /\ agent' = [at |-> "working", id |-> None] /\ waiters' = {} /\ future' = NoFuture
         /\ UNCHANGED <<asked, captured, wire, orderly, receiver>>
<1>1. /\ waiters' = waiters \ {agent.id} /\ uploads' = Drop(uploads, agent.id)
      /\ agent' = [at |-> "working", id |-> None] /\ future' = NoFuture
      /\ UNCHANGED <<asked, captured, wire, orderly, receiver>>
  BY DEF Forget, DroppedUploads
<1>2. waiters = {agent.id} /\ DOMAIN uploads \subseteq {agent.id}
  BY DEF ChannelInv, OneWaiter
<1>3. waiters' = {} /\ DOMAIN uploads' = {} /\ uploads' = << >>
  BY <1>1, <1>2 DEF Drop
<1>4. OneCapture'
  BY <1>1, <1>3, CapturesKept DEF ChannelInv
<1>5. OneWaiter' /\ FutureMatches' /\ ReceiverSurvives'
  BY <1>1, <1>3 DEF ChannelInv, OneWaiter, FutureMatches, NoFuture, ReceiverSurvives
<1>6. QED
  BY <1>1, <1>3, <1>4, <1>5

LEMMA AgentKeeps ==
  ASSUME ChannelInv,
         (\E e \in Evaluations, v \in Versions : Request(e, v)) \/ Show \/ Await \/ Abandon
  PROVE  ChannelInv'
<1> USE DEF ChannelInv, ReceiverSurvives
<1>1. ASSUME NEW e \in Evaluations, NEW v \in Versions, Request(e, v)
      PROVE  ChannelInv'
  <2>1. OneCapture'
    BY <1>1, CapturesKept DEF Request
  <2>2. TypeOK' /\ OneWaiter' /\ FutureMatches' /\ AnswersMatch'
    BY <1>1 DEF Request, TypeOK, OneWaiter, FutureMatches, AnswersMatch
  <2>3. QED
    BY <1>1, <2>1, <2>2 DEF Request
<1>2. CASE Show
  <2>1. OneCapture'
    BY <1>2, CapturesKept DEF Show
  <2>2. TypeOK' /\ OneWaiter' /\ FutureMatches' /\ AnswersMatch'
    BY <1>2 DEF Show, TypeOK, OneWaiter, FutureMatches, AnswersMatch
  <2>3. QED
    BY <1>2, <2>1, <2>2 DEF Show
<1>3. CASE Await
  <2>1. OneCapture'
    BY <1>3, CapturesKept DEF Await
  <2>2. agent' = [at |-> "waiting", id |-> agent.id] /\ agent.at = "sending"
    BY <1>3 DEF Await, TypeOK
  <2>3. TypeOK' /\ OneWaiter' /\ FutureMatches' /\ AnswersMatch'
    BY <1>3, <2>2 DEF Await, TypeOK, OneWaiter, FutureMatches, AnswersMatch
  <2>4. QED
    BY <1>3, <2>1, <2>3 DEF Await
<1>4. CASE Abandon
  <2>1. OneCapture'
    BY <1>4, CapturesKept DEF Abandon
  <2>2. agent' = [at |-> "leaving", id |-> agent.id] /\ agent.at # "working"
    BY <1>4 DEF Abandon, TypeOK
  <2>3. future' = future \/ future' = NoFuture
    BY <1>4 DEF Abandon
  <2>4. TypeOK' /\ OneWaiter' /\ FutureMatches' /\ AnswersMatch'
    BY <1>4, <2>2, <2>3 DEF Abandon, TypeOK, OneWaiter, FutureMatches, AnswersMatch, NoFuture
  <2>5. QED
    BY <1>4, <2>1, <2>4 DEF Abandon
<1>5. QED
  BY <1>1, <1>2, <1>3, <1>4

LEMMA ResumeKeeps ==
  ASSUME ChannelInv, Return \/ Leave
  PROVE  ChannelInv'
<1> USE DEF ChannelInv
<1>1. agent.at # "working" /\ Forget
  BY DEF Return, Leave
<1>2. /\ uploads' = << >> /\ OneCapture' /\ OneWaiter' /\ FutureMatches' /\ ReceiverSurvives'
      /\ agent' = [at |-> "working", id |-> None] /\ waiters' = {} /\ future' = NoFuture
      /\ UNCHANGED <<asked, captured, wire, orderly, receiver>>
  BY <1>1, ForgetKeeps
<1>3. shown' \in Evaluations \cup {None}
  BY DEF Return, Leave, TypeOK
<1>4. returned' \in [Evaluations -> Answer \cup {None}] /\ AnswersMatch'
  <2>1. CASE Leave
    BY <2>1 DEF Leave, TypeOK, AnswersMatch
  <2>2. CASE Return
    <3>1. /\ returned' = [returned EXCEPT ![agent.id] = future.answer]
          /\ future.answer \in Answer /\ Rendered(agent.id, future.answer)
      BY <2>2 DEF Return, FutureMatches
    <3>2. QED
      BY <3>1 DEF TypeOK, AnswersMatch, Rendered
  <2>3. QED
    BY <2>1, <2>2
<1>5. TypeOK'
  BY <1>2, <1>3, <1>4 DEF TypeOK, NoFuture
<1>6. QED
  BY <1>2, <1>4, <1>5

-----------------------------------------------------------------------------
(* The theorems.                                                           *)

LEMMA ChannelInit == Init => ChannelInv
<1> SUFFICES ASSUME Init PROVE ChannelInv
  OBVIOUS
<1>1. TypeOK
  BY DEF Init, TypeOK, NoFuture
<1>2. OneWaiter /\ FutureMatches /\ AnswersMatch /\ ReceiverSurvives
  BY DEF Init, OneWaiter, FutureMatches, NoFuture, AnswersMatch, ReceiverSurvives
<1>3. [e \in Evaluations |-> "good"] \in [Evaluations -> Captures]
  BY DEF Captures
<1>4. OneCapture
  <2>1. DOMAIN wire = {} /\ DOMAIN uploads = {}
    BY DEF Init
  <2>2. \A cap : FramesMatch(cap) /\ UploadsMatch(cap)
    BY <2>1 DEF FramesMatch, UploadsMatch
  <2>3. QED
    BY <1>3, <2>2 DEF OneCapture
<1>5. QED
  BY <1>1, <1>2, <1>4 DEF ChannelInv

LEMMA ChannelStep == ChannelInv /\ [Next]_vars => ChannelInv'
<1> SUFFICES ASSUME ChannelInv, [Next]_vars PROVE ChannelInv'
  OBVIOUS
<1>1. CASE AgentStep \/ Await
  BY <1>1, AgentKeeps DEF AgentStep
<1>2. CASE Return \/ Leave
  BY <1>2, ResumeKeeps
<1>3. CASE Browse
  BY <1>3, SubmitKeeps DEF Browse
<1>4. CASE Receive
  BY <1>4, ReceiveKeeps
<1>5. CASE UNCHANGED vars
  BY <1>5 DEF vars, ChannelInv, TypeOK, OneWaiter, OneCapture, FramesMatch, UploadsMatch,
              FutureMatches, AnswersMatch, ReceiverSurvives
<1>6. QED
  BY <1>1, <1>2, <1>3, <1>4, <1>5 DEF Next, Resume

LEMMA ChannelInvariant == Spec => []ChannelInv
  BY ChannelInit, ChannelStep, PTL DEF Spec

\* Every variable keeps its type.
THEOREM TypeCorrect == Spec => []TypeOK
<1>1. ChannelInv => TypeOK
  BY DEF ChannelInv
<1>2. QED
  BY <1>1, ChannelInvariant, PTL

\* A request returns what was rendered for it, complete, however late, often or
\* disordered the frames of any request arrive.
THEOREM AnswersAreTheirOwn == Spec => []AnswersMatch
<1>1. ChannelInv => AnswersMatch
  BY DEF ChannelInv
<1>2. QED
  BY <1>1, ChannelInvariant, PTL

\* However a request ended, its waiter and its upload are gone.
THEOREM RequestsCleanUp == Spec => []NothingLeftBehind
<1>1. ChannelInv => NothingLeftBehind
  BY DEF ChannelInv, OneWaiter, NothingLeftBehind
<1>2. QED
  BY <1>1, ChannelInvariant, PTL

\* No frame raises in the receiver task.
THEOREM ReceiverRuns == Spec => []ReceiverSurvives
<1>1. ChannelInv => ReceiverSurvives
  BY DEF ChannelInv
<1>2. QED
  BY <1>1, ChannelInvariant, PTL

\* Together: a measurement is of the candidate it is used for (evaluate).
THEOREM MeasurementsSound == Spec => []MeasurementsAreSound
BY AnswersAreTheirOwn, RequestsCleanUp, ReceiverRuns, PTL DEF MeasurementsAreSound

(***************************************************************************)
(* The analytics queue: for any queue size and any number of events, with any *)
(* number of starts and stops.                                             *)
(***************************************************************************)
\* An event has a place in the queue, with the worker, with a write that goes on alone, in
\* the log or with what a stop left behind, and no two of them; one that is to be reported
\* yet has none.
Places(e) ==
  /\ \A i \in DOMAIN queue : queue[i] = e =>
       /\ \A j \in DOMAIN queue : queue[j] = e => i = j
       /\ worker # e /\ e \notin writing
  /\ worker = e => e \notin writing
  /\ \A i \in DOMAIN log : log[i] = e =>
       /\ \A j \in DOMAIN log : log[j] = e => i = j
       /\ worker # e /\ e \notin writing /\ e \notin lost
       /\ \A j \in DOMAIN queue : queue[j] # e
  /\ e \in lost => worker # e /\ e \notin writing /\ \A j \in DOMAIN queue : queue[j] # e

Known(e) ==
  \/ worker = e \/ e \in writing \/ e \in lost
  \/ \E i \in DOMAIN queue : queue[i] = e
  \/ \E i \in DOMAIN log : log[i] = e

\* Only a stop puts the marker, and only the marker ends a worker: a start finds no queue.
WorkerInv ==
  /\ \A i \in DOMAIN queue : queue[i] = Marker => stopping = "waiting"
  /\ worker = Gone => stopping = "waiting"
  /\ worker = NoWorker => queue = << >>
  /\ open <=> worker # NoWorker
  /\ stopping # "no" => open
  /\ reported \in 0..Cardinality(Events)

EventInv ==
  /\ \A e \in Events : Places(e) /\ (e > reported => ~Known(e))
  /\ \A e \in Events : (\E i \in DOMAIN accepted : accepted[i] = e) => Known(e)

QueueInv == QueueTypeOK /\ WorkerInv /\ EventInv

LEMMA EventsAreNumbers ==
  /\ Cardinality(Events) \in Nat /\ Events = 1..Cardinality(Events) /\ QueueSize \in Nat \ {0}
  /\ Events \subseteq Int
  /\ {Marker, Idle, NoWorker, Gone} \cap Events = {}
<1>1. Cardinality(Events) \in Nat
  BY QueueAssumption, FS_CardinalityType
<1>2. QED
  BY <1>1, QueueAssumption DEF Marker, Idle, NoWorker, Gone

\* What an element of a sequence is after an append and after the head is gone.
LEMMA Appended ==
  ASSUME NEW S, NEW s \in Seq(S), NEW x \in S
  PROVE  /\ Append(s, x) \in Seq(S) /\ Len(Append(s, x)) = Len(s) + 1 /\ Len(s) \in Nat
         /\ DOMAIN s = 1..Len(s) /\ DOMAIN Append(s, x) = 1..(Len(s) + 1)
         /\ \A i \in DOMAIN s : Append(s, x)[i] = s[i]
         /\ Append(s, x)[Len(s) + 1] = x
OBVIOUS

LEMMA Headless ==
  ASSUME NEW S, NEW s \in Seq(S), s # << >>
  PROVE  /\ Tail(s) \in Seq(S) /\ Head(s) \in S /\ Len(s) \in Nat \ {0}
         /\ Len(Tail(s)) = Len(s) - 1
         /\ DOMAIN s = 1..Len(s) /\ DOMAIN Tail(s) = 1..(Len(s) - 1)
         /\ \A i \in DOMAIN Tail(s) : Tail(s)[i] = s[i + 1]
         /\ Head(s) = s[1]
OBVIOUS

LEMMA QueueStarts == QueueInit => QueueInv
<1> SUFFICES ASSUME QueueInit PROVE QueueInv
  OBVIOUS
<1>1. << >> \in Seq(Events) /\ << >> \in Seq(Events \cup {Marker}) /\ Len(<< >>) = 0
      /\ DOMAIN << >> = {}
  OBVIOUS
<1>2. QueueTypeOK
  <2>1. queue \in Seq(Events \cup {Marker}) /\ accepted \in Seq(Events) /\ log \in Seq(Events)
    BY <1>1 DEF QueueInit
  <2>2. Len(queue) <= QueueSize
    BY <1>1, EventsAreNumbers DEF QueueInit
  <2>3. QED
    BY <2>1, <2>2 DEF QueueInit, QueueTypeOK
<1>3. WorkerInv
  BY <1>1, EventsAreNumbers DEF QueueInit, WorkerInv, NoWorker, Gone
<1>4. EventInv
  BY <1>1, EventsAreNumbers DEF QueueInit, EventInv, Places, Known
<1>5. QED
  BY <1>2, <1>3, <1>4 DEF QueueInv

LEMMA StartKeepsQueue == ASSUME QueueInv, StartWorker PROVE QueueInv'
<1>1. worker = NoWorker /\ queue = << >>
  BY DEF QueueInv, WorkerInv, StartWorker, Startable
<1>2. QueueTypeOK'
  <2>1. queue' = << >> /\ << >> \in Seq(Events \cup {Marker}) /\ Len(<< >>) = 0
    BY DEF StartWorker
  <2>2. QED
    BY <2>1, EventsAreNumbers DEF QueueInv, QueueTypeOK, StartWorker
<1>3. WorkerInv'
  BY EventsAreNumbers DEF QueueInv, WorkerInv, StartWorker, Startable, Idle, Gone, NoWorker
<1>4. EventInv'
  BY <1>1, EventsAreNumbers DEF QueueInv, EventInv, Places, Known, StartWorker
<1>5. QED
  BY <1>2, <1>3, <1>4 DEF QueueInv

LEMMA ReportKeepsQueue == ASSUME QueueInv, Report PROVE QueueInv'
<1> DEFINE r == reported + 1
<1>1. /\ reported \in Nat /\ r \in Events /\ r > reported /\ reported' = r
      /\ r \in 0..Cardinality(Events)
      /\ UNCHANGED <<open, worker, writing, stopping, lost>>
  BY EventsAreNumbers DEF QueueInv, QueueTypeOK, WorkerInv, Report
<1>2. Places(r) /\ ~Known(r)
  BY <1>1 DEF QueueInv, EventInv
<1>3. \A e \in Events : e > r => e > reported /\ e # r
  BY <1>1, EventsAreNumbers
<1>4. CASE UNCHANGED <<queue, accepted, log>> /\ dropped' = dropped + 1
  BY <1>1, <1>3, <1>4 DEF QueueInv, QueueTypeOK, WorkerInv, EventInv, Places, Known
<1>5. CASE /\ ~open /\ log' = Append(log, r) /\ UNCHANGED <<queue, dropped>>
           /\ accepted' = Append(accepted, r) \/ UNCHANGED accepted
  <2>1. log \in Seq(Events) /\ accepted \in Seq(Events)
    BY DEF QueueInv, QueueTypeOK
  <2>2. QueueTypeOK'
    <3>1. log' \in Seq(Events) /\ accepted' \in Seq(Events)
      <4>1. Append(log, r) \in Seq(Events) /\ Append(accepted, r) \in Seq(Events)
        BY <1>1, <2>1
      <4>2. QED
        BY <1>5, <2>1, <4>1
    <3>2. QED
      BY <1>1, <1>5, <3>1 DEF QueueInv, QueueTypeOK
  <2>3. WorkerInv'
    BY <1>1, <1>5 DEF QueueInv, WorkerInv
  <2>4. \A i \in DOMAIN log' : log'[i] = IF i = Len(log) + 1 THEN r ELSE log[i]
    BY <1>1, <1>5, <2>1, Appended
  <2>5. DOMAIN log' = DOMAIN log \cup {Len(log) + 1} /\ Len(log) + 1 \notin DOMAIN log
    BY <1>1, <1>5, <2>1, Appended
  <2>6. \A i \in DOMAIN accepted' : accepted'[i] = r \/ (i \in DOMAIN accepted /\ accepted'[i] = accepted[i])
    BY <1>1, <1>5, <2>1, Appended
  <2>7. ASSUME NEW e \in Events PROVE Places(e)'
    BY <1>1, <1>2, <1>5, <2>4, <2>5 DEF QueueInv, EventInv, Places, Known
  <2>8. \A e \in Events : Known(e)' <=> Known(e) \/ e = r
    BY <1>1, <1>5, <2>4, <2>5 DEF Known
  <2>9. EventInv'
    BY <1>1, <1>3, <2>6, <2>7, <2>8 DEF QueueInv, EventInv
  <2>10. QED
    BY <2>2, <2>3, <2>9 DEF QueueInv
<1>6. CASE /\ open /\ Len(queue) < QueueSize /\ queue' = Append(queue, r)
           /\ accepted' = Append(accepted, r) /\ UNCHANGED <<log, dropped>>
  <2>1. queue \in Seq(Events \cup {Marker}) /\ accepted \in Seq(Events)
    BY DEF QueueInv, QueueTypeOK
  <2> DEFINE n == Len(queue) + 1
  <2>2. /\ queue' \in Seq(Events \cup {Marker}) /\ Len(queue') = n /\ Len(queue) \in Nat
        /\ DOMAIN queue = 1..Len(queue) /\ DOMAIN queue' = 1..n
        /\ \A i \in DOMAIN queue : queue'[i] = queue[i]
        /\ queue'[n] = r
    BY <1>1, <1>6, <2>1, Appended
  <2>3. QueueTypeOK'
    BY <1>1, <1>6, <2>1, <2>2, EventsAreNumbers DEF QueueInv, QueueTypeOK
  <2>4. \A i \in DOMAIN queue' : queue'[i] = IF i = n THEN r ELSE queue[i]
    BY <2>2
  <2>5. DOMAIN queue' = DOMAIN queue \cup {n} /\ n \notin DOMAIN queue
    BY <2>2
  <2>6. \A i \in DOMAIN accepted' : accepted'[i] = r \/ (i \in DOMAIN accepted /\ accepted'[i] = accepted[i])
    BY <1>1, <1>6, <2>1, Appended
  <2> HIDE DEF n
  <2>7. WorkerInv'
    BY <1>1, <1>6, <2>4, <2>5, EventsAreNumbers DEF QueueInv, WorkerInv
  <2>8. ASSUME NEW e \in Events PROVE Places(e)'
    BY <1>1, <1>2, <1>6, <2>4, <2>5 DEF QueueInv, EventInv, Places, Known
  <2>9. \A e \in Events : Known(e)' <=> Known(e) \/ e = r
    BY <1>1, <1>6, <2>4, <2>5 DEF Known
  <2>10. EventInv'
    BY <1>1, <1>3, <2>6, <2>8, <2>9 DEF QueueInv, EventInv
  <2>11. QED
    BY <2>3, <2>7, <2>10 DEF QueueInv
<1>7. QED
  BY <1>1, <1>4, <1>5, <1>6 DEF Report

LEMMA TakeKeepsQueue == ASSUME QueueInv, Take PROVE QueueInv'
<1>1. /\ queue \in Seq(Events \cup {Marker}) /\ queue # << >> /\ worker = Idle
      /\ queue' = Tail(queue) /\ worker' = IF queue[1] = Marker THEN Gone ELSE queue[1]
      /\ UNCHANGED <<open, writing, stopping, accepted, log, dropped, lost, reported>>
  BY Headless DEF QueueInv, QueueTypeOK, Take
<1>2. /\ queue' \in Seq(Events \cup {Marker}) /\ queue[1] \in Events \cup {Marker}
      /\ Len(queue) \in Nat \ {0} /\ Len(queue') = Len(queue) - 1
      /\ DOMAIN queue = 1..Len(queue) /\ DOMAIN queue' = 1..(Len(queue) - 1)
      /\ \A i \in DOMAIN queue' : queue'[i] = queue[i + 1]
  BY <1>1, Headless
<1>3. QueueTypeOK'
  BY <1>1, <1>2, EventsAreNumbers DEF QueueInv, QueueTypeOK
<1>4. \A i \in DOMAIN queue' : i + 1 \in DOMAIN queue /\ i + 1 # 1 /\ i \in Nat
  BY <1>2
<1>5. \A i \in DOMAIN queue : i = 1 \/ (i - 1 \in DOMAIN queue' /\ queue'[i - 1] = queue[i])
  BY <1>2
<1>6. 1 \in DOMAIN queue
  BY <1>2
<1>7. WorkerInv'
  BY <1>1, <1>2, <1>4, <1>6, EventsAreNumbers DEF QueueInv, WorkerInv, Gone, NoWorker, Idle, Marker
<1>8. ASSUME NEW e \in Events PROVE Places(e)' /\ (Known(e)' <=> Known(e))
  <2>1. worker # e /\ (worker' = e <=> queue[1] = e)
    BY <1>1, <1>2, EventsAreNumbers
  <2>2. Places(e)
    BY DEF QueueInv, EventInv
  <2>3. \A i, j \in DOMAIN queue' : queue'[i] = e /\ queue'[j] = e => i = j
    BY <1>2, <1>4, <2>2 DEF Places
  <2>4. \A i \in DOMAIN queue' : queue'[i] = e => queue[1] # e
    BY <1>2, <1>4, <1>6, <2>2 DEF Places
  <2>5. Places(e)'
    BY <1>1, <1>2, <1>4, <1>6, <2>1, <2>2, <2>3, <2>4 DEF Places
  <2>6. Known(e)' <=> Known(e)
    BY <1>1, <1>2, <1>4, <1>5, <1>6, <2>1 DEF Known
  <2>7. QED
    BY <2>5, <2>6
<1>9. EventInv'
  BY <1>1, <1>8 DEF QueueInv, EventInv
<1>10. QED
  BY <1>3, <1>7, <1>9 DEF QueueInv

LEMMA WrittenKeepsQueue == ASSUME QueueInv, Written PROVE QueueInv'
<1>1. PICK w \in Events :
        /\ log' = Append(log, w)
        /\ \/ worker = w /\ worker' = Idle /\ UNCHANGED writing
           \/ w \in writing /\ writing' = writing \ {w} /\ UNCHANGED worker
        /\ UNCHANGED <<open, queue, stopping, accepted, dropped, lost, reported>>
  BY DEF QueueInv, QueueTypeOK, Written
<1>2. log \in Seq(Events)
  BY DEF QueueInv, QueueTypeOK
<1>3. QueueTypeOK'
  BY <1>1, <1>2 DEF QueueInv, QueueTypeOK
<1>4. WorkerInv'
  BY <1>1, EventsAreNumbers DEF QueueInv, WorkerInv, Idle, Gone, NoWorker
<1>5. \A i \in DOMAIN log' : log'[i] = IF i = Len(log) + 1 THEN w ELSE log[i]
  BY <1>1, <1>2, Appended
<1>6. DOMAIN log' = DOMAIN log \cup {Len(log) + 1} /\ Len(log) + 1 \notin DOMAIN log
  BY <1>1, <1>2, Appended
<1>7. ASSUME NEW e \in Events PROVE Places(e)'
  <2>1. Places(e) /\ (worker' = e => worker = e) /\ writing' \subseteq writing
    BY <1>1, EventsAreNumbers DEF QueueInv, EventInv
  <2>2. CASE e = w
    BY <1>1, <1>5, <1>6, <2>1, <2>2, EventsAreNumbers DEF Places
  <2>3. CASE e # w
    BY <1>1, <1>5, <1>6, <2>1, <2>3 DEF Places
  <2>4. QED
    BY <2>2, <2>3
<1>8. \A e \in Events : Known(e)' <=> Known(e)
  <2>1. TAKE e \in Events
  <2>2. CASE e = w
    BY <1>1, <1>5, <1>6, <2>2 DEF Known
  <2>3. CASE e # w
    BY <1>1, <1>5, <1>6, <2>3, EventsAreNumbers DEF Known
  <2>4. QED
    BY <2>2, <2>3
<1>9. EventInv'
  BY <1>1, <1>7, <1>8 DEF QueueInv, EventInv
<1>10. QED
  BY <1>3, <1>4, <1>9 DEF QueueInv

LEMMA MarkKeepsQueue == ASSUME QueueInv, StopMarks PROVE QueueInv'
<1>1. UNCHANGED <<open, worker, writing, accepted, log, dropped, lost, reported>>
  BY DEF StopMarks
<1>2. CASE UNCHANGED queue
  BY <1>1, <1>2 DEF QueueInv, QueueTypeOK, WorkerInv, EventInv, Places, Known, StopMarks
<1>3. CASE /\ stopping = "marking" /\ stopping' = "waiting"
           /\ Len(queue) < QueueSize /\ queue' = Append(queue, Marker)
  <2> DEFINE n == Len(queue) + 1
  <2>1. queue \in Seq(Events \cup {Marker})
    BY DEF QueueInv, QueueTypeOK
  <2>2. /\ queue' \in Seq(Events \cup {Marker}) /\ Len(queue') = n /\ Len(queue) \in Nat
        /\ DOMAIN queue = 1..Len(queue) /\ DOMAIN queue' = 1..n
        /\ \A i \in DOMAIN queue : queue'[i] = queue[i]
        /\ queue'[n] = Marker
    BY <1>3, <2>1, Appended
  <2>3. QueueTypeOK'
    BY <1>1, <1>3, <2>2, EventsAreNumbers DEF QueueInv, QueueTypeOK
  <2>4. \A i \in DOMAIN queue' : queue'[i] = IF i = n THEN Marker ELSE queue[i]
    BY <2>2
  <2>5. DOMAIN queue' = DOMAIN queue \cup {n} /\ n \notin DOMAIN queue
    BY <2>2
  <2> HIDE DEF n
  <2>6. worker # NoWorker
    <3>1. worker = NoWorker => ~open /\ queue = << >>
      BY DEF QueueInv, WorkerInv
    <3>2. stopping = "marking" => open
      BY DEF QueueInv, WorkerInv
    <3>3. QED
      BY <1>3, <3>1, <3>2
  <2>7. WorkerInv'
    BY <1>1, <1>3, <2>4, <2>5, <2>6 DEF QueueInv, WorkerInv
  <2>8. ASSUME NEW e \in Events PROVE Places(e)' /\ (Known(e)' <=> Known(e))
    BY <1>1, <2>4, <2>5, EventsAreNumbers DEF QueueInv, EventInv, Places, Known
  <2>9. EventInv'
    BY <1>1, <2>8 DEF QueueInv, EventInv
  <2>10. QED
    BY <2>3, <2>7, <2>9 DEF QueueInv
<1>4. QED
  BY <1>2, <1>3 DEF StopMarks

LEMMA EndKeepsQueue == ASSUME QueueInv, StopEnds PROVE QueueInv'
<1>1. /\ open' = FALSE /\ queue' = << >> /\ worker' = NoWorker /\ stopping' = "no"
      /\ writing' = writing \cup ({worker} \cap Events)
      /\ lost' = lost \cup (ToSet(queue) \ {Marker})
      /\ UNCHANGED <<accepted, log, dropped, reported>>
  BY DEF StopEnds
<1>2. queue \in Seq(Events \cup {Marker})
  BY DEF QueueInv, QueueTypeOK
<1>3. \A e \in Events : e \in ToSet(queue) \ {Marker} <=> \E i \in DOMAIN queue : queue[i] = e
  BY <1>2, EventsAreNumbers DEF ToSet
<1>4. ToSet(queue) \ {Marker} \subseteq Events
  BY <1>2 DEF ToSet
<1>5. QueueTypeOK'
  <2>1. << >> \in Seq(Events \cup {Marker}) /\ Len(<< >>) = 0
    OBVIOUS
  <2>2. Len(queue') <= QueueSize
    BY <1>1, <2>1, EventsAreNumbers
  <2>3. writing' \subseteq Events /\ lost' \subseteq Events
    BY <1>1, <1>4 DEF QueueInv, QueueTypeOK
  <2>4. QED
    BY <1>1, <2>1, <2>2, <2>3 DEF QueueInv, QueueTypeOK
<1>6. WorkerInv'
  BY <1>1 DEF QueueInv, WorkerInv, NoWorker, Gone
<1>7. ASSUME NEW e \in Events PROVE Places(e)' /\ (Known(e)' <=> Known(e))
  <2>1. Places(e) /\ e # NoWorker
    BY EventsAreNumbers DEF QueueInv, EventInv
  <2>2. e \in lost' <=> e \in lost \/ \E i \in DOMAIN queue : queue[i] = e
    BY <1>1, <1>3
  <2>3. e \in writing' <=> e \in writing \/ worker = e
    BY <1>1
  <2>4. DOMAIN queue' = {}
    BY <1>1
  <2>5. Places(e)'
    BY <1>1, <2>1, <2>2, <2>3, <2>4 DEF Places
  <2>6. Known(e)' <=> Known(e)
    BY <1>1, <2>1, <2>2, <2>3, <2>4 DEF Known
  <2>7. QED
    BY <2>5, <2>6
<1>8. EventInv'
  BY <1>1, <1>7 DEF QueueInv, EventInv
<1>9. QED
  BY <1>5, <1>6, <1>8 DEF QueueInv

LEMMA QueueInvariant == QueueSpec => []QueueInv
<1>1. QueueInv /\ UNCHANGED queueVars => QueueInv'
  BY DEF QueueInv, QueueTypeOK, WorkerInv, EventInv, Places, Known, queueVars
<1>2. QueueInv /\ [QueueNext]_queueVars => QueueInv'
  BY <1>1, StartKeepsQueue, ReportKeepsQueue, TakeKeepsQueue, WrittenKeepsQueue, MarkKeepsQueue,
     EndKeepsQueue DEF QueueNext
<1>3. QED
  BY <1>2, QueueStarts, PTL DEF QueueSpec

\* Whatever starts and stops come between, and with a queue of any size, an event that was
\* accepted has one place, and is written at most once (enqueue_analytics_event,
\* stop_analytics_worker).
THEOREM AcceptedEventsKept == QueueSpec => []AcceptedIsKept
<1>1. ASSUME QueueInv PROVE AcceptedIsKept
  <2> SUFFICES ASSUME NEW e \in ToSet(accepted)
               PROVE  /\ e \in ToSet(queue) \cup {worker} \cup writing \cup ToSet(log) \cup lost
                      /\ Cardinality({i \in DOMAIN log : log[i] = e}) <= 1
                      /\ e \in lost => e \notin ToSet(log) \cup writing
    BY DEF AcceptedIsKept
  <2>1. PICK i \in DOMAIN accepted : accepted[i] = e
    BY DEF ToSet
  <2>2. e \in Events
    BY <1>1, <2>1 DEF QueueInv, QueueTypeOK
  <2>3. Places(e) /\ Known(e)
    BY <1>1, <2>1, <2>2 DEF QueueInv, EventInv
  <2>4. e \in ToSet(queue) \cup {worker} \cup writing \cup ToSet(log) \cup lost
    BY <2>3 DEF Known, ToSet
  <2>5. e \in lost => e \notin ToSet(log) \cup writing
    BY <2>3 DEF Places, ToSet
  <2> DEFINE W == {j \in DOMAIN log : log[j] = e}
  <2>6. CASE W = {}
    BY <2>4, <2>5, <2>6, FS_EmptySet
  <2>7. CASE W # {}
    <3>1. PICK j \in W : TRUE
      BY <2>7
    <3>2. W = {j}
      BY <2>3, <3>1 DEF Places
    <3>3. Cardinality(W) = 1
      BY <3>2, FS_Singleton
    <3>4. QED
      BY <2>4, <2>5, <3>3
  <2>8. QED
    BY <2>6, <2>7
<1>2. QED
  BY <1>1, QueueInvariant, PTL

\* The queue keeps its bound, and every variable its type.
THEOREM QueueTypeCorrect == QueueSpec => []QueueTypeOK
<1>1. QueueInv => QueueTypeOK
  BY DEF QueueInv
<1>2. QED
  BY <1>1, QueueInvariant, PTL

(***************************************************************************)
(* The operation of a turn: for any messages, in a conversation of any length. *)
(***************************************************************************)
LEMMA Operations ==
  ASSUME NEW m, NEW kind PROVE Operation(m, kind) \in {"none", "create", "edit"}
<1> DEFINE edit == \E c \in Mutations(m) : Current(c, kind) \/ c.target
           talk == m.topic \/ m.concept \/ (~Blank(m) /\ Head(m.clauses).asks)
                   \/ Some(m, LAMBDA c : c.explains)
           none == Blank(m) \/ (talk /\ Designs(m) = {} /\ ~edit)
<1>1. CASE none
  BY <1>1 DEF Operation
<1>2. CASE ~none
  BY <1>2 DEF Operation
<1>3. QED
  BY <1>1, <1>2

\* What the prelude hands over: nothing for a user who wants none, an edit of a diagram there
\* is, a creation where there is none.
LEMMA IntentsFit ==
  ASSUME NEW m, NEW action, ~AsksBack(m, action), Intent(m, action) # "none"
  PROVE  /\ ~Off(m, action)
         /\ Intent(m, action) \in {"create", "edit"}
         /\ Intent(m, action) = "create" <=> diagram.kind = "none"
BY Operations DEF AsksBack, Intent

\* A plan is made for a saved diagram of services only.
LEMMA PlansNeedServices ==
  ASSUME NEW m, ExpansionRequest(m) # << >> PROVE diagram.kind = "services"
BY DEF ExpansionRequest

\* A route draws what the prelude allowed, a planned expansion of the saved diagram, or a
\* design that goes on; none of these for a user who wants none.
LEMMA RoutesFit ==
  ASSUME NEW m, NEW action, NEW plan, NEW token, ~AsksBack(m, action),
         Route(m, action, plan, token).intent # "none"
  PROVE  /\ ~Off(m, action)
         /\ Route(m, action, plan, token).intent = "create" <=> diagram.kind = "none"
<1> DEFINE request == ExpansionRequest(m)
           planned == request # << >> /\ action # "new"
           local == IF Intent(m, action) # "none" THEN Intent(m, action)
                    ELSE Operation(m, diagram.kind)
           memory == m.recalls /\ N > 0
           continued == IF (local = "create" /\ diagram.kind = "none")
                           \/ (local = "none" /\ ~memory /\ ~m.applied
                               /\ token = "DESIGN" /\ ~Off(m, action))
                        THEN ContinuedDesign(m) ELSE << >>
           expand == planned /\ plan = "expand"
           intent == IF expand THEN IF Off(m, action) THEN "none" ELSE "edit"
                     ELSE IF local = "none" /\ continued # << >> THEN "create"
                     ELSE Intent(m, action)
           drawn == Route(m, action, plan, token).intent
<1>1. drawn = IF planned /\ plan = "question" THEN "none"
              ELSE IF Replaces(intent) THEN "none" ELSE intent
  BY DEF Route
<1>2. drawn = intent /\ ~Replaces(intent) /\ intent # "none"
  BY <1>1
<1>3. CASE expand
  BY <1>2, <1>3, PlansNeedServices
<1>4. CASE ~expand /\ local = "none" /\ continued # << >>
  BY <1>2, <1>4 DEF Replaces
<1>5. CASE ~expand /\ ~(local = "none" /\ continued # << >>)
  <2>1. drawn = Intent(m, action)
    BY <1>2, <1>5
  <2>2. QED
    BY <1>2, <2>1, IntentsFit
<1>6. QED
  BY <1>3, <1>4, <1>5

\* For any messages, and whatever other tabs did between the check and the turn: what is drawn
\* fits the diagram of the moment and the choice of the user (run_agent, orchestrator_route).
THEOREM DrawnOnlyWhenAllowed == TalkSpec => []DrawsOnlyWhenAllowed
<1>1. TalkInit => DrawsOnlyWhenAllowed
  BY DEF TalkInit, DrawsOnlyWhenAllowed
<1>2. ASSUME DrawsOnlyWhenAllowed, [TalkNext]_talkVars PROVE DrawsOnlyWhenAllowed'
  <2>1. CASE SubmitMessage \/ ChangeDiagram \/ Refused
    <3>1. routed' = Nothing
      BY <2>1 DEF SubmitMessage, ChangeDiagram, Refused
    <3>2. Nothing' = Nothing
      BY DEF Nothing
    <3>3. QED
      BY <3>1, <3>2 DEF DrawsOnlyWhenAllowed
  <2>2. CASE Turn
    <3> DEFINE m == pending.msg
               action == Action(m, pending.action)
               Routed(plan, token) == IF AsksBack(m, action) THEN AskedBack
                                      ELSE Route(m, action, plan, token)
    <3>1. PICK plan \in Plans, token \in Tokens :
            routed' = [route |-> Routed(plan, token), msg |-> m, action |-> action,
                       kind |-> diagram.kind,
                       owed |-> IF diagram.kind # "services" \/ action = "new" THEN << >>
                                ELSE Wanted(m),
                       due |-> IF m.applied \/ Explains(m) \/ design = << >> THEN << >>
                               ELSE Append(design, m)]
      BY <2>2 DEF Turn
    <3> HIDE DEF action
    <3>2. /\ routed'.route = Routed(plan, token) /\ routed'.msg = m
          /\ routed'.action = action /\ routed'.kind = diagram.kind
      BY <3>1
    <3>3. ASSUME routed'.route.intent # "none"
          PROVE  /\ ~Off(m, action)
                 /\ routed'.route.intent = "create" <=> diagram.kind = "none"
      <4>1. CASE AsksBack(m, action)
        BY <3>2, <3>3, <4>1 DEF AskedBack
      <4>2. CASE ~AsksBack(m, action)
        BY <3>2, <3>3, <4>2, RoutesFit
      <4>3. QED
        BY <4>1, <4>2
    <3>4. QED
      BY <3>2, <3>3 DEF Off, DrawsOnlyWhenAllowed
  <2>3. CASE UNCHANGED talkVars
    BY <1>2, <2>3 DEF talkVars, DrawsOnlyWhenAllowed, Nothing
  <2>4. QED
    BY <1>2, <2>1, <2>2, <2>3 DEF TalkNext
<1>3. QED
  BY <1>1, <1>2, PTL DEF TalkSpec

(***************************************************************************)
(* The runs of the browser suite: for any cases, lanes and number of       *)
(* repetitions, whatever the deadline interrupts.                          *)
(***************************************************************************)
Verdicts == DOMAIN Rank
Outcome == [verdict : Verdicts, state : {"completed", "cancelled"},
            threads : SUBSET (Cases \X Nat)]
Work == [verdict : Verdicts, state : {"completed", "cancelled"},
         reply : {"none", "seen", "unreadable", "lost"}, named : BOOLEAN,
         result : BOOLEAN, blamed : BOOLEAN]

\* Every variable keeps its type.
SuiteTyped ==
  /\ main \in {"preflight", "bootstrap", "batch", "unwind", "collect", "finalize",
               "ended", "failed"}
  /\ round \in 0..Attempts
  /\ base \in [Cases -> Seq(Outcome)] /\ current \in [Cases -> Seq(Outcome)]
  /\ task \in [Cases -> Phases] /\ work \in [Cases -> Work]
  /\ recorded \subseteq Cases
  /\ threads \subseteq created /\ created \subseteq Cases \X (1..Attempts)

Early == main \in {"preflight", "bootstrap"}
Late == main \in {"collect", "finalize", "ended", "failed"}

\* Before the first batch nothing has happened; after the last one no task is under way, and
\* every result is recorded.
Staged ==
  /\ Early => round = 0 /\ \A c \in Cases : current[c] = << >> /\ task[c] = "idle"
  /\ main \in {"batch", "unwind"} => round >= 1
  /\ Late => \A c \in Cases : /\ task[c] \in Ended
                              /\ task[c] = "done" => c \in recorded

\* What is recorded of a case of the batch is what was recorded before it, and its result;
\* a case takes part as often as there were batches, each time after a failure that earns it.
Counted ==
  \A c \in Cases :
    /\ current[c] = IF c \in recorded THEN Append(base[c], OutcomeOf(c)) ELSE base[c]
    /\ c \in recorded => task[c] = "done"
    /\ Len(current[c]) <= round
    /\ \A i \in 1..(Len(base[c]) - 1) : ShouldRetry(base[c][i])
    /\ task[c] # "idle" => /\ Len(base[c]) = round - 1
                           /\ \A i \in 1..Len(base[c]) : ShouldRetry(base[c][i])
    /\ task[c] = "idle" /\ round > 0 => base[c] # << >> /\ ~ShouldRetry(Last(base[c]))

Reported == file.results = current

\* Where an attempt stands, what it knows of its thread and how it is judged so far.
JudgedOf(c) ==
  /\ task[c] \in Queued \cup {"auth", "steps"} => work[c].verdict = "passed" /\ ~work[c].blamed
  /\ task[c] \in {"inspect", "cleanup", "trace", "done"} /\ work[c].verdict = "passed"
       => work[c].named
  /\ task[c] \in {"trace", "done"} /\ work[c].verdict = "passed"
       => <<c, round>> \notin threads
  /\ task[c] = "inspect" /\ work[c].blamed => work[c].verdict # "quality"

Judged == \A c \in Cases : JudgedOf(c)

ThreadsNumbered == \A t \in threads : t[2] <= round

SuiteInv ==
  /\ SuiteTyped /\ Staged /\ Counted /\ Reported
  /\ Judged /\ ThreadsNumbered /\ PassedLeavesNothing

-----------------------------------------------------------------------------
(* The operators.                                                          *)

\* An attempt is judged by the worst of its failures.
LEMMA WorstDecides ==
  ASSUME NEW v \in Verdicts, NEW F \in SUBSET Failures
  PROVE  /\ Worst(v, F) \in Verdicts /\ Worst(v, F) \in {v} \cup F
         /\ Worst(v, F) = "passed" <=> v = "passed" /\ F = {}
         /\ F = {} => Worst(v, F) = v
<1> DEFINE S == {v} \cup F
           Top(x) == x \in S /\ \A w \in S : Rank[w] <= Rank[x]
<1>1. \A w \in S : w \in {"passed", "infra", "retry", "quality"}
  BY DEF Failures, Rank, Verdicts
<1>2. /\ Rank["passed"] = 0 /\ Rank["infra"] = 1 /\ Rank["retry"] = 2 /\ Rank["quality"] = 3
      /\ Verdicts = {"passed", "infra", "retry", "quality"}
  BY DEF Rank, Verdicts
<1>3. \E x \in S : \A w \in S : Rank[w] <= Rank[x]
  <2>1. CASE "quality" \in S
    BY <1>1, <1>2, <2>1
  <2>2. CASE "quality" \notin S /\ "retry" \in S
    BY <1>1, <1>2, <2>2
  <2>3. CASE "quality" \notin S /\ "retry" \notin S /\ "infra" \in S
    BY <1>1, <1>2, <2>3
  <2>4. CASE "quality" \notin S /\ "retry" \notin S /\ "infra" \notin S
    BY <1>1, <1>2, <2>4
  <2>5. QED
    BY <2>1, <2>2, <2>3, <2>4
<1>4. Worst(v, F) \in S /\ \A w \in S : Rank[w] <= Rank[Worst(v, F)]
  BY <1>3 DEF Worst
<1> DEFINE x == Worst(v, F)
<1>5. x \in Verdicts
  BY <1>1, <1>2, <1>4
<1>6. x = "passed" => \A w \in S : w = "passed"
  BY <1>1, <1>2, <1>4
<1>7. \A w \in F : w # "passed"
  BY DEF Failures
<1>8. QED
  BY <1>4, <1>5, <1>6, <1>7

\* First takes one of the verdicts, and only when none before it has a say.
LEMMA FirstTakes ==
  ASSUME NEW s, DOMAIN s \subseteq Nat
  PROVE  /\ (\A i \in DOMAIN s : s[i] = {}) => First(s) = {}
         /\ \A i \in DOMAIN s :
              s[i] # {} /\ (\A j \in DOMAIN s : j < i => s[j] = {}) => First(s) = s[i]
<1> DEFINE hits == {i \in DOMAIN s : s[i] # {}}
<1>1. (\A i \in DOMAIN s : s[i] = {}) => hits = {}
  OBVIOUS
<1>2. ASSUME NEW i \in DOMAIN s, s[i] # {}, \A j \in DOMAIN s : j < i => s[j] = {}
      PROVE  First(s) = s[i]
  <2>1. i \in hits /\ \A j \in hits : i <= j
    BY <1>2
  <2>2. \A k \in hits : (\A j \in hits : k <= j) => k = i
    BY <2>1
  <2>3. (CHOOSE k \in hits : \A j \in hits : k <= j) = i
    BY <2>1, <2>2
  <2>4. QED
    BY <2>1, <2>3 DEF First
<1>3. QED
  BY <1>1, <1>2 DEF First

\* A set of naturals has a least element.
LEMMA LeastExists ==
  ASSUME NEW T \in SUBSET Nat, T # {} PROVE \E x \in T : \A y \in T : x <= y
<1> DEFINE R == {ss \in Nat \X Nat : ss[1] < ss[2]}
<1>1. IsWellFoundedOn(R, Nat)
  BY NatLessThanWellFounded DEF OpToRel
<1>2. \A x, y \in Nat : <<y, x>> \in R <=> y < x
  OBVIOUS
<1> HIDE DEF R
<1>3. PICK x \in T : \A y \in T : ~(<<y, x>> \in R)
  <2>1. \E x \in T : \A y \in T : ~(<<y, x>> \in R)
    BY <1>1, WFMin
  <2> QED
    BY <2>1
<1>4. ASSUME NEW y \in T PROVE x <= y
  <2>1. x \in Nat /\ y \in Nat
    OBVIOUS
  <2>2. ~(y < x)
    BY <1>2, <1>3, <2>1
  <2> QED
    BY <2>1, <2>2
<1> QED
  BY <1>4

\* First takes failures only.
LEMMA FirstTyped ==
  ASSUME NEW s, DOMAIN s \subseteq Nat, \A i \in DOMAIN s : s[i] \in SUBSET Failures
  PROVE  First(s) \in SUBSET Failures
<1> DEFINE hits == {i \in DOMAIN s : s[i] # {}}
<1>1. CASE hits = {}
  BY <1>1 DEF First
<1>2. CASE hits # {}
  <2>1. \E i \in hits : \A j \in hits : i <= j
    BY <1>2, LeastExists
  <2>2. (CHOOSE i \in hits : \A j \in hits : i <= j) \in hits
    BY <2>1
  <2>3. QED
    BY <1>2, <2>2 DEF First
<1>3. QED
  BY <1>1, <1>2

\* What a turn tells of its error and of its end is one of the things the runner tells apart.
Told(t) ==
  /\ {"error", "completion"} \subseteq DOMAIN t
  /\ t.error \in Errors /\ t.completion \in Completions

LEMMA DeviationsTold ==
  ASSUME NEW t, Told(t), NEW d \in Deviations(t) PROVE Told(d)
<1>1. CASE \E e \in Errors : d = [t EXCEPT !.error = e]
  BY <1>1 DEF Told
<1>0. CASE \E x \in Completions : d = [t EXCEPT !.completion = x]
  BY <1>0 DEF Told
<1>2. CASE \/ \E x \in Submissions : d = [t EXCEPT !.submission = x]
           \/ \E x \in Doms : d = [t EXCEPT !.dom = x]
           \/ \E x \in Expansions : d = [t EXCEPT !.expansion = x]
           \/ d = [t EXCEPT !.notice = TRUE]
           \/ d = [t EXCEPT !.matches = FALSE]
           \/ d = [t EXCEPT !.switched = TRUE]
  BY <1>2 DEF Told
<1>3. CASE \E g \in Graphs : d = [t EXCEPT !.graph = g, !.timely = (g # "none")]
  BY <1>3 DEF Told
<1>4. CASE \E p \in BOOLEAN \X BOOLEAN :
               d = [t EXCEPT !.limit = TRUE, !.slow = p[1], !.timely = p[2]]
  BY <1>4 DEF Told
<1>5. CASE d = [t EXCEPT !.private = TRUE, !.graph = "none", !.timely = FALSE]
  BY <1>5 DEF Told
<1> DEFINE A == {[t EXCEPT !.submission = s] : s \in Submissions}
           B == {[t EXCEPT !.completion = c] : c \in Completions}
           C == {[t EXCEPT !.error = e] : e \in Errors}
           D == {[t EXCEPT !.graph = g, !.timely = (g # "none")] : g \in Graphs}
           E == {[t EXCEPT !.limit = TRUE, !.slow = p[1], !.timely = p[2]]
                  : p \in BOOLEAN \X BOOLEAN}
           F == {[t EXCEPT !.private = TRUE, !.graph = "none", !.timely = FALSE],
                 [t EXCEPT !.notice = TRUE], [t EXCEPT !.matches = FALSE],
                 [t EXCEPT !.switched = TRUE]}
           G == {[t EXCEPT !.dom = x] : x \in Doms}
           H == {[t EXCEPT !.expansion = x] : x \in Expansions}
<1>6. d \in A \cup B \cup C \cup D \cup E \cup F \cup G \cup H
  BY DEF Deviations
<1>7. d \in A => \E x \in Submissions : d = [t EXCEPT !.submission = x]
  OBVIOUS
<1>8. d \in B => \E x \in Completions : d = [t EXCEPT !.completion = x]
  OBVIOUS
<1>9. d \in C => \E e \in Errors : d = [t EXCEPT !.error = e]
  OBVIOUS
<1>10. d \in D => \E g \in Graphs : d = [t EXCEPT !.graph = g, !.timely = (g # "none")]
  OBVIOUS
<1>11. d \in E => \E p \in BOOLEAN \X BOOLEAN :
               d = [t EXCEPT !.limit = TRUE, !.slow = p[1], !.timely = p[2]]
  OBVIOUS
<1>12. d \in G => \E x \in Doms : d = [t EXCEPT !.dom = x]
  OBVIOUS
<1>13. d \in H => \E x \in Expansions : d = [t EXCEPT !.expansion = x]
  OBVIOUS
<1>14. d \in F => d = [t EXCEPT !.private = TRUE, !.graph = "none", !.timely = FALSE]
                  \/ d = [t EXCEPT !.notice = TRUE] \/ d = [t EXCEPT !.matches = FALSE]
                  \/ d = [t EXCEPT !.switched = TRUE]
  OBVIOUS
<1> HIDE DEF A, B, C, D, E, F, G, H
<1>15. QED
  BY <1>0, <1>1, <1>2, <1>3, <1>4, <1>5, <1>6, <1>7, <1>8, <1>9, <1>10, <1>11, <1>12, <1>13, <1>14

LEMMA TurnsTold == \A t \in Turns : Told(t)
<1>1. Told(GoodTurn)
  BY DEF Told, GoodTurn, Errors, Completions
<1>2. QED
  BY <1>1, DeviationsTold DEF Turns

LEMMA TurnFailuresTyped ==
  ASSUME NEW required \in BOOLEAN, NEW t, Told(t)
  PROVE  TurnFailure(required, t) \in SUBSET Failures
<1>1. \A b \in BOOLEAN : \A f \in Failures : Fault(b, f) \in SUBSET Failures
  BY DEF Fault
<1>2. {"retry", "quality"} \subseteq Failures /\ {"quality"} \in SUBSET Failures
  BY DEF Failures
<1>3. \A b : Fault(b, "retry") \in SUBSET Failures /\ Fault(b, "quality") \in SUBSET Failures
  BY <1>2 DEF Fault
<1>4. ErrorFailure(t) \in SUBSET Failures
  BY DEF ErrorFailure, Told, Errors, Failures
<1>5. StepFailure(t) \in SUBSET Failures
  <2>1. SubmissionFailure(t) \in SUBSET Failures
    <3> DEFINE s == <<Fault(t.submission = "alertTimeout", "retry"),
                      Fault(t.submission \in {"alert", "uiFailed"}, "quality")>>
    <3>1. DOMAIN s = 1..2 /\ \A i \in DOMAIN s : s[i] \in SUBSET Failures
      BY <1>3
    <3>2. First(s) \in SUBSET Failures
      <4> HIDE DEF s
      <4> QED BY <3>1, FirstTyped
    <3>3. QED
      BY <3>2 DEF SubmissionFailure
  <2>2. SlowFailure(t) \in SUBSET Failures
    <3> DEFINE s == <<Fault(t.private, "retry"), ErrorFailure(t), {"quality"}>>
    <3>1. DOMAIN s = 1..3 /\ \A i \in DOMAIN s : s[i] \in SUBSET Failures
      BY <1>2, <1>3, <1>4
    <3>2. First(s) \in SUBSET Failures
      <4> HIDE DEF s
      <4> QED BY <3>1, FirstTyped
    <3>3. QED
      BY <3>2 DEF SlowFailure
  <2>3. StepFailure(t) = First(<<SubmissionFailure(t), SlowFailure(t), CompletionFailure(t),
                                 MismatchFailure(t)>>)
    BY DEF StepFailure
  <2>4. CompletionFailure(t) \in SUBSET Failures
    BY DEF CompletionFailure, Told, Completions, Failures
  <2>5. MismatchFailure(t) \in SUBSET Failures
    BY <1>3 DEF MismatchFailure
  <2> DEFINE s == <<SubmissionFailure(t), SlowFailure(t), CompletionFailure(t),
                    MismatchFailure(t)>>
  <2>6. DOMAIN s = 1..4 /\ \A i \in DOMAIN s : s[i] \in SUBSET Failures
    BY <2>1, <2>2, <2>4, <2>5
  <2>7. StepFailure(t) = First(s)
    BY <2>3
  <2> HIDE DEF s
  <2>8. QED
    BY <2>6, <2>7, FirstTyped
<1>6. GraphFailure(required, t) \in SUBSET Failures
  <2> DEFINE s == <<Fault(t.private /\ t.graph = "none", "retry"), {"quality"}>>
  <2>1. DOMAIN s = 1..2 /\ \A i \in DOMAIN s : s[i] \in SUBSET Failures
    BY <1>2, <1>3
  <2>2. First(s) \in SUBSET Failures
    <3> HIDE DEF s
    <3> QED BY <2>1, FirstTyped
  <2>3. QED
    BY <2>2 DEF GraphFailure
<1>7. RenderFailure(required, t) \in SUBSET Failures
  <2> DEFINE s == <<Fault(t.dom = "failed", "retry"),
                    Fault(t.dom \in {"different", "notReady"}, "quality")>>
  <2>1. DOMAIN s = 1..2 /\ \A i \in DOMAIN s : s[i] \in SUBSET Failures
    BY <1>3
  <2>2. First(s) \in SUBSET Failures
    <3> HIDE DEF s
    <3> QED BY <2>1, FirstTyped
  <2>3. QED
    BY <2>2 DEF RenderFailure
<1>8. EvidenceFailure(t) \in SUBSET Failures
  <2> DEFINE s == <<Fault(t.dom = "failed", "retry"), Fault(t.dom = "notReady", "quality")>>
  <2>1. DOMAIN s = 1..2 /\ \A i \in DOMAIN s : s[i] \in SUBSET Failures
    BY <1>3
  <2>2. First(s) \in SUBSET Failures
    <3> HIDE DEF s
    <3> QED BY <2>1, FirstTyped
  <2>3. QED
    BY <2>2 DEF EvidenceFailure
<1>9. /\ LatencyFailure(t) \in SUBSET Failures /\ ExpansionFailure(t) \in SUBSET Failures
      /\ Fault(t.switched, "quality") \in SUBSET Failures
  BY <1>3 DEF LatencyFailure, ExpansionFailure
<1> DEFINE s == <<StepFailure(t), ErrorFailure(t), Fault(t.switched, "quality"),
                  GraphFailure(required, t), LatencyFailure(t), RenderFailure(required, t),
                  ExpansionFailure(t), EvidenceFailure(t)>>
<1>10. TurnFailure(required, t) = First(s)
  BY DEF TurnFailure
<1>11. DOMAIN s = 1..8 /\ \A i \in DOMAIN s : s[i] \in SUBSET Failures
  BY <1>4, <1>5, <1>6, <1>7, <1>8, <1>9
<1> HIDE DEF s
<1>12. QED
  BY <1>10, <1>11, FirstTyped

\* What the surroundings did in an otherwise sound turn is their failure.
LEMMA BlamedIsNotTheProduct ==
  ASSUME NEW required \in BOOLEAN, NEW t, Told(t), SurroundingsFailed(required, t)
  PROVE  "quality" \notin TurnFailure(required, t)
<1>1. /\ t.submission = "sent" /\ t.completion = "done" /\ t.matches
      /\ t.error \in {"none", "sla", "provider"} /\ ~t.switched
      /\ t.error = "none" => t.private /\ required /\ t.graph = "none"
  BY DEF SurroundingsFailed, Told, Errors
<1>2. /\ ErrorFailure(t) \in {{}, {"infra"}, {"retry"}}
      /\ ErrorFailure(t) = {} => t.error = "none"
  BY <1>1 DEF ErrorFailure
<1>3. SlowFailure(t) \in {{}, {"infra"}, {"retry"}}
  <2> DEFINE s == <<Fault(t.private, "retry"), ErrorFailure(t), {"quality"}>>
  <2>1. DOMAIN s = 1..3 /\ s[1] = Fault(t.private, "retry") /\ s[2] = ErrorFailure(t)
    OBVIOUS
  <2>2. CASE t.private
    <3>1. s[1] = {"retry"}
      BY <2>1, <2>2 DEF Fault
    <3>2. First(s) = s[1]
      BY <2>1, <3>1, FirstTakes
    <3>3. QED
      BY <3>1, <3>2 DEF SlowFailure
  <2>3. CASE ~t.private
    <3>1. s[1] = {} /\ s[2] # {}
      BY <1>1, <1>2, <2>1, <2>3 DEF Fault
    <3>2. \A j \in DOMAIN s : j < 2 => s[j] = {}
      BY <2>1, <3>1
    <3>3. First(s) = s[2]
      BY <2>1, <3>1, <3>2, FirstTakes
    <3>4. QED
      BY <1>2, <2>1, <3>3 DEF SlowFailure
  <2>4. QED
    BY <2>2, <2>3
<1>4. StepFailure(t) = SlowFailure(t)
  <2> DEFINE u == <<Fault(t.submission = "alertTimeout", "retry"),
                    Fault(t.submission \in {"alert", "uiFailed"}, "quality")>>
             s == <<SubmissionFailure(t), SlowFailure(t), CompletionFailure(t),
                    MismatchFailure(t)>>
  <2>1. DOMAIN u = 1..2 /\ u[1] = {} /\ u[2] = {}
    BY <1>1 DEF Fault
  <2>2. SubmissionFailure(t) = {}
    BY <2>1, FirstTakes DEF SubmissionFailure
  <2>3. /\ DOMAIN s = 1..4 /\ s[1] = {} /\ s[2] = SlowFailure(t)
        /\ s[3] = {} /\ s[4] = {}
    BY <1>1, <2>2 DEF CompletionFailure, MismatchFailure, Fault
  <2>4. StepFailure(t) = First(s)
    BY DEF StepFailure
  <2> HIDE DEF s
  <2>5. CASE SlowFailure(t) = {}
    BY <2>3, <2>4, <2>5, FirstTakes
  <2>6. CASE SlowFailure(t) # {}
    <3>1. \A j \in DOMAIN s : j < 2 => s[j] = {}
      BY <2>3
    <3>2. QED
      BY <2>3, <2>4, <2>6, <3>1, FirstTakes
  <2>7. QED
    BY <2>5, <2>6
<1>5. t.error = "none" => GraphFailure(required, t) = {"retry"}
  <2> SUFFICES ASSUME t.error = "none" PROVE GraphFailure(required, t) = {"retry"}
    OBVIOUS
  <2> DEFINE s == <<Fault(t.private /\ t.graph = "none", "retry"), {"quality"}>>
  <2>1. DOMAIN s = 1..2 /\ s[1] = {"retry"}
    BY <1>1 DEF Fault
  <2>2. First(s) = s[1]
    BY <2>1, FirstTakes
  <2>3. QED
    BY <1>1, <2>1, <2>2 DEF GraphFailure, GraphMissing
<1> DEFINE s == <<StepFailure(t), ErrorFailure(t), Fault(t.switched, "quality"),
                  GraphFailure(required, t), LatencyFailure(t), RenderFailure(required, t),
                  ExpansionFailure(t), EvidenceFailure(t)>>
<1>6. /\ DOMAIN s = 1..8 /\ s[1] = SlowFailure(t) /\ s[2] = ErrorFailure(t) /\ s[3] = {}
      /\ s[4] = GraphFailure(required, t)
  BY <1>1, <1>4 DEF Fault
<1>7. TurnFailure(required, t) = First(s)
  BY DEF TurnFailure
<1> HIDE DEF s
<1>8. CASE s[1] # {}
  BY <1>3, <1>6, <1>7, <1>8, FirstTakes
<1>9. CASE s[1] = {} /\ s[2] # {}
  <2>1. \A j \in DOMAIN s : j < 2 => s[j] = {}
    BY <1>6, <1>9
  <2>2. First(s) = s[2]
    BY <1>6, <1>9, <2>1, FirstTakes
  <2>3. QED
    BY <1>2, <1>6, <1>7, <2>2
<1>10. CASE s[1] = {} /\ s[2] = {}
  <2>1. s[4] = {"retry"}
    BY <1>2, <1>5, <1>6, <1>10
  <2>2. \A j \in DOMAIN s : j < 4 => s[j] = {}
    BY <1>6, <1>10
  <2>3. First(s) = s[4]
    BY <1>6, <2>1, <2>2, FirstTakes
  <2>4. QED
    BY <1>7, <2>1, <2>3
<1>11. QED
  BY <1>8, <1>9, <1>10

-----------------------------------------------------------------------------
(* The steps of an attempt.                                                *)

LEMMA OutcomesTyped ==
  ASSUME SuiteTyped, NEW c \in Cases PROVE OutcomeOf(c) \in Outcome
<1>1. work[c] \in Work /\ round \in Nat
  BY SuiteAssumption DEF SuiteTyped, Attempts
<1>2. (IF work[c].named THEN {<<c, round>>} ELSE {}) \in SUBSET (Cases \X Nat)
  BY <1>1
<1>3. QED
  BY <1>1, <1>2 DEF OutcomeOf, Outcome, Work

\* While a task is under way the main task waits for its batch.
LEMMA UnderWay ==
  ASSUME SuiteInv, NEW c \in Cases, task[c] \in Queued \cup Active
  PROVE  /\ main \in {"batch", "unwind"} /\ c \notin recorded
         /\ round \in 1..Attempts /\ round \in Nat
         /\ current[c] = base[c] /\ Len(base[c]) = round - 1
<1>1. task[c] \notin {"idle", "done", "gone"}
  BY DEF Queued, Active
<1>2. main \in {"batch", "unwind"}
  BY <1>1 DEF SuiteInv, SuiteTyped, Staged, Early, Late, Ended
<1>3. c \notin recorded /\ current[c] = base[c] /\ Len(base[c]) = round - 1
  BY <1>1 DEF SuiteInv, Counted
<1>4. round \in 0..Attempts /\ round >= 1 /\ Attempts \in Nat
  BY <1>2, SuiteAssumption DEF SuiteInv, SuiteTyped, Staged, Attempts
<1>5. QED
  BY <1>2, <1>3, <1>4

\* A step of one attempt leaves the others alone.
LEMMA AttemptKeeps ==
  ASSUME SuiteInv, MainAlone, NEW c \in Cases, task[c] \in Queued \cup Active,
         NEW p \in Phases \ {"idle"}, task' = [task EXCEPT ![c] = p],
         work' \in [Cases -> Work], \A d \in Cases \ {c} : work'[d] = work[d],
         \/ UNCHANGED <<threads, created>>
         \/ threads' = threads \ {<<c, round>>} /\ UNCHANGED created
         \/ threads' = threads \cup {<<c, round>>} /\ created' = created \cup {<<c, round>>},
         JudgedOf(c)'
  PROVE  SuiteInv'
<1>1. /\ main \in {"batch", "unwind"} /\ c \notin recorded
      /\ round \in 1..Attempts /\ round \in Nat
      /\ current[c] = base[c] /\ Len(base[c]) = round - 1
  BY UnderWay
<1>2. UNCHANGED <<main, round, base, current, recorded, file>>
  BY DEF MainAlone
<1>3. /\ task' \in [Cases -> Phases] /\ task'[c] # "idle" /\ task[c] # "idle"
      /\ \A d \in Cases : d # c => task'[d] = task[d]
  BY DEF SuiteInv, SuiteTyped, Queued, Active
<1>4. \A d \in recorded : d \in Cases /\ d # c /\ task'[d] = task[d] /\ OutcomeOf(d)' = OutcomeOf(d)
  BY <1>1, <1>2, <1>3 DEF SuiteInv, SuiteTyped, OutcomeOf
<1>5. SuiteTyped'
  <2>1. threads' \subseteq created' /\ created' \subseteq Cases \X (1..Attempts)
    BY <1>1, <1>2 DEF SuiteInv, SuiteTyped
  <2>2. QED
    BY <1>2, <1>3, <2>1 DEF SuiteInv, SuiteTyped
<1>6. Staged'
  BY <1>1, <1>2 DEF Staged, Early, Late
<1>7. Counted'
  <2> SUFFICES ASSUME NEW d \in Cases
               PROVE  (/\ current[d] = IF d \in recorded THEN Append(base[d], OutcomeOf(d))
                                                         ELSE base[d]
                       /\ d \in recorded => task[d] = "done"
                       /\ Len(current[d]) <= round
                       /\ \A i \in 1..(Len(base[d]) - 1) : ShouldRetry(base[d][i])
                       /\ task[d] # "idle" =>
                            /\ Len(base[d]) = round - 1
                            /\ \A i \in 1..Len(base[d]) : ShouldRetry(base[d][i])
                       /\ task[d] = "idle" /\ round > 0 =>
                            base[d] # << >> /\ ~ShouldRetry(Last(base[d])))'
    BY DEF Counted
  <2>1. CASE d = c
    BY <1>1, <1>2, <1>3, <2>1 DEF SuiteInv, Counted, ShouldRetry
  <2>2. CASE d # c
    BY <1>2, <1>3, <1>4, <2>2 DEF SuiteInv, Counted, ShouldRetry
  <2>3. QED
    BY <2>1, <2>2
<1>8. Reported'
  BY <1>2 DEF SuiteInv, Reported
<1>9. Judged'
  <2>1. ASSUME NEW d \in Cases, d # c PROVE JudgedOf(d)'
    <3>1. <<d, round>> \notin threads => <<d, round>> \notin threads'
      BY <2>1
    <3>2. QED
      BY <1>2, <1>3, <2>1, <3>1 DEF SuiteInv, Judged, JudgedOf
  <2>2. QED
    BY <2>1 DEF Judged
<1>10. ThreadsNumbered'
  <2>1. \A t \in threads' : t \in threads \/ t = <<c, round>>
    OBVIOUS
  <2>2. QED
    BY <1>1, <1>2, <2>1 DEF SuiteInv, ThreadsNumbered
<1>11. PassedLeavesNothing'
  <2>1. \A t \in threads' : t \in threads \/ (t[1] = c /\ t[2] = round)
    OBVIOUS
  <2>2. ~(round <= Len(current[c]))
    BY <1>1
  <2>3. QED
    BY <1>2, <2>1, <2>2 DEF SuiteInv, PassedLeavesNothing
<1>12. QED
  BY <1>5, <1>6, <1>7, <1>8, <1>9, <1>10, <1>11 DEF SuiteInv

LEMMA WorkChanged ==
  ASSUME SuiteTyped, NEW c \in Cases, NEW w, work' = [work EXCEPT ![c] = w], w \in Work
  PROVE  /\ work' \in [Cases -> Work] /\ work'[c] = w
         /\ \A d \in Cases \ {c} : work'[d] = work[d]
BY DEF SuiteTyped

\* The fields an attempt's step changes keep its locals typed.
LEMMA VerdictChanged ==
  ASSUME NEW w \in Work, NEW v \in Verdicts
  PROVE  /\ [w EXCEPT !.verdict = v] \in Work
         /\ [w EXCEPT !.verdict = v].verdict = v /\ [w EXCEPT !.verdict = v].named = w.named
         /\ [w EXCEPT !.verdict = v].blamed = w.blamed
BY DEF Work

LEMMA ReplyChanged ==
  ASSUME NEW w \in Work, NEW r \in {"none", "seen", "unreadable", "lost"}, NEW n \in BOOLEAN
  PROVE  [w EXCEPT !.reply = r, !.named = n] \in Work
BY DEF Work

LEMMA VerdictAndReplyChanged ==
  ASSUME NEW w \in Work, NEW v \in Verdicts, NEW r \in {"none", "seen", "unreadable", "lost"}
  PROVE  [w EXCEPT !.verdict = v, !.reply = r] \in Work
BY DEF Work

LEMMA ConversationChanged ==
  ASSUME NEW w \in Work, NEW v \in Verdicts, NEW n \in BOOLEAN, NEW b \in BOOLEAN
  PROVE  [w EXCEPT !.verdict = v, !.named = n, !.blamed = b] \in Work
BY DEF Work

LEMMA ResultChanged ==
  ASSUME NEW w \in Work, NEW v \in Verdicts
  PROVE  [w EXCEPT !.verdict = v, !.result = TRUE, !.blamed = FALSE] \in Work
BY DEF Work

LEMMA CancellationChanged ==
  ASSUME NEW w \in Work, NEW v \in Verdicts, NEW n \in BOOLEAN
  PROVE  [w EXCEPT !.verdict = v, !.state = "cancelled", !.named = n] \in Work
BY DEF Work

LEMMA BlameMeans ==
  ASSUME SuiteTyped, NEW c \in Cases, NEW F \in SUBSET Failures, Blame(c, F)
  PROVE  /\ work' \in [Cases -> Work]
         /\ work'[c] = [work[c] EXCEPT !.verdict = Worst(work[c].verdict, F)]
         /\ \A d \in Cases \ {c} : work'[d] = work[d]
<1> DEFINE w == [work[c] EXCEPT !.verdict = Worst(work[c].verdict, F)]
<1>1. work[c] \in Work /\ work[c].verdict \in Verdicts
  BY DEF SuiteTyped, Work
<1>2. w \in Work
  <2>1. Worst(work[c].verdict, F) \in Verdicts
    BY <1>1, WorstDecides
  <2>2. QED
    BY <1>1, <2>1, VerdictChanged
<1>3. work' = [work EXCEPT ![c] = w]
  BY DEF Blame
<1> HIDE DEF w
<1>4. /\ work' \in [Cases -> Work] /\ work'[c] = w
      /\ \A d \in Cases \ {c} : work'[d] = work[d]
  BY <1>2, <1>3, WorkChanged
<1>5. QED
  BY <1>4 DEF w

LEMMA QueuesKeep ==
  ASSUME SuiteInv, NEW c \in Cases, TakeLane(c) \/ TakeSlot(c) PROVE SuiteInv'
<1>1. PICK p \in {"slot", "auth"} : task' = [task EXCEPT ![c] = p]
  BY DEF TakeLane, TakeSlot, Become
<1>2. /\ MainAlone /\ task[c] \in Queued /\ UNCHANGED <<work, threads, created>>
  BY DEF TakeLane, TakeSlot, Queued
<1>3. task'[c] = p /\ p \in Phases \ {"idle"}
  BY <1>1 DEF SuiteInv, SuiteTyped, Phases, Queued, Active, Ended
<1>4. JudgedOf(c)'
  BY <1>1, <1>2, <1>3 DEF SuiteInv, Judged, JudgedOf, Queued
<1>5. work' \in [Cases -> Work]
  BY <1>2 DEF SuiteInv, SuiteTyped
<1>6. QED
  BY <1>1, <1>2, <1>3, <1>4, <1>5, AttemptKeeps

LEMMA AuthenticateKeeps ==
  ASSUME SuiteInv, NEW c \in Cases, Authenticate(c) PROVE SuiteInv'
<1>1. MainAlone /\ task[c] = "auth" /\ UNCHANGED <<threads, created>>
  BY DEF Authenticate
<1>2. work[c].verdict = "passed" /\ ~work[c].blamed
  BY <1>1 DEF SuiteInv, Judged, JudgedOf
<1>3. CASE Become(c, "steps") /\ UNCHANGED work
  <2>1. task' = [task EXCEPT ![c] = "steps"] /\ task'[c] = "steps"
    BY <1>3 DEF Become, SuiteInv, SuiteTyped
  <2>2. JudgedOf(c)' /\ work' \in [Cases -> Work]
    BY <1>2, <1>3, <2>1 DEF SuiteInv, SuiteTyped, JudgedOf, Queued
  <2>3. QED
    BY <1>1, <1>3, <2>1, <2>2, AttemptKeeps DEF Phases, Queued, Active
<1>4. CASE Become(c, "done") /\ Blame(c, {"retry"})
  <2>1. task' = [task EXCEPT ![c] = "done"] /\ task'[c] = "done"
    BY <1>4 DEF Become, SuiteInv, SuiteTyped
  <2>2. /\ work' \in [Cases -> Work]
        /\ work'[c] = [work[c] EXCEPT !.verdict = Worst(work[c].verdict, {"retry"})]
        /\ \A d \in Cases \ {c} : work'[d] = work[d]
    BY <1>4, BlameMeans DEF SuiteInv, Failures
  <2>3. work'[c].verdict # "passed"
    <3>1. work[c] \in Work /\ {"retry"} \in SUBSET Failures
      BY DEF SuiteInv, SuiteTyped, Failures
    <3>2. Worst(work[c].verdict, {"retry"}) \in Verdicts
      BY <3>1, WorstDecides DEF Work
    <3>3. work'[c].verdict = Worst(work[c].verdict, {"retry"})
      BY <2>2, <3>1, <3>2, VerdictChanged
    <3>4. Worst(work[c].verdict, {"retry"}) # "passed"
      BY <3>1, WorstDecides DEF Work
    <3>5. QED
      BY <3>3, <3>4
  <2>4. JudgedOf(c)'
    BY <2>1, <2>3 DEF JudgedOf, Queued
  <2>5. QED
    BY <1>1, <2>1, <2>2, <2>4, AttemptKeeps DEF Phases, Ended, Queued, Active
<1>5. QED
  BY <1>3, <1>4 DEF Authenticate

LEMMA CreateKeeps ==
  ASSUME SuiteInv, NEW c \in Cases, CreateThread(c) PROVE SuiteInv'
<1>1. PICK r \in {"seen", "unreadable", "lost"} :
        work' = [work EXCEPT ![c].reply = r, ![c].named = (r = "seen")]
  BY DEF CreateThread
<1>2. /\ MainAlone /\ task[c] = "steps" /\ UNCHANGED task
      /\ threads' = threads \cup {<<c, round>>} /\ created' = created \cup {<<c, round>>}
  BY DEF CreateThread
<1> DEFINE w == [work[c] EXCEPT !.reply = r, !.named = (r = "seen")]
<1>3. work[c] \in Work /\ w \in Work /\ w.verdict = work[c].verdict /\ w.blamed = work[c].blamed
  <2>1. work[c] \in Work
    BY DEF SuiteInv, SuiteTyped
  <2>2. w \in Work
    BY <2>1, ReplyChanged
  <2>3. QED
    BY <2>1, <2>2 DEF Work
<1>4. work' = [work EXCEPT ![c] = w]
  BY <1>1
<1> HIDE DEF w
<1>5. /\ work' \in [Cases -> Work] /\ work'[c] = w
      /\ \A d \in Cases \ {c} : work'[d] = work[d]
  BY <1>3, <1>4, WorkChanged DEF SuiteInv
<1>6. JudgedOf(c)'
  BY <1>2, <1>3, <1>5 DEF SuiteInv, Judged, JudgedOf, Queued
<1>7. task' = [task EXCEPT ![c] = "steps"]
  BY <1>2 DEF SuiteInv, SuiteTyped
<1>8. QED
  BY <1>2, <1>5, <1>6, <1>7, AttemptKeeps DEF Phases, Queued, Active

\* The end of a conversation: with the verdict on its last turn, and the thread it named.
LEMMA InspectingKeeps ==
  ASSUME SuiteInv, NEW c \in Cases, task[c] = "steps",
         NEW F \in SUBSET Failures, NEW n \in BOOLEAN, NEW b \in BOOLEAN,
         Inspecting(c, F, n, b), F = {} => n, b => "quality" \notin F
  PROVE  SuiteInv'
<1> DEFINE v == Worst(work[c].verdict, F)
           w == [work[c] EXCEPT !.verdict = v, !.named = n, !.blamed = b]
<1>1. work[c] \in Work /\ work[c].verdict = "passed"
  BY DEF SuiteInv, SuiteTyped, Judged, JudgedOf
<1>2. /\ v \in Verdicts /\ v \in {"passed"} \cup F
      /\ v = "passed" => F = {}
  BY <1>1, WorstDecides DEF Work
<1> HIDE DEF v
<1>3. w \in Work
  BY <1>1, <1>2, ConversationChanged
<1>4. w.verdict = v /\ w.named = n /\ w.blamed = b
  BY <1>1 DEF Work
<1>5. work' = [work EXCEPT ![c] = w]
  BY DEF Inspecting, v
<1> HIDE DEF w
<1>6. /\ work' \in [Cases -> Work] /\ work'[c] = w
      /\ \A d \in Cases \ {c} : work'[d] = work[d]
  BY <1>3, <1>5, WorkChanged DEF SuiteInv
<1>7. task' = [task EXCEPT ![c] = "inspect"] /\ task'[c] = "inspect"
  BY DEF Inspecting, Become, SuiteInv, SuiteTyped
<1>8. JudgedOf(c)'
  BY <1>2, <1>4, <1>6, <1>7 DEF JudgedOf, Queued
<1>9. QED
  BY <1>6, <1>7, <1>8, AttemptKeeps DEF Inspecting, Phases, Queued, Active

LEMMA ConverseKeeps ==
  ASSUME SuiteInv, NEW c \in Cases, Converse(c) PROVE SuiteInv'
<1>1. PICK e \in Conversations[(c \in GraphCases)] : Inspecting(c, e.failures, TRUE, e.blamed)
  BY DEF Converse
<1> DEFINE required == (c \in GraphCases)
<1>2. PICK t \in Turns : e = [failures |-> TurnFailure(required, t),
                             blamed |-> SurroundingsFailed(required, t)]
  BY <1>1 DEF Conversations
<1>3. required \in BOOLEAN /\ Told(t)
  BY TurnsTold
<1> HIDE DEF required
<1>4. e.failures = TurnFailure(required, t) /\ e.blamed = SurroundingsFailed(required, t)
  BY <1>2
<1>5. TurnFailure(required, t) \in SUBSET Failures
  BY <1>3, TurnFailuresTyped
<1>6. SurroundingsFailed(required, t) \in BOOLEAN
  BY DEF SurroundingsFailed
<1>7. SurroundingsFailed(required, t) => "quality" \notin TurnFailure(required, t)
  BY <1>3, BlamedIsNotTheProduct
<1>8. task[c] = "steps"
  BY DEF Converse
<1>9. QED
  BY <1>1, <1>4, <1>5, <1>6, <1>7, <1>8, InspectingKeeps

LEMMA NotReadyKeeps ==
  ASSUME SuiteInv, NEW c \in Cases, NotReady(c) PROVE SuiteInv'
<1>1. PICK f \in {"retry", "quality"} : Inspecting(c, {f}, work[c].named, FALSE)
  BY DEF NotReady
<1>2. work[c].named \in BOOLEAN /\ {f} \in SUBSET Failures /\ task[c] = "steps"
  BY DEF SuiteInv, SuiteTyped, Work, Failures, NotReady
<1>3. QED
  BY <1>1, <1>2, InspectingKeeps

LEMMA InspectKeeps ==
  ASSUME SuiteInv, NEW c \in Cases, Inspect(c) PROVE SuiteInv'
<1>1. /\ MainAlone /\ task[c] = "inspect" /\ UNCHANGED <<threads, created>>
      /\ task' = [task EXCEPT ![c] = "cleanup"]
  BY DEF Inspect, Become
<1>2. PICK found \in InspectionFindings(work[c].verdict = "passed") :
        work' = [work EXCEPT ![c].verdict = Worst(@, found), ![c].result = TRUE,
                             ![c].blamed = FALSE]
  BY DEF Inspect
<1>3. found \in SUBSET Failures
  <2>1. ASSUME NEW x \in DrawnFindings \cup CheckFindings \cup FollowupFindings \cup StoredFindings,
               NEW y \in ScreenshotFindings
        PROVE  x \in SUBSET Failures /\ y \in SUBSET Failures /\ x \cup y \in SUBSET Failures
    BY DEF DrawnFindings, CheckFindings, FollowupFindings, StoredFindings, ScreenshotFindings,
           Failures
  <2>2. {} \in DrawnFindings
    BY DEF DrawnFindings
  <2>3. QED
    BY <1>2, <2>1, <2>2 DEF InspectionFindings
<1> DEFINE v == Worst(work[c].verdict, found)
           w == [work[c] EXCEPT !.verdict = v, !.result = TRUE, !.blamed = FALSE]
<1>4. work[c] \in Work
  BY DEF SuiteInv, SuiteTyped
<1>5. v \in Verdicts /\ (v = "passed" => work[c].verdict = "passed")
  BY <1>3, <1>4, WorstDecides DEF Work
<1>6. work' = [work EXCEPT ![c] = w]
  BY <1>2
<1> HIDE DEF v
<1>7. w \in Work
  BY <1>4, <1>5, ResultChanged
<1>8. w.verdict = v /\ w.named = work[c].named /\ ~w.blamed
  BY <1>4 DEF Work
<1> HIDE DEF w
<1>9. /\ work' \in [Cases -> Work] /\ work'[c] = w
      /\ \A d \in Cases \ {c} : work'[d] = work[d]
  BY <1>6, <1>7, WorkChanged DEF SuiteInv
<1>10. task'[c] = "cleanup"
  BY <1>1 DEF SuiteInv, SuiteTyped
<1>11. v = "passed" => work[c].named
  BY <1>1, <1>5 DEF SuiteInv, Judged, JudgedOf
<1>12. JudgedOf(c)'
  BY <1>8, <1>9, <1>10, <1>11 DEF JudgedOf, Queued
<1>13. QED
  BY <1>1, <1>9, <1>12, AttemptKeeps DEF Phases, Queued, Active

\* A thread that is known by name is deleted, or the failure to do so is told.
LEMMA CleanupKeeps ==
  ASSUME SuiteInv, NEW c \in Cases, Cleanup(c) PROVE SuiteInv'
<1>1. /\ MainAlone /\ task[c] = "cleanup" /\ UNCHANGED created
      /\ task' = [task EXCEPT ![c] = "trace"]
  BY DEF Cleanup, Become
<1>2. PICK deleted \in BOOLEAN :
        /\ work' = [work EXCEPT ![c].verdict = Worst(@, CleanupFindings(c, deleted)),
                                ![c].reply = "none"]
        /\ threads' = threads \ NamedThreads(c) \/ (~deleted /\ threads' = threads)
  BY DEF Cleanup
<1> DEFINE found == CleanupFindings(c, deleted)
           v == Worst(work[c].verdict, found)
           w == [work[c] EXCEPT !.verdict = v, !.reply = "none"]
<1>3. work[c] \in Work
  BY DEF SuiteInv, SuiteTyped
<1>4. /\ found \in SUBSET Failures
      /\ work[c].named /\ ~deleted => found # {}
  BY DEF CleanupFindings, NamedThreads, Failures
<1>5. work' = [work EXCEPT ![c] = w]
  BY <1>2
<1> HIDE DEF found
<1>6. /\ v \in Verdicts
      /\ v = "passed" => work[c].verdict = "passed" /\ found = {}
  BY <1>3, <1>4, WorstDecides DEF Work
<1> HIDE DEF v
<1>7. w \in Work
  BY <1>3, <1>6, VerdictAndReplyChanged
<1>8. w.verdict = v /\ w.named = work[c].named
  BY <1>3 DEF Work
<1> HIDE DEF w
<1>9. /\ work' \in [Cases -> Work] /\ work'[c] = w
      /\ \A d \in Cases \ {c} : work'[d] = work[d]
  BY <1>5, <1>7, WorkChanged DEF SuiteInv
<1>10. task'[c] = "trace" /\ round' = round
  BY <1>1 DEF SuiteInv, SuiteTyped, MainAlone
<1>11. v = "passed" => work[c].named
  BY <1>1, <1>6 DEF SuiteInv, Judged, JudgedOf
<1>12. v = "passed" => <<c, round>> \notin threads'
  BY <1>2, <1>4, <1>6, <1>11 DEF NamedThreads
<1>13. JudgedOf(c)'
  BY <1>8, <1>9, <1>10, <1>11, <1>12 DEF JudgedOf, Queued
<1>14. threads' = threads \ {<<c, round>>} \/ threads' = threads
  BY <1>2 DEF NamedThreads
<1>15. QED
  BY <1>1, <1>9, <1>13, <1>14, AttemptKeeps DEF Phases, Queued, Active

LEMMA CloseKeeps ==
  ASSUME SuiteInv, NEW c \in Cases, CloseContext(c) PROVE SuiteInv'
<1>1. MainAlone /\ task[c] = "trace" /\ UNCHANGED <<threads, created>>
  BY DEF CloseContext
<1>2. PICK p \in {"done", "gone"} : task' = [task EXCEPT ![c] = p]
  BY DEF CloseContext, Become
<1>3. PICK found \in {{}, {"infra"}} : Blame(c, found)
  BY DEF CloseContext
<1>4. found \in SUBSET Failures /\ work[c] \in Work
  BY DEF Failures, SuiteInv, SuiteTyped
<1> DEFINE v == Worst(work[c].verdict, found)
<1>5. /\ work' \in [Cases -> Work] /\ work'[c] = [work[c] EXCEPT !.verdict = v]
      /\ \A d \in Cases \ {c} : work'[d] = work[d]
  BY <1>3, <1>4, BlameMeans DEF SuiteInv
<1>6. v \in Verdicts /\ (v = "passed" => work[c].verdict = "passed")
  BY <1>4, WorstDecides DEF Work
<1> HIDE DEF v
<1>7. work'[c].verdict = v /\ work'[c].named = work[c].named
  BY <1>4, <1>5, <1>6, VerdictChanged
<1>8. task'[c] \in {"done", "gone"} /\ round' = round
  BY <1>1, <1>2 DEF SuiteInv, SuiteTyped, MainAlone
<1>9. v = "passed" => work[c].named /\ <<c, round>> \notin threads
  BY <1>1, <1>6 DEF SuiteInv, Judged, JudgedOf
<1>10. JudgedOf(c)'
  BY <1>1, <1>7, <1>8, <1>9 DEF JudgedOf, Queued
<1>11. p \in Phases \ {"idle"} /\ task[c] \in Queued \cup Active
  BY <1>1 DEF Phases, Ended, Active
<1>12. QED
  BY <1>1, <1>2, <1>5, <1>10, <1>11, AttemptKeeps

LEMMA AttemptsKeep ==
  ASSUME SuiteInv, NEW c \in Cases, Attempt(c) PROVE SuiteInv'
BY QueuesKeep, AuthenticateKeeps, CreateKeeps, ConverseKeeps, NotReadyKeeps, InspectKeeps,
   CleanupKeeps, CloseKeeps DEF Attempt

-----------------------------------------------------------------------------
(* The steps of the main task.                                             *)

\* A step of the main task alone touches no attempt and no record.
LEMMA MainAloneKeeps ==
  ASSUME SuiteInv,
         UNCHANGED <<round, base, current, task, work, recorded, threads, created>>,
         file'.results = current,
         main' \in {"preflight", "bootstrap", "batch", "unwind", "collect", "finalize",
                    "ended", "failed"},
         Staged'
  PROVE  SuiteInv'
<1>1. \A c \in Cases : OutcomeOf(c)' = OutcomeOf(c)
  BY DEF OutcomeOf
<1>2. Counted'
  BY <1>1 DEF SuiteInv, Counted, ShouldRetry
<1>3. SuiteTyped' /\ Reported' /\ ThreadsNumbered' /\ PassedLeavesNothing'
  BY DEF SuiteInv, SuiteTyped, Reported, ThreadsNumbered, PassedLeavesNothing
<1>4. Judged'
  BY DEF SuiteInv, Judged, JudgedOf
<1>5. QED
  BY <1>2, <1>3, <1>4 DEF SuiteInv

LEMMA PreflightKeeps == SuiteInv /\ Preflight => SuiteInv'
<1> SUFFICES ASSUME SuiteInv, Preflight PROVE SuiteInv'
  OBVIOUS
<1>1. Staged'
  BY DEF SuiteInv, Staged, Early, Late, Preflight, Ended
<1>2. QED
  BY <1>1, MainAloneKeeps DEF Preflight, SuiteInv, Reported

LEMMA CollectKeeps == SuiteInv /\ Collect => SuiteInv'
<1> SUFFICES ASSUME SuiteInv, Collect PROVE SuiteInv'
  OBVIOUS
<1>1. Staged'
  BY DEF SuiteInv, Staged, Early, Late, Collect
<1>2. file'.results = current
  BY DEF SuiteInv, Reported, Collect
<1>3. QED
  BY <1>1, <1>2, MainAloneKeeps DEF Collect

LEMMA FinalizeKeeps == SuiteInv /\ Finalize => SuiteInv'
<1> SUFFICES ASSUME SuiteInv, Finalize PROVE SuiteInv'
  OBVIOUS
<1>1. Staged'
  BY DEF SuiteInv, Staged, Early, Late, Finalize
<1>2. file'.results = current
  BY DEF SuiteInv, Reported, Finalize
<1>3. QED
  BY <1>1, <1>2, MainAloneKeeps DEF Finalize

\* The checkpoint: what is recorded of the cases in R becomes what was recorded of them
\* before the batch, and their results.
LEMMA CheckpointKeeps ==
  ASSUME SuiteInv, NEW R \in SUBSET Cases, recorded \subseteq R,
         \A c \in R : task[c] = "done",
         recorded' = R, Checkpoint(R), main \in {"batch", "unwind"},
         main' \in {"batch", "unwind", "finalize"},
         UNCHANGED <<round, base, task, work, threads, created>>,
         main' = "finalize" => \A c \in Cases : /\ task[c] \in Ended
                                                /\ task[c] = "done" => c \in R
  PROVE  SuiteInv'
<1>1. /\ round \in 1..Attempts /\ round \in Nat
  <2>1. round \in 0..Attempts /\ round >= 1 /\ Attempts \in Nat
    BY SuiteAssumption DEF SuiteInv, SuiteTyped, Staged, Attempts
  <2>2. QED
    BY <2>1
<1>2. current' = [c \in Cases |-> IF c \in R THEN Append(base[c], OutcomeOf(c)) ELSE current[c]]
  BY DEF Checkpoint, Merged
<1>3. \A c \in Cases : OutcomeOf(c) \in Outcome /\ OutcomeOf(c)' = OutcomeOf(c)
  BY OutcomesTyped DEF SuiteInv, OutcomeOf
<1>4. \A c \in Cases : base[c] \in Seq(Outcome) /\ current[c] \in Seq(Outcome)
  BY DEF SuiteInv, SuiteTyped
<1>5. \A c \in R : /\ Len(base[c]) = round - 1
                   /\ \A i \in 1..Len(base[c]) : ShouldRetry(base[c][i])
  BY DEF SuiteInv, Counted
<1>6. \A c \in R : /\ Append(base[c], OutcomeOf(c)) \in Seq(Outcome)
                   /\ Len(Append(base[c], OutcomeOf(c))) = round
                   /\ Append(base[c], OutcomeOf(c))[round] = OutcomeOf(c)
                   /\ \A i \in 1..(round - 1) : Append(base[c], OutcomeOf(c))[i] = base[c][i]
  BY <1>1, <1>3, <1>4, <1>5
<1>7. SuiteTyped'
  <2>1. current' \in [Cases -> Seq(Outcome)]
    BY <1>2, <1>4, <1>6
  <2>2. QED
    BY <2>1 DEF SuiteInv, SuiteTyped
<1>8. Staged'
  BY <1>1 DEF SuiteInv, Staged, Early, Late
<1>9. Counted'
  <2> SUFFICES ASSUME NEW d \in Cases
               PROVE  (/\ current[d] = IF d \in recorded THEN Append(base[d], OutcomeOf(d))
                                                         ELSE base[d]
                       /\ d \in recorded => task[d] = "done"
                       /\ Len(current[d]) <= round
                       /\ \A i \in 1..(Len(base[d]) - 1) : ShouldRetry(base[d][i])
                       /\ task[d] # "idle" =>
                            /\ Len(base[d]) = round - 1
                            /\ \A i \in 1..Len(base[d]) : ShouldRetry(base[d][i])
                       /\ task[d] = "idle" /\ round > 0 =>
                            base[d] # << >> /\ ~ShouldRetry(Last(base[d])))'
    BY DEF Counted
  <2>1. CASE d \in R
    BY <1>1, <1>2, <1>3, <1>6, <2>1 DEF SuiteInv, Counted, ShouldRetry
  <2>2. CASE d \notin R
    BY <1>1, <1>2, <1>3, <2>2 DEF SuiteInv, Counted, ShouldRetry
  <2>3. QED
    BY <2>1, <2>2
<1>10. Reported'
  BY DEF Reported, Checkpoint
<1>11. Judged'
  BY DEF SuiteInv, Judged, JudgedOf
<1>12. ThreadsNumbered'
  BY DEF SuiteInv, ThreadsNumbered
<1>13. PassedLeavesNothing'
  <2> SUFFICES ASSUME NEW t \in threads, t[2] <= Len(current'[t[1]])
               PROVE  current'[t[1]][t[2]].verdict # "passed"
    BY DEF PassedLeavesNothing
  <2>1. t[1] \in Cases /\ t[2] \in 1..Attempts /\ t = <<t[1], t[2]>> /\ t[2] \in Nat \ {0}
    BY DEF SuiteInv, SuiteTyped
  <2> DEFINE c == t[1]
  <2>2. CASE c \notin R
    BY <1>2, <2>1, <2>2 DEF SuiteInv, PassedLeavesNothing
  <2>3. CASE c \in R
    <3>1. current'[c] = Append(base[c], OutcomeOf(c)) /\ task[c] = "done"
      BY <1>2, <2>1, <2>3
    <3>2. CASE t[2] = round
      <4>1. work[c].verdict # "passed"
        BY <2>1, <3>1, <3>2 DEF SuiteInv, Judged, JudgedOf
      <4>2. QED
        BY <1>6, <2>3, <3>1, <3>2, <4>1 DEF OutcomeOf
    <3>3. CASE t[2] # round
      <4>1. t[2] \in 1..(round - 1)
        BY <1>1, <1>6, <2>1, <2>3, <3>1, <3>3
      <4>2. current'[c][t[2]] = base[c][t[2]] /\ ShouldRetry(base[c][t[2]])
        BY <1>5, <1>6, <2>3, <3>1, <4>1
      <4>3. QED
        BY <4>2 DEF ShouldRetry
    <3>4. QED
      BY <3>2, <3>3
  <2>4. QED
    BY <2>2, <2>3
<1>14. QED
  BY <1>7, <1>8, <1>9, <1>10, <1>11, <1>12, <1>13 DEF SuiteInv

LEMMA RecordKeeps ==
  ASSUME SuiteInv, NEW c \in Cases, Record(c) PROVE SuiteInv'
<1>1. /\ recorded \cup {c} \in SUBSET Cases
      /\ \A d \in recorded \cup {c} : task[d] = "done"
  BY DEF Record, SuiteInv, SuiteTyped, Counted
<1>2. recorded' = recorded \cup {c} /\ Checkpoint(recorded \cup {c})
  BY DEF Record
<1>3. QED
  BY <1>1, <1>2, CheckpointKeeps DEF Record

LEMMA GatheredKeeps == SuiteInv /\ Gathered => SuiteInv'
<1> SUFFICES ASSUME SuiteInv, Gathered PROVE SuiteInv'
  OBVIOUS
<1>1. /\ recorded \cup Recovered \in SUBSET Cases
      /\ \A d \in recorded \cup Recovered : task[d] = "done"
      /\ \A d \in Cases : task[d] = "done" => d \in recorded \cup Recovered
      /\ \A d \in Cases : task[d] \in Ended
  BY DEF Gathered, Recovered, SuiteInv, SuiteTyped, Counted
<1>2. CASE Recovered = {}
  <2>1. UNCHANGED <<round, base, current, task, work, recorded, file, threads, created>>
    BY <1>2 DEF Gathered
  <2>2. Staged'
    BY <1>1, <1>2, <2>1 DEF SuiteInv, Staged, Early, Late, Gathered
  <2>3. QED
    BY <2>1, <2>2, MainAloneKeeps DEF Gathered, SuiteInv, Reported
<1>3. CASE Recovered # {}
  <2>1. recorded' = recorded \cup Recovered /\ Checkpoint(recorded \cup Recovered)
    BY <1>3 DEF Gathered
  <2>2. QED
    BY <1>1, <2>1, CheckpointKeeps DEF Gathered
<1>4. QED
  BY <1>2, <1>3

\* A case's attempts, but its last one, each earned the next.
LEMMA EarnedTheNext ==
  ASSUME SuiteInv, NEW c \in Cases
  PROVE  /\ current[c] \in Seq(Outcome) /\ Len(current[c]) <= round
         /\ \A i \in 1..(Len(current[c]) - 1) : ShouldRetry(current[c][i])
         /\ c \in recorded => /\ Len(current[c]) = round /\ round \in Nat \ {0}
                              /\ Last(current[c]) = OutcomeOf(c)
                              /\ \A i \in 1..(round - 1) : ShouldRetry(current[c][i])
<1>1. /\ current[c] \in Seq(Outcome) /\ base[c] \in Seq(Outcome) /\ OutcomeOf(c) \in Outcome
      /\ Len(current[c]) <= round /\ round \in Nat
  BY OutcomesTyped, SuiteAssumption DEF SuiteInv, SuiteTyped, Counted, Attempts
<1>2. CASE c \in recorded
  <2>1. /\ current[c] = Append(base[c], OutcomeOf(c)) /\ Len(base[c]) = round - 1
        /\ \A i \in 1..Len(base[c]) : ShouldRetry(base[c][i])
    BY <1>2 DEF SuiteInv, Counted
  <2>2. /\ Len(current[c]) = Len(base[c]) + 1 /\ Len(base[c]) \in Nat
        /\ current[c][Len(base[c]) + 1] = OutcomeOf(c)
        /\ \A i \in 1..Len(base[c]) : current[c][i] = base[c][i]
    BY <1>1, <2>1
  <2>3. Len(current[c]) = round /\ round \in Nat \ {0}
    BY <1>1, <2>1, <2>2
  <2>4. Last(current[c]) = OutcomeOf(c)
    BY <2>2 DEF Last
  <2>5. \A i \in 1..(round - 1) : ShouldRetry(current[c][i])
    BY <2>1, <2>2
  <2>6. QED
    BY <1>1, <2>3, <2>4, <2>5
<1>3. CASE c \notin recorded
  BY <1>1, <1>3 DEF SuiteInv, Counted
<1>4. QED
  BY <1>2, <1>3

LEMMA StartBatchKeeps ==
  ASSUME SuiteInv, NEW S \in SUBSET Cases, StartBatch(S), round \in 0..RetryCount,
         \A c \in S : /\ Len(current[c]) = round
                      /\ \A i \in 1..round : ShouldRetry(current[c][i]),
         \A c \in Cases \ S : current[c] # << >> /\ ~ShouldRetry(Last(current[c]))
  PROVE  SuiteInv'
<1>1. /\ round \in Nat /\ round' = round + 1 /\ round' \in 1..Attempts /\ Attempts \in Nat
  BY SuiteAssumption DEF StartBatch, Attempts
<1>2. /\ main' = "batch" /\ base' = current /\ recorded' = {}
      /\ UNCHANGED <<current, file, threads, created>>
  BY DEF StartBatch
<1>3. /\ task' \in [Cases -> {"idle", "lane", "slot"}]
      /\ \A c \in Cases : task'[c] # "idle" <=> c \in S
      /\ work' = [c \in Cases |-> FreshWork]
  BY DEF StartBatch
<1>4. FreshWork \in Work /\ FreshWork.verdict = "passed" /\ ~FreshWork.blamed
  BY DEF FreshWork, Work, Verdicts, Rank
<1>5. SuiteTyped'
  <2>1. task' \in [Cases -> Phases] /\ work' \in [Cases -> Work]
    BY <1>3, <1>4 DEF Phases, Queued, Ended
  <2>2. QED
    BY <1>1, <1>2, <2>1 DEF SuiteInv, SuiteTyped
<1>6. Staged'
  BY <1>1, <1>2 DEF Staged, Early, Late
<1>7. Counted'
  <2> SUFFICES ASSUME NEW d \in Cases
               PROVE  (/\ current[d] = IF d \in recorded THEN Append(base[d], OutcomeOf(d))
                                                         ELSE base[d]
                       /\ d \in recorded => task[d] = "done"
                       /\ Len(current[d]) <= round
                       /\ \A i \in 1..(Len(base[d]) - 1) : ShouldRetry(base[d][i])
                       /\ task[d] # "idle" =>
                            /\ Len(base[d]) = round - 1
                            /\ \A i \in 1..Len(base[d]) : ShouldRetry(base[d][i])
                       /\ task[d] = "idle" /\ round > 0 =>
                            base[d] # << >> /\ ~ShouldRetry(Last(base[d])))'
    BY DEF Counted
  <2>1. /\ current[d] \in Seq(Outcome) /\ Len(current[d]) <= round
        /\ \A i \in 1..(Len(current[d]) - 1) : ShouldRetry(current[d][i])
    BY EarnedTheNext
  <2>2. CASE d \in S
    BY <1>1, <1>2, <1>3, <2>1, <2>2 DEF ShouldRetry
  <2>3. CASE d \notin S
    BY <1>1, <1>2, <1>3, <2>1, <2>3 DEF ShouldRetry
  <2>4. QED
    BY <2>2, <2>3
<1>8. Reported' /\ PassedLeavesNothing'
  BY <1>2 DEF SuiteInv, Reported, PassedLeavesNothing
<1>9. Judged'
  BY <1>3, <1>4 DEF Judged, JudgedOf, Queued
<1>10. ThreadsNumbered'
  <2>1. \A t \in threads : t[2] \in Nat
    BY DEF SuiteInv, SuiteTyped
  <2>2. QED
    BY <1>1, <1>2, <2>1 DEF SuiteInv, ThreadsNumbered
<1>11. QED
  BY <1>5, <1>6, <1>7, <1>8, <1>9, <1>10 DEF SuiteInv

LEMMA BootstrapKeeps == SuiteInv /\ Bootstrap => SuiteInv'
<1> SUFFICES ASSUME SuiteInv, Bootstrap PROVE SuiteInv'
  OBVIOUS
<1>1. round = 0 /\ \A c \in Cases : current[c] = << >> /\ task[c] = "idle"
  BY DEF Bootstrap, SuiteInv, Staged, Early
<1>2. CASE StartBatch(Cases)
  <2>1. round \in 0..RetryCount
    BY <1>1, SuiteAssumption
  <2>2. Len(<< >>) = 0
    OBVIOUS
  <2>3. \A c \in Cases : Len(current[c]) = round /\ \A i \in 1..round : ShouldRetry(current[c][i])
    BY <1>1, <2>2
  <2>4. QED
    BY <1>2, <2>1, <2>3, StartBatchKeeps
<1>3. CASE /\ main' = "failed"
           /\ UNCHANGED <<round, base, current, task, work, recorded, file, threads, created>>
  <2>1. Staged'
    BY <1>1, <1>3 DEF Staged, Early, Late, Ended
  <2>2. QED
    BY <1>3, <2>1, MainAloneKeeps DEF SuiteInv, Reported
<1>4. QED
  BY <1>2, <1>3 DEF Bootstrap

\* Another batch runs the cases whose last failure earns it, and only those.
LEMMA NextBatchKeeps == SuiteInv /\ NextBatch => SuiteInv'
<1> SUFFICES ASSUME SuiteInv, NextBatch PROVE SuiteInv'
  OBVIOUS
<1>1. round >= 1 /\ round \in Nat /\ \A c \in Cases : task[c] = "idle" \/ c \in recorded
  BY SuiteAssumption DEF NextBatch, SuiteInv, SuiteTyped, Staged, Attempts
<1>2. CASE round <= RetryCount /\ StartBatch(RetryCases)
  <2>1. ASSUME NEW c \in Cases, c \notin recorded
        PROVE  current[c] # << >> /\ ~ShouldRetry(Last(current[c]))
    BY <1>1, <2>1 DEF SuiteInv, Counted
  <2>2. \A c \in Cases : c \in recorded => current[c] # << >>
    BY <1>1, EarnedTheNext
  <2>3. ASSUME NEW c \in RetryCases
        PROVE  Len(current[c]) = round /\ \A i \in 1..round : ShouldRetry(current[c][i])
    <3>1. c \in Cases /\ ShouldRetry(Last(current[c]))
      BY DEF RetryCases
    <3>2. c \in recorded
      BY <2>1, <3>1
    <3>3. /\ Len(current[c]) = round
          /\ \A i \in 1..(round - 1) : ShouldRetry(current[c][i])
      BY <3>1, <3>2, EarnedTheNext
    <3>4. Last(current[c]) = current[c][round]
      BY <3>3 DEF Last
    <3>5. \A i \in 1..round : i = round \/ i \in 1..(round - 1)
      BY <1>1
    <3>6. QED
      BY <3>1, <3>3, <3>4, <3>5
  <2>4. \A c \in Cases \ RetryCases : current[c] # << >> /\ ~ShouldRetry(Last(current[c]))
    BY <2>1, <2>2 DEF RetryCases
  <2>5. RetryCases \in SUBSET Cases /\ round \in 0..RetryCount
    BY <1>1, <1>2, SuiteAssumption DEF RetryCases
  <2>6. QED
    BY <1>2, <2>3, <2>4, <2>5, StartBatchKeeps
<1>3. CASE /\ main' = "collect"
           /\ UNCHANGED <<round, base, current, task, work, recorded, file, threads, created>>
  <2>1. \A c \in Cases : task[c] \in Ended /\ (task[c] = "done" => c \in recorded)
    BY <1>1 DEF SuiteInv, Counted, Ended
  <2>2. Staged'
    BY <1>3, <2>1 DEF Staged, Early, Late
  <2>3. QED
    BY <1>3, <2>2, MainAloneKeeps DEF SuiteInv, Reported
<1>4. QED
  BY <1>2, <1>3 DEF NextBatch

\* The deadline meets every task where it stands, and changes no result.
LEMMA DeadlineKeeps == SuiteInv /\ Deadline => SuiteInv'
<1> SUFFICES ASSUME SuiteInv, Deadline PROVE SuiteInv'
  OBVIOUS
<1>1. UNCHANGED <<round, base, current, recorded, file, threads, created>>
  BY DEF Deadline
<1>2. CASE main = "bootstrap" /\ main' = "finalize" /\ UNCHANGED <<task, work>>
  <2>1. Staged'
    BY <1>1, <1>2 DEF SuiteInv, Staged, Early, Late, Ended
  <2>2. QED
    BY <1>1, <1>2, <2>1, MainAloneKeeps DEF SuiteInv, Reported
<1>3. CASE /\ main = "batch" /\ main' = "unwind"
           /\ task' = [c \in Cases |-> CancelledTask(c)]
           /\ \E started \in [Cases -> BOOLEAN] :
                 work' = [c \in Cases |-> CancelledWork(c, started[c])]
  <2>1. PICK started \in [Cases -> BOOLEAN] :
               work' = [c \in Cases |-> CancelledWork(c, started[c])]
    BY <1>3
  <2>2. ASSUME NEW c \in Cases
        PROVE  /\ task'[c] \in {"gone", "inspect", "cleanup", "done", "idle"}
               /\ task'[c] = "idle" <=> task[c] = "idle"
               /\ task'[c] = "done" <=> task[c] = "done"
               /\ task'[c] = "inspect" => task[c] = "steps"
               /\ task'[c] = "cleanup" => task[c] \in {"inspect", "cleanup"}
    <3>1. task'[c] = CancelledTask(c)
      BY <1>3
    <3>2. task[c] \in {"lane", "slot", "auth", "steps", "inspect", "cleanup", "trace", "done",
                       "gone", "idle"}
      BY DEF SuiteInv, SuiteTyped, Phases, Queued, Active, Ended
    <3>3. QED
      BY <3>1, <3>2 DEF CancelledTask, Queued, Ended
  <2>3. ASSUME NEW c \in Cases
        PROVE  /\ work'[c] \in Work
               /\ task[c] \notin {"steps", "cleanup"} => work'[c] = work[c]
               /\ task[c] \in {"steps", "cleanup"} => work'[c].verdict # "passed"
               /\ work'[c].blamed = work[c].blamed
    <3>1. work'[c] = CancelledWork(c, started[c]) /\ work[c] \in Work
      BY <2>1 DEF SuiteInv, SuiteTyped
    <3>2. CASE task[c] \notin {"steps", "cleanup"}
      BY <3>1, <3>2 DEF CancelledWork
    <3>3. CASE task[c] \in {"steps", "cleanup"}
      <4> DEFINE v == Worst(work[c].verdict, {"infra"})
                 n == work[c].named \/ (started[c] /\ task[c] = "steps" /\ CanStart(c))
      <4>1. v \in Verdicts /\ v # "passed"
        BY <3>1, WorstDecides DEF Work, Failures
      <4>2. n \in BOOLEAN
        BY <3>1 DEF Work, CanStart
      <4>3. work'[c] = [work[c] EXCEPT !.verdict = v, !.state = "cancelled", !.named = n]
        BY <3>1, <3>3 DEF CancelledWork
      <4> HIDE DEF v, n
      <4>4. [work[c] EXCEPT !.verdict = v, !.state = "cancelled", !.named = n] \in Work
        BY <3>1, <4>1, <4>2, CancellationChanged
      <4>5. work'[c].verdict = v /\ work'[c].blamed = work[c].blamed
        BY <3>1, <4>3 DEF Work
      <4>6. QED
        BY <3>3, <4>1, <4>3, <4>4, <4>5
    <3>4. QED
      BY <3>2, <3>3
  <2>4. task' \in [Cases -> Phases] /\ work' \in [Cases -> Work]
    <3>1. \A c \in Cases : task'[c] \in Phases
      BY <2>2 DEF Phases, Active, Ended
    <3>2. QED
      BY <1>3, <2>1, <2>3, <3>1
  <2>5. SuiteTyped'
    BY <1>1, <1>3, <2>4 DEF SuiteInv, SuiteTyped
  <2>6. Staged'
    BY <1>1, <1>3 DEF SuiteInv, Staged, Early, Late
  <2>7. Counted'
    <3>1. \A c \in Cases : c \in recorded => OutcomeOf(c)' = OutcomeOf(c)
      BY <1>1, <2>3 DEF SuiteInv, Counted, OutcomeOf
    <3>2. QED
      BY <1>1, <2>2, <3>1 DEF SuiteInv, Counted, ShouldRetry
  <2>8. Reported' /\ ThreadsNumbered' /\ PassedLeavesNothing'
    BY <1>1 DEF SuiteInv, Reported, ThreadsNumbered, PassedLeavesNothing
  <2>9. Judged'
    <3>1. ASSUME NEW c \in Cases PROVE JudgedOf(c)'
      <4>1. CASE task'[c] = "inspect"
        <5>1. ~work[c].blamed /\ work'[c].verdict # "passed" /\ ~work'[c].blamed
          BY <2>2, <2>3, <4>1 DEF SuiteInv, Judged, JudgedOf
        <5>2. QED
          BY <4>1, <5>1 DEF JudgedOf, Queued
      <4>2. CASE task'[c] = "cleanup"
        BY <2>2, <2>3, <4>2 DEF SuiteInv, Judged, JudgedOf, Queued
      <4>3. CASE task'[c] = "done"
        BY <1>1, <2>2, <2>3, <4>3 DEF SuiteInv, Judged, JudgedOf, Queued
      <4>4. CASE task'[c] \in {"gone", "idle"}
        BY <4>4 DEF JudgedOf, Queued
      <4>5. QED
        BY <2>2, <4>1, <4>2, <4>3, <4>4
    <3>2. QED
      BY <3>1 DEF Judged
  <2>10. QED
    BY <2>5, <2>6, <2>7, <2>8, <2>9 DEF SuiteInv
<1>4. QED
  BY <1>2, <1>3 DEF Deadline

LEMMA SuiteStarts == SuiteInit => SuiteInv
<1> SUFFICES ASSUME SuiteInit PROVE SuiteInv
  OBVIOUS
<1>1. << >> \in Seq(Outcome) /\ Len(<< >>) = 0
  OBVIOUS
<1>2. FreshWork \in Work /\ FreshWork.verdict = "passed" /\ ~FreshWork.blamed
  BY DEF FreshWork, Work, Verdicts, Rank
<1>3. Attempts \in Nat
  BY SuiteAssumption DEF Attempts
<1>4. SuiteTyped
  BY <1>1, <1>2, <1>3 DEF SuiteInit, SuiteTyped, Phases, Ended
<1>5. Staged
  BY DEF SuiteInit, Staged, Early, Late
<1>6. Counted
  BY <1>1 DEF SuiteInit, Counted
<1>7. Reported /\ ThreadsNumbered /\ PassedLeavesNothing
  BY DEF SuiteInit, Reported, ThreadsNumbered, PassedLeavesNothing
<1>8. Judged
  BY DEF SuiteInit, Judged, JudgedOf, Queued
<1>9. QED
  BY <1>4, <1>5, <1>6, <1>7, <1>8 DEF SuiteInv

LEMMA SuiteSteps == SuiteInv /\ [SuiteNext]_suiteVars => SuiteInv'
<1> SUFFICES ASSUME SuiteInv, [SuiteNext]_suiteVars PROVE SuiteInv'
  OBVIOUS
<1>1. CASE SuiteNext
  BY <1>1, PreflightKeeps, BootstrapKeeps, RecordKeeps, NextBatchKeeps, GatheredKeeps,
     FinalizeKeeps, CollectKeeps, DeadlineKeeps, AttemptsKeep DEF SuiteNext, Main
<1>2. CASE UNCHANGED suiteVars
  <2>1. Staged'
    BY <1>2 DEF suiteVars, SuiteInv, Staged, Early, Late
  <2>2. QED
    BY <1>2, <2>1, MainAloneKeeps DEF suiteVars, SuiteInv, SuiteTyped, Reported
<1>3. QED
  BY <1>1, <1>2

LEMMA SuiteInvariant == SuiteSpec => []SuiteInv
BY SuiteStarts, SuiteSteps, PTL DEF SuiteSpec

\* Every variable keeps its type, and no case is attempted more often than the budget of
\* repetitions allows (_execute_browser).
THEOREM SuiteTypeCorrect == SuiteSpec => []SuiteTypeOK
<1>1. SuiteInv => SuiteTypeOK
  <2> SUFFICES ASSUME SuiteInv PROVE SuiteTypeOK
    OBVIOUS
  <2>1. round \in 0..Attempts /\ Attempts \in Nat
    BY SuiteAssumption DEF SuiteInv, SuiteTyped, Attempts
  <2>2. ASSUME NEW c \in Cases
        PROVE  work[c].verdict \in DOMAIN Rank /\ Len(current[c]) \in 0..Attempts
    <3>1. work[c] \in Work /\ current[c] \in Seq(Outcome) /\ Len(current[c]) <= round
      BY DEF SuiteInv, SuiteTyped, Counted
    <3>2. Len(current[c]) \in Nat
      BY <3>1
    <3>3. QED
      BY <2>1, <3>1, <3>2 DEF Work, Verdicts
  <2>3. QED
    BY <2>2 DEF SuiteInv, SuiteTyped, SuiteTypeOK
<1>2. QED
  BY <1>1, SuiteInvariant, PTL

\* An attempt is judged by what the product did: one that passed left no thread in the
\* backend, and none is blamed for its surroundings (_run_browser_attempt, finalize_threads).
THEOREM AttemptsJudgedFairly == SuiteSpec => []AttemptsAreFair
<1>1. SuiteInv => AttemptsAreFair
  BY DEF SuiteInv, Judged, JudgedOf, AttemptsAreFair, SurroundingsAreNotTheProduct
<1>2. QED
  BY <1>1, SuiteInvariant, PTL

\* What a step does to the report.
LEMMA ReportGrows ==
  SuiteInv /\ [SuiteNext]_suiteVars =>
    \A c \in Cases :
      \/ file'.results[c] = file.results[c]
      \/ /\ file'.results[c] = Append(file.results[c], OutcomeOf(c))
         /\ \A i \in 1..Len(file.results[c]) : ShouldRetry(file.results[c][i])
<1> SUFFICES ASSUME SuiteInv, [SuiteNext]_suiteVars, NEW c \in Cases
             PROVE  \/ file'.results[c] = file.results[c]
                    \/ /\ file'.results[c] = Append(file.results[c], OutcomeOf(c))
                       /\ \A i \in 1..Len(file.results[c]) : ShouldRetry(file.results[c][i])
  OBVIOUS
<1>1. ASSUME NEW R \in SUBSET Cases, \A d \in R : task[d] = "done", Checkpoint(R)
      PROVE  \/ file'.results[c] = file.results[c]
             \/ /\ file'.results[c] = Append(file.results[c], OutcomeOf(c))
                /\ \A i \in 1..Len(file.results[c]) : ShouldRetry(file.results[c][i])
  <2>1. file.results[c] = current[c] /\ file'.results[c] = Merged(R)[c]
    BY <1>1 DEF SuiteInv, Reported, Checkpoint
  <2>2. CASE c \notin R \/ c \in recorded
    BY <2>1, <2>2 DEF Merged, SuiteInv, Counted
  <2>3. CASE c \in R /\ c \notin recorded
    BY <1>1, <2>1, <2>3 DEF Merged, SuiteInv, Counted
  <2>4. QED
    BY <2>2, <2>3
<1>2. ASSUME NEW d \in Cases, Record(d) PROVE Checkpoint(recorded \cup {d})
  BY <1>2 DEF Record
<1>3. ASSUME NEW d \in Cases, Record(d)
      PROVE  recorded \cup {d} \in SUBSET Cases /\ \A e \in recorded \cup {d} : task[e] = "done"
  BY <1>3 DEF Record, SuiteInv, SuiteTyped, Counted
<1>4. /\ recorded \cup Recovered \in SUBSET Cases
      /\ \A d \in recorded \cup Recovered : task[d] = "done"
  BY DEF Recovered, SuiteInv, SuiteTyped, Counted
<1>5. Gathered => UNCHANGED file \/ Checkpoint(recorded \cup Recovered)
  BY DEF Gathered
<1>6. (Finalize => file'.results = file.results) /\ (Collect => file'.results = current)
  <2>1. Finalize => file'.results = file.results
    BY DEF Finalize
  <2>2. Collect => file'.results = current
    BY DEF Collect, SuiteInv, Reported
  <2>3. QED
    BY <2>1, <2>2
<1>7. \/ UNCHANGED file \/ file'.results = file.results \/ file'.results = current
      \/ \E d \in Cases : Record(d)
      \/ Checkpoint(recorded \cup Recovered)
  <2>1. \A d \in Cases : Attempt(d) => UNCHANGED file
    BY DEF Attempt, TakeLane, TakeSlot, Authenticate, CreateThread, Converse, NotReady, Inspecting,
           Inspect, Cleanup, CloseContext, MainAlone
  <2>2. Preflight \/ Bootstrap \/ NextBatch \/ Deadline => UNCHANGED file
    BY DEF Preflight, Bootstrap, NextBatch, Deadline, StartBatch
  <2>3. UNCHANGED suiteVars => UNCHANGED file
    BY DEF suiteVars
  <2>4. QED
    BY <1>5, <1>6, <2>1, <2>2, <2>3 DEF SuiteNext, Main
<1>8. QED
  BY <1>1, <1>2, <1>3, <1>4, <1>7 DEF SuiteInv, Reported

\* A case that passed or showed a failure of the product is never run again, and what the
\* report tells of a case only grows (_should_retry, update_batch).
THEOREM VerdictsStand == SuiteSpec => VerdictsAreFinal
<1>1. SuiteInv /\ SuiteInv' /\ [SuiteNext]_suiteVars =>
        [\A c \in Cases :
           /\ Len(file'.results[c]) >= Len(file.results[c])
           /\ SubSeq(file'.results[c], 1, Len(file.results[c])) = file.results[c]
           /\ file.results[c] # <<>> /\ ~ShouldRetry(Last(file.results[c]))
                => file'.results[c] = file.results[c]]_suiteVars
  <2> SUFFICES ASSUME SuiteInv, SuiteInv', [SuiteNext]_suiteVars, NEW c \in Cases
               PROVE  /\ Len(file'.results[c]) >= Len(file.results[c])
                      /\ SubSeq(file'.results[c], 1, Len(file.results[c])) = file.results[c]
                      /\ file.results[c] # <<>> /\ ~ShouldRetry(Last(file.results[c]))
                           => file'.results[c] = file.results[c]
    OBVIOUS
  <2> DEFINE s == file.results[c]
  <2>1. s \in Seq(Outcome) /\ OutcomeOf(c) \in Outcome
    BY OutcomesTyped DEF SuiteInv, SuiteTyped, Reported
  <2>2. \/ file'.results[c] = s
        \/ /\ file'.results[c] = Append(s, OutcomeOf(c))
           /\ \A i \in 1..Len(s) : ShouldRetry(s[i])
    BY ReportGrows
  <2> HIDE DEF s
  <2>3. CASE file'.results[c] = s
    <3>1. SubSeq(s, 1, Len(s)) = s /\ Len(s) >= Len(s)
      BY <2>1
    <3>2. QED
      BY <2>3, <3>1 DEF s
  <2>4. CASE /\ file'.results[c] = Append(s, OutcomeOf(c))
             /\ \A i \in 1..Len(s) : ShouldRetry(s[i])
    <3>1. /\ SubSeq(Append(s, OutcomeOf(c)), 1, Len(s)) = s
          /\ Len(Append(s, OutcomeOf(c))) >= Len(s)
      BY <2>1
    <3>2. s # << >> => ShouldRetry(Last(s))
      <4>1. s # << >> => Len(s) \in 1..Len(s)
        BY <2>1
      <4>2. QED
        BY <2>4, <4>1 DEF Last
    <3>3. QED
      BY <2>4, <3>1, <3>2 DEF s
  <2>5. QED
    BY <2>2, <2>3, <2>4
<1>2. QED
  BY <1>1, SuiteInvariant, PTL DEF SuiteSpec, VerdictsAreFinal

\* Every attempt that came to a result is in the report, once and for good, whatever the
\* deadline interrupts (_execute_browser, _finalize_timed_out_browser).
THEOREM EveryAttemptReported == SuiteSpec => AttemptsAreReported
<1>1. SuiteInv => AttemptsAreCounted
  <2> SUFFICES ASSUME SuiteInv, NEW c \in Cases
               PROVE  /\ Len(current[c]) <= round
                      /\ \A i \in 1..(Len(current[c]) - 1) : ShouldRetry(current[c][i])
                      /\ file.results[c] = current[c]
    BY DEF AttemptsAreCounted
  <2>1. QED
    BY EarnedTheNext DEF SuiteInv, Reported
<1>2. SuiteInv => NoResultIsLost
  <2> SUFFICES ASSUME SuiteInv, main = "ended", NEW c \in Cases, task[c] = "done"
               PROVE  file.results[c] # <<>> /\ Last(file.results[c]) = OutcomeOf(c)
    BY DEF NoResultIsLost
  <2>1. c \in recorded
    BY DEF SuiteInv, Staged, Late
  <2>2. Len(current[c]) # 0 /\ Last(current[c]) = OutcomeOf(c)
    BY <2>1, EarnedTheNext
  <2>3. Len(<< >>) = 0
    OBVIOUS
  <2>4. QED
    BY <2>2, <2>3 DEF SuiteInv, Reported
<1>3. SuiteSpec => [](AttemptsAreCounted /\ NoResultIsLost)
  BY <1>1, <1>2, SuiteInvariant, PTL
<1>4. QED
  BY <1>3, VerdictsStand DEF AttemptsAreReported
=============================================================================
