-------------------------- MODULE AgentClientProofs --------------------------
(***************************************************************************)
(* Theorems of AgentClient, for any threads and any number of turns,       *)
(* connections, diagram versions and further actions of the user.  The     *)
(* parts of the invariant are operators of the view, the transport, a      *)
(* connection or a request, and of the world around them: the stored turns *)
(* S, the current diagrams d, the follow-ups typed T and the number of     *)
(* request ids n, which only ever grow.                                    *)
(***************************************************************************)
EXTENDS AgentClient, FiniteSetTheorems, SequenceTheorems, TLAPS

-----------------------------------------------------------------------------
(* What the variables hold.                                                *)

Somewhere == Threads \union {NoThread}
Texts == [by : Nat, steers : Seq(Nat)]
Versions == {NoVersion} \union (Threads \X Nat)
Retries == [kind : {"none", "source", "replay"}, steers : Seq(Nat)]
Reviews == {"none", "reviewing", "pending", "accepted"}

View ==
    [thread : Somewhere, stream : 0 .. MaxTurns, terminal : 0 .. MaxTurns, busy : BOOLEAN,
     request : 0 .. MaxTurns, steers : Seq(Nat), text : Seq(Texts),
     answers : [Turns -> Seq(Texts)], partials : [Turns -> Seq(Seq(Texts))],
     retries : [Turns -> Retries], preview : BOOLEAN, review : Reviews, durable : Versions]

Link ==
    [sock : 0 .. MaxSockets, id : 0 .. MaxTurns, thread : Somewhere, ready : BOOLEAN,
     queued : Seq(Nat), replay : Seq(Nat), attempt : 0 .. 1, waiting : BOOLEAN]

\* What the server may tell of a turn before it ends, and with its end.
Telling ==
    ({"delta"} \X Texts) \union ({"graph"} \X Versions) \union {<<"reset">>, <<"preview">>}
    \union ({"review"} \X {"reviewing", "accepted", "rejected"})
    \union ({"steered"} \X Nat \X Nat)
Ending ==
    ({"delta"} \X Texts) \union ({"graph"} \X Versions)
    \union {<<"reset">>, <<"failed">>, <<"error">>}
Events == Telling \union Ending \union {<<"ready">>, <<"done">>}

\* What the client may say while its connection stands, and with its end.
Frames == {<<"start">>, <<"accept">>} \union ({"steer"} \X Nat)
LastFrames == {<<"stop">>, <<"bye">>}
Upward == Frames \union LastFrames

Sock ==
    [id : 0 .. MaxTurns, thread : Somewhere, net : {"unused", "connecting", "open", "closed"},
     start : Seq(Nat), up : Seq(Upward), down : Seq(Seq(Events)),
     run : {"none", "running", "over"}, steers : Seq(Nat),
     sent : SUBSET {"text", "preview"}, accepted : BOOLEAN]

Completed == [thread : Somewhere, by : Nat, steers : Seq(Nat), failed : BOOLEAN]
Answers == {<<>>} \union [Turns -> Completed]
Calls ==
    [kind : {"create", "edit", "restore", "retry"}, thread : Threads, id : 0 .. MaxTurns,
     steers : Seq(Nat), base : Versions, served : BOOLEAN, number : Nat, done : Answers]
Loads ==
    [kind : {"load"}, thread : Threads, served : BOOLEAN, number : Nat, done : Answers]

-----------------------------------------------------------------------------
(* The world.                                                              *)

Owns(id, steers, T) ==
    \A k \in DOMAIN steers : steers[k] \in DOMAIN T /\ T[steers[k]] = id

World(S, d, T, n) ==
    /\ S \in [Turns -> Completed] /\ d \in [Threads -> 0 .. MaxVersion]
    /\ T \in Seq(Turns) /\ n \in 0 .. MaxTurns
    /\ \A i \in Turns : Owns(i, S[i].steers, T)

Grows(S, d, T, n, S2, d2, T2, n2) ==
    /\ World(S, d, T, n) /\ World(S2, d2, T2, n2)
    /\ \A i \in Turns : S[i] # NoTurn => S2[i] = S[i]
    /\ \A t \in Threads : d[t] <= d2[t]
    /\ DOMAIN T \subseteq DOMAIN T2 /\ \A k \in DOMAIN T : T2[k] = T[k]
    /\ n <= n2

\* A version that is shown or under way is of its thread and was saved there.
SavedIn(v, t, d) == v # NoVersion => v[1] = t /\ v[2] <= d[t]

-----------------------------------------------------------------------------
(* The view.                                                               *)

Clean(v) == ~v.busy => v.text = <<>> /\ ~v.preview /\ v.review = "none"

\* The turn the view streams, from its first moment to `done`.
Phased(v) ==
    /\ v.stream = 0 => ~v.busy /\ v.terminal = 0
    /\ v.stream # 0 => v.terminal = IF v.busy THEN 0 ELSE v.stream

Recorded(v, S) ==
    \A i \in Turns : v.answers[i] # <<>> =>
        S[i] # NoTurn /\ v.answers[i] = <<[by |-> S[i].by, steers |-> S[i].steers]>>

\* A turn that can be sent again is sent with the steers that were acknowledged.
Resendable(v, n) ==
    /\ v.request <= n
    /\ \A i \in Turns : v.retries[i].kind = "replay" =>
          /\ i <= n
          /\ i = v.request => v.retries[i].steers = v.steers

ViewOwned(v, T) ==
    /\ Owns(v.request, v.steers, T)
    /\ \A i \in Turns : Owns(i, v.retries[i].steers, T)

DiagramFits(v, d) ==
    v.durable # NoVersion => v.thread \in Threads /\ SavedIn(v.durable, v.thread, d)

ViewFits(v, S, d, T, n) ==
    /\ v \in View /\ Clean(v) /\ Phased(v)
    /\ Recorded(v, S) /\ DiagramFits(v, d) /\ Resendable(v, n) /\ ViewOwned(v, T)

\* The view streams a turn exactly while the transport has one, and it is the same turn.
\* Before the turn has started nothing of it is on the screen.
LinkFits(l, v, T) ==
    /\ l \in Link
    /\ l.sock = 0 => l = NoLink /\ v.stream = 0
    /\ l.sock # 0 => /\ v.stream # 0 /\ l.id = v.stream /\ v.request = v.stream
                     /\ l.thread = v.thread /\ v.thread \in Threads
    /\ l.waiting => l.sock # 0 /\ ~l.ready
    /\ l.sock # 0 /\ ~l.ready =>
          /\ v.busy /\ v.text = <<>> /\ v.retries[v.stream] = NoRetry
          /\ l.replay = v.steers
    /\ Owns(l.id, l.queued, T) /\ Owns(l.id, l.replay, T)

-----------------------------------------------------------------------------
(* A connection.                                                           *)

\* A connection of no turn is silent.
Silent(k) ==
    /\ k.id = 0 => /\ k.up = <<>> /\ k.down = <<>> /\ k.run # "running"
                   /\ k.net \in {"unused", "closed"}
    /\ k.id # 0 => k.thread \in Threads

BurstSaved(b, t, d) == \A j \in DOMAIN b : b[j][1] = "graph" => SavedIn(b[j][2], t, d)
BurstOwned(b, id, T) ==
    \A j \in DOMAIN b :
        /\ b[j][1] = "steered" => b[j][2] \in DOMAIN T /\ T[b[j][2]] = id
        /\ b[j][1] = "delta" => Owns(id, b[j][2].steers, T)

DownFits(down, t, id, d, T) ==
    \A i \in DOMAIN down : BurstSaved(down[i], t, d) /\ BurstOwned(down[i], id, T)
UpOwned(up, id, T) ==
    \A i \in DOMAIN up : up[i][1] = "steer" => up[i][2] \in DOMAIN T /\ T[up[i][2]] = id

\* Wherever a steer is kept or under way, it is with the turn it was typed for; diagrams under
\* way were saved.
Fits(k, d, T) ==
    /\ Silent(k)
    /\ Owns(k.id, k.start, T) /\ Owns(k.id, k.steers, T)
    /\ UpOwned(k.up, k.id, T)
    /\ DownFits(k.down, k.thread, k.id, d, T)

SocksFit(socks, d, T) ==
    socks \in [Sockets -> Sock] /\ \A s \in Sockets : Fits(socks[s], d, T)

IsTold(b) == b \in Seq(Telling) /\ Len(b) <= 5
\* An error is the last event of its burst, and only a diagram comes before it.
HasError(b) == \E j \in DOMAIN b : b[j][1] = "error"
IsLast(b) ==
    /\ b \in Seq(Ending) /\ Len(b) <= 5
    /\ \A j \in 1 .. (Len(b) - 1) : b[j][1] # "error"
    /\ HasError(b) => \A j \in 1 .. (Len(b) - 1) : b[j][1] = "graph"

\* What is on its way to the client of an attached connection: news of the turn, and when the
\* turn is over its end.
Waits(k, l) ==
    /\ k.run = "none" /\ k.up = <<>> /\ k.start = l.replay
    /\ k.down \in {<<>>, <<Ready>>}
    /\ k.net = "connecting" => k.down = <<>>
Begins(k, v) == k.net = "open" /\ k.down = <<>> /\ k.start = v.steers
Runs(k) == k.net = "open" /\ \A i \in 1 .. Len(k.down) : IsTold(k.down[i])
Ends(k) ==
    LET n == Len(k.down)
    IN /\ k.net = "open" /\ n >= 1 /\ k.down[n] = Done
       /\ \A i \in 1 .. (n - 2) : IsTold(k.down[i])
       /\ n >= 2 => IsTold(k.down[n - 1]) \/ IsLast(k.down[n - 1])

\* An attached connection carries the turn of the view; once the view knows how the turn
\* ended, only `done` can be on its way.
Carried(k, v, l) ==
    /\ k.id = l.id /\ k.thread = l.thread
    /\ k.net \in {"connecting", "open"}
    /\ k.up \in Seq(Frames)
    /\ k.run = "none" => k.sent = {}
    /\ ~l.ready => Waits(k, l)
    /\ l.ready /\ k.run = "none" => Begins(k, v)
    /\ l.ready /\ k.run = "running" => Runs(k)
    /\ l.ready /\ k.run = "over" => Ends(k)
    /\ ~v.busy \/ v.retries[v.stream] # NoRetry => k.run = "over" /\ Len(k.down) = 1

-----------------------------------------------------------------------------
(* The text of an answer.                                                  *)

TextEvent(x, e) ==
    CASE e[1] = "delta" -> Append(x, e[2])
      [] e[1] = "reset" -> <<>>
      [] e[1] = "error" -> <<>>
      [] OTHER -> x

TextAt(x, b, i) == IF i \in DOMAIN b THEN TextEvent(x, b[i]) ELSE x

\* The text on the screen after a burst.
TextAfter(x, b) == TextAt(TextAt(TextAt(TextAt(TextAt(x, b, 1), b, 2), b, 3), b, 4), b, 5)

\* One run writes one text.
Writings == {<<>>} \union {<<m>> : m \in Texts}

\* The texts on the screen while the frames under way arrive.
Texting(x, down, texts) ==
    /\ texts \in [0 .. Len(down) -> Writings]
    /\ texts[0] = x
    /\ \A i \in 1 .. Len(down) : texts[i] = TextAfter(texts[i - 1], down[i])

Arrives(x, down, y) == \E texts : Texting(x, down, texts) /\ y = texts[Len(down)]

\* What the client shows once all has arrived: what the server has written, and in the end
\* what was stored, or nothing.
Shown(k, s, S, x) ==
    IF k.run = "over"
    THEN x = <<>> \/ (S[k.id] # NoTurn /\ x = <<[by |-> S[k.id].by, steers |-> S[k.id].steers]>>)
    ELSE x = IF "text" \in k.sent THEN <<[by |-> s, steers |-> k.steers]>> ELSE <<>>

TextArrives(k, s, v, S) == \E y : Arrives(v.text, k.down, y) /\ Shown(k, s, S, y)

-----------------------------------------------------------------------------
(* The acknowledgements.                                                   *)

IsAck(down, i, j) == i \in DOMAIN down /\ j \in DOMAIN down[i] /\ down[i][j][1] = "steered"

\* The acknowledgements under way bring the view the steers it lacks, each once and in order.
Agrees(down, applied, x) ==
    /\ IsPrefix(x, applied)
    /\ \A i, j \in Nat : IsAck(down, i, j) =>
          down[i][j][3] \in Len(x) + 1 .. Len(applied) /\ down[i][j][2] = applied[down[i][j][3]]
    /\ \A m \in Len(x) + 1 .. Len(applied) :
          \E i, j \in Nat : IsAck(down, i, j) /\ down[i][j][3] = m
    /\ \A i, j, a, b \in Nat : IsAck(down, i, j) /\ IsAck(down, a, b) =>
          (i < a => down[i][j][3] < down[a][b][3]) /\ (i = a => j = b)

Bound(k, v, l, S) ==
    /\ Carried(k, v, l)
    /\ l.ready => TextArrives(k, l.sock, v, S)
    /\ k.run = "running" => Agrees(k.down, k.steers, v.steers)

-----------------------------------------------------------------------------
(* Requests of the thread session.                                         *)

\* A retry that is being checked waits for an idle view, and still knows all the steers.
CallFits(c, v, d, T, n) ==
    /\ c \in Calls \union {NoCall}
    /\ c # NoCall =>
          /\ c.number <= d[c.thread] /\ Owns(c.id, c.steers, T)
          /\ c.served /\ ~Changes(c) => c.done \in [Turns -> Completed]
          /\ c.kind = "retry" =>
                /\ c.id \in Turns /\ c.id <= n /\ v.stream = 0
                /\ v.request = c.id => c.steers = v.steers

LoadFits(c, d) ==
    /\ c \in Loads \union {NoCall}
    /\ c # NoCall => /\ c.number <= d[c.thread]
                     /\ c.served => c.done \in [Turns -> Completed]

-----------------------------------------------------------------------------
(* The invariant.                                                          *)

Connected ==
    /\ Attached => Bound(sock[link.sock], view, link, stored)
    /\ link.waiting => sock[link.sock].net = "closed"

ClientInv ==
    /\ World(stored, diagram, typed, turns)
    /\ ViewFits(view, stored, diagram, typed, turns)
    /\ LinkFits(link, view, typed)
    /\ CallFits(call, view, diagram, typed, turns) /\ LoadFits(load, diagram)
    /\ SocksFit(sock, diagram, typed)
    /\ Connected
    /\ gone \subseteq Threads /\ calls \in Nat
-----------------------------------------------------------------------------
(* The world only grows, and nothing that fits it stops fitting.           *)

LEMMA Parameters ==
  /\ MaxTurns \in Nat /\ MaxSockets \in Nat /\ MaxVersion \in Nat /\ MaxExtras \in Nat
  /\ Home \in Threads /\ NoThread \notin Threads
BY Bounds, SomeThread

LEMMA WorldStays ==
  ASSUME NEW S, NEW d, NEW T, NEW n, World(S, d, T, n)
  PROVE  Grows(S, d, T, n, S, d, T, n)
<1>1. \A t \in Threads : d[t] <= d[t]
  BY Parameters DEF World
<1>2. n <= n
  BY Parameters DEF World
<1>3. QED
  BY <1>1, <1>2 DEF Grows

LEMMA ViewGrows ==
  ASSUME NEW S, NEW d, NEW T, NEW n, NEW S2, NEW d2, NEW T2, NEW n2,
         Grows(S, d, T, n, S2, d2, T2, n2),
         NEW v, ViewFits(v, S, d, T, n)
  PROVE  ViewFits(v, S2, d2, T2, n2)
<1>1. Recorded(v, S2)
  BY DEF ViewFits, Recorded, Grows
<1>2. DiagramFits(v, d2)
  <2>1. SUFFICES ASSUME v.durable # NoVersion
                 PROVE  v.thread \in Threads /\ SavedIn(v.durable, v.thread, d2)
    BY DEF DiagramFits
  <2>2. v.durable \in Threads \X Nat
    BY <2>1 DEF ViewFits, View, Versions
  <2>3. v.thread \in Threads /\ v.durable[1] = v.thread /\ v.durable[2] <= d[v.thread]
    BY <2>1 DEF ViewFits, DiagramFits, SavedIn
  <2>4. d[v.thread] <= d2[v.thread] /\ d[v.thread] \in Nat /\ d2[v.thread] \in Nat
    BY <2>3, Parameters DEF Grows, World
  <2>5. v.durable[2] \in Nat
    BY <2>2
  <2>6. QED
    BY <2>3, <2>4, <2>5 DEF SavedIn
<1>3. Resendable(v, n2)
  <2>1. v.request \in Nat /\ n \in Nat /\ n2 \in Nat /\ n <= n2
    BY Parameters DEF ViewFits, View, Grows, World
  <2>2. QED
    BY <2>1, Parameters DEF ViewFits, Resendable, Turns
<1>4. ViewOwned(v, T2)
  BY DEF ViewFits, ViewOwned, Owns, Grows
<1>5. QED
  BY <1>1, <1>2, <1>3, <1>4 DEF ViewFits

LEMMA LinkGrows ==
  ASSUME NEW S, NEW d, NEW T, NEW n, NEW S2, NEW d2, NEW T2, NEW n2,
         Grows(S, d, T, n, S2, d2, T2, n2),
         NEW l, NEW v, LinkFits(l, v, T)
  PROVE  LinkFits(l, v, T2)
<1>1. Owns(l.id, l.queued, T2) /\ Owns(l.id, l.replay, T2)
  BY DEF LinkFits, Owns, Grows
<1>2. QED
  BY <1>1 DEF LinkFits

LEMMA VersionGrows ==
  ASSUME NEW S, NEW d, NEW T, NEW n, NEW S2, NEW d2, NEW T2, NEW n2,
         Grows(S, d, T, n, S2, d2, T2, n2),
         NEW t \in Threads, NEW x \in Versions, SavedIn(x, t, d)
  PROVE  SavedIn(x, t, d2)
<1>1. SUFFICES ASSUME x # NoVersion
               PROVE  x[1] = t /\ x[2] <= d2[t]
  BY DEF SavedIn
<1>2. x[2] \in Nat /\ x[1] = t /\ x[2] <= d[t]
  BY <1>1 DEF Versions, SavedIn
<1>3. d[t] <= d2[t] /\ d[t] \in Nat /\ d2[t] \in Nat
  BY Parameters DEF Grows, World
<1>4. QED
  BY <1>2, <1>3

LEMMA BurstGrows ==
  ASSUME NEW S, NEW d, NEW T, NEW n, NEW S2, NEW d2, NEW T2, NEW n2,
         Grows(S, d, T, n, S2, d2, T2, n2),
         NEW t \in Threads, NEW id, NEW b \in Seq(Events), BurstSaved(b, t, d),
         BurstOwned(b, id, T)
  PROVE  BurstSaved(b, t, d2) /\ BurstOwned(b, id, T2)
<1>1. ASSUME NEW j \in DOMAIN b, b[j][1] = "graph"
      PROVE  SavedIn(b[j][2], t, d2)
  <2>1. b[j] \in Events
    BY <1>1
  <2>2. b[j] \in {"graph"} \X Versions
    BY <1>1, <2>1 DEF Events, Telling, Ending
  <2>3. b[j][2] \in Versions
    BY <2>2
  <2>4. SavedIn(b[j][2], t, d)
    BY <1>1 DEF BurstSaved
  <2>5. QED
    BY <2>3, <2>4, VersionGrows
<1>2. BurstOwned(b, id, T2)
  <2>1. \A x : Owns(id, x, T) => Owns(id, x, T2)
    BY DEF Owns, Grows
  <2>2. QED
    BY <2>1 DEF BurstOwned, Grows
<1>3. QED
  BY <1>1, <1>2 DEF BurstSaved

LEMMA ConnectionGrows ==
  ASSUME NEW S, NEW d, NEW T, NEW n, NEW S2, NEW d2, NEW T2, NEW n2,
         Grows(S, d, T, n, S2, d2, T2, n2),
         NEW k \in Sock, Fits(k, d, T)
  PROVE  Fits(k, d2, T2)
<1>1. Owns(k.id, k.start, T2) /\ Owns(k.id, k.steers, T2)
  BY DEF Fits, Owns, Grows
<1>2. UpOwned(k.up, k.id, T2)
  BY DEF Fits, UpOwned, Grows
<1>3. ASSUME NEW i \in DOMAIN k.down
      PROVE  BurstSaved(k.down[i], k.thread, d2) /\ BurstOwned(k.down[i], k.id, T2)
  <2>1. k.down \in Seq(Seq(Events)) /\ k.id \in 0 .. MaxTurns
    BY DEF Sock
  <2>2. k.down[i] \in Seq(Events)
    BY <1>3, <2>1
  <2>3. k.thread \in Threads
    BY <1>3, <2>1 DEF Fits, Silent
  <2>4. BurstSaved(k.down[i], k.thread, d) /\ BurstOwned(k.down[i], k.id, T)
    BY <1>3 DEF Fits, DownFits
  <2>5. QED
    BY <2>2, <2>3, <2>4, BurstGrows
<1>4. QED
  BY <1>1, <1>2, <1>3 DEF Fits, DownFits

LEMMA SocksGrow ==
  ASSUME NEW S, NEW d, NEW T, NEW n, NEW S2, NEW d2, NEW T2, NEW n2,
         Grows(S, d, T, n, S2, d2, T2, n2),
         NEW socks, SocksFit(socks, d, T)
  PROVE  SocksFit(socks, d2, T2)
<1>1. ASSUME NEW s \in Sockets
      PROVE  Fits(socks[s], d2, T2)
  BY <1>1, ConnectionGrows DEF SocksFit
<1>2. QED
  BY <1>1 DEF SocksFit

LEMMA CallGrows ==
  ASSUME NEW S, NEW d, NEW T, NEW n, NEW S2, NEW d2, NEW T2, NEW n2,
         Grows(S, d, T, n, S2, d2, T2, n2),
         NEW c, NEW v, CallFits(c, v, d, T, n)
  PROVE  CallFits(c, v, d2, T2, n2)
<1>1. SUFFICES ASSUME c # NoCall
               PROVE  CallFits(c, v, d2, T2, n2)
  BY DEF CallFits
<1>2. c \in Calls /\ c.number \in Nat /\ c.thread \in Threads /\ c.number <= d[c.thread]
  BY <1>1 DEF CallFits, Calls
<1>3. /\ d[c.thread] <= d2[c.thread] /\ d[c.thread] \in Nat /\ d2[c.thread] \in Nat
      /\ n <= n2 /\ n \in Nat /\ n2 \in Nat
  BY <1>2, Parameters DEF Grows, World
<1>4. Owns(c.id, c.steers, T2)
  BY <1>1 DEF CallFits, Owns, Grows
<1>5. c.kind = "retry" => c.id \in Nat /\ c.id <= n2
  BY <1>1, <1>3, Parameters DEF CallFits, Turns
<1>6. c.number <= d2[c.thread]
  BY <1>2, <1>3
<1>7. QED
  BY <1>1, <1>4, <1>5, <1>6 DEF CallFits

LEMMA LoadGrows ==
  ASSUME NEW S, NEW d, NEW T, NEW n, NEW S2, NEW d2, NEW T2, NEW n2,
         Grows(S, d, T, n, S2, d2, T2, n2),
         NEW c, LoadFits(c, d)
  PROVE  LoadFits(c, d2)
<1>1. SUFFICES ASSUME c # NoCall
               PROVE  c.number <= d2[c.thread]
  BY DEF LoadFits
<1>2. c.number \in Nat /\ c.thread \in Threads /\ c.number <= d[c.thread]
  BY <1>1 DEF LoadFits, Loads
<1>3. d[c.thread] <= d2[c.thread] /\ d[c.thread] \in Nat /\ d2[c.thread] \in Nat
  BY <1>2, Parameters DEF Grows, World
<1>4. QED
  BY <1>2, <1>3

LEMMA BoundGrows ==
  ASSUME NEW S, NEW d, NEW T, NEW n, NEW S2, NEW d2, NEW T2, NEW n2,
         Grows(S, d, T, n, S2, d2, T2, n2),
         NEW k, NEW v, NEW l, k.id \in Turns, Bound(k, v, l, S)
  PROVE  Bound(k, v, l, S2)
<1>1. ASSUME NEW x, Shown(k, l.sock, S, x)
      PROVE  Shown(k, l.sock, S2, x)
  BY <1>1 DEF Shown, Grows
<1>2. l.ready => TextArrives(k, l.sock, v, S2)
  BY <1>1 DEF Bound, TextArrives
<1>3. QED
  BY <1>2 DEF Bound

-----------------------------------------------------------------------------
(* The events of a turn, one at a time.                                    *)

\* The view of a turn in progress.
Streaming(v, id) ==
    /\ v \in View /\ id \in Turns /\ v.stream = id /\ v.request = id /\ v.busy
    /\ v.terminal = 0

\* What an event leaves alone, and what it does to the text, the steers and the diagram.
Kept(v, w) ==
    /\ w \in View
    /\ w.thread = v.thread /\ w.stream = v.stream /\ w.request = v.request
    /\ w.answers = v.answers /\ (w.busy => w.partials = v.partials)

SteersAfter(x, e) ==
    IF e[1] = "steered" /\ e[3] = Len(x) + 1 THEN Append(x, e[2]) ELSE x

VersionAfter(x, e) == IF e[1] = "graph" /\ e[2] # NoVersion THEN e[2] ELSE x

Effect(v, e, w) ==
    /\ w.text = TextEvent(v.text, e)
    /\ w.steers = SteersAfter(v.steers, e)
    /\ w.durable = VersionAfter(v.durable, e)

LEMMA NothingTyped ==
  /\ << >> \in Seq(Nat) /\ << >> \in Seq(Texts) /\ Len(<< >>) = 0 /\ DOMAIN << >> = {}
  /\ NoRetry \in Retries /\ NoRetry.kind = "none" /\ NoRetry.steers = << >>
<1>1. << >> \in Seq(Nat) /\ << >> \in Seq(Texts)
  OBVIOUS
<1>2. Len(<< >>) = 0 /\ DOMAIN << >> = {}
  OBVIOUS
<1>3. QED
  BY <1>1, <1>2 DEF NoRetry, Retries

\* The changes of a view keep it a view.
LEMMA ViewReset ==
  ASSUME NEW v \in View, NEW rs \in [Turns -> Retries]
  PROVE  [v EXCEPT !.text = <<>>, !.preview = FALSE, !.review = "none", !.retries = rs] \in View
<1>1. <<>> \in Seq(Texts) /\ "none" \in Reviews
  BY NothingTyped DEF Reviews
<1>2. QED
  BY <1>1 DEF View

LEMMA ViewRetries ==
  ASSUME NEW v \in View, NEW rs \in [Turns -> Retries]
  PROVE  [v EXCEPT !.retries = rs] \in View
BY DEF View

LEMMA ViewDrawn ==
  ASSUME NEW v \in View, NEW x \in Versions
  PROVE  [v EXCEPT !.durable = x, !.preview = FALSE] \in View
BY DEF View

LEMMA ViewSteered ==
  ASSUME NEW v \in View, NEW x \in Seq(Nat)
  PROVE  [v EXCEPT !.steers = x] \in View
BY DEF View

\* What a turn cut short has written stays on the page.
Finished(v, id) ==
    IF v.text = <<>> THEN v.partials
    ELSE [v.partials EXCEPT ![id] = Append(@, v.text)]

LEMMA FinishedTyped ==
  ASSUME NEW v \in View, NEW id \in Turns
  PROVE  Finished(v, id) \in [Turns -> Seq(Seq(Texts))]
<1> DEFINE p == v.partials
           x == v.text
<1>1. p \in [Turns -> Seq(Seq(Texts))] /\ x \in Seq(Texts)
  BY DEF View
<1>2. Finished(v, id) = IF x = <<>> THEN p ELSE [p EXCEPT ![id] = Append(@, x)]
  BY DEF Finished
<1> HIDE DEF p, x
<1>3. p[id] \in Seq(Seq(Texts))
  BY <1>1
<1>4. Append(p[id], x) \in Seq(Seq(Texts))
  BY <1>1, <1>3
<1>5. QED
  BY <1>1, <1>2, <1>4

LEMMA RestedFinished ==
  ASSUME NEW v \in View, NEW id \in Turns
  PROVE  Rested(v, id) = [v EXCEPT !.text = <<>>, !.preview = FALSE, !.review = "none",
                                   !.busy = FALSE, !.partials = Finished(v, id)]
<1>1. CASE v.text = <<>>
  BY <1>1 DEF Rested, Cleared, Finished, View
<1>2. CASE v.text # <<>>
  BY <1>2 DEF Rested, Cleared, Finished, View
<1>3. QED
  BY <1>1, <1>2

\* The view when its turn has ended in an error.
ErrorView(v, id, rs, ps) ==
    [v EXCEPT !.text = <<>>, !.preview = FALSE, !.review = "none", !.busy = FALSE,
              !.partials = ps, !.retries = rs, !.terminal = id]

LEMMA ViewEnded ==
  ASSUME NEW v \in View, NEW rs \in [Turns -> Retries], NEW id \in 0 .. MaxTurns,
         NEW ps \in [Turns -> Seq(Seq(Texts))]
  PROVE  LET w == ErrorView(v, id, rs, ps)
         IN /\ w \in View
            /\ w.text = <<>> /\ ~w.busy /\ w.terminal = id /\ ~w.preview /\ w.review = "none"
            /\ w.steers = v.steers /\ w.durable = v.durable /\ w.retries = rs
            /\ w.thread = v.thread /\ w.stream = v.stream /\ w.request = v.request
            /\ w.answers = v.answers /\ w.partials = ps
<1>1. <<>> \in Seq(Texts) /\ "none" \in Reviews
  BY NothingTyped DEF Reviews
<1>2. ErrorView(v, id, rs, ps) \in View
  BY <1>1 DEF ErrorView, View
<1>3. QED
  BY <1>2 DEF ErrorView, View

LEMMA EventTold ==
  ASSUME NEW v, NEW id, Streaming(v, id), NEW e \in Telling
  PROVE  /\ Kept(v, HandleEvent(v, id, e)) /\ Effect(v, e, HandleEvent(v, id, e))
         /\ Streaming(HandleEvent(v, id, e), id)
         /\ \A i \in Turns : HandleEvent(v, id, e).retries[i] \in {v.retries[i], NoRetry}
<1> DEFINE w == HandleEvent(v, id, e)
<1>1. /\ v \in View /\ id \in Turns /\ v.stream = id /\ v.request = id /\ v.busy /\ v.terminal = 0
      /\ id \in 1 .. MaxTurns /\ id # 0
  BY DEF Streaming, Turns
<1>2. CASE e \in {"delta"} \X Texts
  <2>1. e[1] = "delta" /\ e[2] \in Texts
    BY <1>2
  <2>2. w = [v EXCEPT !.text = Append(@, e[2])]
    BY <1>1, <2>1 DEF HandleEvent
  <2>3. Append(v.text, e[2]) \in Seq(Texts)
    BY <1>1, <2>1 DEF View
  <2>4. w \in View
    BY <1>1, <2>2, <2>3, ZenonT(40) DEF View
  <2>5. w.text = Append(v.text, e[2])
    BY <1>1, <2>2 DEF View
  <2>6. QED
    BY <1>1, <2>1, <2>2, <2>4, <2>5, ZenonT(40)
       DEF View, Kept, Effect, TextEvent, SteersAfter, VersionAfter, Streaming
<1>3. CASE e \in {"graph"} \X Versions
  <2>1. e[1] = "graph" /\ e[2] \in Versions
    BY <1>3
  <2>2. w = IF e[2] = NoVersion THEN v ELSE [v EXCEPT !.durable = e[2], !.preview = FALSE]
    BY <1>1, <2>1 DEF HandleEvent
  <2>3. w \in View
    <3> DEFINE u == [v EXCEPT !.durable = e[2], !.preview = FALSE]
    <3>1. u \in View
      BY <1>1, <2>1, ViewDrawn
    <3>2. w = v \/ w = u
      BY <2>2
    <3> HIDE DEF w, u
    <3>3. QED
      BY <1>1, <3>1, <3>2
  <2>4. /\ w.thread = v.thread /\ w.stream = v.stream /\ w.request = v.request
        /\ w.answers = v.answers /\ w.partials = v.partials /\ w.busy = v.busy
        /\ w.terminal = v.terminal /\ w.text = v.text /\ w.retries = v.retries
        /\ w.steers = v.steers
    <3>1. CASE e[2] = NoVersion
      BY <2>2, <3>1
    <3>2. CASE e[2] # NoVersion
      <4>1. w = [v EXCEPT !.durable = e[2], !.preview = FALSE]
        BY <2>2, <3>2
      <4> HIDE DEF w
      <4>2. QED
        BY <1>1, <4>1 DEF View
    <3>3. QED
      BY <3>1, <3>2
  <2>5. w.durable = VersionAfter(v.durable, e)
    BY <1>1, <2>1, <2>2 DEF View, VersionAfter
  <2>6. TextEvent(v.text, e) = v.text /\ SteersAfter(v.steers, e) = v.steers
    BY <2>1 DEF TextEvent, SteersAfter
  <2> HIDE DEF w
  <2>7. QED
    BY <1>1, <2>3, <2>4, <2>5, <2>6 DEF Kept, Effect, Streaming, w
<1>4. CASE e = <<"reset">>
  <2>1. e[1] = "reset"
    BY <1>4
  <2>2. w = OnReset(v, id)
    BY <1>1, <2>1 DEF HandleEvent
  <2> DEFINE r == IF v.text # <<>> THEN NoRetry ELSE v.retries[id]
             rs == [v.retries EXCEPT ![id] = r]
  <2>3. w = [v EXCEPT !.text = <<>>, !.preview = FALSE, !.review = "none", !.retries = rs]
    BY <1>1, <2>2 DEF OnReset, View
  <2>4. rs \in [Turns -> Retries] /\ \A i \in Turns : rs[i] \in {v.retries[i], NoRetry}
    BY <1>1, NothingTyped DEF View
  <2> HIDE DEF rs
  <2>5. w \in View
    BY <1>1, <2>3, <2>4, ViewReset
  <2>6. QED
    BY <1>1, <2>1, <2>3, <2>4, <2>5
       DEF View, Kept, Effect, TextEvent, SteersAfter, VersionAfter, Streaming
<1>5. CASE e = <<"preview">>
  <2>1. e[1] = "preview"
    BY <1>5
  <2>2. w = [v EXCEPT !.preview = TRUE]
    BY <1>1, <2>1 DEF HandleEvent
  <2>3. w \in View
    BY <1>1, <2>2, ZenonT(40) DEF View
  <2>4. QED
    BY <1>1, <2>1, <2>2, <2>3, ZenonT(40)
       DEF View, Kept, Effect, TextEvent, SteersAfter, VersionAfter, Streaming
<1>6. CASE e \in {"review"} \X {"reviewing", "accepted", "rejected"}
  <2>1. e[1] = "review" /\ e[2] \in {"reviewing", "accepted", "rejected"}
    BY <1>6
  <2>2. w = OnReviewStatus(v, e[2])
    BY <1>1, <2>1 DEF HandleEvent
  <2>3. PICK r \in Reviews : w = [v EXCEPT !.review = r]
    BY <1>1, <2>1, <2>2 DEF OnReviewStatus, View, Reviews
  <2>4. w \in View
    BY <1>1, <2>3, ZenonT(40) DEF View
  <2>5. QED
    BY <1>1, <2>1, <2>3, <2>4, ZenonT(40)
       DEF View, Kept, Effect, TextEvent, SteersAfter, VersionAfter, Streaming
<1>7. CASE e \in {"steered"} \X Nat \X Nat
  <2>1. e[1] = "steered" /\ e[2] \in Nat /\ e[3] \in Nat
    BY <1>7
  <2>2. w = OnSteerApplied(v, id, e[2], e[3])
    BY <1>1, <2>1 DEF HandleEvent
  <2>3. w = IF e[3] # Len(v.steers) + 1 THEN v ELSE [v EXCEPT !.steers = Append(@, e[2])]
    BY <1>1, <2>2 DEF OnSteerApplied
  <2>4. Append(v.steers, e[2]) \in Seq(Nat)
    BY <1>1, <2>1 DEF View
  <2>5. w \in View
    BY <1>1, <2>3, <2>4, ViewSteered
  <2>6. w.steers = IF e[3] # Len(v.steers) + 1 THEN v.steers ELSE Append(v.steers, e[2])
    BY <1>1, <2>3 DEF View
  <2>7. /\ w.thread = v.thread /\ w.stream = v.stream /\ w.request = v.request
        /\ w.answers = v.answers /\ w.partials = v.partials /\ w.busy = v.busy
        /\ w.terminal = v.terminal /\ w.text = v.text /\ w.retries = v.retries
        /\ w.durable = v.durable
    <3>1. CASE e[3] # Len(v.steers) + 1
      BY <2>3, <3>1
    <3>2. CASE e[3] = Len(v.steers) + 1
      <4>1. w = [v EXCEPT !.steers = Append(v.steers, e[2])]
        BY <2>3, <3>2
      <4> HIDE DEF w
      <4>2. QED
        BY <1>1, <4>1 DEF View
    <3>3. QED
      BY <3>1, <3>2
  <2>8. w.steers = SteersAfter(v.steers, e)
    BY <2>1, <2>6 DEF SteersAfter
  <2>9. TextEvent(v.text, e) = v.text /\ VersionAfter(v.durable, e) = v.durable
    BY <2>1 DEF TextEvent, VersionAfter
  <2> HIDE DEF w
  <2>10. QED
    BY <1>1, <2>5, <2>7, <2>8, <2>9 DEF Kept, Effect, Streaming, w
<1>8. QED
  BY <1>2, <1>3, <1>4, <1>5, <1>6, <1>7 DEF Telling

\* A failed answer can be sent again with the steers the view knows.
Replay(v) == [kind |-> "replay", steers |-> v.steers]

LEMMA EventEnding ==
  ASSUME NEW v, NEW id, Streaming(v, id), NEW e \in Ending, e[1] # "error"
  PROVE  /\ Kept(v, HandleEvent(v, id, e)) /\ Effect(v, e, HandleEvent(v, id, e))
         /\ Streaming(HandleEvent(v, id, e), id)
         /\ HandleEvent(v, id, e).steers = v.steers
         /\ \A i \in Turns : (i = id /\ HandleEvent(v, id, e).retries[i] = Replay(v))
                              \/ HandleEvent(v, id, e).retries[i] \in {v.retries[i], NoRetry}
<1> DEFINE w == HandleEvent(v, id, e)
<1>1. /\ v \in View /\ id \in Turns /\ v.stream = id /\ v.request = id /\ v.busy /\ v.terminal = 0
  BY DEF Streaming
<1>2. CASE e \in Telling
  <2>1. e[1] # "steered"
    BY DEF Ending
  <2>2. QED
    BY <1>2, <2>1, EventTold DEF Effect, SteersAfter
<1>3. CASE e = <<"failed">>
  <2>1. e[1] = "failed"
    BY <1>3
  <2>2. w = WithRetry(v, id)
    BY <1>1, <2>1 DEF HandleEvent
  <2> DEFINE rs == [v.retries EXCEPT ![id] = Replay(v)]
  <2>3. w = [v EXCEPT !.retries = rs]
    BY <1>1, <2>2 DEF WithRetry, View, Replay
  <2>4. Replay(v) \in Retries
    BY <1>1 DEF Replay, Retries, View
  <2>5. rs \in [Turns -> Retries] /\ \A i \in Turns : rs[i] = IF i = id THEN Replay(v)
                                                          ELSE v.retries[i]
    BY <1>1, <2>4 DEF View
  <2> HIDE DEF rs
  <2>6. w \in View
    BY <1>1, <2>3, <2>5, ViewRetries
  <2> HIDE DEF w
  <2>7. /\ w.thread = v.thread /\ w.stream = v.stream /\ w.request = v.request
        /\ w.answers = v.answers /\ w.partials = v.partials /\ w.busy = v.busy
        /\ w.terminal = v.terminal /\ w.text = v.text /\ w.steers = v.steers
        /\ w.durable = v.durable /\ w.retries = rs
    BY <1>1, <2>3 DEF View
  <2>8. /\ TextEvent(v.text, e) = v.text /\ SteersAfter(v.steers, e) = v.steers
        /\ VersionAfter(v.durable, e) = v.durable
    BY <2>1 DEF TextEvent, SteersAfter, VersionAfter
  <2>9. QED
    BY <1>1, <2>1, <2>5, <2>6, <2>7, <2>8 DEF Kept, Effect, Streaming, w
<1>4. e \in Telling \/ e = <<"failed">>
  BY DEF Ending, Telling
<1>5. QED
  BY <1>2, <1>3, <1>4

\* An error ends the turn at once.
LEMMA EventError ==
  ASSUME NEW v, NEW id, Streaming(v, id), NEW e, e = <<"error">>
  PROVE  /\ Kept(v, HandleEvent(v, id, e)) /\ Effect(v, e, HandleEvent(v, id, e))
         /\ ~HandleEvent(v, id, e).busy /\ HandleEvent(v, id, e).terminal = id
         /\ Clean(HandleEvent(v, id, e))
         /\ HandleEvent(v, id, e).partials = Finished(v, id)
         /\ HandleEvent(v, id, e).steers = v.steers
         /\ \A i \in Turns : HandleEvent(v, id, e).retries[i] =
                             IF i = id THEN Replay(v) ELSE v.retries[i]
<1> DEFINE w == HandleEvent(v, id, e)
<1>1. /\ v \in View /\ id \in Turns /\ v.stream = id /\ v.request = id /\ v.busy /\ v.terminal = 0
      /\ id \in 0 .. MaxTurns
  BY DEF Streaming, Turns
<1>2. e[1] = "error"
  OBVIOUS
<1>3. w = OnError(v, id)
  BY <1>1, <1>2 DEF HandleEvent
<1> DEFINE rs == [v.retries EXCEPT ![id] = Replay(v)]
<1> DEFINE ps == Finished(v, id)
<1>4. w = ErrorView(v, id, rs, ps)
  <2>1. Rested(v, id) = [v EXCEPT !.text = <<>>, !.preview = FALSE, !.review = "none",
                                  !.busy = FALSE, !.partials = ps]
    BY <1>1, RestedFinished
  <2> HIDE DEF ps
  <2>2. QED
    BY <1>1, <1>3, <2>1 DEF OnError, WithRetry, View, Replay, ErrorView
<1>5. Replay(v) \in Retries
  BY <1>1 DEF Replay, Retries, View
<1>6. rs \in [Turns -> Retries] /\ ps \in [Turns -> Seq(Seq(Texts))]
  BY <1>1, <1>5, FinishedTyped DEF View
<1> HIDE DEF rs, ps
<1>7. /\ w \in View
      /\ w.text = <<>> /\ ~w.busy /\ w.terminal = id /\ ~w.preview /\ w.review = "none"
      /\ w.steers = v.steers /\ w.durable = v.durable /\ w.retries = rs
      /\ w.thread = v.thread /\ w.stream = v.stream /\ w.request = v.request
      /\ w.answers = v.answers /\ w.partials = ps
  BY <1>1, <1>4, <1>6, ViewEnded
<1>8. Effect(v, e, w)
  BY <1>2, <1>7 DEF Effect, TextEvent, SteersAfter, VersionAfter
<1>9. \A i \in Turns : rs[i] = IF i = id THEN Replay(v) ELSE v.retries[i]
  BY <1>1 DEF rs, View
<1>10. QED
  BY <1>7, <1>8, <1>9 DEF Kept, Clean, ps

-----------------------------------------------------------------------------
(* The bursts of a turn.                                                   *)

SteersAt(x, b, i) == IF i \in DOMAIN b THEN SteersAfter(x, b[i]) ELSE x

\* The steers the view knows after a burst.
Known(x, b) == SteersAt(SteersAt(SteersAt(SteersAt(SteersAt(x, b, 1), b, 2), b, 3), b, 4), b, 5)

\* The diagram shown after a burst is the one shown before or one the burst brings.
Brings(b, x, y) == y = x \/ \E j \in DOMAIN b : b[j][1] = "graph" /\ y = b[j][2]

Told(v, w, id, b) ==
    /\ Kept(v, w) /\ Streaming(w, id) /\ Brings(b, v.durable, w.durable)
    /\ \A i \in Turns : w.retries[i] \in {v.retries[i], NoRetry}

LEMMA HandledTold ==
  ASSUME NEW v0, NEW v, NEW id, NEW b, NEW i, IsTold(b), Streaming(v, id), Told(v0, v, id, b)
  PROVE  /\ Told(v0, Handled(v, id, b, i), id, b)
         /\ Handled(v, id, b, i).text = TextAt(v.text, b, i)
         /\ Handled(v, id, b, i).steers = SteersAt(v.steers, b, i)
<1>1. CASE i \notin DOMAIN b
  <2>1. Handled(v, id, b, i) = v
    BY <1>1 DEF Handled
  <2>2. QED
    BY <1>1, <2>1 DEF TextAt, SteersAt
<1>2. CASE i \in DOMAIN b
  <2> DEFINE w == HandleEvent(v, id, b[i])
  <2>1. Handled(v, id, b, i) = w
    BY <1>2 DEF Handled
  <2>2. b[i] \in Telling
    BY <1>2 DEF IsTold
  <2>3. /\ Kept(v, w) /\ Effect(v, b[i], w) /\ Streaming(w, id)
        /\ \A j \in Turns : w.retries[j] \in {v.retries[j], NoRetry}
    BY <2>2, EventTold
  <2> HIDE DEF w
  <2>4. w.text = TextAt(v.text, b, i) /\ w.steers = SteersAt(v.steers, b, i)
    BY <1>2, <2>3 DEF Effect, TextAt, SteersAt
  <2>5. Brings(b, v0.durable, w.durable)
    BY <1>2, <2>3 DEF Effect, VersionAfter, Brings, Told
  <2>6. Kept(v0, w) /\ \A j \in Turns : w.retries[j] \in {v0.retries[j], NoRetry}
    BY <2>3 DEF Told, Kept, Streaming
  <2>7. QED
    BY <2>1, <2>3, <2>4, <2>5, <2>6 DEF Told
<1>3. QED
  BY <1>1, <1>2

LEMMA BurstTold ==
  ASSUME NEW v, NEW id, NEW b, IsTold(b), Streaming(v, id)
  PROVE  /\ Told(v, HandleBurst(v, id, b), id, b)
         /\ HandleBurst(v, id, b).text = TextAfter(v.text, b)
         /\ HandleBurst(v, id, b).steers = Known(v.steers, b)
<1> DEFINE v1 == Handled(v, id, b, 1)
           v2 == Handled(v1, id, b, 2)
           v3 == Handled(v2, id, b, 3)
           v4 == Handled(v3, id, b, 4)
           v5 == Handled(v4, id, b, 5)
<1>0. Told(v, v, id, b)
  BY DEF Told, Kept, Brings, Streaming
<1>1. Told(v, v1, id, b) /\ Streaming(v1, id)
      /\ v1.text = TextAt(v.text, b, 1) /\ v1.steers = SteersAt(v.steers, b, 1)
  <2>1. Told(v, v1, id, b) /\ v1.text = TextAt(v.text, b, 1) /\ v1.steers = SteersAt(v.steers, b, 1)
    BY <1>0, HandledTold
  <2>2. QED
    BY <2>1 DEF Told
<1> HIDE DEF v1
<1>2. Told(v, v2, id, b) /\ Streaming(v2, id)
      /\ v2.text = TextAt(v1.text, b, 2) /\ v2.steers = SteersAt(v1.steers, b, 2)
  <2>1. Told(v, v2, id, b)
        /\ v2.text = TextAt(v1.text, b, 2) /\ v2.steers = SteersAt(v1.steers, b, 2)
    BY <1>1, HandledTold
  <2>2. QED
    BY <2>1 DEF Told
<1> HIDE DEF v2
<1>3. Told(v, v3, id, b) /\ Streaming(v3, id)
      /\ v3.text = TextAt(v2.text, b, 3) /\ v3.steers = SteersAt(v2.steers, b, 3)
  <2>1. Told(v, v3, id, b)
        /\ v3.text = TextAt(v2.text, b, 3) /\ v3.steers = SteersAt(v2.steers, b, 3)
    BY <1>2, HandledTold
  <2>2. QED
    BY <2>1 DEF Told
<1> HIDE DEF v3
<1>4. Told(v, v4, id, b) /\ Streaming(v4, id)
      /\ v4.text = TextAt(v3.text, b, 4) /\ v4.steers = SteersAt(v3.steers, b, 4)
  <2>1. Told(v, v4, id, b)
        /\ v4.text = TextAt(v3.text, b, 4) /\ v4.steers = SteersAt(v3.steers, b, 4)
    BY <1>3, HandledTold
  <2>2. QED
    BY <2>1 DEF Told
<1> HIDE DEF v4
<1>5. Told(v, v5, id, b) /\ Streaming(v5, id)
      /\ v5.text = TextAt(v4.text, b, 5) /\ v5.steers = SteersAt(v4.steers, b, 5)
  <2>1. Told(v, v5, id, b)
        /\ v5.text = TextAt(v4.text, b, 5) /\ v5.steers = SteersAt(v4.steers, b, 5)
    BY <1>4, HandledTold
  <2>2. QED
    BY <2>1 DEF Told
<1>6. HandleBurst(v, id, b) = v5
  BY DEF HandleBurst, v1, v2, v3, v4
<1> HIDE DEF v5
<1>7. v5.text = TextAfter(v.text, b) /\ v5.steers = Known(v.steers, b)
  BY <1>1, <1>2, <1>3, <1>4, <1>5 DEF TextAfter, Known
<1>8. QED
  BY <1>5, <1>6, <1>7

\* The last burst may end the turn of the view, or leave that to `done`.
Halted(v, id) == v \in View /\ ~v.busy /\ v.terminal = id /\ Clean(v)

Closing(v, w, id, b) ==
    /\ Kept(v, w)
    /\ Streaming(w, id) \/ Halted(w, id)
    /\ Brings(b, v.durable, w.durable) /\ w.steers = v.steers
    /\ w.busy /\ HasError(b) => w.text = v.text
    /\ ~w.busy => w.partials = Finished(v, id)
    /\ \A i \in Turns : (i = id /\ w.retries[i] = Replay(v)) \/ w.retries[i] \in {v.retries[i], NoRetry}

LEMMA HandledLast ==
  ASSUME NEW v0, NEW v, NEW id, NEW b, NEW i \in Nat \ {0}, IsLast(b), Closing(v0, v, id, b),
         i <= Len(b) => Streaming(v, id)
  PROVE  /\ Closing(v0, Handled(v, id, b, i), id, b)
         /\ i < Len(b) => Streaming(Handled(v, id, b, i), id)
         /\ Handled(v, id, b, i).text = TextAt(v.text, b, i)
<1>0. b \in Seq(Ending) /\ Len(b) \in Nat /\ DOMAIN b = 1 .. Len(b)
  BY DEF IsLast
<1>1. CASE i \notin DOMAIN b
  <2>1. Handled(v, id, b, i) = v
    BY <1>1 DEF Handled
  <2>2. ~(i < Len(b))
    BY <1>0, <1>1
  <2>3. QED
    BY <1>1, <2>1, <2>2 DEF TextAt
<1>2. CASE i \in DOMAIN b
  <2> DEFINE w == HandleEvent(v, id, b[i])
  <2>1. Handled(v, id, b, i) = w
    BY <1>2 DEF Handled
  <2>2. b[i] \in Ending /\ i <= Len(b)
    BY <1>0, <1>2
  <2>3. Streaming(v, id)
    BY <2>2
  <2>4. /\ Kept(v, w) /\ Effect(v, b[i], w) /\ w.steers = v.steers
        /\ \A j \in Turns : (j = id /\ w.retries[j] = Replay(v)) \/ w.retries[j] \in {v.retries[j], NoRetry}
        /\ Streaming(w, id) \/ Halted(w, id)
        /\ i < Len(b) => Streaming(w, id)
        /\ ~w.busy => w.partials = Finished(v, id)
        /\ w.busy /\ HasError(b) => w.text = v.text
    <3>1. CASE b[i][1] # "error"
      <4>1. /\ Kept(v, w) /\ Effect(v, b[i], w) /\ w.steers = v.steers /\ Streaming(w, id)
            /\ \A j \in Turns : (j = id /\ w.retries[j] = Replay(v))
                                  \/ w.retries[j] \in {v.retries[j], NoRetry}
        BY <2>2, <2>3, <3>1, EventEnding
      <4> HIDE DEF w
      <4>2. HasError(b) => b[i][1] = "graph"
        BY <1>0, <2>2, <3>1 DEF IsLast, HasError
      <4>3. HasError(b) => w.text = v.text
        BY <4>1, <4>2 DEF Effect, TextEvent
      <4>4. QED
        BY <4>1, <4>3 DEF Streaming
    <3>2. CASE b[i][1] = "error"
      <4>1. b[i] = <<"error">>
        BY <2>2, <3>2 DEF Ending
      <4>2. ~(i < Len(b))
        BY <1>0, <2>2, <3>2 DEF IsLast
      <4>3. /\ Kept(v, w) /\ Effect(v, b[i], w) /\ w.steers = v.steers
            /\ ~w.busy /\ w.terminal = id /\ Clean(w)
            /\ w.partials = Finished(v, id)
            /\ \A j \in Turns : w.retries[j] = IF j = id THEN Replay(v) ELSE v.retries[j]
        BY <2>3, <4>1, EventError
      <4> HIDE DEF w
      <4>4. Halted(w, id)
        BY <4>3 DEF Halted, Kept
      <4>5. QED
        BY <4>2, <4>3, <4>4
    <3>3. QED
      BY <3>1, <3>2
  <2> HIDE DEF w
  <2>5. w.text = TextAt(v.text, b, i)
    BY <1>2, <2>4 DEF Effect, TextAt
  <2>6. Brings(b, v0.durable, w.durable)
    BY <1>2, <2>4 DEF Effect, VersionAfter, Brings, Closing
  <2>7. /\ Kept(v0, w) /\ w.steers = v0.steers
        /\ \A j \in Turns : (j = id /\ w.retries[j] = Replay(v0)) \/ w.retries[j] \in {v0.retries[j], NoRetry}
    BY <2>3, <2>4 DEF Closing, Kept, Replay, Streaming
  <2>8. /\ w.busy /\ HasError(b) => w.text = v0.text
        /\ ~w.busy => w.partials = Finished(v0, id)
    <3>1. v.busy /\ v.partials = v0.partials
      BY <2>3 DEF Streaming, Closing, Kept
    <3>2. HasError(b) => v.text = v0.text
      BY <3>1 DEF Closing
    <3>3. ~w.busy => HasError(b)
      BY <1>2, <2>2, <2>3, EventEnding DEF HasError, w, Streaming
    <3>4. QED
      BY <2>4, <3>1, <3>2, <3>3 DEF Finished
  <2>9. QED
    BY <2>1, <2>4, <2>5, <2>6, <2>7, <2>8 DEF Closing
<1>3. QED
  BY <1>1, <1>2

LEMMA BurstLast ==
  ASSUME NEW v, NEW id, NEW b, IsLast(b), Streaming(v, id)
  PROVE  /\ Closing(v, HandleBurst(v, id, b), id, b)
         /\ HandleBurst(v, id, b).text = TextAfter(v.text, b)
<1> DEFINE v1 == Handled(v, id, b, 1)
           v2 == Handled(v1, id, b, 2)
           v3 == Handled(v2, id, b, 3)
           v4 == Handled(v3, id, b, 4)
           v5 == Handled(v4, id, b, 5)
<1>0. Closing(v, v, id, b) /\ Len(b) \in Nat /\ Len(b) <= 5
  BY DEF Closing, Kept, Brings, Streaming, IsLast
<1>1. Closing(v, v1, id, b) /\ v1.text = TextAt(v.text, b, 1) /\ (1 < Len(b) => Streaming(v1, id))
  BY <1>0, HandledLast
<1> HIDE DEF v1
<1>2. Closing(v, v2, id, b) /\ v2.text = TextAt(v1.text, b, 2) /\ (2 < Len(b) => Streaming(v2, id))
  BY <1>0, <1>1, HandledLast
<1> HIDE DEF v2
<1>3. Closing(v, v3, id, b) /\ v3.text = TextAt(v2.text, b, 3) /\ (3 < Len(b) => Streaming(v3, id))
  BY <1>0, <1>2, HandledLast
<1> HIDE DEF v3
<1>4. Closing(v, v4, id, b) /\ v4.text = TextAt(v3.text, b, 4) /\ (4 < Len(b) => Streaming(v4, id))
  BY <1>0, <1>3, HandledLast
<1> HIDE DEF v4
<1>5. Closing(v, v5, id, b) /\ v5.text = TextAt(v4.text, b, 5)
  BY <1>0, <1>4, HandledLast
<1>6. HandleBurst(v, id, b) = v5
  BY DEF HandleBurst, v1, v2, v3, v4
<1> HIDE DEF v5
<1>7. v5.text = TextAfter(v.text, b)
  BY <1>1, <1>2, <1>3, <1>4, <1>5 DEF TextAfter
<1>8. QED
  BY <1>5, <1>6, <1>7

-----------------------------------------------------------------------------
(* The steers a burst brings.                                              *)

Extends(x, y) ==
    /\ x \in Seq(Nat) /\ y \in Seq(Nat) /\ Len(x) <= Len(y)
    /\ \A i \in 1 .. Len(x) : y[i] = x[i]

LEMMA PrefixExtends ==
  ASSUME NEW x \in Seq(Nat), NEW y \in Seq(Nat)
  PROVE  IsPrefix(x, y) <=> Extends(x, y)
<1>1. CASE Len(x) <= Len(y)
  <2>1. /\ SubSeq(x, 1, Len(x)) = [i \in 1 .. Len(x) |-> x[i]]
        /\ SubSeq(y, 1, Len(x)) = [i \in 1 .. Len(x) |-> y[i]]
    BY <1>1
  <2>2. SubSeq(x, 1, Len(x)) = SubSeq(y, 1, Len(x)) <=> \A i \in 1 .. Len(x) : x[i] = y[i]
    BY <2>1
  <2>3. QED
    BY <1>1, <2>2 DEF IsPrefix, Extends
<1>2. CASE ~(Len(x) <= Len(y))
  BY <1>2 DEF IsPrefix, Extends
<1>3. QED
  BY <1>1, <1>2

LEMMA SteersStep ==
  ASSUME NEW x, NEW y, NEW b, NEW i, NEW id, NEW T, IsTold(b), BurstOwned(b, id, T),
         Extends(x, y), Owns(id, y, T)
  PROVE  Extends(x, SteersAt(y, b, i)) /\ Owns(id, SteersAt(y, b, i), T)
<1>1. CASE SteersAt(y, b, i) = y
  BY <1>1
<1>2. CASE SteersAt(y, b, i) # y
  <2>1. i \in DOMAIN b /\ b[i][1] = "steered" /\ SteersAt(y, b, i) = Append(y, b[i][2])
    BY <1>2 DEF SteersAt, SteersAfter
  <2>2. b[i] \in Telling
    BY <2>1 DEF IsTold
  <2>3. b[i] \in {"steered"} \X Nat \X Nat
    BY <2>1, <2>2 DEF Telling
  <2>4. b[i][2] \in Nat /\ b[i][2] \in DOMAIN T /\ T[b[i][2]] = id
    BY <2>1, <2>3 DEF BurstOwned
  <2> DEFINE e == b[i][2]
  <2> HIDE DEF e
  <2>5. e \in Nat /\ e \in DOMAIN T /\ T[e] = id
    BY <2>4 DEF e
  <2>6. x \in Seq(Nat) /\ y \in Seq(Nat) /\ Len(x) \in Nat /\ Len(y) \in Nat
    BY DEF Extends
  <2>7. Append(y, e) \in Seq(Nat) /\ Len(Append(y, e)) = Len(y) + 1
    BY <2>5, <2>6
  <2>8. \A j \in 1 .. Len(y) : Append(y, e)[j] = y[j]
    BY <2>5, <2>6
  <2>9. Append(y, e)[Len(y) + 1] = e
    BY <2>5, <2>6
  <2>10. Extends(x, Append(y, e))
    BY <2>6, <2>7, <2>8 DEF Extends
  <2>11. Owns(id, Append(y, e), T)
    BY <2>5, <2>6, <2>7, <2>8, <2>9 DEF Owns
  <2>12. SteersAt(y, b, i) = Append(y, e)
    BY <2>1 DEF e
  <2>13. QED
    BY <2>10, <2>11, <2>12
<1>3. QED
  BY <1>1, <1>2

LEMMA KnownGrows ==
  ASSUME NEW x \in Seq(Nat), NEW b, NEW id, NEW T, IsTold(b), BurstOwned(b, id, T),
         Owns(id, x, T)
  PROVE  Extends(x, Known(x, b)) /\ Owns(id, Known(x, b), T)
<1> DEFINE x1 == SteersAt(x, b, 1)
           x2 == SteersAt(x1, b, 2)
           x3 == SteersAt(x2, b, 3)
           x4 == SteersAt(x3, b, 4)
           x5 == SteersAt(x4, b, 5)
<1>0. Extends(x, x)
  BY DEF Extends
<1>1. Extends(x, x1) /\ Owns(id, x1, T)
  BY <1>0, SteersStep
<1> HIDE DEF x1
<1>2. Extends(x, x2) /\ Owns(id, x2, T)
  BY <1>1, SteersStep
<1> HIDE DEF x2
<1>3. Extends(x, x3) /\ Owns(id, x3, T)
  BY <1>2, SteersStep
<1> HIDE DEF x3
<1>4. Extends(x, x4) /\ Owns(id, x4, T)
  BY <1>3, SteersStep
<1> HIDE DEF x4
<1>5. Extends(x, x5) /\ Owns(id, x5, T)
  BY <1>4, SteersStep
<1>6. Known(x, b) = x5
  BY DEF Known, x1, x2, x3, x4
<1>7. QED
  BY <1>5, <1>6

LEMMA KnownWithoutAck ==
  ASSUME NEW x, NEW b, \A j \in DOMAIN b : b[j][1] # "steered"
  PROVE  Known(x, b) = x
<1>1. \A y, i : SteersAt(y, b, i) = y
  BY DEF SteersAt, SteersAfter
<1>2. QED
  BY <1>1 DEF Known

LEMMA KnownWithAck ==
  ASSUME NEW x, NEW b, IsTold(b), NEW a \in DOMAIN b, b[a][1] = "steered", b[a][3] = Len(x) + 1,
         \A j \in DOMAIN b : b[j][1] = "steered" => j = a
  PROVE  Known(x, b) = Append(x, b[a][2])
<1>1. \A y, i : i # a => SteersAt(y, b, i) = y
  BY DEF SteersAt, SteersAfter
<1>2. SteersAt(x, b, a) = Append(x, b[a][2])
  BY DEF SteersAt, SteersAfter
<1>3. a = 1 \/ a = 2 \/ a = 3 \/ a = 4 \/ a = 5
  BY DEF IsTold
<1>4. QED
  BY <1>1, <1>2, <1>3 DEF Known

-----------------------------------------------------------------------------
(* The views.                                                              *)

LEMMA ViewTold ==
  ASSUME NEW v, NEW S, NEW d, NEW T, NEW n, NEW id, NEW b, ViewFits(v, S, d, T, n),
         Streaming(v, id), v.thread \in Threads, v.retries[id] = NoRetry,
         IsTold(b), BurstSaved(b, v.thread, d), BurstOwned(b, id, T)
  PROVE  /\ ViewFits(HandleBurst(v, id, b), S, d, T, n)
         /\ HandleBurst(v, id, b).retries[id] = NoRetry
<1> DEFINE w == HandleBurst(v, id, b)
<1>1. Told(v, w, id, b) /\ w.steers = Known(v.steers, b)
  BY BurstTold
<1> HIDE DEF w
<1>2. /\ w \in View /\ w.busy /\ w.terminal = 0 /\ w.stream = id /\ w.request = id /\ id # 0
      /\ v.request = id /\ v \in View /\ id \in Turns
  BY <1>1 DEF Told, Streaming, Turns
<1>3. w.thread = v.thread /\ w.answers = v.answers
  BY <1>1 DEF Told, Kept
<1>4. Clean(w) /\ Phased(w)
  BY <1>2 DEF Clean, Phased
<1>5. Recorded(w, S)
  BY <1>3 DEF ViewFits, Recorded
<1>6. DiagramFits(w, d)
  BY <1>1, <1>3 DEF Told, Brings, BurstSaved, ViewFits, DiagramFits
<1>7. w.retries[id] = NoRetry
  BY <1>1, <1>2 DEF Told
<1>8. Resendable(w, n)
  <2>1. ASSUME NEW i \in Turns, w.retries[i].kind = "replay"
        PROVE  i # id /\ w.retries[i] = v.retries[i]
    BY <1>1, <1>7, <2>1, NothingTyped DEF Told
  <2>2. QED
    BY <1>2, <2>1 DEF ViewFits, Resendable
<1>9. ViewOwned(w, T)
  <2>1. v.steers \in Seq(Nat) /\ Owns(id, v.steers, T)
    BY <1>2 DEF ViewFits, ViewOwned, View
  <2>2. Owns(id, w.steers, T)
    BY <1>1, <2>1, KnownGrows
  <2>3. \A i \in Turns : Owns(i, w.retries[i].steers, T)
    BY <1>1, NothingTyped DEF Told, ViewFits, ViewOwned, Owns
  <2>4. QED
    BY <1>2, <2>2, <2>3 DEF ViewOwned
<1>10. QED
  BY <1>2, <1>4, <1>5, <1>6, <1>7, <1>8, <1>9 DEF ViewFits, w

LEMMA ViewLast ==
  ASSUME NEW v, NEW S, NEW d, NEW T, NEW n, NEW id, NEW b, ViewFits(v, S, d, T, n),
         Streaming(v, id), v.thread \in Threads, v.retries[id] = NoRetry,
         IsLast(b), BurstSaved(b, v.thread, d)
  PROVE  ViewFits(HandleBurst(v, id, b), S, d, T, n)
<1> DEFINE w == HandleBurst(v, id, b)
<1>1. Closing(v, w, id, b)
  BY BurstLast
<1> HIDE DEF w
<1>2. /\ w \in View /\ w.stream = id /\ w.request = id /\ id # 0
      /\ v.request = id /\ v \in View /\ id \in Turns /\ v.stream = id
  BY <1>1 DEF Closing, Kept, Streaming, Turns
<1>3. w.thread = v.thread /\ w.answers = v.answers /\ w.steers = v.steers
  BY <1>1 DEF Closing, Kept
<1>4. Clean(w) /\ Phased(w)
  <2>1. CASE Streaming(w, id)
    BY <1>2, <2>1 DEF Clean, Phased, Streaming
  <2>2. CASE Halted(w, id)
    BY <1>2, <2>2 DEF Phased, Halted
  <2>3. QED
    BY <1>1, <2>1, <2>2 DEF Closing
<1>5. Recorded(w, S)
  BY <1>3 DEF ViewFits, Recorded
<1>6. DiagramFits(w, d)
  BY <1>1, <1>3 DEF Closing, Brings, BurstSaved, ViewFits, DiagramFits
<1>7. \A i \in Turns : (i = id /\ w.retries[i] = Replay(v))
                       \/ w.retries[i] \in {v.retries[i], NoRetry}
  BY <1>1 DEF Closing
<1>8. Resendable(w, n)
  <2>1. ASSUME NEW i \in Turns, w.retries[i].kind = "replay"
        PROVE  i <= n /\ (i = w.request => w.retries[i].steers = w.steers)
    <3>1. CASE i = id
      BY <1>2, <1>3, <1>7, <2>1, <3>1, NothingTyped DEF ViewFits, Resendable, Replay
    <3>2. CASE i # id
      BY <1>2, <1>7, <2>1, <3>2, NothingTyped DEF ViewFits, Resendable
    <3>3. QED
      BY <3>1, <3>2
  <2>2. QED
    BY <1>2, <2>1 DEF ViewFits, Resendable
<1>9. ViewOwned(w, T)
  <2>1. Owns(id, v.steers, T)
    BY <1>2 DEF ViewFits, ViewOwned
  <2>2. \A i \in Turns : Owns(i, w.retries[i].steers, T)
    BY <1>7, <2>1, NothingTyped DEF ViewFits, ViewOwned, Owns, Replay
  <2>3. QED
    BY <1>2, <1>3, <2>1, <2>2 DEF ViewOwned
<1>10. QED
  BY <1>2, <1>4, <1>5, <1>6, <1>8, <1>9 DEF ViewFits, w

\* The view with no turn: it rests.
RestingView(v, w) ==
    /\ w \in View /\ ~w.busy /\ w.stream = 0 /\ w.terminal = 0
    /\ w.text = <<>> /\ ~w.preview /\ w.review = "none"
    /\ w.thread = v.thread /\ w.request = v.request /\ w.steers = v.steers
    /\ w.durable = v.durable

LEMMA RestingFits ==
  ASSUME NEW v, NEW w, NEW S, NEW d, NEW T, NEW n, ViewFits(v, S, d, T, n), RestingView(v, w),
         \/ w.retries = v.retries
         \/ \A i \in Turns : (i = v.request /\ w.retries[i] = Replay(v)) \/ w.retries[i] = v.retries[i],
         Recorded(w, S)
  PROVE  ViewFits(w, S, d, T, n)
<1>1. w \in View /\ Clean(w) /\ Phased(w)
  BY DEF RestingView, Clean, Phased
<1>2. DiagramFits(w, d)
  BY DEF RestingView, ViewFits, DiagramFits
<1>3. \A i \in Turns : (i = v.request /\ w.retries[i] = Replay(v)) \/ w.retries[i] = v.retries[i]
  OBVIOUS
<1>4. Resendable(w, n)
  <2>1. ASSUME NEW i \in Turns, w.retries[i].kind = "replay"
        PROVE  i <= n /\ (i = w.request => w.retries[i].steers = w.steers)
    <3>1. CASE i = v.request /\ w.retries[i] = Replay(v)
      BY <3>1 DEF ViewFits, Resendable, Replay, RestingView
    <3>2. CASE w.retries[i] = v.retries[i]
      BY <2>1, <3>2 DEF ViewFits, Resendable, RestingView
    <3>3. QED
      BY <1>3, <3>1, <3>2
  <2>2. QED
    BY <2>1 DEF ViewFits, Resendable, RestingView
<1>5. ViewOwned(w, T)
  BY <1>3 DEF ViewFits, ViewOwned, Owns, Replay, RestingView
<1>6. QED
  BY <1>1, <1>2, <1>4, <1>5 DEF ViewFits

StoppedView(v) == [Rested(v, v.stream) EXCEPT !.stream = 0, !.terminal = 0]

\* A turn cut short leaves its text behind as a finished message.
CutShort(v, w, id) ==
    /\ w.thread = v.thread /\ w.request = v.request /\ w.steers = v.steers
    /\ ~w.busy /\ w.text = <<>> /\ w.answers = v.answers /\ w.partials = Finished(v, id)

LEMMA ViewStopped ==
  ASSUME NEW v, NEW S, NEW d, NEW T, NEW n, ViewFits(v, S, d, T, n), v.busy
  PROVE  /\ ViewFits(StoppedView(v), S, d, T, n) /\ StoppedView(v).stream = 0
         /\ CutShort(v, StoppedView(v), v.stream)
<1> DEFINE w == StoppedView(v)
           ps == Finished(v, v.stream)
           u == [v EXCEPT !.text = <<>>, !.preview = FALSE, !.review = "none", !.busy = FALSE,
                          !.partials = ps, !.stream = 0, !.terminal = 0]
<1>1. v \in View /\ <<>> \in Seq(Texts) /\ "none" \in Reviews /\ 0 \in 0 .. MaxTurns
  BY NothingTyped, Parameters DEF ViewFits, Reviews
<1>2. v.stream \in Turns
  BY <1>1, Parameters DEF ViewFits, Phased, View, Turns
<1>3. ps \in [Turns -> Seq(Seq(Texts))]
  BY <1>1, <1>2, FinishedTyped
<1>4. Rested(v, v.stream) = [v EXCEPT !.text = <<>>, !.preview = FALSE, !.review = "none",
                                      !.busy = FALSE, !.partials = ps]
  BY <1>1, <1>2, RestedFinished
<1> HIDE DEF ps
<1>5. w = u
  BY <1>1, <1>4 DEF StoppedView, View
<1> HIDE DEF w
<1>6. u \in View
  BY <1>1, <1>3 DEF View
<1>7. RestingView(v, u) /\ u.retries = v.retries /\ u.answers = v.answers /\ u.partials = ps
  BY <1>1, <1>6 DEF RestingView, View
<1> HIDE DEF u
<1>8. Recorded(u, S)
  BY <1>7 DEF ViewFits, Recorded
<1>9. ViewFits(u, S, d, T, n) /\ u.stream = 0
  BY <1>7, <1>8, RestingFits DEF RestingView
<1>10. CutShort(v, u, v.stream)
  BY <1>7 DEF CutShort, RestingView, ps
<1>11. QED
  BY <1>5, <1>9, <1>10 DEF w

LEMMA ViewBroken ==
  ASSUME NEW v, NEW S, NEW d, NEW T, NEW n, NEW id \in Turns, ViewFits(v, S, d, T, n),
         v.stream = id, v.request = id
  PROVE  /\ ViewFits(Settled(v, id, FALSE), S, d, T, n) /\ Settled(v, id, FALSE).stream = 0
         /\ CutShort(v, Settled(v, id, FALSE), id)
<1> DEFINE w == Settled(v, id, FALSE)
           ps == Finished(v, id)
           rs == [v.retries EXCEPT ![id] = Replay(v)]
<1>1. v \in View /\ <<>> \in Seq(Texts) /\ "none" \in Reviews /\ 0 \in 0 .. MaxTurns
  BY NothingTyped, Parameters DEF ViewFits, Reviews
<1>2. rs \in [Turns -> Retries] /\ \A i \in Turns : rs[i] = IF i = id THEN Replay(v) ELSE v.retries[i]
  BY <1>1 DEF View, Replay, Retries
<1> DEFINE u == [v EXCEPT !.text = <<>>, !.preview = FALSE, !.review = "none", !.busy = FALSE,
                          !.partials = ps, !.retries = rs, !.stream = 0, !.terminal = 0]
<1>3. ps \in [Turns -> Seq(Seq(Texts))]
  BY <1>1, FinishedTyped
<1>4. Rested(v, id) = [v EXCEPT !.text = <<>>, !.preview = FALSE, !.review = "none",
                                !.busy = FALSE, !.partials = ps]
  BY <1>1, RestedFinished
<1> HIDE DEF ps
<1>5. w = u
  BY <1>1, <1>4 DEF Settled, OnError, WithRetry, View, Replay
<1> HIDE DEF rs, w
<1>6. u \in View
  BY <1>1, <1>2, <1>3 DEF View
<1>7. RestingView(v, u) /\ u.retries = rs /\ u.answers = v.answers /\ u.partials = ps
  BY <1>1, <1>6 DEF RestingView, View
<1> HIDE DEF u
<1>8. Recorded(u, S)
  BY <1>7 DEF ViewFits, Recorded
<1>9. ViewFits(u, S, d, T, n) /\ u.stream = 0
  BY <1>2, <1>7, <1>8, RestingFits DEF RestingView
<1>10. CutShort(v, u, id)
  BY <1>7 DEF CutShort, RestingView, ps
<1>11. QED
  BY <1>5, <1>9, <1>10 DEF w

LEMMA DoneHandled ==
  ASSUME NEW v, NEW id, v.stream = id
  PROVE  HandleBurst(v, id, Done) = OnDone(v, id)
<1>1. DOMAIN Done = {1} /\ Done[1] = <<"done">>
  BY DEF Done
<1>2. \A y : Handled(y, id, Done, 1) = HandleEvent(y, id, <<"done">>)
  BY <1>1 DEF Handled
<1>3. \A y : /\ Handled(y, id, Done, 2) = y /\ Handled(y, id, Done, 3) = y
             /\ Handled(y, id, Done, 4) = y /\ Handled(y, id, Done, 5) = y
  BY <1>1 DEF Handled
<1>4. HandleEvent(v, id, <<"done">>) = OnDone(v, id)
  BY DEF HandleEvent
<1>5. QED
  BY <1>2, <1>3, <1>4 DEF HandleBurst

LEMMA ViewDone ==
  ASSUME NEW v, NEW S, NEW d, NEW T, NEW n, NEW id \in Turns, ViewFits(v, S, d, T, n),
         v.stream = id,
         v.text # <<>> => S[id] # NoTurn /\ v.text = <<[by |-> S[id].by, steers |-> S[id].steers]>>
  PROVE  /\ ViewFits(Settled(HandleBurst(v, id, Done), id, TRUE), S, d, T, n)
         /\ Settled(HandleBurst(v, id, Done), id, TRUE).stream = 0
         /\ Settled(HandleBurst(v, id, Done), id, TRUE).request = v.request
         /\ Settled(HandleBurst(v, id, Done), id, TRUE).steers = v.steers
         /\ Settled(HandleBurst(v, id, Done), id, TRUE).thread = v.thread
         /\ Settled(HandleBurst(v, id, Done), id, TRUE).partials = v.partials
         /\ Settled(HandleBurst(v, id, Done), id, TRUE).text = <<>>
         /\ v.text # <<>> => Settled(HandleBurst(v, id, Done), id, TRUE).answers[id] = v.text
<1>1. v \in View /\ <<>> \in Seq(Texts) /\ "none" \in Reviews /\ 0 \in 0 .. MaxTurns
  BY NothingTyped, Parameters DEF ViewFits, Reviews
<1>2. HandleBurst(v, id, Done) = OnDone(v, id)
  BY DoneHandled
<1> DEFINE answer == IF v.text = <<>> THEN v.answers[id] ELSE v.text
           as == [v.answers EXCEPT ![id] = answer]
           u == [v EXCEPT !.text = <<>>, !.preview = FALSE, !.review = "none", !.busy = FALSE,
                          !.answers = as, !.stream = 0, !.terminal = 0]
<1>4. as \in [Turns -> Seq(Texts)] /\ \A i \in Turns : as[i] = IF i = id THEN answer ELSE v.answers[i]
  BY <1>1 DEF View
<1>5. Settled(OnDone(v, id), id, TRUE) = u
  BY <1>1 DEF Settled, OnDone, Cleared, View
<1> HIDE DEF as
<1>6. u \in View
  BY <1>1, <1>4 DEF View
<1>7. /\ RestingView(v, u) /\ u.retries = v.retries /\ u.answers = as
      /\ u.partials = v.partials
  BY <1>1, <1>6 DEF RestingView, View
<1> HIDE DEF u
<1>8. Recorded(u, S)
  BY <1>4, <1>7 DEF ViewFits, Recorded
<1>9. ViewFits(u, S, d, T, n)
  BY <1>7, <1>8, RestingFits
<1>10. QED
  BY <1>2, <1>4, <1>5, <1>7, <1>9 DEF RestingView

LEMMA ViewEmpty ==
  ASSUME NEW t \in Somewhere, NEW S, NEW d, NEW T, NEW n \in Nat
  PROVE  /\ ViewFits(EmptyView(t), S, d, T, n) /\ EmptyView(t).thread = t
         /\ EmptyView(t).stream = 0 /\ EmptyView(t).text = <<>> /\ EmptyView(t).request = 0
<1> DEFINE w == EmptyView(t)
           nothing == [i \in Turns |-> <<>>]
           silence == [i \in Turns |-> <<>>]
           plain == [i \in Turns |-> NoRetry]
<1>1. <<>> \in Seq(Nat) /\ <<>> \in Seq(Texts) /\ "none" \in Reviews /\ 0 \in 0 .. MaxTurns
      /\ NoVersion \in Versions
  BY NothingTyped, Parameters DEF Reviews, Versions
<1>2. /\ nothing \in [Turns -> Seq(Texts)] /\ plain \in [Turns -> Retries]
      /\ silence \in [Turns -> Seq(Seq(Texts))]
  <2>1. <<>> \in Seq(Seq(Texts))
    OBVIOUS
  <2>2. QED
    BY <1>1, <2>1, NothingTyped
<1>3. /\ w.thread = t /\ w.stream = 0 /\ w.terminal = 0 /\ w.busy = FALSE /\ w.request = 0
      /\ w.steers = <<>> /\ w.text = <<>> /\ w.answers = nothing /\ w.retries = plain
      /\ w.preview = FALSE /\ w.review = "none" /\ w.durable = NoVersion
  BY DEF EmptyView
<1>4. w \in View
  BY <1>1, <1>2 DEF EmptyView, View
<1> HIDE DEF w
<1>5. Clean(w) /\ Phased(w) /\ DiagramFits(w, d)
  BY <1>3 DEF Clean, Phased, DiagramFits
<1>6. Recorded(w, S)
  BY <1>3 DEF Recorded
<1>7. Resendable(w, n)
  BY <1>3, NothingTyped DEF Resendable
<1>8. ViewOwned(w, T)
  BY <1>3, NothingTyped DEF ViewOwned, Owns
<1>9. QED
  BY <1>3, <1>4, <1>5, <1>6, <1>7, <1>8 DEF ViewFits, w

LEMMA ViewHydrated ==
  ASSUME NEW t \in Threads, NEW S, NEW d, NEW T, NEW n \in Nat, NEW number \in Nat,
         NEW done \in [Turns -> Completed], number <= d[t]
  PROVE  LET w == Hydrated(t, number, done)
         IN ViewFits(w, S, d, T, n) /\ w.thread = t /\ w.stream = 0 /\ w.text = <<>> /\ w.request = 0
<1> DEFINE e == EmptyView(t)
           source == [kind |-> "source", steers |-> <<>>]
           rs == [i \in Turns |-> IF done[i].failed /\ done[i].thread = t THEN source ELSE NoRetry]
           w == [e EXCEPT !.durable = Version(t, number), !.retries = rs]
<1>1. ViewFits(e, S, d, T, n) /\ e.thread = t /\ e.stream = 0 /\ e.text = <<>> /\ e.request = 0
  BY ViewEmpty DEF Somewhere
<1>2. Hydrated(t, number, done) = w
  BY DEF Hydrated
<1>3. Version(t, number) \in Versions /\ SavedIn(Version(t, number), t, d)
  <2>1. CASE number = 0
    BY <2>1 DEF Version, Versions, SavedIn
  <2>2. CASE number # 0
    <3>1. Version(t, number) = <<t, number>>
      BY <2>2 DEF Version
    <3>2. QED
      BY <3>1 DEF Versions, SavedIn
  <2>3. QED
    BY <2>1, <2>2
<1>4. source \in Retries /\ source.kind = "source" /\ source.steers = <<>>
  BY NothingTyped DEF Retries
<1> HIDE DEF source
<1>5. rs \in [Turns -> Retries] /\ \A i \in Turns : rs[i].kind # "replay" /\ rs[i].steers = <<>>
  BY <1>4, NothingTyped
<1> HIDE DEF rs, e
<1>6. e \in View
  BY <1>1 DEF ViewFits
<1>7. w \in View
  BY <1>3, <1>5, <1>6 DEF View
<1>8. /\ w.thread = t /\ w.stream = 0 /\ w.text = <<>> /\ w.request = 0 /\ w.retries = rs
      /\ w.durable = Version(t, number) /\ w.terminal = e.terminal /\ w.busy = e.busy
      /\ w.steers = e.steers /\ w.answers = e.answers /\ w.preview = e.preview
      /\ w.review = e.review
  BY <1>1, <1>6 DEF View
<1> HIDE DEF w
<1>9. Clean(w) /\ Phased(w) /\ DiagramFits(w, d) /\ Recorded(w, S)
  BY <1>1, <1>3, <1>8 DEF ViewFits, Clean, Phased, DiagramFits, Recorded
<1>10. Resendable(w, n) /\ ViewOwned(w, T)
  BY <1>1, <1>5, <1>8, NothingTyped DEF ViewFits, Resendable, ViewOwned, Owns
<1>11. QED
  BY <1>2, <1>7, <1>8, <1>9, <1>10 DEF ViewFits

StartedView(v, id, steers) ==
    [v EXCEPT !.stream = id, !.terminal = 0, !.busy = TRUE, !.request = id,
              !.steers = steers, !.review = "none", !.retries[id] = NoRetry]

LEMMA ViewStarted ==
  ASSUME NEW v, NEW S, NEW d, NEW T, NEW n, NEW id \in Turns, NEW steers \in Seq(Nat),
         ViewFits(v, S, d, T, n), id <= n, Owns(id, steers, T)
  PROVE  LET w == StartedView(v, id, steers)
         IN /\ ViewFits(w, S, d, T, n)
            /\ w.stream = id /\ w.request = id /\ w.busy /\ w.steers = steers
            /\ w.text = v.text /\ w.thread = v.thread /\ w.retries[id] = NoRetry
<1> DEFINE rs == [v.retries EXCEPT ![id] = NoRetry]
           w == [v EXCEPT !.stream = id, !.terminal = 0, !.busy = TRUE, !.request = id,
                          !.steers = steers, !.review = "none", !.retries = rs]
<1>1. v \in View /\ "none" \in Reviews /\ 0 \in 0 .. MaxTurns /\ id \in 0 .. MaxTurns /\ id # 0
  BY Parameters DEF ViewFits, Reviews, Turns
<1>2. rs \in [Turns -> Retries] /\ \A i \in Turns : rs[i] = IF i = id THEN NoRetry ELSE v.retries[i]
  BY <1>1, NothingTyped DEF View
<1>3. StartedView(v, id, steers) = w
  BY <1>1 DEF StartedView, View
<1> HIDE DEF rs
<1>4. w \in View
  BY <1>1, <1>2 DEF View
<1>5. /\ w.stream = id /\ w.request = id /\ w.busy = TRUE /\ w.steers = steers /\ w.terminal = 0
      /\ w.text = v.text /\ w.thread = v.thread /\ w.retries = rs
      /\ w.answers = v.answers /\ w.durable = v.durable
  BY <1>1 DEF View
<1> HIDE DEF w
<1>6. Clean(w) /\ Phased(w) /\ DiagramFits(w, d) /\ Recorded(w, S)
  BY <1>1, <1>5 DEF ViewFits, Clean, Phased, DiagramFits, Recorded
<1>7. Resendable(w, n)
  BY <1>2, <1>5, NothingTyped DEF ViewFits, Resendable
<1>8. ViewOwned(w, T)
  BY <1>2, <1>5, NothingTyped DEF ViewFits, ViewOwned, Owns
<1>9. QED
  BY <1>2, <1>3, <1>4, <1>5, <1>6, <1>7, <1>8 DEF ViewFits

PendingView(v) == [v EXCEPT !.review = "pending"]
AdoptedView(v, t, number) == [v EXCEPT !.durable = Version(t, number), !.preview = FALSE]

LEMMA ViewPending ==
  ASSUME NEW v, NEW S, NEW d, NEW T, NEW n, ViewFits(v, S, d, T, n), v.busy
  PROVE  LET w == PendingView(v)
         IN /\ ViewFits(w, S, d, T, n) /\ w.text = v.text /\ w.steers = v.steers
            /\ w.stream = v.stream /\ w.busy = v.busy /\ w.retries = v.retries
            /\ w.request = v.request /\ w.thread = v.thread
<1> DEFINE w == [v EXCEPT !.review = "pending"]
<1>1. v \in View /\ "pending" \in Reviews
  BY DEF ViewFits, Reviews
<1>2. w \in View
  BY <1>1 DEF View
<1>3. /\ w.text = v.text /\ w.steers = v.steers /\ w.terminal = v.terminal
      /\ w.stream = v.stream /\ w.busy = v.busy /\ w.retries = v.retries
      /\ w.request = v.request /\ w.thread = v.thread /\ w.answers = v.answers
      /\ w.durable = v.durable
  BY <1>1 DEF View
<1> HIDE DEF w
<1>4. Clean(w) /\ Phased(w) /\ DiagramFits(w, d) /\ Recorded(w, S)
  BY <1>1, <1>3 DEF ViewFits, Clean, Phased, DiagramFits, Recorded
<1>5. Resendable(w, n) /\ ViewOwned(w, T)
  BY <1>3 DEF ViewFits, Resendable, ViewOwned, Owns
<1>6. QED
  BY <1>2, <1>3, <1>4, <1>5 DEF ViewFits, w, PendingView

LEMMA ViewAdopts ==
  ASSUME NEW v, NEW S, NEW d, NEW T, NEW n, ViewFits(v, S, d, T, n),
         NEW t \in Threads, NEW number \in Nat, v.thread = t, number <= d[t]
  PROVE  LET w == AdoptedView(v, t, number)
         IN /\ ViewFits(w, S, d, T, n) /\ w.text = v.text /\ w.steers = v.steers
            /\ w.stream = v.stream /\ w.busy = v.busy /\ w.retries = v.retries
            /\ w.request = v.request /\ w.thread = v.thread
<1> DEFINE x == Version(t, number)
           w == [v EXCEPT !.durable = x, !.preview = FALSE]
<1>1. x \in Versions /\ SavedIn(x, t, d)
  <2>1. CASE number = 0
    BY <2>1 DEF Version, Versions, SavedIn
  <2>2. CASE number # 0
    <3>1. x = <<t, number>>
      BY <2>2 DEF Version
    <3>2. QED
      BY <3>1 DEF Versions, SavedIn
  <2>3. QED
    BY <2>1, <2>2
<1> HIDE DEF x
<1>2. v \in View
  BY DEF ViewFits
<1>3. w \in View
  BY <1>1, <1>2, ViewDrawn
<1>4. /\ w.text = v.text /\ w.steers = v.steers /\ w.terminal = v.terminal
      /\ w.stream = v.stream /\ w.busy = v.busy /\ w.retries = v.retries
      /\ w.request = v.request /\ w.thread = v.thread /\ w.answers = v.answers
      /\ w.durable = x /\ w.preview = FALSE /\ w.review = v.review
  BY <1>2 DEF View
<1> HIDE DEF w
<1>5. Clean(w) /\ Phased(w) /\ Recorded(w, S)
  BY <1>4 DEF ViewFits, Clean, Phased, Recorded
<1>6. DiagramFits(w, d)
  BY <1>1, <1>4 DEF DiagramFits
<1>7. Resendable(w, n) /\ ViewOwned(w, T)
  BY <1>4 DEF ViewFits, Resendable, ViewOwned, Owns
<1>8. QED
  BY <1>3, <1>4, <1>5, <1>6, <1>7 DEF ViewFits, w, x, AdoptedView

-----------------------------------------------------------------------------
(* The texts of the frames under way.                                      *)

LEMMA WritingsTyped ==
  /\ Writings \subseteq Seq(Texts) /\ <<>> \in Writings
  /\ \A x \in Writings : x # <<>> => Len(x) = 1 /\ x[1] \in Texts
<1>1. ASSUME NEW x \in Writings
      PROVE  x \in Seq(Texts) /\ (x # <<>> => Len(x) = 1 /\ x[1] \in Texts)
  <2>1. CASE x = <<>>
    BY <2>1, NothingTyped
  <2>2. CASE x # <<>>
    <3>1. PICK m \in Texts : x = <<m>>
      BY <2>2 DEF Writings
    <3>2. QED
      BY <3>1
  <2>3. QED
    BY <2>1, <2>2
<1>2. <<>> \in Writings
  BY DEF Writings
<1>3. QED
  BY <1>1, <1>2

LEMMA ShownIsWriting ==
  ASSUME NEW k \in Sock, k.id \in Turns, NEW s \in Nat, NEW S \in [Turns -> Completed], NEW x,
         Shown(k, s, S, x)
  PROVE  x \in Writings
<1>1. CASE x = <<>>
  BY <1>1 DEF Writings
<1>2. CASE x # <<>> /\ k.run = "over"
  <2> DEFINE m == [by |-> S[k.id].by, steers |-> S[k.id].steers]
  <2>1. x = <<m>>
    BY <1>2 DEF Shown
  <2>2. m \in Texts
    BY DEF Texts, Completed
  <2> HIDE DEF m
  <2>3. QED
    BY <2>1, <2>2 DEF Writings
<1>3. CASE x # <<>> /\ k.run # "over"
  <2> DEFINE m == [by |-> s, steers |-> k.steers]
  <2>1. x = <<m>>
    BY <1>3 DEF Shown
  <2>2. m \in Texts
    BY DEF Texts, Sock
  <2> HIDE DEF m
  <2>3. QED
    BY <2>1, <2>2 DEF Writings
<1>4. QED
  BY <1>1, <1>2, <1>3

LEMMA TextsAppend ==
  ASSUME NEW x, NEW down \in Seq(Seq(Events)), NEW texts, Texting(x, down, texts),
         NEW b \in Seq(Events), TextAfter(texts[Len(down)], b) \in Writings
  PROVE  \E more : /\ Texting(x, Append(down, b), more)
                   /\ more[Len(down) + 1] = TextAfter(texts[Len(down)], b)
<1> DEFINE n == Len(down)
           after == TextAfter(texts[n], b)
           more == [i \in 0 .. n + 1 |-> IF i = n + 1 THEN after ELSE texts[i]]
<1>1. n \in Nat /\ Append(down, b) \in Seq(Seq(Events)) /\ Len(Append(down, b)) = n + 1
      /\ Append(down, b)[n + 1] = b /\ \A i \in 1 .. n : Append(down, b)[i] = down[i]
  OBVIOUS
<1>2. texts \in [0 .. n -> Writings] /\ texts[0] = x
      /\ \A i \in 1 .. n : texts[i] = TextAfter(texts[i - 1], down[i])
  BY DEF Texting
<1>4. after \in Writings
  OBVIOUS
<1> DEFINE all == Append(down, b)
<1> HIDE DEF after, n, all
<1>5. more \in [0 .. n + 1 -> Writings] /\ more[n + 1] = after /\ \A i \in 0 .. n : more[i] = texts[i]
  BY <1>1, <1>2, <1>4
<1> HIDE DEF more
<1>6. ASSUME NEW i \in 1 .. n + 1
      PROVE  more[i] = TextAfter(more[i - 1], all[i])
  <2>1. CASE i = n + 1
    <3>1. i - 1 = n /\ n \in 0 .. n
      BY <1>1, <2>1
    <3>2. more[i - 1] = texts[n] /\ all[i] = b /\ more[i] = after
      BY <1>1, <1>5, <2>1, <3>1 DEF all, n
    <3>3. QED
      BY <3>2 DEF after
  <2>2. CASE i # n + 1
    <3>1. i \in 1 .. n /\ i \in 0 .. n /\ i - 1 \in 0 .. n
      BY <1>1, <1>6, <2>2
    <3>2. more[i] = texts[i] /\ more[i - 1] = texts[i - 1] /\ all[i] = down[i]
      BY <1>1, <1>5, <3>1 DEF all, n
    <3>3. QED
      BY <1>2, <3>1, <3>2
  <2>3. QED
    BY <2>1, <2>2
<1>7. more[0] = x
  BY <1>1, <1>2, <1>5
<1>8. Texting(x, all, more)
  BY <1>1, <1>5, <1>6, <1>7 DEF Texting, all, n
<1>9. QED
  BY <1>5, <1>8 DEF all, n, after

LEMMA TextsTail ==
  ASSUME NEW x, NEW down \in Seq(Seq(Events)), down # <<>>, NEW texts, Texting(x, down, texts)
  PROVE  \E less : /\ Texting(TextAfter(x, Head(down)), Tail(down), less)
                   /\ less[Len(Tail(down))] = texts[Len(down)]
<1> DEFINE n == Len(down)
           rest == Tail(down)
           less == [i \in 0 .. n - 1 |-> texts[i + 1]]
<1>1. n \in Nat /\ n >= 1 /\ Len(rest) = n - 1 /\ Head(down) = down[1]
      /\ \A i \in 1 .. n - 1 : rest[i] = down[i + 1]
  OBVIOUS
<1>2. texts \in [0 .. n -> Writings] /\ texts[0] = x
      /\ \A i \in 1 .. n : texts[i] = TextAfter(texts[i - 1], down[i])
  BY DEF Texting
<1> HIDE DEF n, rest
<1>3. less \in [0 .. n - 1 -> Writings] /\ \A i \in 0 .. n - 1 : less[i] = texts[i + 1]
  BY <1>1, <1>2
<1> HIDE DEF less
<1>4. less[0] = TextAfter(x, Head(down))
  <2>1. 0 \in 0 .. n - 1 /\ 1 \in 1 .. n /\ 0 + 1 = 1 /\ 1 - 1 = 0
    BY <1>1
  <2>2. less[0] = texts[1] /\ texts[1] = TextAfter(texts[0], down[1])
    BY <1>2, <1>3, <2>1
  <2>3. QED
    BY <1>1, <1>2, <2>2
<1>5. ASSUME NEW i \in 1 .. n - 1
      PROVE  less[i] = TextAfter(less[i - 1], rest[i])
  <2>1. i \in 0 .. n - 1 /\ i - 1 \in 0 .. n - 1 /\ i + 1 \in 1 .. n /\ (i - 1) + 1 = i /\ (i + 1) - 1 = i
    BY <1>1, <1>5
  <2>2. less[i] = texts[i + 1] /\ less[i - 1] = texts[i] /\ rest[i] = down[i + 1]
    BY <1>1, <1>3, <1>5, <2>1
  <2>3. texts[i + 1] = TextAfter(texts[i], down[i + 1])
    BY <1>2, <2>1
  <2>4. QED
    BY <2>2, <2>3
<1>6. less[n - 1] = texts[n]
  <2>1. n - 1 \in 0 .. n - 1 /\ (n - 1) + 1 = n
    BY <1>1
  <2>2. QED
    BY <1>3, <2>1
<1>7. Texting(TextAfter(x, Head(down)), rest, less)
  BY <1>1, <1>3, <1>4, <1>5 DEF Texting
<1>8. QED
  BY <1>1, <1>6, <1>7 DEF n, rest

LEMMA ArrivesAppend ==
  ASSUME NEW x, NEW down \in Seq(Seq(Events)), NEW b \in Seq(Events), NEW y, Arrives(x, down, y),
         TextAfter(y, b) \in Writings
  PROVE  Arrives(x, Append(down, b), TextAfter(y, b))
<1>1. PICK texts : Texting(x, down, texts) /\ y = texts[Len(down)]
  BY DEF Arrives
<1>2. PICK more : /\ Texting(x, Append(down, b), more)
                  /\ more[Len(down) + 1] = TextAfter(texts[Len(down)], b)
  BY <1>1, TextsAppend
<1>3. Len(Append(down, b)) = Len(down) + 1 /\ Len(down) \in 0 .. Len(down)
  OBVIOUS
<1>4. QED
  BY <1>1, <1>2, <1>3 DEF Arrives

LEMMA ArrivesTyped ==
  ASSUME NEW x, NEW down \in Seq(Seq(Events)), NEW y, Arrives(x, down, y)
  PROVE  x \in Writings /\ y \in Writings
<1>1. PICK texts : Texting(x, down, texts) /\ y = texts[Len(down)]
  BY DEF Arrives
<1>2. Len(down) \in 0 .. Len(down) /\ 0 \in 0 .. Len(down)
  OBVIOUS
<1>3. QED
  BY <1>1, <1>2 DEF Texting

LEMMA ArrivesTail ==
  ASSUME NEW x, NEW down \in Seq(Seq(Events)), down # <<>>, NEW y, Arrives(x, down, y)
  PROVE  Arrives(TextAfter(x, Head(down)), Tail(down), y)
<1>1. PICK texts : Texting(x, down, texts) /\ y = texts[Len(down)]
  BY DEF Arrives
<1>2. PICK less : /\ Texting(TextAfter(x, Head(down)), Tail(down), less)
                  /\ less[Len(Tail(down))] = texts[Len(down)]
  BY <1>1, TextsTail
<1>3. QED
  BY <1>1, <1>2 DEF Arrives

LEMMA ArrivesNone ==
  ASSUME NEW x
  PROVE  /\ x \in Writings => Arrives(x, <<>>, x)
         /\ \A y : Arrives(x, <<>>, y) => y = x
<1>1. Len(<<>>) = 0 /\ 0 .. 0 = {0} /\ 1 .. 0 = {}
  OBVIOUS
<1>2. ASSUME x \in Writings
      PROVE  Arrives(x, <<>>, x)
  <2> DEFINE texts == [i \in 0 .. 0 |-> x]
  <2>1. texts \in [0 .. 0 -> Writings] /\ texts[0] = x
    BY <1>1, <1>2
  <2> HIDE DEF texts
  <2>2. QED
    BY <1>1, <2>1 DEF Arrives, Texting
<1>3. QED
  BY <1>1, <1>2 DEF Arrives, Texting

-----------------------------------------------------------------------------
(* The acknowledgements under way.                                         *)

HasAck(b) == \E j \in DOMAIN b : b[j][1] = "steered"

\* A burst without an acknowledgement, or with one that is due for these steers.
Acknowledges(b, steers, next) ==
    \/ ~HasAck(b) /\ next = steers
    \/ \E a \in DOMAIN b :
          /\ b[a][1] = "steered" /\ b[a][2] \in Nat /\ b[a][3] = Len(steers) + 1
          /\ \A j \in DOMAIN b : b[j][1] = "steered" => j = a
          /\ next = Append(steers, b[a][2])

LEMMA AckAppended ==
  ASSUME NEW down \in Seq(Seq(Events)), NEW b \in Seq(Events), NEW i \in Nat, NEW j \in Nat
  PROVE  /\ IsAck(Append(down, b), i, j) <=>
               IsAck(down, i, j) \/ (i = Len(down) + 1 /\ j \in DOMAIN b /\ b[j][1] = "steered")
         /\ IsAck(down, i, j) => i <= Len(down) /\ Append(down, b)[i] = down[i]
<1>1. /\ Len(Append(down, b)) = Len(down) + 1 /\ DOMAIN Append(down, b) = 1 .. Len(down) + 1
      /\ DOMAIN down = 1 .. Len(down) /\ Len(down) \in Nat
      /\ Append(down, b)[Len(down) + 1] = b
      /\ \A a \in 1 .. Len(down) : Append(down, b)[a] = down[a]
  OBVIOUS
<1> DEFINE all == Append(down, b)
<1> HIDE DEF all
<1>2. CASE i \in 1 .. Len(down)
  <2>1. all[i] = down[i] /\ i # Len(down) + 1 /\ i \in DOMAIN all /\ i \in DOMAIN down
    BY <1>1, <1>2 DEF all
  <2>2. QED
    BY <1>1, <2>1 DEF IsAck, all
<1>3. CASE i = Len(down) + 1
  <2>1. all[i] = b /\ i \in DOMAIN all /\ i \notin DOMAIN down
    BY <1>1, <1>3 DEF all
  <2>2. QED
    BY <1>3, <2>1 DEF IsAck, all
<1>4. CASE i \notin 1 .. Len(down) + 1
  <2>1. i \notin DOMAIN all /\ i \notin DOMAIN down /\ i # Len(down) + 1
    BY <1>1, <1>4 DEF all
  <2>2. QED
    BY <2>1 DEF IsAck, all
<1>5. i \in 1 .. Len(down) \/ i = Len(down) + 1 \/ i \notin 1 .. Len(down) + 1
  BY <1>1
<1>6. QED
  BY <1>2, <1>3, <1>4, <1>5

LEMMA AgreesPush ==
  ASSUME NEW down \in Seq(Seq(Events)), NEW applied \in Seq(Nat), NEW x \in Seq(Nat),
         Agrees(down, applied, x),
         NEW b \in Seq(Events), NEW next, Acknowledges(b, applied, next)
  PROVE  Agrees(Append(down, b), next, x)
<1> DEFINE all == Append(down, b)
           n == Len(down)
<1>0. n \in Nat /\ Len(x) \in Nat /\ Len(applied) \in Nat /\ Len(x) <= Len(applied)
      /\ \A i \in 1 .. Len(x) : applied[i] = x[i]
  BY PrefixExtends DEF Agrees, Extends
<1>1. ASSUME NEW i \in Nat, NEW j \in Nat
      PROVE  /\ IsAck(all, i, j) <=>
                   IsAck(down, i, j) \/ (i = n + 1 /\ j \in DOMAIN b /\ b[j][1] = "steered")
             /\ IsAck(down, i, j) => i <= n /\ all[i] = down[i]
  BY AckAppended
<1>2. all[n + 1] = b
  OBVIOUS
<1>3. /\ \A i, j \in Nat : IsAck(down, i, j) =>
            down[i][j][3] \in Len(x) + 1 .. Len(applied) /\ down[i][j][2] = applied[down[i][j][3]]
      /\ \A m \in Len(x) + 1 .. Len(applied) :
            \E i, j \in Nat : IsAck(down, i, j) /\ down[i][j][3] = m
      /\ \A i, j, a, c \in Nat : IsAck(down, i, j) /\ IsAck(down, a, c) =>
            (i < a => down[i][j][3] < down[a][c][3]) /\ (i = a => j = c)
  BY DEF Agrees
<1>4. CASE ~HasAck(b) /\ next = applied
  <2>1. \A i, j \in Nat : IsAck(all, i, j) <=> IsAck(down, i, j)
    BY <1>1, <1>4 DEF HasAck
  <2> HIDE DEF all
  <2>2. \A i, j \in Nat : IsAck(all, i, j) => all[i] = down[i]
    BY <1>1, <2>1
  <2>3. IsPrefix(x, next)
    BY <1>4 DEF Agrees
  <2>4. ASSUME NEW i \in Nat, NEW j \in Nat, IsAck(all, i, j)
        PROVE  all[i][j][3] \in Len(x) + 1 .. Len(next) /\ all[i][j][2] = next[all[i][j][3]]
    <3>1. IsAck(down, i, j) /\ all[i] = down[i]
      BY <2>1, <2>2, <2>4
    <3>2. QED
      BY <1>3, <1>4, <3>1
  <2>5. ASSUME NEW m \in Len(x) + 1 .. Len(next)
        PROVE  \E i, j \in Nat : IsAck(all, i, j) /\ all[i][j][3] = m
    <3>1. PICK i \in Nat, j \in Nat : IsAck(down, i, j) /\ down[i][j][3] = m
      BY <1>3, <1>4
    <3>2. IsAck(all, i, j) /\ all[i] = down[i]
      BY <2>1, <2>2, <3>1
    <3>3. QED
      BY <3>1, <3>2
  <2>6. \A i, j, a, c \in Nat : IsAck(all, i, j) /\ IsAck(all, a, c) =>
           (i < a => all[i][j][3] < all[a][c][3]) /\ (i = a => j = c)
    BY <1>3, <2>1, <2>2
  <2>7. QED
    BY <2>3, <2>4, <2>5, <2>6 DEF Agrees, all
<1>5. ASSUME NEW q \in DOMAIN b, b[q][1] = "steered", b[q][2] \in Nat, b[q][3] = Len(applied) + 1,
             \A j \in DOMAIN b : b[j][1] = "steered" => j = q,
             next = Append(applied, b[q][2])
      PROVE  Agrees(all, next, x)
  <2> DEFINE y == b[q][2]
  <2>1. q \in Nat /\ y \in Nat
    BY <1>5
  <2> HIDE DEF y
  <2>2. /\ next \in Seq(Nat) /\ Len(next) = Len(applied) + 1 /\ next[Len(applied) + 1] = y
        /\ \A i \in 1 .. Len(applied) : next[i] = applied[i]
    BY <1>5, <2>1 DEF y
  <2>3. Extends(x, next)
    BY <1>0, <2>2 DEF Extends
  <2>4. \A i, j \in Nat : IsAck(all, i, j) <=> IsAck(down, i, j) \/ (i = n + 1 /\ j = q)
    BY <1>1, <1>5
  <2>5. all[n + 1][q][3] = Len(applied) + 1 /\ all[n + 1][q][2] = y
    BY <1>2, <1>5 DEF y
  <2> HIDE DEF all, n
  <2>6. ASSUME NEW i \in Nat, NEW j \in Nat, IsAck(down, i, j)
        PROVE  /\ all[i][j] = down[i][j] /\ i < n + 1
               /\ all[i][j][3] \in Len(x) + 1 .. Len(applied)
               /\ all[i][j][2] = applied[all[i][j][3]]
    <3>1. all[i] = down[i] /\ i <= n
      BY <1>1, <2>6
    <3>2. down[i][j][3] \in Len(x) + 1 .. Len(applied) /\ down[i][j][2] = applied[down[i][j][3]]
      BY <1>3, <2>6
    <3>3. QED
      BY <1>0, <3>1, <3>2
  <2>7. ASSUME NEW i \in Nat, NEW j \in Nat, IsAck(all, i, j)
        PROVE  all[i][j][3] \in Len(x) + 1 .. Len(next) /\ all[i][j][2] = next[all[i][j][3]]
    <3>1. CASE IsAck(down, i, j)
      <4> DEFINE c == all[i][j][3]
      <4>1. c \in Len(x) + 1 .. Len(applied) /\ all[i][j][2] = applied[c]
        BY <2>6, <3>1
      <4> HIDE DEF c
      <4>2. c \in Len(x) + 1 .. Len(next) /\ next[c] = applied[c]
        <5>1. c \in 1 .. Len(applied) /\ c \in Len(x) + 1 .. Len(applied) + 1
          BY <1>0, <4>1
        <5>2. Len(next) = Len(applied) + 1 /\ \A m \in 1 .. Len(applied) : next[m] = applied[m]
          BY <2>2
        <5>3. QED
          BY <5>1, <5>2
      <4>3. QED
        BY <4>1, <4>2 DEF c
    <3>2. CASE i = n + 1 /\ j = q
      <4>1. all[i][j][3] = Len(applied) + 1 /\ all[i][j][2] = y
        BY <2>5, <3>2
      <4>2. Len(applied) + 1 \in Len(x) + 1 .. Len(next)
        BY <1>0, <2>2
      <4>3. QED
        BY <2>2, <4>1, <4>2
    <3>3. QED
      BY <2>4, <2>7, <3>1, <3>2
  <2>8. ASSUME NEW m \in Len(x) + 1 .. Len(next)
        PROVE  \E i, j \in Nat : IsAck(all, i, j) /\ all[i][j][3] = m
    <3>1. CASE m = Len(applied) + 1
      <4>1. n + 1 \in Nat /\ IsAck(all, n + 1, q) /\ all[n + 1][q][3] = m
        BY <1>0, <2>1, <2>4, <2>5, <3>1
      <4>2. QED
        BY <2>1, <4>1
    <3>2. CASE m # Len(applied) + 1
      <4>1. m \in Len(x) + 1 .. Len(applied)
        BY <1>0, <2>2, <2>8, <3>2
      <4>2. PICK i \in Nat, j \in Nat : IsAck(down, i, j) /\ down[i][j][3] = m
        BY <1>3, <4>1
      <4>3. IsAck(all, i, j) /\ all[i][j][3] = m
        BY <2>4, <2>6, <4>2
      <4>4. QED
        BY <4>3
    <3>3. QED
      BY <3>1, <3>2
  <2>9. ASSUME NEW i \in Nat, NEW j \in Nat, NEW a \in Nat, NEW c \in Nat,
               IsAck(all, i, j), IsAck(all, a, c)
        PROVE  (i < a => all[i][j][3] < all[a][c][3]) /\ (i = a => j = c)
    <3>1. CASE IsAck(down, i, j) /\ IsAck(down, a, c)
      <4>1. all[i][j] = down[i][j] /\ all[a][c] = down[a][c]
        BY <2>6, <3>1
      <4>2. QED
        BY <1>3, <3>1, <4>1
    <3>2. CASE IsAck(down, i, j) /\ a = n + 1 /\ c = q
      <4>1. all[i][j][3] \in Len(x) + 1 .. Len(applied) /\ i < n + 1
        BY <2>6, <3>2
      <4>2. QED
        BY <1>0, <2>5, <3>2, <4>1, SMTT(30)
    <3>3. CASE i = n + 1 /\ j = q /\ IsAck(down, a, c)
      <4>1. a < n + 1
        BY <2>6, <3>3
      <4>2. QED
        BY <1>0, <3>3, <4>1
    <3>4. CASE i = n + 1 /\ j = q /\ a = n + 1 /\ c = q
      BY <1>0, <3>4
    <3>5. QED
      BY <2>4, <2>9, <3>1, <3>2, <3>3, <3>4
  <2>10. IsPrefix(x, next)
    BY <2>2, <2>3, PrefixExtends
  <2>11. QED
    BY <2>7, <2>8, <2>9, <2>10 DEF Agrees
<1>6. QED
  BY <1>4, <1>5 DEF Acknowledges

LEMMA AckOfTail ==
  ASSUME NEW down \in Seq(Seq(Events)), down # <<>>, NEW i \in Nat \ {0}, NEW j \in Nat
  PROVE  /\ IsAck(Tail(down), i, j) <=> IsAck(down, i + 1, j)
         /\ IsAck(Tail(down), i, j) => Tail(down)[i] = down[i + 1]
<1>1. /\ Len(Tail(down)) = Len(down) - 1 /\ DOMAIN Tail(down) = 1 .. Len(down) - 1
      /\ DOMAIN down = 1 .. Len(down) /\ Len(down) \in Nat /\ Len(down) >= 1
      /\ \A a \in 1 .. Len(down) - 1 : Tail(down)[a] = down[a + 1]
  OBVIOUS
<1> DEFINE rest == Tail(down)
<1> HIDE DEF rest
<1>2. i \in DOMAIN rest <=> i + 1 \in DOMAIN down
  BY <1>1 DEF rest
<1>3. i \in DOMAIN rest => rest[i] = down[i + 1]
  BY <1>1 DEF rest
<1>4. QED
  BY <1>2, <1>3 DEF IsAck, rest

LEMMA AgreesHead ==
  ASSUME NEW down \in Seq(Seq(Events)), down # <<>>, NEW applied \in Seq(Nat), NEW x \in Seq(Nat),
         Agrees(down, applied, x), IsTold(Head(down))
  PROVE  Agrees(Tail(down), applied, Known(x, Head(down)))
<1> DEFINE rest == Tail(down)
           b == Head(down)
<1>0. /\ Len(x) \in Nat /\ Len(applied) \in Nat /\ Len(x) <= Len(applied)
      /\ \A i \in 1 .. Len(x) : applied[i] = x[i]
  BY PrefixExtends DEF Agrees, Extends
<1>1. /\ \A i, j \in Nat : IsAck(down, i, j) =>
            down[i][j][3] \in Len(x) + 1 .. Len(applied) /\ down[i][j][2] = applied[down[i][j][3]]
      /\ \A m \in Len(x) + 1 .. Len(applied) :
            \E i, j \in Nat : IsAck(down, i, j) /\ down[i][j][3] = m
      /\ \A i, j, a, c \in Nat : IsAck(down, i, j) /\ IsAck(down, a, c) =>
            (i < a => down[i][j][3] < down[a][c][3]) /\ (i = a => j = c)
  BY DEF Agrees
<1>2. down[1] = b /\ \A j : IsAck(down, 1, j) <=> j \in DOMAIN b /\ b[j][1] = "steered"
  <2>1. down[1] = b /\ 1 \in DOMAIN down
    OBVIOUS
  <2>2. QED
    BY <2>1 DEF IsAck
<1>3. ASSUME NEW i \in Nat, NEW j \in Nat, i # 0
      PROVE  /\ IsAck(rest, i, j) <=> IsAck(down, i + 1, j)
             /\ IsAck(rest, i, j) => rest[i] = down[i + 1]
  BY <1>3, AckOfTail
<1>4. \A i, j \in Nat : IsAck(rest, i, j) => i # 0
  <2>1. DOMAIN rest = 1 .. Len(rest)
    OBVIOUS
  <2>2. QED
    BY <2>1 DEF IsAck
<1>5. \A i, j \in Nat : IsAck(down, i, j) => i # 0
  <2>1. DOMAIN down = 1 .. Len(down)
    OBVIOUS
  <2>2. QED
    BY <2>1 DEF IsAck
<1> HIDE DEF rest
<1>6. ASSUME NEW i \in Nat, NEW j \in Nat, NEW a \in Nat, NEW c \in Nat,
             IsAck(rest, i, j), IsAck(rest, a, c)
      PROVE  (i < a => rest[i][j][3] < rest[a][c][3]) /\ (i = a => j = c)
  <2>1. IsAck(down, i + 1, j) /\ rest[i] = down[i + 1] /\ IsAck(down, a + 1, c) /\ rest[a] = down[a + 1]
    BY <1>3, <1>4, <1>6
  <2>2. i + 1 \in Nat /\ a + 1 \in Nat /\ (i < a => i + 1 < a + 1) /\ (i = a => i + 1 = a + 1)
    OBVIOUS
  <2>3. /\ i + 1 < a + 1 => down[i + 1][j][3] < down[a + 1][c][3]
        /\ i + 1 = a + 1 => j = c
    BY <1>1, <2>1, <2>2
  <2>4. QED
    BY <2>1, <2>2, <2>3
<1>7. CASE ~HasAck(b)
  <2>1. Known(x, b) = x
    BY <1>7, KnownWithoutAck DEF HasAck
  <2>2. ASSUME NEW i \in Nat, NEW j \in Nat, IsAck(rest, i, j)
        PROVE  rest[i][j][3] \in Len(x) + 1 .. Len(applied) /\ rest[i][j][2] = applied[rest[i][j][3]]
    <3>1. IsAck(down, i + 1, j) /\ rest[i] = down[i + 1]
      BY <1>3, <1>4, <2>2
    <3> DEFINE h == i + 1
    <3>2. h \in Nat /\ IsAck(down, h, j) /\ rest[i] = down[h]
      BY <3>1
    <3> HIDE DEF h
    <3>3. down[h][j][3] \in Len(x) + 1 .. Len(applied) /\ down[h][j][2] = applied[down[h][j][3]]
      BY <1>1, <3>2
    <3>4. QED
      BY <3>2, <3>3
  <2>3. ASSUME NEW m \in Len(x) + 1 .. Len(applied)
        PROVE  \E i, j \in Nat : IsAck(rest, i, j) /\ rest[i][j][3] = m
    <3>1. PICK i \in Nat, j \in Nat : IsAck(down, i, j) /\ down[i][j][3] = m
      BY <1>1
    <3>2. i # 0 /\ i # 1
      BY <1>2, <1>5, <1>7, <3>1 DEF HasAck
    <3>3. i - 1 \in Nat /\ i - 1 # 0 /\ (i - 1) + 1 = i
      BY <3>2
    <3>4. IsAck(rest, i - 1, j) /\ rest[i - 1] = down[i]
      BY <1>3, <3>1, <3>3
    <3>5. QED
      BY <3>1, <3>3, <3>4
  <2>4. QED
    BY <1>6, <2>1, <2>2, <2>3, ZenonT(40) DEF Agrees, rest
<1>8. CASE HasAck(b)
  <2>1. PICK q \in DOMAIN b : b[q][1] = "steered"
    BY <1>8 DEF HasAck
  <2>2. q \in Nat /\ IsAck(down, 1, q) /\ b[q] \in Telling
    BY <1>2, <2>1 DEF IsTold
  <2>3. b[q] \in {"steered"} \X Nat \X Nat
    BY <2>1, <2>2 DEF Telling
  <2> DEFINE c == b[q][3]
             y == b[q][2]
  <2>4. c \in Nat /\ y \in Nat
    BY <2>3
  <2>5. c \in Len(x) + 1 .. Len(applied) /\ y = applied[c]
    <3>1. /\ down[1][q][3] \in Len(x) + 1 .. Len(applied)
          /\ down[1][q][2] = applied[down[1][q][3]]
      BY <1>1, <2>2
    <3>2. QED
      BY <1>2, <3>1
  <2>6. c = Len(x) + 1
    <3>1. Len(x) + 1 \in Len(x) + 1 .. Len(applied)
      BY <1>0, <2>4, <2>5
    <3>2. PICK i \in Nat, j \in Nat : IsAck(down, i, j) /\ down[i][j][3] = Len(x) + 1
      BY <1>1, <3>1
    <3>3. CASE i = 1
      <4>1. j = q
        BY <1>1, <2>2, <3>2, <3>3
      <4>2. QED
        BY <1>2, <3>2, <3>3, <4>1
    <3>4. CASE i # 1
      <4>1. 1 < i
        BY <1>5, <3>2, <3>4
      <4>2. c < Len(x) + 1
        <5>1. down[1][q][3] < down[i][j][3]
          BY <1>1, <2>2, <3>2, <4>1
        <5>2. QED
          BY <1>2, <3>2, <5>1
      <4>3. QED
        BY <1>0, <2>4, <2>5, <4>2
    <3>5. QED
      BY <3>3, <3>4
  <2>7. \A j \in DOMAIN b : b[j][1] = "steered" => j = q
    <3>1. \A j \in DOMAIN b : j \in Nat
      BY DEF IsTold
    <3>2. QED
      BY <1>1, <1>2, <2>2, <3>1, SMTT(30)
  <2>8. Known(x, b) = Append(x, y)
    BY <2>1, <2>6, <2>7, KnownWithAck
  <2> HIDE DEF c, y, b
  <2> DEFINE z == Append(x, y)
  <2>9. /\ z \in Seq(Nat) /\ Len(z) = Len(x) + 1 /\ z[Len(x) + 1] = y
        /\ \A i \in 1 .. Len(x) : z[i] = x[i]
    BY <2>4
  <2> HIDE DEF z
  <2>10. IsPrefix(z, applied)
    <3>1. Len(z) <= Len(applied)
      BY <1>0, <2>4, <2>5, <2>6, <2>9
    <3>2. ASSUME NEW i \in 1 .. Len(z)
          PROVE  applied[i] = z[i]
      <4>1. CASE i = Len(x) + 1
        BY <2>5, <2>6, <2>9, <4>1
      <4>2. CASE i # Len(x) + 1
        <5>1. i \in 1 .. Len(x)
          BY <1>0, <2>9, <3>2, <4>2
        <5>2. QED
          BY <1>0, <2>9, <5>1
      <4>3. QED
        BY <4>1, <4>2
    <3>3. QED
      BY <2>9, <3>1, <3>2, PrefixExtends DEF Extends
  <2>11. ASSUME NEW i \in Nat, NEW j \in Nat, IsAck(rest, i, j)
         PROVE  rest[i][j][3] \in Len(z) + 1 .. Len(applied) /\ rest[i][j][2] = applied[rest[i][j][3]]
    <3>1. IsAck(down, i + 1, j) /\ rest[i] = down[i + 1] /\ i # 0
      BY <1>3, <1>4, <2>11
    <3> DEFINE e == rest[i][j][3]
    <3>2. e \in Len(x) + 1 .. Len(applied) /\ rest[i][j][2] = applied[e]
      BY <1>1, <3>1
    <3>3. c < e
      <4>1. 1 < i + 1 /\ i + 1 \in Nat
        BY <3>1
      <4>2. down[1][q][3] < down[i + 1][j][3]
        BY <1>1, <2>2, <3>1, <4>1
      <4>3. QED
        BY <1>2, <3>1, <4>2 DEF c
    <3> HIDE DEF e
    <3>4. e \in Len(z) + 1 .. Len(applied)
      BY <1>0, <2>6, <2>9, <3>2, <3>3
    <3>5. QED
      BY <3>2, <3>4 DEF e
  <2>12. ASSUME NEW m \in Len(z) + 1 .. Len(applied)
         PROVE  \E i, j \in Nat : IsAck(rest, i, j) /\ rest[i][j][3] = m
    <3>1. m \in Len(x) + 1 .. Len(applied) /\ m # c
      BY <1>0, <2>6, <2>9, <2>12, SMTT(30)
    <3>2. PICK i \in Nat, j \in Nat : IsAck(down, i, j) /\ down[i][j][3] = m
      BY <1>1, <3>1
    <3>3. i # 1
      <4>1. CASE i = 1
        <5>1. j = q
          BY <1>1, <2>2, <3>2, <4>1
        <5>2. QED
          BY <1>2, <3>1, <3>2, <4>1, <5>1 DEF c
      <4>2. QED
        BY <4>1
    <3>4. i - 1 \in Nat /\ i - 1 # 0 /\ (i - 1) + 1 = i
      BY <1>5, <3>2, <3>3
    <3>5. IsAck(rest, i - 1, j) /\ rest[i - 1] = down[i]
      BY <1>3, <3>2, <3>4
    <3>6. QED
      BY <3>2, <3>4, <3>5
  <2>13. Agrees(rest, applied, z)
    BY <1>6, <2>10, <2>11, <2>12 DEF Agrees
  <2>14. QED
    BY <2>8, <2>13 DEF rest, z, b
<1>9. QED
  BY <1>7, <1>8

-----------------------------------------------------------------------------
(* The connections.                                                        *)

LEMMA SockUpdate ==
  ASSUME NEW socks, NEW d, NEW T, SocksFit(socks, d, T), NEW s \in Sockets,
         NEW k \in Sock, Fits(k, d, T)
  PROVE  SocksFit([socks EXCEPT ![s] = k], d, T)
<1> DEFINE all == [socks EXCEPT ![s] = k]
<1>1. socks \in [Sockets -> Sock] /\ \A i \in Sockets : Fits(socks[i], d, T)
  BY DEF SocksFit
<1>2. all \in [Sockets -> Sock] /\ \A i \in Sockets : all[i] = IF i = s THEN k ELSE socks[i]
  BY <1>1
<1> HIDE DEF all
<1>3. \A i \in Sockets : Fits(all[i], d, T)
  BY <1>1, <1>2
<1>4. QED
  BY <1>2, <1>3 DEF SocksFit, all

LEMMA NothingSent ==
  /\ <<>> \in Seq(Upward) /\ <<>> \in Seq(Seq(Events)) /\ <<>> \in Seq(Frames)
  /\ \A id, T : UpOwned(<<>>, id, T) /\ Owns(id, <<>>, T)
<1>1. <<>> \in Seq(Upward) /\ <<>> \in Seq(Seq(Events)) /\ <<>> \in Seq(Frames)
  OBVIOUS
<1>2. QED
  BY <1>1, NothingTyped DEF UpOwned, Owns

LEMMA NewSocketFits ==
  ASSUME NEW d, NEW T
  PROVE  NewSocket \in Sock /\ Fits(NewSocket, d, T)
<1>1. /\ NewSocket.id = 0 /\ NewSocket.up = <<>> /\ NewSocket.down = <<>>
      /\ NewSocket.run = "none" /\ NewSocket.net = "unused" /\ NewSocket.start = <<>>
      /\ NewSocket.steers = <<>>
  BY DEF NewSocket
<1>2. 0 \in 0 .. MaxTurns /\ NoThread \in Somewhere
  BY Parameters DEF Somewhere
<1>3. NewSocket \in Sock
  BY <1>2, NothingSent, NothingTyped DEF NewSocket, Sock
<1>4. Fits(NewSocket, d, T)
  BY <1>1, NothingSent, NothingTyped DEF Fits, Silent, DownFits
<1>5. QED
  BY <1>3, <1>4

LEMMA SpentFits ==
  ASSUME NEW d, NEW T
  PROVE  Spent \in Sock /\ Fits(Spent, d, T) /\ Spent.net = "closed"
<1>1. NewSocket \in Sock
  BY NewSocketFits
<1>2. Spent \in Sock
  BY <1>1 DEF Spent, Sock
<1>3. /\ Spent.id = 0 /\ Spent.up = <<>> /\ Spent.down = <<>> /\ Spent.run = "over"
      /\ Spent.net = "closed" /\ Spent.start = <<>> /\ Spent.steers = <<>>
  BY DEF Spent, NewSocket
<1>4. Fits(Spent, d, T)
  BY <1>3, NothingSent, NothingTyped DEF Fits, Silent, DownFits
<1>5. QED
  BY <1>2, <1>3, <1>4

Connecting(id, t, steers) ==
    [NewSocket EXCEPT !.id = id, !.thread = t, !.start = steers, !.net = "connecting"]

LEMMA ConnectFits ==
  ASSUME NEW d, NEW T, NEW id \in Turns, NEW t \in Threads, NEW steers \in Seq(Nat),
         Owns(id, steers, T)
  PROVE  LET k == Connecting(id, t, steers)
         IN /\ k \in Sock /\ Fits(k, d, T)
            /\ k.id = id /\ k.thread = t /\ k.net = "connecting" /\ k.up = <<>> /\ k.down = <<>>
            /\ k.start = steers /\ k.run = "none" /\ k.sent = {}
<1> DEFINE k == Connecting(id, t, steers)
<1>1. NewSocket \in Sock /\ id \in 0 .. MaxTurns /\ id # 0 /\ t \in Somewhere
  BY NewSocketFits, Parameters DEF Turns, Somewhere
<1>2. k \in Sock
  BY <1>1 DEF Connecting, Sock
<1>3. /\ k.id = id /\ k.thread = t /\ k.net = "connecting" /\ k.up = <<>> /\ k.down = <<>>
      /\ k.start = steers /\ k.run = "none" /\ k.sent = {} /\ k.steers = <<>>
  BY DEF Connecting, NewSocket
<1> HIDE DEF k
<1>4. Fits(k, d, T)
  BY <1>1, <1>3, NothingSent, NothingTyped DEF Fits, Silent, DownFits
<1>5. QED
  BY <1>2, <1>3, <1>4 DEF k

LEMMA UpJoined ==
  ASSUME NEW a \in Seq(Upward), NEW b \in Seq(Upward), NEW id, NEW T, UpOwned(a, id, T), UpOwned(b, id, T)
  PROVE  a \o b \in Seq(Upward) /\ UpOwned(a \o b, id, T)
<1> DEFINE c == a \o b
<1>1. c \in Seq(Upward) /\ Len(c) = Len(a) + Len(b) /\ DOMAIN c = 1 .. Len(c)
      /\ DOMAIN a = 1 .. Len(a) /\ DOMAIN b = 1 .. Len(b) /\ Len(a) \in Nat /\ Len(b) \in Nat
      /\ \A i \in 1 .. Len(c) : c[i] = IF i <= Len(a) THEN a[i] ELSE b[i - Len(a)]
  OBVIOUS
<1> HIDE DEF c
<1>2. ASSUME NEW i \in DOMAIN c, c[i][1] = "steer"
      PROVE  c[i][2] \in DOMAIN T /\ T[c[i][2]] = id
  <2>1. CASE i <= Len(a)
    <3>1. c[i] = a[i] /\ i \in DOMAIN a
      BY <1>1, <2>1
    <3>2. QED
      BY <1>2, <3>1 DEF UpOwned
  <2>2. CASE ~(i <= Len(a))
    <3>1. c[i] = b[i - Len(a)] /\ i - Len(a) \in DOMAIN b
      BY <1>1, <2>2
    <3>2. QED
      BY <1>2, <3>1 DEF UpOwned
  <2>3. QED
    BY <2>1, <2>2
<1>3. QED
  BY <1>1, <1>2 DEF UpOwned, c

LEMMA UpShortened ==
  ASSUME NEW a \in Seq(Upward), NEW id, NEW T, UpOwned(a, id, T)
  PROVE  /\ \A i \in 0 .. Len(a) : SubSeq(a, 1, i) \in Seq(Upward) /\ UpOwned(SubSeq(a, 1, i), id, T)
         /\ a # <<>> => Tail(a) \in Seq(Upward) /\ UpOwned(Tail(a), id, T)
<1>1. ASSUME NEW i \in 0 .. Len(a)
      PROVE  SubSeq(a, 1, i) \in Seq(Upward) /\ UpOwned(SubSeq(a, 1, i), id, T)
  <2> DEFINE c == SubSeq(a, 1, i)
  <2>1. c \in Seq(Upward) /\ DOMAIN c \subseteq DOMAIN a /\ \A j \in DOMAIN c : c[j] = a[j]
    OBVIOUS
  <2> HIDE DEF c
  <2>2. QED
    BY <2>1 DEF UpOwned, c
<1>2. ASSUME a # <<>>
      PROVE  Tail(a) \in Seq(Upward) /\ UpOwned(Tail(a), id, T)
  <2> DEFINE c == Tail(a)
  <2>1. c \in Seq(Upward) /\ \A j \in DOMAIN c : j + 1 \in DOMAIN a /\ c[j] = a[j + 1]
    BY <1>2
  <2> HIDE DEF c
  <2>2. QED
    BY <2>1 DEF UpOwned, c
<1>3. QED
  BY <1>1, <1>2

LEMMA ClosedIs ==
  ASSUME NEW socks, NEW s, NEW last
  PROVE  Closed(socks, s, last) = [socks EXCEPT ![s] = ClosedEnd(socks[s], last)]
BY DEF Closed

LEMMA ClosedEndFits ==
  ASSUME NEW d, NEW T, NEW k \in Sock, Fits(k, d, T), k.id # 0, NEW last \in {<<>>, <<<<"stop">>>>}
  PROVE  ClosedEnd(k, last) \in Sock /\ Fits(ClosedEnd(k, last), d, T) /\ ClosedEnd(k, last).net = "closed"
<1>1. CASE k.run = "over" \/ (k.run = "none" /\ k.up \o last = <<>>)
  BY <1>1, SpentFits DEF ClosedEnd
<1>2. CASE ~(k.run = "over" \/ (k.run = "none" /\ k.up \o last = <<>>))
  <2> DEFINE bye == <<<<"bye">>>>
             up == k.up \o last \o bye
             w == [k EXCEPT !.net = "closed", !.down = <<>>, !.up = up]
  <2>1. bye \in Seq(Upward) /\ \A i \in DOMAIN bye : bye[i] = <<"bye">>
    BY DEF Upward, LastFrames
  <2>11. last \in Seq(Upward) /\ \A i \in DOMAIN last : last[i] = <<"stop">>
    <3>1. CASE last = <<>>
      BY <3>1, NothingSent, NothingTyped
    <3>2. CASE last = <<<<"stop">>>>
      BY <3>2 DEF Upward, LastFrames
    <3>3. QED
      BY <3>1, <3>2
  <2>2. UpOwned(bye, k.id, T) /\ UpOwned(last, k.id, T)
    BY <2>1, <2>11 DEF UpOwned
  <2>3. k.up \in Seq(Upward) /\ UpOwned(k.up, k.id, T)
    BY DEF Sock, Fits
  <2> HIDE DEF bye
  <2>4. k.up \o last \in Seq(Upward) /\ UpOwned(k.up \o last, k.id, T)
    BY <2>11, <2>2, <2>3, UpJoined
  <2>5. up \in Seq(Upward) /\ UpOwned(up, k.id, T)
    BY <2>1, <2>2, <2>4, UpJoined
  <2>6. ClosedEnd(k, last) = w
    BY <1>2 DEF ClosedEnd, bye
  <2> HIDE DEF up
  <2>7. w \in Sock
    BY <2>5, NothingSent DEF Sock
  <2>8. /\ w.id = k.id /\ w.thread = k.thread /\ w.start = k.start /\ w.steers = k.steers
        /\ w.up = up /\ w.down = <<>> /\ w.net = "closed"
    BY DEF Sock
  <2> HIDE DEF w
  <2>9. Fits(w, d, T)
    BY <2>5, <2>8, NothingTyped DEF Fits, Silent, DownFits
  <2>10. QED
    BY <2>6, <2>7, <2>8, <2>9
<1>3. QED
  BY <1>1, <1>2

LEMMA CloseFits ==
  ASSUME NEW d, NEW T, NEW socks, SocksFit(socks, d, T), NEW s \in Sockets, socks[s].id # 0,
         NEW last \in {<<>>, <<<<"stop">>>>}
  PROVE  /\ SocksFit(Closed(socks, s, last), d, T) /\ Closed(socks, s, last)[s].net = "closed"
         /\ \A a \in Sockets : a # s => Closed(socks, s, last)[a] = socks[a]
<1> DEFINE k == ClosedEnd(socks[s], last)
<1>1. socks \in [Sockets -> Sock] /\ socks[s] \in Sock /\ Fits(socks[s], d, T)
  BY DEF SocksFit
<1>2. k \in Sock /\ Fits(k, d, T) /\ k.net = "closed"
  BY <1>1, ClosedEndFits
<1> HIDE DEF k
<1>3. Closed(socks, s, last) = [socks EXCEPT ![s] = k]
  BY ClosedIs DEF k
<1>4. SocksFit([socks EXCEPT ![s] = k], d, T)
  BY <1>2, SockUpdate
<1>5. QED
  BY <1>1, <1>2, <1>3, <1>4

\* Leaving a turn closes its connection, and no other.
LEMMA StopFits ==
  ASSUME NEW d, NEW T, NEW socks, SocksFit(socks, d, T), NEW l, l.sock \in 0 .. MaxSockets,
         l.sock # 0 /\ socks[l.sock].net # "closed" => socks[l.sock].id # 0
  PROVE  /\ SocksFit(StopGeneration(socks, l), d, T)
         /\ \A a \in Sockets : a # l.sock => StopGeneration(socks, l)[a] = socks[a]
<1>1. CASE l.sock = 0 \/ socks[l.sock].net = "closed"
  BY <1>1 DEF StopGeneration
<1>2. CASE ~(l.sock = 0 \/ socks[l.sock].net = "closed")
  <2> DEFINE last == IF l.ready THEN <<<<"stop">>>> ELSE <<>>
  <2>1. l.sock \in Sockets
    BY <1>2, Parameters DEF Sockets
  <2>2. StopGeneration(socks, l) = Closed(socks, l.sock, last)
    BY <1>2 DEF StopGeneration
  <2>3. last \in {<<>>, <<<<"stop">>>>}
    OBVIOUS
  <2> HIDE DEF last
  <2>4. QED
    BY <1>2, <2>1, <2>2, <2>3, CloseFits
<1>3. QED
  BY <1>1, <1>2

\* What the server has not read may be lost.
LEMMA CutFits ==
  ASSUME NEW d, NEW T, NEW socks, SocksFit(socks, d, T), NEW s \in Sockets,
         NEW kept \in 0 .. Len(socks[s].up)
  PROVE  LET cut == [socks EXCEPT ![s].up = SubSeq(@, 1, kept)]
         IN SocksFit(cut, d, T) /\ cut[s].id = socks[s].id
<1> DEFINE k == socks[s]
           up == SubSeq(k.up, 1, kept)
           w == [k EXCEPT !.up = up]
<1>1. socks \in [Sockets -> Sock] /\ k \in Sock /\ Fits(k, d, T)
  BY DEF SocksFit
<1>2. k.up \in Seq(Upward) /\ UpOwned(k.up, k.id, T)
  BY <1>1 DEF Sock, Fits
<1>3. up \in Seq(Upward) /\ UpOwned(up, k.id, T)
  BY <1>2, UpShortened
<1>4. k.up = <<>> => up = <<>>
  <2>1. SUFFICES ASSUME k.up = <<>>
                 PROVE  up = <<>>
    OBVIOUS
  <2>2. kept = 0
    BY <2>1, NothingTyped
  <2>3. QED
    BY <1>2, <2>1, <2>2
<1>5. [socks EXCEPT ![s].up = SubSeq(@, 1, kept)] = [socks EXCEPT ![s] = w]
  BY <1>1
<1> HIDE DEF up, k
<1>6. w \in Sock
  BY <1>1, <1>3 DEF Sock
<1>7. /\ w.id = k.id /\ w.thread = k.thread /\ w.start = k.start /\ w.steers = k.steers
      /\ w.up = up /\ w.down = k.down /\ w.net = k.net /\ w.run = k.run
  BY <1>1 DEF Sock
<1> HIDE DEF w
<1>8. Fits(w, d, T)
  BY <1>1, <1>3, <1>4, <1>7 DEF Fits, Silent
<1>9. SocksFit([socks EXCEPT ![s] = w], d, T)
  BY <1>6, <1>8, SockUpdate
<1>10. [socks EXCEPT ![s] = w][s].id = socks[s].id
  BY <1>1, <1>7 DEF k
<1>11. QED
  BY <1>5, <1>9, <1>10

-----------------------------------------------------------------------------
(* The server's end of a connection.                                       *)

LEMMA BurstsAreEvents ==
  /\ \A b : IsTold(b) \/ IsLast(b) => b \in Seq(Events)
  /\ Done \in Seq(Events) /\ Ready \in Seq(Events) /\ ~IsTold(Done) /\ ~IsLast(Done)
  /\ ~IsTold(Ready) /\ Ready # Done /\ ~IsLast(Ready)
  /\ \A t, d, id, T : BurstSaved(Done, t, d) /\ BurstOwned(Done, id, T)
  /\ \A t, d, id, T : BurstSaved(Ready, t, d) /\ BurstOwned(Ready, id, T)
  /\ \A x : TextAfter(x, Done) = x
<1>1. Telling \subseteq Events /\ Ending \subseteq Events
  BY DEF Events
<1>2. \A b : IsTold(b) \/ IsLast(b) => b \in Seq(Events)
  BY <1>1 DEF IsTold, IsLast
<1>3. /\ DOMAIN Done = {1} /\ Done[1] = <<"done">> /\ DOMAIN Ready = {1} /\ Ready[1] = <<"ready">>
      /\ Len(Done) = 1 /\ Len(Ready) = 1
  BY DEF Done, Ready
<1>4. Done \in Seq(Events) /\ Ready \in Seq(Events)
  BY DEF Done, Ready, Events
<1>5. \A e : e \in Telling \/ e \in Ending => e[1] # "done" /\ e[1] # "ready"
  BY DEF Telling, Ending
<1>6. ~IsTold(Done) /\ ~IsLast(Done) /\ ~IsTold(Ready) /\ ~IsLast(Ready)
  BY <1>3, <1>5 DEF IsTold, IsLast
<1>7. Ready # Done
  BY <1>3
<1>8. /\ \A t, d, id, T : BurstSaved(Done, t, d) /\ BurstOwned(Done, id, T)
      /\ \A t, d, id, T : BurstSaved(Ready, t, d) /\ BurstOwned(Ready, id, T)
  BY <1>3 DEF BurstSaved, BurstOwned
<1>9. \A x, i : TextAt(x, Done, i) = x
  BY <1>3 DEF TextAt, TextEvent
<1>10. \A x : TextAfter(x, Done) = x
  BY <1>9 DEF TextAfter
<1>11. QED
  BY <1>2, <1>4, <1>6, <1>7, <1>8, <1>10

LEMMA DownAppended ==
  ASSUME NEW down \in Seq(Seq(Events)), NEW b \in Seq(Events), NEW t, NEW id, NEW d, NEW T,
         DownFits(down, t, id, d, T), BurstSaved(b, t, d), BurstOwned(b, id, T)
  PROVE  Append(down, b) \in Seq(Seq(Events)) /\ DownFits(Append(down, b), t, id, d, T)
<1> DEFINE all == Append(down, b)
<1>1. all \in Seq(Seq(Events))
  OBVIOUS
<1>2. \A i \in DOMAIN all : all[i] = b \/ (i \in DOMAIN down /\ all[i] = down[i])
  OBVIOUS
<1> HIDE DEF all
<1>3. DownFits(all, t, id, d, T)
  BY <1>2 DEF DownFits
<1>4. QED
  BY <1>1, <1>3 DEF all

LEMMA DownShortened ==
  ASSUME NEW down \in Seq(Seq(Events)), down # <<>>, NEW t, NEW id, NEW d, NEW T,
         DownFits(down, t, id, d, T)
  PROVE  /\ Tail(down) \in Seq(Seq(Events)) /\ DownFits(Tail(down), t, id, d, T)
         /\ Head(down) \in Seq(Events)
         /\ BurstSaved(Head(down), t, d) /\ BurstOwned(Head(down), id, T)
<1> DEFINE rest == Tail(down)
<1>1. rest \in Seq(Seq(Events)) /\ Head(down) \in Seq(Events) /\ 1 \in DOMAIN down /\ Head(down) = down[1]
  OBVIOUS
<1>2. \A i \in DOMAIN rest : i + 1 \in DOMAIN down /\ rest[i] = down[i + 1]
  OBVIOUS
<1> HIDE DEF rest
<1>3. DownFits(rest, t, id, d, T)
  BY <1>2 DEF DownFits
<1>4. QED
  BY <1>1, <1>3 DEF rest, DownFits

Advanced(k, up, down, steers, sent, accepted) ==
    [k EXCEPT !.up = up, !.down = down, !.steers = steers, !.sent = sent, !.accepted = accepted]

LEMMA AdvancedFits ==
  ASSUME NEW d, NEW T, NEW k \in Sock, Fits(k, d, T), k.run = "running",
         NEW up \in Seq(Upward), UpOwned(up, k.id, T),
         NEW down \in Seq(Seq(Events)), DownFits(down, k.thread, k.id, d, T),
         NEW steers \in Seq(Nat), Owns(k.id, steers, T),
         NEW sent \in SUBSET {"text", "preview"}, NEW accepted \in BOOLEAN
  PROVE  LET w == Advanced(k, up, down, steers, sent, accepted)
         IN /\ w \in Sock /\ Fits(w, d, T)
            /\ w.id = k.id /\ w.thread = k.thread /\ w.net = k.net /\ w.run = "running"
            /\ w.up = up /\ w.down = down /\ w.steers = steers /\ w.sent = sent
<1> DEFINE w == Advanced(k, up, down, steers, sent, accepted)
<1>1. w \in Sock
  BY DEF Advanced, Sock
<1>2. /\ w.id = k.id /\ w.thread = k.thread /\ w.net = k.net /\ w.run = "running"
      /\ w.up = up /\ w.down = down /\ w.steers = steers /\ w.sent = sent /\ w.start = k.start
  BY DEF Advanced, Sock
<1> HIDE DEF w
<1>3. k.id # 0
  BY DEF Fits, Silent
<1>4. Fits(w, d, T)
  BY <1>2, <1>3 DEF Fits, Silent
<1>5. QED
  BY <1>1, <1>2, <1>4 DEF w

LEMMA BoundPush ==
  ASSUME NEW S, NEW v \in View, NEW l, NEW k \in Sock, NEW w \in Sock, Bound(k, v, l, S),
         k.run = "running", w.run = "running", w.id = k.id, w.thread = k.thread, w.net = k.net,
         l.sock \in Nat, S \in [Turns -> Completed], k.id \in Turns,
         w.up \in Seq(Frames), NEW b, IsTold(b), w.down = Append(k.down, b),
         Acknowledges(b, k.steers, w.steers),
         \A x \in Seq(Texts) : Shown(k, l.sock, S, x) => Shown(w, l.sock, S, TextAfter(x, b))
  PROVE  Bound(w, v, l, S)
<1>1. /\ l.ready /\ Runs(k) /\ v.busy /\ v.retries[v.stream] = NoRetry
      /\ k.id = l.id /\ k.thread = l.thread /\ k.net = "open"
  BY DEF Bound, Carried, Waits, Runs
<1>2. /\ k.down \in Seq(Seq(Events)) /\ k.steers \in Seq(Nat) /\ v.steers \in Seq(Nat)
      /\ b \in Seq(Events)
  BY BurstsAreEvents DEF Sock, View
<1>3. Runs(w)
  <2>1. \A i \in 1 .. Len(Append(k.down, b)) : Append(k.down, b)[i] = b
           \/ (i \in 1 .. Len(k.down) /\ Append(k.down, b)[i] = k.down[i])
    BY <1>2
  <2>2. QED
    BY <1>1, <2>1 DEF Runs
<1>4. Carried(w, v, l)
  BY <1>1, <1>3 DEF Carried
<1>5. TextArrives(w, l.sock, v, S)
  <2>1. PICK y : Arrives(v.text, k.down, y) /\ Shown(k, l.sock, S, y)
    BY <1>1 DEF Bound, TextArrives
  <2>2. y \in Seq(Texts)
    BY <1>2, <2>1, ArrivesTyped, WritingsTyped
  <2>3. Shown(w, l.sock, S, TextAfter(y, b))
    BY <2>1, <2>2
  <2>4. TextAfter(y, b) \in Writings
    BY <2>3, ShownIsWriting
  <2>5. Arrives(v.text, w.down, TextAfter(y, b))
    BY <1>2, <2>1, <2>4, ArrivesAppend
  <2>6. QED
    BY <2>3, <2>5 DEF TextArrives
<1>6. Agrees(w.down, w.steers, v.steers)
  BY <1>2, AgreesPush DEF Bound
<1>7. QED
  BY <1>4, <1>5, <1>6 DEF Bound

\* The server reads a frame and says nothing.
LEMMA BoundRead ==
  ASSUME NEW S, NEW v, NEW l, NEW k, NEW w, Bound(k, v, l, S),
         k.run = "running", w.run = "running", w.id = k.id, w.thread = k.thread, w.net = k.net,
         w.up \in Seq(Frames), w.down = k.down, w.steers = k.steers, w.sent = k.sent
  PROVE  Bound(w, v, l, S)
<1>1. Carried(w, v, l)
  BY DEF Bound, Carried, Waits, Runs
<1>2. \A x : Shown(k, l.sock, S, x) <=> Shown(w, l.sock, S, x)
  BY DEF Shown
<1>3. QED
  BY <1>1, <1>2 DEF Bound, TextArrives

LEMMA EndedFits ==
  ASSUME NEW d, NEW T, NEW k \in Sock, Fits(k, d, T), k.id # 0,
         NEW events, k.down \o events \in Seq(Seq(Events)),
         DownFits(k.down \o events, k.thread, k.id, d, T)
  PROVE  LET w == EndedTurn(k, events)
         IN /\ w \in Sock /\ Fits(w, d, T) /\ w.run = "over" /\ w.up = <<>>
            /\ k.net = "closed" => w.net = "closed"
            /\ k.net # "closed" => /\ w.id = k.id /\ w.thread = k.thread /\ w.net = k.net
                                   /\ w.down = k.down \o events
<1>1. CASE k.net = "closed"
  <2>1. EndedTurn(k, events) = Spent
    BY <1>1 DEF EndedTurn
  <2>2. Spent.run = "over" /\ Spent.up = <<>>
    BY DEF Spent, NewSocket
  <2>3. QED
    BY <1>1, <2>1, <2>2, SpentFits
<1>2. CASE k.net # "closed"
  <2> DEFINE down == k.down \o events
             w == [k EXCEPT !.down = down, !.run = "over", !.up = <<>>, !.start = <<>>,
                            !.steers = <<>>, !.sent = {}, !.accepted = FALSE]
  <2>1. EndedTurn(k, events) = w
    BY <1>2 DEF EndedTurn
  <2> HIDE DEF down
  <2>2. down \in Seq(Seq(Events)) /\ DownFits(down, k.thread, k.id, d, T)
    BY DEF down
  <2>3. w \in Sock
    BY <2>2, NothingSent, NothingTyped DEF Sock
  <2>4. /\ w.run = "over" /\ w.up = <<>> /\ w.id = k.id /\ w.thread = k.thread /\ w.net = k.net
        /\ w.down = down /\ w.start = <<>> /\ w.steers = <<>>
    BY DEF Sock
  <2> HIDE DEF w
  <2>5. Fits(w, d, T)
    BY <2>2, <2>4, NothingSent DEF Fits, Silent
  <2>6. QED
    BY <1>2, <2>1, <2>3, <2>4, <2>5 DEF down
<1>3. QED
  BY <1>1, <1>2

\* The last news of a turn and its end.
LEMMA DownEnded ==
  ASSUME NEW down \in Seq(Seq(Events)), NEW b \in Seq(Events), NEW t, NEW id, NEW d, NEW T,
         DownFits(down, t, id, d, T), BurstSaved(b, t, d), BurstOwned(b, id, T)
  PROVE  /\ down \o <<b, Done>> = Append(Append(down, b), Done)
         /\ down \o <<b, Done>> \in Seq(Seq(Events))
         /\ DownFits(down \o <<b, Done>>, t, id, d, T)
<1>1. Done \in Seq(Events) /\ BurstSaved(Done, t, d) /\ BurstOwned(Done, id, T)
  BY BurstsAreEvents
<1>2. down \o <<b, Done>> = Append(Append(down, b), Done)
  BY <1>1
<1>3. Append(down, b) \in Seq(Seq(Events)) /\ DownFits(Append(down, b), t, id, d, T)
  BY DownAppended
<1>4. /\ Append(Append(down, b), Done) \in Seq(Seq(Events))
      /\ DownFits(Append(Append(down, b), Done), t, id, d, T)
  BY <1>1, <1>3, DownAppended
<1>5. QED
  BY <1>2, <1>4

LEMMA BoundEnds ==
  ASSUME NEW S, NEW S2, NEW v \in View, NEW l, NEW k \in Sock, NEW w \in Sock, Bound(k, v, l, S),
         l.ready, k.run # "over", w.run = "over", w.id = k.id, w.thread = k.thread, w.net = k.net,
         l.sock \in Nat, S2 \in [Turns -> Completed], k.id \in Turns,
         w.up = <<>>, NEW b, IsTold(b) \/ IsLast(b), w.down = k.down \o <<b, Done>>,
         \A x \in Seq(Texts) : Shown(k, l.sock, S, x) => Shown(w, l.sock, S2, TextAfter(x, b))
  PROVE  Bound(w, v, l, S2)
<1> DEFINE n == Len(k.down)
           mid == Append(k.down, b)
           all == Append(mid, Done)
<1>1. k.down \in Seq(Seq(Events)) /\ b \in Seq(Events) /\ Done \in Seq(Events) /\ n \in Nat
  BY BurstsAreEvents, SMTT(30) DEF Sock
<1>2. /\ w.down = all /\ mid \in Seq(Seq(Events)) /\ Len(mid) = n + 1
      /\ all \in Seq(Seq(Events)) /\ Len(all) = n + 2
      /\ all[n + 2] = Done /\ all[n + 1] = b /\ \A i \in 1 .. n : all[i] = k.down[i]
  <2>1. mid \in Seq(Seq(Events)) /\ Len(mid) = n + 1 /\ mid[n + 1] = b
        /\ \A i \in 1 .. n : mid[i] = k.down[i]
    BY <1>1
  <2>2. w.down = all
    BY <1>1, SMTT(30)
  <2> HIDE DEF mid
  <2>3. all \in Seq(Seq(Events)) /\ Len(all) = Len(mid) + 1 /\ all[Len(mid) + 1] = Done
        /\ \A i \in 1 .. Len(mid) : all[i] = mid[i]
    BY <1>1, <2>1, SMTT(30)
  <2> HIDE DEF all, n
  <2>4. 1 .. n \subseteq 1 .. (n + 1) /\ n + 1 \in 1 .. (n + 1) /\ (n + 1) + 1 = n + 2
    BY <1>1
  <2>5. QED
    BY <2>1, <2>2, <2>3, <2>4
<1>3. /\ k.id = l.id /\ k.thread = l.thread /\ k.net = "open" /\ v.busy
      /\ v.retries[v.stream] = NoRetry /\ \A i \in 1 .. n : IsTold(k.down[i])
  <2>1. k.run \in {"none", "running"}
    BY DEF Sock
  <2>2. CASE k.run = "none"
    <3>1. k.net = "open" /\ k.down = <<>>
      BY <2>2 DEF Bound, Carried, Begins
    <3>2. QED
      BY <2>2, <3>1, NothingTyped DEF Bound, Carried
  <2>3. CASE k.run = "running"
    BY <2>3 DEF Bound, Carried, Runs
  <2>4. QED
    BY <2>1, <2>2, <2>3
<1> HIDE DEF n, all, mid
<1>4. Ends(w)
  <2>0. n \in Nat /\ Len(w.down) = n + 2
    BY <1>1, <1>2
  <2>1. Len(w.down) = n + 2 /\ (n + 2) - 2 = n /\ (n + 2) - 1 = n + 1 /\ n + 2 >= 1
    BY <2>0
  <2>2. \A i \in 1 .. n : IsTold(w.down[i])
    BY <1>2, <1>3
  <2>3. QED
    BY <1>2, <1>3, <2>1, <2>2 DEF Ends
<1>5. Carried(w, v, l)
  <2>1. w.up \in Seq(Frames)
    BY NothingSent
  <2>2. QED
    BY <1>3, <1>4, <2>1 DEF Carried
<1>6. TextArrives(w, l.sock, v, S2)
  <2>1. PICK y : Arrives(v.text, k.down, y) /\ Shown(k, l.sock, S, y)
    BY DEF Bound, TextArrives
  <2> DEFINE x == TextAfter(y, b)
  <2>2. y \in Seq(Texts)
    BY <1>1, <2>1, ArrivesTyped, WritingsTyped
  <2>3. Shown(w, l.sock, S2, x)
    BY <2>1, <2>2
  <2>4. x \in Writings
    BY <2>3, ShownIsWriting
  <2>5. TextAfter(x, Done) = x
    BY BurstsAreEvents
  <2>6. Arrives(v.text, mid, x)
    BY <1>1, <2>1, <2>4, ArrivesAppend DEF mid
  <2> HIDE DEF x
  <2>7. Arrives(v.text, all, TextAfter(x, Done))
    BY <1>1, <1>2, <2>4, <2>5, <2>6, ArrivesAppend DEF all
  <2>8. QED
    BY <1>2, <2>3, <2>5, <2>7 DEF TextArrives
<1>7. QED
  BY <1>5, <1>6 DEF Bound

Begun(k) == [k EXCEPT !.up = Tail(@), !.run = "running", !.steers = k.start]

LEMMA BegunFits ==
  ASSUME NEW d, NEW T, NEW k \in Sock, Fits(k, d, T), k.up # <<>>
  PROVE  LET w == Begun(k)
         IN /\ w \in Sock /\ Fits(w, d, T)
            /\ w.id = k.id /\ w.thread = k.thread /\ w.net = k.net /\ w.run = "running"
            /\ w.up = Tail(k.up) /\ w.down = k.down /\ w.steers = k.start /\ w.sent = k.sent
<1> DEFINE up == Tail(k.up)
           w == [k EXCEPT !.up = up, !.run = "running", !.steers = k.start]
<1>1. k.up \in Seq(Upward) /\ UpOwned(k.up, k.id, T)
  BY DEF Sock, Fits
<1>2. up \in Seq(Upward) /\ UpOwned(up, k.id, T)
  BY <1>1, UpShortened
<1>3. Begun(k) = w
  BY DEF Begun
<1> HIDE DEF up
<1>4. w \in Sock
  BY <1>2 DEF Sock
<1>5. /\ w.id = k.id /\ w.thread = k.thread /\ w.net = k.net /\ w.run = "running" /\ w.up = up
      /\ w.down = k.down /\ w.steers = k.start /\ w.sent = k.sent /\ w.start = k.start
  BY DEF Sock
<1> HIDE DEF w
<1>6. k.id # 0
  BY DEF Fits, Silent
<1>7. Fits(w, d, T)
  BY <1>2, <1>5, <1>6 DEF Fits, Silent
<1>8. QED
  BY <1>3, <1>4, <1>5, <1>7 DEF up

LEMMA BoundBegins ==
  ASSUME NEW S, NEW v \in View, NEW l, NEW k \in Sock, NEW w \in Sock, Bound(k, v, l, S),
         l.ready, k.run = "none",
         w.id = k.id, w.thread = k.thread, w.net = k.net, w.run = "running",
         w.up \in Seq(Frames), w.down = k.down, w.steers = k.start, w.sent = k.sent
  PROVE  Bound(w, v, l, S)
<1>1. /\ k.net = "open" /\ k.down = <<>> /\ k.start = v.steers /\ k.sent = {}
      /\ k.id = l.id /\ k.thread = l.thread /\ v.busy /\ v.retries[v.stream] = NoRetry
  BY DEF Bound, Carried, Begins
<1>2. Carried(w, v, l)
  BY <1>1, NothingTyped DEF Carried, Runs
<1>3. \A x : Shown(k, l.sock, S, x) <=> Shown(w, l.sock, S, x)
  BY <1>1 DEF Shown
<1>4. TextArrives(w, l.sock, v, S)
  BY <1>3 DEF Bound, TextArrives
<1>5. Agrees(w.down, w.steers, v.steers)
  <2>1. v.steers \in Seq(Nat) /\ w.steers = v.steers /\ Len(v.steers) \in Nat
    BY <1>1 DEF View
  <2>2. IsPrefix(v.steers, w.steers)
    BY <2>1, PrefixExtends DEF Extends
  <2>3. \A i, j : ~IsAck(w.down, i, j)
    BY <1>1, NothingTyped DEF IsAck
  <2>4. Len(v.steers) + 1 .. Len(w.steers) = {}
    BY <2>1
  <2>5. QED
    BY <2>2, <2>3, <2>4 DEF Agrees
<1>6. QED
  BY <1>2, <1>4, <1>5 DEF Bound

-----------------------------------------------------------------------------
(* The client's end of a connection.                                       *)

Answered(k) == [k EXCEPT !.net = "open", !.down = <<Ready>>]

LEMMA AnsweredFits ==
  ASSUME NEW d, NEW T, NEW k \in Sock, Fits(k, d, T), k.net = "connecting"
  PROVE  LET w == Answered(k)
         IN /\ w \in Sock /\ Fits(w, d, T)
            /\ w.id = k.id /\ w.thread = k.thread /\ w.net = "open" /\ w.up = k.up
            /\ w.down = <<Ready>> /\ w.start = k.start /\ w.run = k.run /\ w.sent = k.sent
<1> DEFINE down == <<Ready>>
           w == [k EXCEPT !.net = "open", !.down = down]
<1>1. down \in Seq(Seq(Events)) /\ \A i \in DOMAIN down : down[i] = Ready
  BY BurstsAreEvents
<1>2. DownFits(down, k.thread, k.id, d, T)
  BY <1>1, BurstsAreEvents DEF DownFits
<1>3. Answered(k) = w
  BY DEF Answered
<1>4. down = <<Ready>>
  OBVIOUS
<1> HIDE DEF down
<1>5. w \in Sock
  BY <1>1 DEF Sock
<1>6. /\ w.id = k.id /\ w.thread = k.thread /\ w.net = "open" /\ w.up = k.up /\ w.down = down
      /\ w.start = k.start /\ w.run = k.run /\ w.sent = k.sent /\ w.steers = k.steers
  BY DEF Sock
<1> HIDE DEF w
<1>7. k.id # 0
  BY DEF Fits, Silent
<1>8. Fits(w, d, T)
  BY <1>2, <1>6, <1>7 DEF Fits, Silent
<1>9. QED
  BY <1>3, <1>4, <1>5, <1>6, <1>8

LEMMA BoundAnswered ==
  ASSUME NEW S, NEW v, NEW l, NEW k \in Sock, NEW w, Bound(k, v, l, S), k.net = "connecting",
         w.id = k.id, w.thread = k.thread, w.net = "open", w.up = k.up, w.down = <<Ready>>,
         w.start = k.start, w.run = k.run, w.sent = k.sent
  PROVE  Bound(w, v, l, S)
<1>1. k.run \in {"none", "running", "over"}
  BY DEF Sock
<1>2. ~l.ready
  BY <1>1 DEF Bound, Carried, Begins, Runs, Ends
<1>3. Waits(k, l)
  BY <1>2 DEF Bound, Carried
<1>4. Waits(w, l)
  BY <1>3 DEF Waits
<1>5. Carried(w, v, l)
  BY <1>2, <1>3, <1>4 DEF Bound, Carried, Waits
<1>6. QED
  BY <1>2, <1>3, <1>5 DEF Bound, Waits

\* What the next frame of an attached connection says of it.
LEMMA NextFrame ==
  ASSUME NEW S, NEW v, NEW l, NEW k \in Sock, Bound(k, v, l, S), k.down # <<>>
  PROVE  LET b == Head(k.down)
         IN /\ b = Ready => ~l.ready /\ k.down = <<Ready>> /\ k.net = "open"
            /\ ~l.ready => b = Ready
            /\ b = Done => l.ready /\ k.run = "over" /\ Len(k.down) = 1
            /\ b # Ready /\ b # Done =>
                  /\ l.ready /\ v.busy /\ v.retries[v.stream] = NoRetry
                  /\ IsTold(b) \/ (IsLast(b) /\ k.run = "over" /\ Len(k.down) = 2)
                  /\ k.run = "running" \/ (k.run = "over" /\ Len(k.down) >= 2)
<1> DEFINE b == Head(k.down)
           n == Len(k.down)
<1>1. k.down \in Seq(Seq(Events)) /\ n \in Nat /\ n >= 1 /\ b = k.down[1]
  BY DEF Sock
<1>2. k.run \in {"none", "running", "over"}
  BY DEF Sock
<1>3. CASE ~l.ready
  <2>1. k.down = <<Ready>> /\ k.net = "open"
    BY <1>3 DEF Bound, Carried, Waits
  <2>2. Head(<<Ready>>) = Ready
    OBVIOUS
  <2>3. QED
    BY <1>3, <2>1, <2>2, BurstsAreEvents
<1>4. CASE l.ready /\ k.run = "none"
  BY <1>4 DEF Bound, Carried, Begins
<1>5. CASE l.ready /\ k.run = "running"
  <2>1. Runs(k) /\ 1 \in 1 .. n
    BY <1>1, <1>5 DEF Bound, Carried
  <2>2. IsTold(b)
    BY <1>1, <2>1 DEF Runs
  <2>3. v.busy /\ v.retries[v.stream] = NoRetry
    BY <1>5 DEF Bound, Carried
  <2>4. QED
    BY <1>5, <2>2, <2>3, BurstsAreEvents
<1>6. CASE l.ready /\ k.run = "over" /\ n = 1
  <2>1. k.down[n] = Done
    BY <1>6 DEF Bound, Carried, Ends
  <2>2. QED
    BY <1>1, <1>6, <2>1, BurstsAreEvents
<1>7. CASE l.ready /\ k.run = "over" /\ n # 1
  <2>1. Ends(k) /\ (n >= 2 => IsTold(k.down[n - 1]) \/ IsLast(k.down[n - 1]))
        /\ \A i \in 1 .. (n - 2) : IsTold(k.down[i])
    BY <1>7 DEF Bound, Carried, Ends
  <2>5. ~v.busy \/ v.retries[v.stream] # NoRetry => n = 1
    BY DEF Bound, Carried
  <2> HIDE DEF b, n
  <2>2. IsTold(b) \/ (IsLast(b) /\ n = 2)
    <3>1. CASE n = 2
      <4>1. IsTold(k.down[n - 1]) \/ IsLast(k.down[n - 1])
        BY <2>1, <3>1
      <4>2. k.down[n - 1] = b
        BY <1>1, <3>1
      <4>3. QED
        BY <3>1, <4>1, <4>2
    <3>2. CASE n # 2
      <4>1. 1 \in 1 .. (n - 2)
        BY <1>1, <1>7, <3>2
      <4>2. QED
        BY <1>1, <2>1, <4>1
    <3>3. QED
      BY <3>1, <3>2
  <2>3. v.busy /\ v.retries[v.stream] = NoRetry
    BY <1>7, <2>5
  <2>4. n >= 2
    BY <1>1, <1>7
  <2>6. QED
    BY <1>7, <2>2, <2>3, <2>4, BurstsAreEvents DEF b, n
<1>8. QED
  BY <1>2, <1>3, <1>4, <1>5, <1>6, <1>7

Read(k, up) == [k EXCEPT !.down = Tail(k.down), !.up = up]

LEMMA ReadFits ==
  ASSUME NEW d, NEW T, NEW k \in Sock, Fits(k, d, T), k.down # <<>>,
         NEW up \in Seq(Upward), UpOwned(up, k.id, T)
  PROVE  LET w == Read(k, up)
         IN /\ w \in Sock /\ Fits(w, d, T)
            /\ w.id = k.id /\ w.thread = k.thread /\ w.net = k.net /\ w.up = up
            /\ w.down = Tail(k.down) /\ w.start = k.start /\ w.run = k.run
            /\ w.steers = k.steers /\ w.sent = k.sent
<1> DEFINE down == Tail(k.down)
           w == [k EXCEPT !.down = down, !.up = up]
<1>1. k.down \in Seq(Seq(Events)) /\ DownFits(k.down, k.thread, k.id, d, T)
  BY DEF Sock, Fits
<1>2. down \in Seq(Seq(Events)) /\ DownFits(down, k.thread, k.id, d, T)
  BY <1>1, DownShortened
<1>3. Read(k, up) = w
  BY DEF Read
<1> HIDE DEF down
<1>4. w \in Sock
  BY <1>2 DEF Sock
<1>5. /\ w.id = k.id /\ w.thread = k.thread /\ w.net = k.net /\ w.up = up /\ w.down = down
      /\ w.start = k.start /\ w.run = k.run /\ w.steers = k.steers /\ w.sent = k.sent
  BY DEF Sock
<1> HIDE DEF w
<1>6. k.id # 0
  BY DEF Fits, Silent
<1>7. Fits(w, d, T)
  BY <1>2, <1>5, <1>6 DEF Fits, Silent
<1>8. QED
  BY <1>3, <1>4, <1>5, <1>7 DEF down

\* The connection is accepted: the turn starts.
LEMMA BoundReady ==
  ASSUME NEW S, NEW T, NEW v, NEW l, NEW m, NEW k \in Sock, NEW w, Bound(k, v, l, S),
         k.down # <<>>, Head(k.down) = Ready, LinkFits(l, v, T), l.sock # 0,
         m.ready, m.id = l.id, m.thread = l.thread,
         w.id = k.id, w.thread = k.thread, w.net = k.net, w.up \in Seq(Frames),
         w.down = Tail(k.down), w.start = k.start, w.run = k.run, w.sent = k.sent
  PROVE  Bound(w, v, m, S)
<1>1. ~l.ready /\ k.down = <<Ready>> /\ k.net = "open"
  BY NextFrame
<1>2. Waits(k, l) /\ k.id = l.id /\ k.thread = l.thread /\ k.run = "none" /\ k.sent = {}
      /\ k.start = l.replay
  BY <1>1 DEF Bound, Carried, Waits
<1>3. v.busy /\ v.text = <<>> /\ v.retries[v.stream] = NoRetry /\ l.replay = v.steers
  BY <1>1 DEF LinkFits
<1>4. Tail(<<Ready>>) = <<>>
  OBVIOUS
<1>5. Carried(w, v, m)
  BY <1>1, <1>2, <1>3, <1>4 DEF Carried, Begins
<1>6. TextArrives(w, m.sock, v, S)
  <2>1. Arrives(<<>>, <<>>, <<>>)
    BY ArrivesNone, WritingsTyped
  <2>2. Shown(w, m.sock, S, <<>>)
    BY <1>2 DEF Shown
  <2>3. QED
    BY <1>1, <1>3, <1>4, <2>1, <2>2 DEF TextArrives
<1>7. QED
  BY <1>2, <1>5, <1>6 DEF Bound

\* `done`: what is on the screen is what was stored, or nothing.
LEMMA BoundDone ==
  ASSUME NEW S, NEW v, NEW l, NEW k \in Sock, Bound(k, v, l, S), k.down # <<>>,
         Head(k.down) = Done
  PROVE  v.text # <<>> => S[k.id] # NoTurn /\ v.text = <<[by |-> S[k.id].by, steers |-> S[k.id].steers]>>
<1>1. l.ready /\ k.run = "over" /\ Len(k.down) = 1
  BY NextFrame
<1>2. k.down \in Seq(Seq(Events))
  BY DEF Sock
<1>3. Tail(k.down) = <<>>
  <2>1. Tail(k.down) \in Seq(Seq(Events)) /\ Len(Tail(k.down)) = Len(k.down) - 1
    BY <1>2, HeadTailProperties
  <2>2. Len(Tail(k.down)) = 0
    BY <1>1, <2>1
  <2>3. QED
    BY <2>1, <2>2, EmptySeq
<1>4. PICK y : Arrives(v.text, k.down, y) /\ Shown(k, l.sock, S, y)
  BY <1>1 DEF Bound, TextArrives
<1>5. Arrives(TextAfter(v.text, Done), <<>>, y)
  BY <1>2, <1>3, <1>4, ArrivesTail
<1>6. y = v.text
  BY <1>5, ArrivesNone, BurstsAreEvents
<1>7. QED
  BY <1>1, <1>4, <1>6 DEF Shown

\* News of the turn.
LEMMA BoundReads ==
  ASSUME NEW S, NEW v, NEW x, NEW l, NEW k \in Sock, NEW w \in Sock, Bound(k, v, l, S),
         k.down # <<>>, Head(k.down) # Ready, Head(k.down) # Done,
         v \in View, x.stream = v.stream, x.text = TextAfter(v.text, Head(k.down)),
         IsTold(Head(k.down)) => /\ x.busy /\ x.retries[x.stream] = NoRetry
                                 /\ x.steers = Known(v.steers, Head(k.down)),
         w.id = k.id, w.thread = k.thread, w.net = k.net, w.up = k.up,
         w.down = Tail(k.down), w.start = k.start, w.run = k.run, w.sent = k.sent,
         w.steers = k.steers
  PROVE  Bound(w, x, l, S)
<1> DEFINE b == Head(k.down)
           n == Len(k.down)
<1>1. /\ l.ready /\ v.busy /\ v.retries[v.stream] = NoRetry
      /\ IsTold(b) \/ (IsLast(b) /\ k.run = "over" /\ n = 2)
      /\ k.run = "running" \/ (k.run = "over" /\ n >= 2)
  BY NextFrame
<1>2. k.down \in Seq(Seq(Events)) /\ k.steers \in Seq(Nat) /\ v.steers \in Seq(Nat)
  BY DEF Sock, View
<1>3. n \in Nat /\ n >= 1 /\ Len(w.down) = n - 1 /\ \A i \in 1 .. (n - 1) : w.down[i] = k.down[i + 1]
  BY <1>2
<1> HIDE DEF b, n
<1>4. k.run = "running" => Runs(w)
  <2>1. SUFFICES ASSUME k.run = "running"
                 PROVE  Runs(w)
    OBVIOUS
  <2>2. Runs(k)
    BY <1>1, <2>1 DEF Bound, Carried
  <2>3. ASSUME NEW i \in 1 .. Len(w.down)
        PROVE  IsTold(w.down[i])
    <3>1. i \in 1 .. (n - 1) /\ i + 1 \in 1 .. Len(k.down)
      BY <1>3, <2>3 DEF n
    <3>2. IsTold(k.down[i + 1])
      BY <2>2, <3>1 DEF Runs
    <3>3. QED
      BY <1>3, <3>1, <3>2
  <2>4. QED
    BY <2>2, <2>3 DEF Runs
<1>5. k.run = "over" => Ends(w)
  <2>1. SUFFICES ASSUME k.run = "over"
                 PROVE  Ends(w)
    OBVIOUS
  <2>2. /\ k.net = "open" /\ k.down[n] = Done
        /\ \A i \in 1 .. (n - 2) : IsTold(k.down[i])
        /\ n >= 2 => IsTold(k.down[n - 1]) \/ IsLast(k.down[n - 1])
    BY <1>1, <2>1 DEF Bound, Carried, Ends, n
  <2>3. n >= 2
    BY <1>1, <2>1
  <2>4. w.down[n - 1] = Done
    <3>1. n - 1 \in 1 .. (n - 1) /\ (n - 1) + 1 = n
      BY <1>3, <2>3
    <3>2. QED
      BY <1>3, <2>2, <3>1
  <2>5. ASSUME NEW i \in 1 .. ((n - 1) - 2)
        PROVE  IsTold(w.down[i])
    <3>1. i \in 1 .. (n - 1) /\ i + 1 \in 1 .. (n - 2)
      BY <1>3, <2>5
    <3>2. QED
      BY <1>3, <2>2, <3>1
  <2>6. ASSUME n - 1 >= 2
        PROVE  IsTold(w.down[(n - 1) - 1]) \/ IsLast(w.down[(n - 1) - 1])
    <3>1. (n - 1) - 1 \in 1 .. (n - 1) /\ ((n - 1) - 1) + 1 = n - 1
      BY <1>3, <2>6
    <3>2. w.down[(n - 1) - 1] = k.down[n - 1]
      BY <1>3, <3>1
    <3>3. QED
      BY <2>2, <2>3, <3>2
  <2>7. n - 1 >= 1
    BY <1>3, <2>3
  <2>8. QED
    BY <1>3, <2>2, <2>4, <2>5, <2>6, <2>7 DEF Ends
<1>6. ~x.busy \/ x.retries[x.stream] # NoRetry => w.run = "over" /\ Len(w.down) = 1
  <2>1. SUFFICES ASSUME ~x.busy \/ x.retries[x.stream] # NoRetry
                 PROVE  w.run = "over" /\ Len(w.down) = 1
    OBVIOUS
  <2>2. k.run = "over" /\ n = 2
    BY <1>1, <2>1 DEF b
  <2>3. QED
    BY <1>3, <2>2
<1>7. Carried(w, x, l)
  BY <1>1, <1>4, <1>5, <1>6 DEF Bound, Carried
<1>8. TextArrives(w, l.sock, x, S)
  <2>1. PICK y : Arrives(v.text, k.down, y) /\ Shown(k, l.sock, S, y)
    BY <1>1 DEF Bound, TextArrives
  <2>2. Arrives(x.text, w.down, y)
    BY <1>2, <2>1, ArrivesTail
  <2>3. Shown(w, l.sock, S, y)
    BY <2>1 DEF Shown
  <2>4. QED
    BY <2>2, <2>3 DEF TextArrives
<1>9. w.run = "running" => Agrees(w.down, w.steers, x.steers)
  <2>1. SUFFICES ASSUME k.run = "running"
                 PROVE  Agrees(Tail(k.down), k.steers, x.steers)
    OBVIOUS
  <2>2. IsTold(b) /\ x.steers = Known(v.steers, b) /\ Agrees(k.down, k.steers, v.steers)
    BY <1>1, <2>1 DEF Bound, b
  <2>3. QED
    BY <1>2, <2>2, AgreesHead DEF b
<1>10. QED
  BY <1>7, <1>8, <1>9 DEF Bound

-----------------------------------------------------------------------------
(* What else may change about an attached connection.                      *)

LEMMA BoundElsewhere ==
  ASSUME NEW S, NEW v, NEW x, NEW l, NEW m, NEW k, Bound(k, v, l, S),
         x.text = v.text, x.steers = v.steers, x.stream = v.stream, x.busy = v.busy,
         x.retries = v.retries,
         m.sock = l.sock, m.id = l.id, m.thread = l.thread, m.ready = l.ready,
         m.replay = l.replay
  PROVE  Bound(k, x, m, S)
<1>1. Carried(k, x, m)
  BY DEF Bound, Carried, Waits, Begins
<1>2. QED
  BY <1>1 DEF Bound, TextArrives

Sent(k, frame) == [k EXCEPT !.up = Append(k.up, frame)]

LEMMA SentFits ==
  ASSUME NEW d, NEW T, NEW k \in Sock, Fits(k, d, T), k.id # 0, NEW f \in Frames,
         f[1] = "steer" => f[2] \in DOMAIN T /\ T[f[2]] = k.id
  PROVE  Sent(k, f) \in Sock /\ Fits(Sent(k, f), d, T)
<1> DEFINE up == Append(k.up, f)
           w == [k EXCEPT !.up = up]
<1>1. k.up \in Seq(Upward) /\ UpOwned(k.up, k.id, T) /\ f \in Upward
  BY DEF Sock, Fits, Upward
<1>2. up \in Seq(Upward) /\ \A i \in DOMAIN up : up[i] = f \/ (i \in DOMAIN k.up /\ up[i] = k.up[i])
  BY <1>1
<1> HIDE DEF up
<1>3. UpOwned(up, k.id, T)
  BY <1>1, <1>2 DEF UpOwned
<1>4. w \in Sock
  BY <1>2 DEF Sock
<1>5. /\ w.id = k.id /\ w.thread = k.thread /\ w.net = k.net /\ w.up = up /\ w.down = k.down
      /\ w.start = k.start /\ w.run = k.run /\ w.steers = k.steers
  BY DEF Sock
<1>6. Sent(k, f) = w
  BY DEF Sent, up
<1> HIDE DEF w
<1>7. Fits(w, d, T)
  BY <1>3, <1>5 DEF Fits, Silent
<1>8. QED
  BY <1>4, <1>6, <1>7

LEMMA BoundSent ==
  ASSUME NEW S, NEW v, NEW l, NEW k \in Sock, Bound(k, v, l, S), l.ready, NEW f \in Frames
  PROVE  Bound(Sent(k, f), v, l, S)
<1> DEFINE w == Sent(k, f)
<1>1. /\ w.id = k.id /\ w.thread = k.thread /\ w.net = k.net /\ w.up = Append(k.up, f)
      /\ w.down = k.down /\ w.start = k.start /\ w.run = k.run /\ w.steers = k.steers
      /\ w.sent = k.sent
  BY DEF Sent, Sock
<1> HIDE DEF w
<1>2. w.up \in Seq(Frames)
  <2>1. k.up \in Seq(Frames)
    BY DEF Bound, Carried
  <2>2. QED
    BY <1>1, <2>1
<1>3. Carried(w, v, l)
  BY <1>1, <1>2 DEF Bound, Carried, Begins, Runs, Ends
<1>4. \A y : Shown(k, l.sock, S, y) <=> Shown(w, l.sock, S, y)
  BY <1>1 DEF Shown
<1>5. Bound(w, v, l, S)
  BY <1>1, <1>3, <1>4 DEF Bound, TextArrives
<1>6. QED
  BY <1>5 DEF w

\* A connection just asked for.
LEMMA BoundConnecting ==
  ASSUME NEW S, NEW v, NEW l, ~l.ready, v.busy, v.retries[v.stream] = NoRetry
  PROVE  Bound(Connecting(l.id, l.thread, l.replay), v, l, S)
<1> DEFINE k == Connecting(l.id, l.thread, l.replay)
<1>1. /\ k.id = l.id /\ k.thread = l.thread /\ k.net = "connecting" /\ k.up = <<>> /\ k.down = <<>>
      /\ k.start = l.replay /\ k.run = "none" /\ k.sent = {}
  BY DEF Connecting, NewSocket
<1> HIDE DEF k
<1>2. Carried(k, v, l)
  BY <1>1, NothingSent DEF Carried, Waits
<1>3. Bound(k, v, l, S)
  BY <1>1, <1>2 DEF Bound
<1>4. QED
  BY <1>3 DEF k

-----------------------------------------------------------------------------
(* Steps.                                                                  *)

LEMMA InvGrows ==
  ASSUME ClientInv, NEW S2, NEW d2, NEW T2, NEW n2,
         Grows(stored, diagram, typed, turns, S2, d2, T2, n2)
  PROVE  /\ World(S2, d2, T2, n2)
         /\ ViewFits(view, S2, d2, T2, n2) /\ LinkFits(link, view, T2)
         /\ CallFits(call, view, d2, T2, n2) /\ LoadFits(load, d2)
         /\ SocksFit(sock, d2, T2)
         /\ Attached => Bound(sock[link.sock], view, link, S2)
<1>1. World(S2, d2, T2, n2)
  BY DEF Grows
<1>2. ViewFits(view, S2, d2, T2, n2)
  BY ViewGrows DEF ClientInv
<1>3. LinkFits(link, view, T2)
  BY LinkGrows DEF ClientInv
<1>4. CallFits(call, view, d2, T2, n2)
  BY CallGrows DEF ClientInv
<1>5. LoadFits(load, d2)
  BY LoadGrows DEF ClientInv
<1>6. SocksFit(sock, d2, T2)
  BY SocksGrow DEF ClientInv
<1>7. ASSUME Attached
      PROVE  Bound(sock[link.sock], view, link, S2)
  <2>1. Bound(sock[link.sock], view, link, stored)
    BY <1>7 DEF ClientInv, Connected
  <2>2. sock[link.sock].id = view.stream /\ view.stream # 0
    BY <1>7, <2>1 DEF ClientInv, LinkFits, Bound, Carried, Attached
  <2>3. view.stream \in 0 .. MaxTurns
    BY DEF ClientInv, ViewFits, View
  <2>4. sock[link.sock].id \in Turns
    BY <2>2, <2>3, Parameters DEF Turns
  <2>5. QED
    BY <2>1, <2>4, BoundGrows
<1>8. QED
  BY <1>1, <1>2, <1>3, <1>4, <1>5, <1>6, <1>7

\* Nothing of the page, the transport or the server changes but what is asked of the server.
LEMMA SessionStep ==
  ASSUME ClientInv, UNCHANGED <<view, link, sock, stored, turns, typed>>,
         Grows(stored, diagram, typed, turns, stored, diagram', typed, turns),
         CallFits(call', view, diagram', typed, turns), LoadFits(load', diagram'),
         gone' \subseteq Threads, calls' \in Nat
  PROVE  ClientInv'
<1>1. /\ World(stored, diagram', typed, turns)
      /\ ViewFits(view, stored, diagram', typed, turns) /\ LinkFits(link, view, typed)
      /\ SocksFit(sock, diagram', typed)
  BY InvGrows
<1>2. Connected'
  BY DEF ClientInv, Connected, Attached
<1>3. QED
  BY <1>1, <1>2 DEF ClientInv

LEMMA Quiet ==
  ASSUME ClientInv
  PROVE  Grows(stored, diagram, typed, turns, stored, diagram, typed, turns)
BY WorldStays DEF ClientInv

LEMMA CallAsked ==
  ASSUME ClientInv, view.thread # NoThread, NEW kind \in {"create", "edit", "restore"}
  PROVE  CallFits(NewCall(kind), view, diagram, typed, turns)
<1> DEFINE c == NewCall(kind)
<1>1. view.thread \in Threads /\ view.durable \in Versions
  BY DEF ClientInv, ViewFits, View, Somewhere
<1>2. 0 \in 0 .. MaxTurns /\ 0 \in Nat
  BY Parameters
<1>3. <<>> \in Answers
  BY DEF Answers
<1>4. c \in Calls
  BY <1>1, <1>2, <1>3, NothingTyped DEF NewCall, Calls
<1>5. /\ c.number = 0 /\ c.thread = view.thread /\ c.id = 0 /\ c.steers = <<>> /\ ~c.served
      /\ c.kind # "retry"
  BY DEF NewCall
<1> HIDE DEF c
<1>6. 0 <= diagram[c.thread]
  BY <1>1, <1>5, Parameters DEF ClientInv, World
<1>7. CallFits(c, view, diagram, typed, turns)
  BY <1>4, <1>5, <1>6, NothingSent DEF CallFits
<1>8. QED
  BY <1>7 DEF c

LEMMA LoadAsked ==
  ASSUME ClientInv, NEW t \in Threads
  PROVE  LoadFits(Opening(t), diagram)
<1> DEFINE c == Opening(t)
<1>1. <<>> \in Answers /\ 0 \in Nat
  BY DEF Answers
<1>2. c \in Loads
  BY <1>1 DEF Opening, Loads
<1>3. c.number = 0 /\ c.thread = t /\ ~c.served
  BY DEF Opening
<1> HIDE DEF c
<1>4. 0 <= diagram[t]
  BY Parameters DEF ClientInv, World
<1>5. LoadFits(c, diagram)
  BY <1>2, <1>3, <1>4 DEF LoadFits
<1>6. QED
  BY <1>5 DEF c

LEMMA OpenThreadKeeps ==
  ASSUME ClientInv, NEW t \in Threads, OpenThread(t)
  PROVE  ClientInv'
<1>1. LoadFits(load', diagram')
  BY LoadAsked DEF OpenThread
<1>2. CallFits(call', view, diagram', typed, turns) /\ gone' \subseteq Threads /\ calls' \in Nat
  BY DEF OpenThread, ClientInv
<1>3. QED
  BY <1>1, <1>2, Quiet, SessionStep DEF OpenThread

LEMMA AskingKeeps ==
  ASSUME ClientInv, NewChat \/ SaveGraphEdit \/ RestoreRevision
  PROVE  ClientInv'
<1>1. view.thread # NoThread /\ \E kind \in {"create", "edit", "restore"} : call' = NewCall(kind)
  BY DEF NewChat, SaveGraphEdit, RestoreRevision, Ask, ComposerOpen, Resting
<1>2. CallFits(call', view, diagram, typed, turns)
  BY <1>1, CallAsked
<1>3. /\ UNCHANGED <<view, link, sock, stored, diagram, load, gone, turns, typed>>
      /\ calls' = calls + 1
  BY DEF NewChat, SaveGraphEdit, RestoreRevision, Ask
<1>4. LoadFits(load', diagram') /\ gone' \subseteq Threads /\ calls' \in Nat
  BY <1>3 DEF ClientInv
<1>5. QED
  BY <1>2, <1>3, <1>4, Quiet, SessionStep

LEMMA NotServedFails ==
  ASSUME ClientInv, CallFails \/ LoadFails
  PROVE  ClientInv'
<1>1. CallFits(NoCall, view, diagram, typed, turns) /\ LoadFits(NoCall, diagram)
  BY DEF CallFits, LoadFits
<1>2. CallFits(call', view, diagram, typed, turns) /\ LoadFits(load', diagram)
  BY <1>1 DEF CallFails, LoadFails, ClientInv
<1>3. UNCHANGED <<view, link, sock, stored, diagram, gone, turns, calls, typed>>
  BY DEF CallFails, LoadFails
<1>4. gone' \subseteq Threads /\ calls' \in Nat
  BY <1>3 DEF ClientInv
<1>5. QED
  BY <1>2, <1>3, <1>4, Quiet, SessionStep

LEMMA RetryAsked ==
  ASSUME ClientInv, NEW id \in Turns, RetryMessage(id), view.retries[id].kind = "replay"
  PROVE  ClientInv'
<1> DEFINE c == [NewCall("retry") EXCEPT !.id = id, !.steers = view.retries[id].steers]
<1>1. /\ call' = c /\ view.thread # NoThread /\ view.stream = 0
      /\ UNCHANGED <<view, link, sock, stored, diagram, load, gone, turns, calls, typed>>
  BY DEF RetryMessage, Resting
<1>2. view.thread \in Threads /\ view.durable \in Versions /\ view.retries[id] \in Retries
  BY <1>1 DEF ClientInv, ViewFits, View, Somewhere
<1>3. view.retries[id].steers \in Seq(Nat)
  BY <1>2 DEF Retries
<1>4. id \in 0 .. MaxTurns /\ 0 \in Nat /\ <<>> \in Answers
  BY Parameters DEF Turns, Answers
<1> DEFINE a == NewCall("retry")
<1>5. a \in Calls /\ a.number = 0 /\ a.thread = view.thread /\ ~a.served
  <2>1. 0 \in 0 .. MaxTurns
    BY Parameters
  <2>2. QED
    BY <1>2, <1>4, <2>1, NothingTyped DEF NewCall, Calls
<1> HIDE DEF a
<1>6. c \in Calls
  BY <1>3, <1>4, <1>5 DEF Calls, a
<1>7. /\ c.number = 0 /\ c.thread = view.thread /\ c.id = id /\ ~c.served
      /\ c.steers = view.retries[id].steers
  BY <1>5 DEF Calls, a
<1> HIDE DEF c
<1>8. 0 <= diagram[c.thread]
  BY <1>2, <1>7, Parameters DEF ClientInv, World
<1>9. /\ Owns(id, view.retries[id].steers, typed) /\ id <= turns
      /\ id = view.request => view.retries[id].steers = view.steers
  BY DEF ClientInv, ViewFits, ViewOwned, Resendable
<1>10. CallFits(c, view, diagram, typed, turns)
  BY <1>1, <1>6, <1>7, <1>8, <1>9 DEF CallFits
<1>11. LoadFits(load', diagram') /\ gone' \subseteq Threads /\ calls' \in Nat
  BY <1>1 DEF ClientInv
<1>12. QED
  BY <1>1, <1>10, <1>11, Quiet, SessionStep

LEMMA ServeLoadKeeps ==
  ASSUME ClientInv, ServeLoad
  PROVE  ClientInv'
<1> DEFINE c == Served(load)
<1>1. /\ load # NoCall /\ load' = c
      /\ UNCHANGED <<view, link, sock, stored, diagram, call, gone, turns, calls, typed>>
  BY DEF ServeLoad
<1>2. load \in Loads
  BY <1>1 DEF ClientInv, LoadFits
<1>3. /\ diagram[load.thread] \in Nat /\ stored \in [Turns -> Completed] /\ stored \in Answers
  BY <1>2, Parameters DEF ClientInv, World, Loads, Answers
<1>4. c \in Loads
  BY <1>2, <1>3 DEF Served, Loads
<1>5. c.number = diagram[load.thread] /\ c.thread = load.thread /\ c.done = stored
  BY <1>2 DEF Served, Loads
<1> HIDE DEF c
<1>6. c.number <= diagram[c.thread]
  BY <1>3, <1>5
<1>7. LoadFits(c, diagram)
  BY <1>3, <1>4, <1>5, <1>6 DEF LoadFits
<1>8. CallFits(call', view, diagram', typed, turns) /\ gone' \subseteq Threads /\ calls' \in Nat
  BY <1>1 DEF ClientInv
<1>9. QED
  BY <1>1, <1>7, <1>8, Quiet, SessionStep

\* Asking what was stored.
LEMMA CallAnswered ==
  ASSUME ClientInv, ServeCall, ~Changes(call)
  PROVE  ClientInv'
<1> DEFINE c == Served(call)
<1>1. /\ call # NoCall /\ call' = c
      /\ UNCHANGED <<view, link, sock, stored, diagram, load, gone, turns, calls, typed>>
  BY DEF ServeCall
<1>2. call \in Calls
  BY <1>1 DEF ClientInv, CallFits
<1>3. /\ diagram[call.thread] \in Nat /\ stored \in [Turns -> Completed] /\ stored \in Answers
  BY <1>2, Parameters DEF ClientInv, World, Calls, Answers
<1>4. c \in Calls
  BY <1>2, <1>3 DEF Served, Calls
<1>5. /\ c.number = diagram[call.thread] /\ c.thread = call.thread /\ c.done = stored
      /\ c.id = call.id /\ c.steers = call.steers /\ c.kind = call.kind
  BY <1>2 DEF Served, Calls
<1> HIDE DEF c
<1>6. c.number <= diagram[c.thread]
  BY <1>3, <1>5
<1>7. CallFits(c, view, diagram, typed, turns)
  BY <1>1, <1>3, <1>4, <1>5, <1>6 DEF ClientInv, CallFits
<1>8. LoadFits(load', diagram') /\ gone' \subseteq Threads /\ calls' \in Nat
  BY <1>1 DEF ClientInv
<1>9. QED
  BY <1>1, <1>7, <1>8, Quiet, SessionStep

\* An edit or a restore is saved as the next version.
LEMMA ChangeSaved ==
  ASSUME ClientInv, ServeCall, Changes(call)
  PROVE  ClientInv'
<1> DEFINE t == call.thread
           number == diagram[t] + 1
           d2 == [diagram EXCEPT ![t] = @ + 1]
           c == [call EXCEPT !.served = TRUE, !.number = number]
<1>1. /\ call # NoCall /\ call' = c /\ diagram' = d2 /\ diagram[t] < MaxVersion
      /\ UNCHANGED <<view, link, sock, stored, load, gone, turns, calls, typed>>
  BY DEF ServeCall
<1>2. call \in Calls /\ t \in Threads
  BY <1>1 DEF ClientInv, CallFits, Calls
<1>3. diagram \in [Threads -> 0 .. MaxVersion] /\ number \in 0 .. MaxVersion /\ number \in Nat
  <2>1. diagram \in [Threads -> 0 .. MaxVersion]
    BY DEF ClientInv, World
  <2>2. diagram[t] \in 0 .. MaxVersion
    BY <1>2, <2>1
  <2>3. QED
    BY <1>1, <2>1, <2>2, Parameters
<1>4. d2 \in [Threads -> 0 .. MaxVersion] /\ d2[t] = number
      /\ \A a \in Threads : diagram[a] <= d2[a]
  <2>1. d2 = [diagram EXCEPT ![t] = number]
    OBVIOUS
  <2>2. \A a \in Threads : diagram[a] \in Nat
    BY <1>3, Parameters
  <2>3. diagram[t] <= number
    BY <1>2, <2>2
  <2> HIDE DEF number, d2, t
  <2>4. d2 \in [Threads -> 0 .. MaxVersion] /\ d2[t] = number
    BY <1>2, <1>3, <2>1
  <2>5. ASSUME NEW a \in Threads
        PROVE  diagram[a] <= d2[a]
    <3>1. CASE a = t
      BY <2>3, <2>4, <3>1
    <3>2. CASE a # t
      <4>1. d2[a] = diagram[a]
        BY <1>3, <2>1, <2>5, <3>2
      <4>2. diagram[a] \in Nat
        BY <2>2, <2>5
      <4>3. QED
        BY <4>1, <4>2
    <3>3. QED
      BY <3>1, <3>2
  <2>6. QED
    BY <2>4, <2>5
<1>5. c \in Calls
  BY <1>2, <1>3 DEF Calls
<1>6. /\ c.number = number /\ c.thread = t /\ c.id = call.id /\ c.steers = call.steers
      /\ c.kind = call.kind
  BY <1>2 DEF Calls
<1>7. Changes(c) /\ c.kind # "retry"
  BY <1>6 DEF Changes
<1>8. Owns(call.id, call.steers, typed)
  BY <1>1 DEF ClientInv, CallFits
<1> HIDE DEF c, d2, t, number
<1>9. Grows(stored, diagram, typed, turns, stored, d2, typed, turns)
  BY <1>4, Quiet DEF Grows, World
<1>10. c.number <= d2[c.thread]
  BY <1>3, <1>4, <1>6
<1>11. CallFits(c, view, d2, typed, turns)
  BY <1>5, <1>6, <1>7, <1>8, <1>10 DEF CallFits
<1>12. LoadFits(load, d2)
  BY <1>9, InvGrows
<1>13. gone' \subseteq Threads /\ calls' \in Nat
  BY <1>1 DEF ClientInv
<1>14. QED
  BY <1>1, <1>9, <1>11, <1>12, <1>13, SessionStep

\* An answer that is adopted was saved for the thread of the view.
LEMMA AdoptedKeeps ==
  ASSUME ClientInv, Adopted
  PROVE  ClientInv'
<1>1. /\ call # NoCall /\ call' = NoCall
      /\ UNCHANGED <<link, sock, stored, diagram, load, gone, turns, calls, typed>>
  BY DEF Adopted
<1>2. call \in Calls /\ call.number <= diagram[call.thread]
  BY <1>1 DEF ClientInv, CallFits
<1>3. call.thread \in Threads /\ call.number \in Nat
  BY <1>2 DEF Calls
<1>4. /\ ViewFits(view', stored, diagram, typed, turns)
      /\ view'.text = view.text /\ view'.steers = view.steers /\ view'.stream = view.stream
      /\ view'.busy = view.busy /\ view'.retries = view.retries
      /\ view'.request = view.request /\ view'.thread = view.thread
  <2>1. ViewFits(view, stored, diagram, typed, turns)
    BY DEF ClientInv
  <2>2. CASE view' = view
    BY <2>1, <2>2
  <2>3. CASE /\ view.thread = call.thread
             /\ view' = [view EXCEPT !.durable = Version(call.thread, call.number),
                                     !.preview = FALSE]
    <3>1. view' = AdoptedView(view, call.thread, call.number) /\ view.thread = call.thread
      BY <2>3 DEF AdoptedView
    <3>2. QED
      BY <1>2, <1>3, <2>1, <3>1, ViewAdopts
  <2>4. QED
    BY <2>2, <2>3 DEF Adopted, IsCurrent
<1>5. LinkFits(link', view', typed')
  BY <1>1, <1>4 DEF ClientInv, LinkFits
<1>6. Connected'
  <2>1. ASSUME Attached
        PROVE  Bound(sock[link.sock], view', link, stored)
    <3>1. Bound(sock[link.sock], view, link, stored)
      BY <2>1 DEF ClientInv, Connected
    <3>2. QED
      BY <1>4, <3>1, BoundElsewhere
  <2>2. QED
    BY <1>1, <2>1 DEF ClientInv, Connected, Attached
<1>7. CallFits(NoCall, view', diagram, typed, turns)
  BY DEF CallFits
<1>8. QED
  BY <1>1, <1>4, <1>5, <1>6, <1>7 DEF ClientInv

-----------------------------------------------------------------------------
(* The turn of the view ends on the client's side.                         *)

LEMMA NoLinkFits ==
  ASSUME NEW v, NEW T, v.stream = 0
  PROVE  LinkFits(NoLink, v, T)
<1>1. NoLink \in Link
  BY Parameters, NothingTyped DEF NoLink, Link, Somewhere
<1>2. /\ NoLink.sock = 0 /\ ~NoLink.waiting /\ NoLink.queued = <<>> /\ NoLink.replay = <<>>
  BY DEF NoLink
<1>3. QED
  BY <1>1, <1>2, NothingSent DEF LinkFits

LEMMA Unlinked ==
  ASSUME ClientInv, UNCHANGED <<stored, diagram, turns, typed>>, link' = NoLink,
         SocksFit(sock', diagram, typed),
         ViewFits(view', stored, diagram, typed, turns), view'.stream = 0,
         CallFits(call', view', diagram, typed, turns), LoadFits(load', diagram),
         gone' \subseteq Threads, calls' \in Nat
  PROVE  ClientInv'
<1>1. LinkFits(link', view', typed')
  BY NoLinkFits
<1>2. NoLink.sock = 0 /\ ~NoLink.waiting
  BY DEF NoLink
<1>3. Connected'
  BY <1>2 DEF Connected, Attached
<1>4. QED
  BY <1>1, <1>3 DEF ClientInv

\* The socket of the view's turn, as it is now.
LEMMA AttachedTurn ==
  ASSUME ClientInv, link.sock # 0
  PROVE  /\ link.sock \in Sockets /\ link \in Link /\ view \in View
         /\ view.stream \in Turns /\ link.id = view.stream /\ view.request = view.stream
         /\ link.thread = view.thread /\ view.thread \in Threads
         /\ sock \in [Sockets -> Sock] /\ sock[link.sock] \in Sock
         /\ Fits(sock[link.sock], diagram, typed)
         /\ Attached => /\ Bound(sock[link.sock], view, link, stored)
                        /\ sock[link.sock].id = view.stream
                        /\ sock[link.sock].thread = view.thread
                        /\ sock[link.sock].net # "closed"
         /\ sock[link.sock].net # "closed" => sock[link.sock].id # 0
         /\ call.kind # "retry"
<1>1. /\ link \in Link /\ view.stream # 0 /\ link.id = view.stream /\ view.request = view.stream
      /\ link.thread = view.thread /\ view.thread \in Threads
  BY DEF ClientInv, LinkFits
<1>2. link.sock \in Sockets
  BY <1>1, Parameters DEF Link, Sockets
<1>3. view \in View /\ view.stream \in Turns
  BY <1>1, Parameters DEF ClientInv, ViewFits, View, Turns
<1>4. sock \in [Sockets -> Sock] /\ Fits(sock[link.sock], diagram, typed)
  BY <1>2 DEF ClientInv, SocksFit
<1>5. ASSUME Attached
      PROVE  /\ Bound(sock[link.sock], view, link, stored)
             /\ sock[link.sock].id = view.stream
             /\ sock[link.sock].thread = view.thread
             /\ sock[link.sock].net # "closed"
  BY <1>1, <1>5 DEF ClientInv, Connected, Bound, Carried
<1>6. sock[link.sock].net # "closed" => sock[link.sock].id # 0
  <2>1. CASE Attached
    BY <1>1, <1>5, <2>1
  <2>2. CASE ~Attached
    BY <2>2 DEF Attached, ClientInv, Connected
  <2>3. QED
    BY <2>1, <2>2
<1>7. call.kind # "retry"
  <2>1. NoCall.kind # "retry"
    BY DEF NoCall
  <2>2. QED
    BY <1>1, <2>1 DEF ClientInv, CallFits
<1>8. QED
  BY <1>1, <1>2, <1>3, <1>4, <1>5, <1>6, <1>7

LEMMA StopKeepsFits ==
  ASSUME ClientInv
  PROVE  SocksFit(StopGeneration(sock, link), diagram, typed)
<1>1. SocksFit(sock, diagram, typed) /\ link.sock \in 0 .. MaxSockets
  BY DEF ClientInv, LinkFits, Link
<1>2. link.sock # 0 /\ sock[link.sock].net # "closed" => sock[link.sock].id # 0
  BY AttachedTurn
<1>3. QED
  BY <1>1, <1>2, StopFits

\* A request that is not a retry waits for no particular view.
LEMMA CallElsewhere ==
  ASSUME NEW c, NEW v, NEW x, NEW d, NEW T, NEW n, CallFits(c, v, d, T, n),
         c.kind # "retry" \/ (x.stream = 0 /\ x.request = 0)
  PROVE  CallFits(c, x, d, T, n)
<1>1. CASE c = NoCall
  BY <1>1 DEF CallFits
<1>2. CASE c # NoCall /\ c.kind # "retry"
  BY <1>2 DEF CallFits
<1>3. CASE c # NoCall /\ c.kind = "retry"
  <2>1. c.id \in Turns
    BY <1>3 DEF CallFits
  <2>2. c.id # 0
    BY <2>1 DEF Turns
  <2>3. QED
    BY <1>3, <2>2 DEF CallFits
<1>4. QED
  BY <1>1, <1>2, <1>3

LEMMA StopKeeps ==
  ASSUME ClientInv, Stop
  PROVE  ClientInv'
<1>1. /\ view.busy /\ view' = StoppedView(view) /\ sock' = StopGeneration(sock, link)
      /\ link' = NoLink
      /\ UNCHANGED <<stored, diagram, call, load, gone, turns, calls, typed>>
  BY DEF Stop, StoppedView
<1>2. ViewFits(view', stored, diagram, typed, turns) /\ view'.stream = 0
  BY <1>1, ViewStopped DEF ClientInv
<1>3. view.stream # 0
  BY <1>1 DEF ClientInv, ViewFits, Phased
<1>4. call.kind # "retry"
  <2>1. NoCall.kind # "retry"
    BY DEF NoCall
  <2>2. QED
    BY <1>3, <2>1 DEF ClientInv, CallFits
<1>5. CallFits(call', view', diagram, typed, turns)
  BY <1>1, <1>4, CallElsewhere DEF ClientInv
<1>6. LoadFits(load', diagram) /\ gone' \subseteq Threads /\ calls' \in Nat
  BY <1>1 DEF ClientInv
<1>7. QED
  BY <1>1, <1>2, <1>5, <1>6, StopKeepsFits, Unlinked

LEMMA LeaveKeeps ==
  ASSUME ClientInv, NEW next, LeaveThread(next), ViewFits(next, stored, diagram, typed, turns),
         next.stream = 0, next.request = 0,
         UNCHANGED <<stored, diagram, call, turns, typed>>,
         LoadFits(load', diagram), gone' \subseteq Threads, calls' \in Nat
  PROVE  ClientInv'
<1>1. view' = next
  BY DEF LeaveThread
<1>2. link' = NoLink
  BY DEF LeaveThread, ClientInv, LinkFits
<1>3. SocksFit(sock', diagram, typed)
  BY StopKeepsFits DEF LeaveThread, ClientInv
<1>4. CallFits(call', view', diagram, typed, turns)
  BY <1>1, CallElsewhere DEF ClientInv
<1>5. QED
  BY <1>1, <1>2, <1>3, <1>4, Unlinked

LEMMA DeleteKeeps ==
  ASSUME ClientInv, NEW t \in Threads, DeleteThread(t)
  PROVE  ClientInv'
<1>1. /\ LeaveThread(EmptyView(NoThread)) /\ load' = Opening(t) /\ view.thread # NoThread
      /\ gone' = gone \union {view.thread}
      /\ calls' \in {calls, calls + 1}
      /\ UNCHANGED <<stored, diagram, call, turns, typed>>
  BY DEF DeleteThread
<1>2. turns \in Nat /\ NoThread \in Somewhere
  BY Parameters DEF ClientInv, World, Somewhere
<1>3. /\ ViewFits(EmptyView(NoThread), stored, diagram, typed, turns)
      /\ EmptyView(NoThread).stream = 0 /\ EmptyView(NoThread).request = 0
  BY <1>2, ViewEmpty
<1>4. LoadFits(load', diagram)
  BY <1>1, LoadAsked
<1>5. view.thread \in Threads
  BY <1>1 DEF ClientInv, ViewFits, View, Somewhere
<1>6. gone' \subseteq Threads /\ calls' \in Nat
  BY <1>1, <1>5 DEF ClientInv
<1>7. QED
  BY <1>1, <1>3, <1>4, <1>6, LeaveKeeps

LEMMA HydrateFits ==
  ASSUME ClientInv, NEW c, c.thread \in Threads, c.number \in Nat, c.number <= diagram[c.thread],
         c.done \in [Turns -> Completed]
  PROVE  /\ ViewFits(Hydrate(c), stored, diagram, typed, turns)
         /\ Hydrate(c).thread = c.thread /\ Hydrate(c).stream = 0
         /\ Hydrate(c).text = <<>> /\ Hydrate(c).request = 0
<1> DEFINE t == c.thread
           number == c.number
           done == c.done
<1>1. Hydrate(c) = Hydrated(t, number, done)
  BY DEF Hydrate
<1>2. /\ t \in Threads /\ number \in Nat /\ number <= diagram[t] /\ done \in [Turns -> Completed]
      /\ turns \in Nat
  BY Parameters DEF ClientInv, World
<1> HIDE DEF t, number, done
<1>3. LET w == Hydrated(t, number, done)
      IN /\ ViewFits(w, stored, diagram, typed, turns)
         /\ w.thread = t /\ w.stream = 0 /\ w.text = <<>> /\ w.request = 0
  BY <1>2, ViewHydrated
<1>4. QED
  BY <1>1, <1>3 DEF t

LEMMA LoadedKeeps ==
  ASSUME ClientInv, Loaded
  PROVE  ClientInv'
<1>1. /\ load # NoCall /\ load.served /\ load' = NoCall
      /\ UNCHANGED <<stored, diagram, call, gone, turns, calls, typed>>
  BY DEF Loaded
<1>2. LoadFits(load', diagram) /\ gone' \subseteq Threads /\ calls' \in Nat
  BY <1>1 DEF ClientInv, LoadFits
<1>3. CASE UNCHANGED <<view, link, sock>>
  <2>1. CallFits(call', view, diagram', typed, turns)
    BY <1>1 DEF ClientInv
  <2>2. QED
    BY <1>1, <1>2, <1>3, <2>1, Quiet, SessionStep
<1>4. CASE LeaveThread(Hydrate(load))
  <2> DEFINE w == Hydrate(load)
  <2>1. /\ load \in Loads /\ load.number <= diagram[load.thread]
        /\ load.done \in [Turns -> Completed]
    BY <1>1 DEF ClientInv, LoadFits
  <2>2. load.thread \in Threads /\ load.number \in Nat
    BY <2>1 DEF Loads
  <2>3. ViewFits(w, stored, diagram, typed, turns) /\ w.stream = 0 /\ w.request = 0
    BY <2>1, <2>2, HydrateFits
  <2> HIDE DEF w
  <2>4. LeaveThread(w)
    BY <1>4 DEF w
  <2>5. QED
    BY <1>1, <1>2, <2>3, <2>4, LeaveKeeps
<1>5. QED
  BY <1>3, <1>4 DEF Loaded

-----------------------------------------------------------------------------
(* A turn starts on the client's side.                                     *)

LEMMA OpenedIsNat == Opened \in Nat
<1>1. {s \in Sockets : sock[s].net # "unused"} \subseteq Sockets /\ IsFiniteSet(Sockets)
  BY Parameters, FS_Interval DEF Sockets
<1>2. IsFiniteSet({s \in Sockets : sock[s].net # "unused"})
  BY <1>1, FS_Subset
<1>3. QED
  BY <1>2, FS_CardinalityType DEF Opened

LinkOf(s, id, t, steers) ==
    [NoLink EXCEPT !.sock = s, !.id = id, !.thread = t, !.replay = steers]

LEMMA StartingLinkFits ==
  ASSUME NEW T, NEW w, NEW s \in Sockets, NEW id \in Turns, NEW steers \in Seq(Nat),
         NEW t \in Threads, Owns(id, steers, T), w.thread = t, w.stream = id, w.request = id,
         w.busy, w.text = <<>>, w.retries[id] = NoRetry, w.steers = steers
  PROVE  LET l == LinkOf(s, id, t, steers)
         IN /\ LinkFits(l, w, T) /\ ~l.ready /\ ~l.waiting
            /\ l.sock = s /\ l.id = id /\ l.thread = t /\ l.replay = steers
<1> DEFINE l == LinkOf(s, id, t, steers)
<1>1. NoLink \in Link
  BY Parameters, NothingTyped DEF NoLink, Link, Somewhere
<1>2. /\ s \in 0 .. MaxSockets /\ id \in 0 .. MaxTurns /\ t \in Somewhere /\ s # 0 /\ id # 0
  BY Parameters DEF Sockets, Turns, Somewhere
<1>3. /\ l.sock = s /\ l.id = id /\ l.thread = t /\ l.replay = steers
      /\ ~l.ready /\ ~l.waiting /\ l.queued = <<>>
  BY DEF LinkOf, NoLink
<1>4. l \in Link
  BY <1>1, <1>2 DEF LinkOf, Link
<1> HIDE DEF l
<1>5. LinkFits(l, w, T)
  BY <1>2, <1>3, <1>4, NothingSent DEF LinkFits
<1>6. QED
  BY <1>3, <1>5 DEF l

LEMMA TurnStarts ==
  ASSUME ClientInv, NEW v, NEW id \in Turns, NEW steers \in Seq(Nat), StartTurn(v, id, steers),
         UNCHANGED <<stored, diagram, gone, calls, typed>>,
         Grows(stored, diagram, typed, turns, stored, diagram, typed, turns'), id <= turns',
         Owns(id, steers, typed), ViewFits(v, stored, diagram, typed, turns),
         v.text = <<>>, v.thread \in Threads, call' = NoCall, load' = load
  PROVE  ClientInv'
<1> DEFINE s == Opened + 1
           old == StopGeneration(sock, link)
           w == StartedView(v, id, steers)
           l == LinkOf(s, id, v.thread, steers)
           k == Connecting(id, v.thread, steers)
<1>1. /\ s < MaxSockets /\ view' = w /\ link' = l /\ sock' = [old EXCEPT ![s] = k]
  BY DEF StartTurn, StartedView, LinkOf, Connect, Connecting
<1>2. s \in Sockets
  BY <1>1, OpenedIsNat, Parameters DEF Sockets
<1> HIDE DEF s, old, w, l, k
<1>3. ViewFits(v, stored, diagram, typed, turns')
  BY ViewGrows
<1>4. /\ ViewFits(w, stored, diagram, typed, turns')
      /\ w.stream = id /\ w.request = id /\ w.busy /\ w.steers = steers
      /\ w.text = <<>> /\ w.thread = v.thread /\ w.retries[id] = NoRetry
  BY <1>3, ViewStarted DEF w
<1>5. /\ LinkFits(l, w, typed) /\ ~l.ready /\ ~l.waiting
      /\ l.sock = s /\ l.id = id /\ l.thread = v.thread /\ l.replay = steers
  <2> DEFINE t == v.thread
  <2>1. t \in Threads /\ w.thread = t /\ s \in Sockets
    BY <1>2, <1>4
  <2>2. l = LinkOf(s, id, t, steers)
    BY DEF l
  <2> HIDE DEF t
  <2>5. w.stream = id /\ w.request = id /\ w.busy /\ w.text = <<>>
    BY <1>4
  <2>6. w.retries[id] = NoRetry /\ w.steers = steers
    BY <1>4
  <2>7. Owns(id, steers, typed)
    OBVIOUS
  <2>3. LinkFits(LinkOf(s, id, t, steers), w, typed)
    BY <2>1, <2>5, <2>6, <2>7, StartingLinkFits, ZenonT(40)
  <2>8. /\ ~l.ready /\ ~l.waiting /\ l.sock = s /\ l.id = id /\ l.thread = t
        /\ l.replay = steers
    BY <2>2 DEF LinkOf, NoLink
  <2>4. QED
    BY <2>2, <2>3, <2>8 DEF t
<1>6. SocksFit(old, diagram, typed)
  BY StopKeepsFits DEF old
<1>7. k \in Sock /\ Fits(k, diagram, typed)
  BY ConnectFits, ZenonT(40) DEF k
<1>8. SocksFit(sock', diagram, typed)
  BY <1>1, <1>2, <1>6, <1>7, SockUpdate
<1>9. sock'[s] = k
  BY <1>1, <1>2, <1>6 DEF SocksFit
<1>10. Bound(k, w, l, stored)
  <2>1. Bound(Connecting(l.id, l.thread, l.replay), w, l, stored)
    BY <1>4, <1>5, BoundConnecting
  <2>2. QED
    BY <1>5, <2>1 DEF k
<1>11. Connected'
  BY <1>1, <1>5, <1>9, <1>10 DEF Connected, Attached
<1>12. CallFits(call', view', diagram, typed, turns') /\ LoadFits(load', diagram)
       /\ World(stored, diagram, typed, turns') /\ gone' \subseteq Threads /\ calls' \in Nat
  BY DEF CallFits, ClientInv, Grows
<1>13. QED
  BY <1>1, <1>4, <1>5, <1>8, <1>11, <1>12 DEF ClientInv

LEMMA NewTurnStarts ==
  ASSUME ClientInv, NEW v, NewTurn(v), UNCHANGED <<stored, diagram, gone, calls, typed>>,
         ViewFits(v, stored, diagram, typed, turns), v.text = <<>>, v.thread \in Threads,
         call' = NoCall, load' = load
  PROVE  ClientInv'
<1>1. /\ turns < MaxTurns /\ turns' = turns + 1 /\ StartTurn(v, turns + 1, <<>>)
  BY DEF NewTurn
<1>2. turns \in 0 .. MaxTurns /\ turns + 1 \in Turns /\ turns + 1 <= turns'
  BY <1>1, Parameters DEF ClientInv, World, Turns
<1>3. turns' \in 0 .. MaxTurns /\ turns <= turns'
  BY <1>1, <1>2, Parameters
<1>4. Grows(stored, diagram, typed, turns, stored, diagram, typed, turns')
  BY <1>3, Quiet DEF Grows, World
<1>5. <<>> \in Seq(Nat) /\ Owns(turns + 1, <<>>, typed)
  BY NothingTyped, NothingSent
<1>6. QED
  BY <1>1, <1>2, <1>4, <1>5, TurnStarts

LEMMA SendTurnKeeps ==
  ASSUME ClientInv, SendTurn
  PROVE  ClientInv'
<1>1. /\ NewTurn(view) /\ call = NoCall /\ view.thread # NoThread
      /\ ~(IsActive(view) /\ IsChatActive)
      /\ UNCHANGED <<stored, diagram, call, load, gone, calls, typed>>
  BY DEF SendTurn, ComposerOpen
<1>2. ViewFits(view, stored, diagram, typed, turns) /\ view.thread \in Threads
  BY <1>1 DEF ClientInv, ViewFits, View, Somewhere
<1>3. view.text = <<>>
  <2>1. CASE view.busy
    <3>1. IsActive(view)
      BY <2>1, <1>2 DEF ViewFits, Phased, IsActive
    <3>2. link.sock # 0 /\ ~IsChatActive
      BY <1>1, <3>1 DEF ClientInv, LinkFits, IsActive
    <3>3. link.waiting
      BY <3>2 DEF IsChatActive
    <3>4. QED
      BY <3>2, <3>3 DEF ClientInv, LinkFits
  <2>2. CASE ~view.busy
    BY <1>2, <2>2 DEF ViewFits, Clean
  <2>3. QED
    BY <2>1, <2>2
<1>4. QED
  BY <1>1, <1>2, <1>3, NewTurnStarts

LEMMA RetryMessageKeeps ==
  ASSUME ClientInv, NEW id \in Turns, RetryMessage(id)
  PROVE  ClientInv'
<1>1. CASE view.retries[id].kind = "replay"
  BY <1>1, RetryAsked
<1>2. CASE view.retries[id].kind = "source"
  <2>1. /\ NewTurn(view) /\ call' = NoCall /\ view.thread # NoThread /\ ~view.busy
        /\ UNCHANGED <<stored, diagram, load, gone, calls, typed>>
    BY <1>2 DEF RetryMessage, Resting
  <2>2. ViewFits(view, stored, diagram, typed, turns) /\ view.thread \in Threads /\ view.text = <<>>
    BY <2>1 DEF ClientInv, ViewFits, View, Somewhere, Clean
  <2>3. QED
    BY <2>1, <2>2, NewTurnStarts
<1>3. QED
  BY <1>1, <1>2 DEF RetryMessage

LEMMA ThreadCreatedKeeps ==
  ASSUME ClientInv, NEW t \in Threads, ThreadCreated(t)
  PROVE  ClientInv'
<1>1. call' = NoCall /\ UNCHANGED <<stored, diagram, load, gone, calls, typed>>
  BY DEF ThreadCreated
<1>2. CASE NewTurn(EmptyView(t))
  <2>1. t \in Somewhere /\ turns \in Nat
    BY Parameters DEF Somewhere, ClientInv, World
  <2>2. /\ ViewFits(EmptyView(t), stored, diagram, typed, turns)
        /\ EmptyView(t).text = <<>> /\ EmptyView(t).thread \in Threads
    BY <2>1, ViewEmpty
  <2>3. QED
    BY <1>1, <1>2, <2>2, NewTurnStarts
<1>3. CASE UNCHANGED <<view, link, sock, turns>>
  <2>1. CallFits(call', view, diagram', typed, turns)
    BY <1>1 DEF CallFits
  <2>2. LoadFits(load', diagram') /\ gone' \subseteq Threads /\ calls' \in Nat
    BY <1>1 DEF ClientInv
  <2>3. QED
    BY <1>1, <1>3, <2>1, <2>2, Quiet, SessionStep
<1>4. QED
  BY <1>2, <1>3 DEF ThreadCreated

LEMMA RetryCheckedKeeps ==
  ASSUME ClientInv, RetryChecked
  PROVE  ClientInv'
<1>1. /\ call.kind = "retry" /\ call.served /\ call' = NoCall
      /\ UNCHANGED <<stored, diagram, load, gone, calls, typed>>
  BY DEF RetryChecked
<1>2. call # NoCall /\ ~Changes(call)
  BY <1>1 DEF NoCall, Changes
<1>3. /\ call \in Calls /\ call.number <= diagram[call.thread] /\ Owns(call.id, call.steers, typed)
      /\ call.done \in [Turns -> Completed] /\ call.id \in Turns /\ call.id <= turns
      /\ view.stream = 0
  BY <1>1, <1>2 DEF ClientInv, CallFits
<1>4. call.thread \in Threads /\ call.number \in Nat /\ call.steers \in Seq(Nat)
  BY <1>3 DEF Calls
<1>5. LoadFits(load', diagram) /\ gone' \subseteq Threads /\ calls' \in Nat
  BY <1>1 DEF ClientInv
<1>6. CASE UNCHANGED <<view, link, sock, turns>>
  <2>1. CallFits(call', view, diagram', typed, turns)
    BY <1>1 DEF CallFits
  <2>2. QED
    BY <1>1, <1>5, <1>6, <2>1, Quiet, SessionStep
<1>7. CASE view.thread = call.thread /\ StartTurn(view, call.id, call.steers) /\ UNCHANGED turns
  <2>1. ViewFits(view, stored, diagram, typed, turns) /\ ~view.busy /\ view.text = <<>>
    BY <1>3 DEF ClientInv, ViewFits, Phased, Clean
  <2>2. Grows(stored, diagram, typed, turns, stored, diagram, typed, turns') /\ call.id <= turns'
    BY <1>3, <1>7, Quiet
  <2>3. view.thread \in Threads
    BY <1>4, <1>7
  <2>4. QED
    BY <1>1, <1>3, <1>4, <1>7, <2>1, <2>2, <2>3, TurnStarts
<1>8. CASE NewTurn(Hydrate(call))
  <2>1. /\ ViewFits(Hydrate(call), stored, diagram, typed, turns)
        /\ Hydrate(call).text = <<>> /\ Hydrate(call).thread \in Threads
    BY <1>3, <1>4, HydrateFits
  <2>2. QED
    BY <1>1, <1>8, <2>1, NewTurnStarts
<1>9. CASE view' = Hydrate(call) /\ UNCHANGED <<link, sock, turns>>
  <2>1. ViewFits(view', stored, diagram, typed, turns) /\ view'.stream = 0
    BY <1>3, <1>4, <1>9, HydrateFits
  <2>2. link' = NoLink /\ SocksFit(sock', diagram, typed)
    BY <1>3, <1>9 DEF ClientInv, LinkFits
  <2>3. CallFits(call', view', diagram, typed, turns)
    BY <1>1 DEF CallFits
  <2>4. QED
    BY <1>1, <1>5, <1>9, <2>1, <2>2, <2>3, Unlinked
<1>10. QED
  BY <1>6, <1>7, <1>8, <1>9 DEF RetryChecked

-----------------------------------------------------------------------------
(* While a connection is attached.                                         *)

LEMMA AttachedStep ==
  ASSUME ClientInv, Attached, NEW w \in Sock,
         UNCHANGED <<stored, diagram, call, load, gone, turns, calls>>,
         Grows(stored, diagram, typed, turns, stored, diagram, typed', turns),
         sock' = [sock EXCEPT ![link.sock] = w], Fits(w, diagram, typed'),
         ViewFits(view', stored, diagram, typed', turns), LinkFits(link', view', typed'),
         link'.sock = link.sock, ~link'.waiting, Bound(w, view', link', stored)
  PROVE  ClientInv'
<1>1. /\ World(stored, diagram, typed', turns) /\ LoadFits(load, diagram)
      /\ SocksFit(sock, diagram, typed') /\ CallFits(call, view, diagram, typed', turns)
  BY InvGrows
<1>2. link.sock \in Sockets /\ call.kind # "retry"
  BY AttachedTurn DEF Attached
<1>3. CallFits(call, view', diagram, typed', turns)
  BY <1>1, <1>2, CallElsewhere
<1>4. SocksFit(sock', diagram, typed') /\ sock'[link.sock] = w
  BY <1>1, <1>2, SockUpdate DEF SocksFit
<1>5. Connected'
  BY <1>4 DEF Connected, Attached
<1>6. QED
  BY <1>1, <1>3, <1>4, <1>5 DEF ClientInv

LEMMA TypedGrows ==
  ASSUME ClientInv, NEW id \in Turns
  PROVE  /\ Grows(stored, diagram, typed, turns, stored, diagram, Append(typed, id), turns)
         /\ Len(typed) + 1 \in DOMAIN Append(typed, id) /\ Append(typed, id)[Len(typed) + 1] = id
         /\ Len(typed) + 1 \in Nat
<1> DEFINE T2 == Append(typed, id)
<1>1. typed \in Seq(Turns)
  BY DEF ClientInv, World
<1>2. /\ T2 \in Seq(Turns) /\ DOMAIN typed \subseteq DOMAIN T2 /\ \A i \in DOMAIN typed : T2[i] = typed[i]
      /\ Len(typed) + 1 \in DOMAIN T2 /\ T2[Len(typed) + 1] = id /\ Len(typed) + 1 \in Nat
  BY <1>1
<1> HIDE DEF T2
<1>3. \A i \in Turns : Owns(i, stored[i].steers, T2)
  BY <1>2 DEF ClientInv, World, Owns
<1>4. World(stored, diagram, T2, turns)
  BY <1>2, <1>3 DEF ClientInv, World
<1>5. Grows(stored, diagram, typed, turns, stored, diagram, T2, turns)
  BY <1>2, <1>4, Quiet DEF Grows
<1>6. QED
  BY <1>2, <1>5 DEF T2

LEMMA OwnsMore ==
  ASSUME NEW id, NEW steers \in Seq(Nat), NEW T, Owns(id, steers, T), NEW m \in Nat,
         m \in DOMAIN T, T[m] = id
  PROVE  Append(steers, m) \in Seq(Nat) /\ Owns(id, Append(steers, m), T)
<1> DEFINE all == Append(steers, m)
<1>1. all \in Seq(Nat) /\ \A i \in DOMAIN all : all[i] = m \/ (i \in DOMAIN steers /\ all[i] = steers[i])
  OBVIOUS
<1> HIDE DEF all
<1>2. Owns(id, all, T)
  BY <1>1 DEF Owns
<1>3. QED
  BY <1>1, <1>2 DEF all

LEMMA SteerKeeps ==
  ASSUME ClientInv, Steer
  PROVE  ClientInv'
<1> DEFINE n == Len(typed) + 1
           k == sock[link.sock]
           f == <<"steer", n>>
<1>1. /\ Attached /\ typed' = Append(typed, view.stream)
      /\ UNCHANGED <<view, stored, diagram, call, load, gone, turns, calls>>
  BY DEF Steer, IsChatActive, Attached
<1>2. /\ link.sock \in Sockets /\ link \in Link /\ view.stream \in Turns /\ link.id = view.stream
      /\ k \in Sock /\ k.id = view.stream /\ Bound(k, view, link, stored)
      /\ sock \in [Sockets -> Sock]
  BY <1>1, AttachedTurn DEF Attached
<1>3. /\ Grows(stored, diagram, typed, turns, stored, diagram, typed', turns)
      /\ n \in DOMAIN typed' /\ typed'[n] = view.stream /\ n \in Nat
  BY <1>1, <1>2, TypedGrows
<1>4. /\ ViewFits(view, stored, diagram, typed', turns) /\ LinkFits(link, view, typed')
      /\ SocksFit(sock, diagram, typed')
  BY <1>3, InvGrows
<1>5. Fits(k, diagram, typed')
  BY <1>2, <1>4 DEF SocksFit
<1> HIDE DEF n
<1>6. f \in Frames /\ f[1] = "steer" /\ f[2] = n
  BY <1>3 DEF Frames
<1>7. CASE link.ready
  <2>1. link' = link /\ sock' = [sock EXCEPT ![link.sock].up = Append(@, f)]
    BY <1>7 DEF Steer, n
  <2>2. sock' = [sock EXCEPT ![link.sock] = Sent(k, f)]
    BY <1>2, <2>1 DEF Sent
  <2> HIDE DEF f, k
  <2>3. k.id # 0
    BY <1>2 DEF Turns
  <2>4. Sent(k, f) \in Sock /\ Fits(Sent(k, f), diagram, typed')
    BY <1>2, <1>3, <1>5, <1>6, <2>3, SentFits
  <2>5. Bound(Sent(k, f), view, link, stored)
    BY <1>2, <1>6, <1>7, BoundSent
  <2>6. ~link.waiting
    BY <1>1 DEF Attached
  <2>7. QED
    BY <1>1, <1>3, <1>4, <2>1, <2>2, <2>4, <2>5, <2>6, AttachedStep
<1>8. CASE ~link.ready
  <2> DEFINE q == Append(link.queued, n)
             m == [link EXCEPT !.queued = q]
  <2>1. link' = m /\ sock' = sock
    BY <1>8 DEF Steer, n
  <2>2. link.queued \in Seq(Nat) /\ Owns(link.id, link.queued, typed')
    BY <1>2, <1>4 DEF Link, LinkFits
  <2>3. q \in Seq(Nat) /\ Owns(link.id, q, typed')
    BY <1>2, <1>3, <2>2, OwnsMore
  <2> HIDE DEF q
  <2>4. m \in Link
    BY <1>2, <2>3 DEF Link
  <2>5. /\ m.sock = link.sock /\ m.id = link.id /\ m.thread = link.thread /\ m.ready = link.ready
        /\ m.queued = q /\ m.replay = link.replay /\ m.waiting = link.waiting
    BY <1>2 DEF Link
  <2> HIDE DEF m
  <2>6. LinkFits(m, view, typed')
    BY <1>1, <1>4, <2>3, <2>4, <2>5 DEF LinkFits, Attached
  <2>7. Bound(k, view, m, stored)
    BY <1>2, <2>5, BoundElsewhere
  <2>8. sock' = [sock EXCEPT ![link.sock] = k]
    BY <1>2, <2>1
  <2>9. ~m.waiting
    BY <1>1, <2>5 DEF Attached
  <2> HIDE DEF k
  <2>10. QED
    BY <1>1, <1>2, <1>3, <1>4, <1>5, <2>1, <2>5, <2>6, <2>7, <2>8, <2>9, AttachedStep
<1>9. QED
  BY <1>7, <1>8

LEMMA AcceptPreviewKeeps ==
  ASSUME ClientInv, AcceptPreview
  PROVE  ClientInv'
<1> DEFINE k == sock[link.sock]
           f == <<"accept">>
<1>1. /\ view.busy /\ link.sock # 0 /\ link.ready /\ view' = PendingView(view)
      /\ sock' = [sock EXCEPT ![link.sock].up = Append(@, f)]
      /\ UNCHANGED <<link, stored, diagram, call, load, gone, turns, calls, typed>>
  BY DEF AcceptPreview, PendingView
<1>2. Attached
  BY <1>1 DEF Attached, ClientInv, LinkFits
<1>3. /\ link.sock \in Sockets /\ view.stream \in Turns
      /\ k \in Sock /\ k.id = view.stream /\ Bound(k, view, link, stored)
      /\ sock \in [Sockets -> Sock] /\ Fits(k, diagram, typed)
  BY <1>1, <1>2, AttachedTurn
<1>4. sock' = [sock EXCEPT ![link.sock] = Sent(k, f)]
  BY <1>1, <1>3 DEF Sent
<1>5. f \in Frames /\ f[1] # "steer"
  BY DEF Frames
<1> HIDE DEF f, k
<1>6. k.id # 0
  BY <1>3 DEF Turns
<1>7. Sent(k, f) \in Sock /\ Fits(Sent(k, f), diagram, typed')
  BY <1>1, <1>3, <1>5, <1>6, SentFits
<1>8. /\ ViewFits(view', stored, diagram, typed, turns)
      /\ view'.text = view.text /\ view'.steers = view.steers /\ view'.stream = view.stream
      /\ view'.busy = view.busy /\ view'.retries = view.retries
      /\ view'.request = view.request /\ view'.thread = view.thread
  BY <1>1, ViewPending DEF ClientInv
<1>9. LinkFits(link', view', typed')
  BY <1>1, <1>8 DEF ClientInv, LinkFits
<1>10. Bound(Sent(k, f), view', link', stored)
  <2>1. Bound(Sent(k, f), view, link, stored)
    BY <1>1, <1>3, <1>5, BoundSent
  <2>2. QED
    BY <1>1, <1>8, <2>1, BoundElsewhere
<1>11. ~link'.waiting
  BY <1>1, <1>2 DEF Attached
<1>12. Grows(stored, diagram, typed, turns, stored, diagram, typed', turns)
  BY <1>1, Quiet
<1>13. QED
  BY <1>1, <1>2, <1>4, <1>7, <1>8, <1>9, <1>10, <1>11, <1>12, AttachedStep

-----------------------------------------------------------------------------
(* The connection ends without `done`.                                     *)

LEMMA EndLinkKeeps ==
  ASSUME ClientInv, Attached, EndLink,
         UNCHANGED <<stored, diagram, call, load, gone, turns, calls, typed>>,
         SocksFit(sock', diagram, typed), sock'[link.sock].net = "closed"
  PROVE  ClientInv'
<1>1. /\ link.sock # 0 /\ link \in Link /\ view.stream \in Turns /\ link.id = view.stream
      /\ view.request = view.stream /\ call.kind # "retry"
  BY AttachedTurn DEF Attached
<1>2. CASE CanRetryBeforeStart
  <2> DEFINE m == [link EXCEPT !.waiting = TRUE]
  <2>1. link' = m /\ view' = view /\ ~link.ready
    BY <1>2 DEF EndLink, CanRetryBeforeStart
  <2>2. m \in Link
    BY <1>1 DEF Link
  <2>3. /\ m.sock = link.sock /\ m.id = link.id /\ m.thread = link.thread /\ m.ready = link.ready
        /\ m.queued = link.queued /\ m.replay = link.replay /\ m.waiting
    BY <1>1 DEF Link
  <2> HIDE DEF m
  <2>4. LinkFits(m, view, typed)
    BY <1>1, <2>1, <2>2, <2>3 DEF ClientInv, LinkFits
  <2>5. Connected'
    BY <2>1, <2>3 DEF Connected, Attached
  <2>6. (World(stored, diagram, typed, turns) /\ gone \subseteq Threads /\ calls \in Nat)'
    BY DEF ClientInv
  <2>7. ViewFits(view, stored, diagram, typed, turns)' /\ LinkFits(link, view, typed)'
    BY <2>1, <2>4 DEF ClientInv
  <2>8. CallFits(call, view, diagram, typed, turns)' /\ LoadFits(load, diagram)'
    BY <2>1 DEF ClientInv
  <2>9. SocksFit(sock, diagram, typed)'
    OBVIOUS
  <2>10. QED
    BY <2>5, <2>6, <2>7, <2>8, <2>9 DEF ClientInv
<1>3. CASE ~CanRetryBeforeStart
  <2>1. link' = NoLink /\ view' = Settled(view, link.id, FALSE)
    BY <1>3 DEF EndLink
  <2> DEFINE id == view.stream
             w == Settled(view, id, FALSE)
  <2>6. ViewFits(view, stored, diagram, typed, turns) /\ id \in Turns /\ view.request = id
    BY <1>1 DEF ClientInv
  <2>7. view.stream = id /\ view' = w
    BY <1>1, <2>1
  <2>8. ViewFits(w, stored, diagram, typed, turns) /\ w.stream = 0
    <3> HIDE DEF id
    <3>1. QED
      BY <2>6, <2>7, ViewBroken
  <2> HIDE DEF w
  <2>2. ViewFits(view', stored, diagram, typed, turns) /\ view'.stream = 0
    BY <2>7, <2>8
  <2>3. CallFits(call', view', diagram, typed, turns)
    BY <1>1, CallElsewhere DEF ClientInv
  <2>4. LoadFits(load', diagram) /\ gone' \subseteq Threads /\ calls' \in Nat
    BY DEF ClientInv
  <2>5. QED
    BY <2>1, <2>2, <2>3, <2>4, Unlinked
<1>4. QED
  BY <1>2, <1>3

LEMMA WatchdogKeeps ==
  ASSUME ClientInv, Watchdog
  PROVE  ClientInv'
<1>1. /\ Attached /\ EndLink /\ sock' = Closed(sock, link.sock, <<>>)
      /\ UNCHANGED <<stored, diagram, call, load, gone, turns, calls, typed>>
  BY DEF Watchdog
<1>2. link.sock \in Sockets /\ sock[link.sock].id # 0
  BY <1>1, AttachedTurn DEF Attached
<1>3. SocksFit(sock', diagram, typed) /\ sock'[link.sock].net = "closed"
  BY <1>1, <1>2, CloseFits DEF ClientInv
<1>4. QED
  BY <1>1, <1>3, EndLinkKeeps

LEMMA LinkBreaksKeeps ==
  ASSUME ClientInv, LinkBreaks
  PROVE  ClientInv'
<1>1. /\ Attached /\ EndLink
      /\ UNCHANGED <<stored, diagram, call, load, gone, turns, calls, typed>>
  BY DEF LinkBreaks
<1>2. link.sock \in Sockets /\ sock[link.sock].id # 0
  BY <1>1, AttachedTurn DEF Attached
<1>3. PICK kept \in 0 .. Len(sock[link.sock].up) :
           sock' = Closed([sock EXCEPT ![link.sock].up = SubSeq(@, 1, kept)], link.sock, <<>>)
  BY DEF LinkBreaks
<1> DEFINE cut == [sock EXCEPT ![link.sock].up = SubSeq(@, 1, kept)]
<1>4. SocksFit(cut, diagram, typed) /\ cut[link.sock].id = sock[link.sock].id
  BY <1>2, CutFits DEF ClientInv
<1> HIDE DEF cut
<1>5. sock' = Closed(cut, link.sock, <<>>)
  BY <1>3 DEF cut
<1>6. SocksFit(sock', diagram, typed) /\ sock'[link.sock].net = "closed"
  BY <1>2, <1>4, <1>5, CloseFits
<1>7. QED
  BY <1>1, <1>6, EndLinkKeeps

LEMMA LinkReconnects ==
  ASSUME NEW l \in Link, NEW s \in 0 .. MaxSockets
  PROVE  [l EXCEPT !.sock = s, !.waiting = FALSE, !.attempt = 1] \in Link
<1>1. 1 \in 0 .. 1
  OBVIOUS
<1> DEFINE attempts == 0 .. 1
<1>2. 1 \in attempts
  BY <1>1
<1> HIDE DEF attempts
<1>3. QED
  BY <1>2 DEF Link, attempts

LEMMA ReconnectKeeps ==
  ASSUME ClientInv, Reconnect
  PROVE  ClientInv'
<1> DEFINE s == Opened + 1
           m == [link EXCEPT !.sock = s, !.waiting = FALSE, !.attempt = 1]
           k == Connecting(link.id, link.thread, link.replay)
<1>1. /\ link.waiting /\ s \in Sockets /\ link' = m /\ sock' = [sock EXCEPT ![s] = k]
      /\ UNCHANGED <<view, stored, diagram, call, load, gone, turns, calls, typed>>
  BY DEF Reconnect, Connect, Connecting
<1>2. link.sock # 0 /\ ~link.ready /\ LinkFits(link, view, typed)
  BY <1>1 DEF ClientInv, LinkFits
<1>3. /\ link \in Link /\ view.stream \in Turns /\ link.id = view.stream
      /\ link.thread \in Threads
  BY <1>2, AttachedTurn
<1>14. s \in Sockets
  BY <1>1
<1> HIDE DEF s
<1>4. s \in 0 .. MaxSockets /\ s # 0
  BY <1>14, Parameters DEF Sockets
<1>5. m \in Link
  BY <1>3, <1>4, LinkReconnects
<1>6. /\ m.sock = s /\ m.id = link.id /\ m.thread = link.thread /\ m.ready = link.ready
      /\ m.queued = link.queued /\ m.replay = link.replay /\ ~m.waiting
  BY <1>3 DEF Link
<1> HIDE DEF m
<1>7. LinkFits(m, view, typed)
  BY <1>2, <1>4, <1>5, <1>6 DEF LinkFits
<1>8. k \in Sock /\ Fits(k, diagram, typed)
  <2> DEFINE id == link.id
             t == link.thread
             steers == link.replay
  <2>1. id \in Turns /\ t \in Threads /\ steers \in Seq(Nat) /\ Owns(id, steers, typed)
    BY <1>2, <1>3 DEF Link, LinkFits
  <2>2. k = Connecting(id, t, steers)
    OBVIOUS
  <2> HIDE DEF id, t, steers, k
  <2>3. QED
    BY <2>1, <2>2, ConnectFits
<1>9. Bound(k, view, m, stored)
  <2>1. ~m.ready /\ view.busy /\ view.retries[view.stream] = NoRetry
    BY <1>2, <1>6 DEF LinkFits
  <2>2. Bound(Connecting(m.id, m.thread, m.replay), view, m, stored)
    BY <2>1, BoundConnecting
  <2>3. QED
    BY <1>6, <2>2
<1> HIDE DEF k
<1>10. SocksFit(sock', diagram, typed)
  BY <1>1, <1>8, SockUpdate DEF ClientInv
<1>11. sock'[s] = k
  BY <1>1 DEF ClientInv, SocksFit
<1>12. Connected'
  BY <1>1, <1>6, <1>9, <1>11 DEF Connected, Attached
<1>13. QED
  BY <1>1, <1>7, <1>10, <1>12 DEF ClientInv

-----------------------------------------------------------------------------
(* A frame arrives.                                                        *)

LEMMA FirstFramesSent ==
  ASSUME NEW queued \in Seq(Nat), NEW id, NEW T, Owns(id, queued, T)
  PROVE  /\ FirstFrames(queued) \in Seq(Frames) /\ FirstFrames(queued) \in Seq(Upward)
         /\ UpOwned(FirstFrames(queued), id, T)
<1> DEFINE first == <<<<"start">>>>
           steers == [i \in 1 .. Len(queued) |-> <<"steer", queued[i]>>]
           up == first \o steers
<1>1. first \in Seq(Frames) /\ Len(first) = 1 /\ first[1][1] # "steer"
  BY DEF Frames
<1>2. \A i \in 1 .. Len(queued) : queued[i] \in Nat /\ steers[i] = <<"steer", queued[i]>>
  OBVIOUS
<1>3. \A i \in 1 .. Len(queued) : steers[i] \in Frames
  BY <1>2 DEF Frames
<1>4. steers \in Seq(Frames) /\ Len(steers) = Len(queued) /\ Len(queued) \in Nat
  BY <1>3
<1> HIDE DEF steers, first
<1>5. up \in Seq(Frames) /\ Len(up) = Len(first) + Len(steers)
      /\ \A i \in DOMAIN up : up[i] = IF i <= Len(first) THEN first[i] ELSE steers[i - Len(first)]
  <2>1. first \in Seq(Frames) /\ steers \in Seq(Frames)
    BY <1>1, <1>4
  <2>2. QED
    BY <2>1, ConcatProperties
<1>6. DOMAIN up = 1 .. (1 + Len(queued))
  BY <1>1, <1>4, <1>5
<1> HIDE DEF up
<1>7. up \in Seq(Upward)
  BY <1>5 DEF Upward
<1>8. ASSUME NEW i \in DOMAIN up, up[i][1] = "steer"
      PROVE  up[i][2] \in DOMAIN T /\ T[up[i][2]] = id
  <2>1. i # 1
    BY <1>1, <1>5, <1>8
  <2>2. i - 1 \in 1 .. Len(queued) /\ ~(i <= 1)
    BY <1>4, <1>6, <2>1
  <2>3. up[i] = <<"steer", queued[i - 1]>>
    BY <1>1, <1>2, <1>5, <1>8, <2>2
  <2>4. i - 1 \in DOMAIN queued
    BY <2>2
  <2>5. QED
    BY <2>3, <2>4 DEF Owns
<1>9. UpOwned(up, id, T)
  BY <1>8 DEF UpOwned
<1>10. FirstFrames(queued) = up
  BY DEF FirstFrames, up, first, steers
<1>11. QED
  BY <1>5, <1>7, <1>9, <1>10

LEMMA ReceiveReady ==
  ASSUME ClientInv, Receive, Head(sock[link.sock].down) = Ready
  PROVE  ClientInv'
<1> DEFINE k == sock[link.sock]
           up == FirstFrames(link.queued)
           w == Read(k, up)
           m == [link EXCEPT !.ready = TRUE, !.queued = <<>>]
<1>1. /\ Attached /\ k.down # <<>> /\ link' = m /\ view' = view
      /\ UNCHANGED <<stored, diagram, call, load, gone, turns, calls, typed>>
  BY BurstsAreEvents DEF Receive
<1>2. /\ link.sock \in Sockets /\ link \in Link /\ view.stream \in Turns /\ link.id = view.stream
      /\ k \in Sock /\ k.id = view.stream /\ Bound(k, view, link, stored)
      /\ sock \in [Sockets -> Sock] /\ Fits(k, diagram, typed)
  BY <1>1, AttachedTurn DEF Attached
<1>3. sock' = [sock EXCEPT ![link.sock] = w]
  <2>1. sock' = [sock EXCEPT ![link.sock].down = Tail(@), ![link.sock].up = up]
    BY BurstsAreEvents DEF Receive
  <2> HIDE DEF up
  <2>2. QED
    BY <1>2, <2>1 DEF Read
<1>4. LinkFits(link, view, typed) /\ link.sock # 0 /\ ~link.waiting
  BY <1>1 DEF ClientInv, Attached
<1>5. link.queued \in Seq(Nat) /\ Owns(k.id, link.queued, typed)
  BY <1>2, <1>4 DEF Link, LinkFits
<1>6. up \in Seq(Frames) /\ up \in Seq(Upward) /\ UpOwned(up, k.id, typed)
  BY <1>5, FirstFramesSent
<1> HIDE DEF up, k
<1>7. /\ w \in Sock /\ Fits(w, diagram, typed)
      /\ w.id = k.id /\ w.thread = k.thread /\ w.net = k.net /\ w.up = up
      /\ w.down = Tail(k.down) /\ w.start = k.start /\ w.run = k.run
      /\ w.steers = k.steers /\ w.sent = k.sent
  BY <1>1, <1>2, <1>6, ReadFits
<1> HIDE DEF w
<1>8. m \in Link
  BY <1>2, NothingTyped DEF Link
<1>9. /\ m.sock = link.sock /\ m.id = link.id /\ m.thread = link.thread /\ m.ready
      /\ m.queued = <<>> /\ m.replay = link.replay /\ m.waiting = link.waiting
  BY <1>2 DEF Link
<1> HIDE DEF m
<1>10. LinkFits(m, view, typed)
  BY <1>4, <1>8, <1>9, NothingSent DEF LinkFits
<1>11. Bound(w, view, m, stored)
  <2>1. Head(k.down) = Ready
    BY DEF k
  <2>2. QED
    BY <1>1, <1>2, <1>4, <1>6, <1>7, <1>9, <2>1, BoundReady
<1>12. Grows(stored, diagram, typed, turns, stored, diagram, typed', turns)
       /\ ViewFits(view', stored, diagram, typed', turns)
  BY <1>1, Quiet DEF ClientInv
<1>13. LinkFits(link', view', typed') /\ link'.sock = link.sock /\ ~link'.waiting
       /\ Bound(w, view', link', stored) /\ Fits(w, diagram, typed')
  BY <1>1, <1>4, <1>7, <1>9, <1>10, <1>11
<1>14. UNCHANGED <<stored, diagram, call, load, gone, turns, calls>>
  BY <1>1
<1>15. QED
  BY <1>1, <1>3, <1>7, <1>12, <1>13, <1>14, AttachedStep

LEMMA ReceiveDone ==
  ASSUME ClientInv, Receive, Head(sock[link.sock].down) = Done
  PROVE  ClientInv'
<1> DEFINE k == sock[link.sock]
           id == view.stream
           w == Settled(HandleBurst(view, id, Done), id, TRUE)
<1>1. /\ Attached /\ k.down # <<>> /\ link' = NoLink
      /\ view' = Settled(HandleBurst(view, link.id, Done), link.id, TRUE)
      /\ sock' = Closed(sock, link.sock, <<>>)
      /\ UNCHANGED <<stored, diagram, call, load, gone, turns, calls, typed>>
  BY BurstsAreEvents DEF Receive
<1>2. /\ link.sock \in Sockets /\ id \in Turns /\ link.id = id
      /\ k \in Sock /\ k.id = id /\ Bound(k, view, link, stored)
      /\ call.kind # "retry"
  BY <1>1, AttachedTurn DEF Attached
<1>3. view' = w
  BY <1>1, <1>2
<1>4. view.text # <<>> =>
        stored[id] # NoTurn
        /\ view.text = <<[by |-> stored[id].by, steers |-> stored[id].steers]>>
  BY <1>1, <1>2, BoundDone
<1>5. ViewFits(w, stored, diagram, typed, turns) /\ w.stream = 0
  <2>1. ViewFits(view, stored, diagram, typed, turns) /\ view.stream = id
    BY DEF ClientInv
  <2> HIDE DEF id
  <2>2. QED
    BY <1>2, <1>4, <2>1, ViewDone
<1>6. k.id # 0
  BY <1>2 DEF Turns
<1> HIDE DEF w, id
<1>7. SocksFit(sock', diagram, typed)
  BY <1>1, <1>2, <1>6, CloseFits DEF ClientInv
<1>8. ViewFits(view', stored, diagram, typed, turns) /\ view'.stream = 0
  BY <1>3, <1>5
<1>9. CallFits(call', view', diagram, typed, turns)
  BY <1>1, <1>2, CallElsewhere DEF ClientInv
<1>10. LoadFits(load', diagram) /\ gone' \subseteq Threads /\ calls' \in Nat
  BY <1>1 DEF ClientInv
<1>11. QED
  BY <1>1, <1>7, <1>8, <1>9, <1>10, Unlinked

LEMMA ReceiveNews ==
  ASSUME ClientInv, Receive, Head(sock[link.sock].down) # Ready, Head(sock[link.sock].down) # Done
  PROVE  ClientInv'
<1> DEFINE k == sock[link.sock]
           b == Head(k.down)
           id == view.stream
           x == HandleBurst(view, id, b)
           w == Read(k, k.up)
<1>1. /\ Attached /\ k.down # <<>> /\ link' = link
      /\ view' = HandleBurst(view, link.id, b)
      /\ sock' = [sock EXCEPT ![link.sock].down = Tail(@)]
      /\ UNCHANGED <<stored, diagram, call, load, gone, turns, calls, typed>>
  BY DEF Receive
<1>2. /\ link.sock \in Sockets /\ link \in Link /\ id \in Turns /\ link.id = id
      /\ view.request = id /\ view \in View /\ view.thread \in Threads
      /\ k \in Sock /\ k.id = id /\ k.thread = view.thread /\ Bound(k, view, link, stored)
      /\ sock \in [Sockets -> Sock] /\ Fits(k, diagram, typed)
  BY <1>1, AttachedTurn DEF Attached
<1>3. sock' = [sock EXCEPT ![link.sock] = w]
  BY <1>1, <1>2 DEF Read, Sock
<1>4. view' = x
  BY <1>1, <1>2
<1>5. /\ view.busy /\ view.retries[id] = NoRetry /\ link.ready
      /\ IsTold(b) \/ IsLast(b)
  BY <1>1, <1>2, NextFrame
<1>6. k.up \in Seq(Upward) /\ UpOwned(k.up, k.id, typed) /\ k.down \in Seq(Seq(Events))
      /\ DownFits(k.down, k.thread, k.id, diagram, typed)
  BY <1>2 DEF Sock, Fits
<1>7. b \in Seq(Events) /\ BurstSaved(b, view.thread, diagram) /\ BurstOwned(b, id, typed)
  BY <1>1, <1>2, <1>6, DownShortened
<1>8. ViewFits(view, stored, diagram, typed, turns)
  BY DEF ClientInv
<1>9. Streaming(view, id)
  BY <1>2, <1>5, <1>8 DEF Streaming, ViewFits, Phased, Turns
<1> HIDE DEF k, b, id
<1>10. /\ w \in Sock /\ Fits(w, diagram, typed)
       /\ w.id = k.id /\ w.thread = k.thread /\ w.net = k.net /\ w.up = k.up
       /\ w.down = Tail(k.down) /\ w.start = k.start /\ w.run = k.run
       /\ w.steers = k.steers /\ w.sent = k.sent
  BY <1>1, <1>2, <1>6, ReadFits
<1> HIDE DEF w
<1>11. /\ ViewFits(x, stored, diagram, typed, turns)
       /\ x.thread = view.thread /\ x.stream = id /\ x.request = id
       /\ x.text = TextAfter(view.text, b)
       /\ IsTold(b) => x.busy /\ x.retries[id] = NoRetry /\ x.steers = Known(view.steers, b)
  <2>1. CASE IsTold(b)
    <3>1. /\ ViewFits(x, stored, diagram, typed, turns) /\ x.retries[id] = NoRetry
      BY <1>2, <1>5, <1>7, <1>8, <1>9, <2>1, ViewTold
    <3>2. /\ Told(view, x, id, b) /\ x.text = TextAfter(view.text, b)
          /\ x.steers = Known(view.steers, b)
      BY <1>9, <2>1, BurstTold
    <3>3. QED
      BY <3>1, <3>2 DEF Told, Kept, Streaming
  <2>2. CASE IsLast(b) /\ ~IsTold(b)
    <3>1. ViewFits(x, stored, diagram, typed, turns)
      BY <1>2, <1>5, <1>7, <1>8, <1>9, <2>2, ViewLast
    <3>2. Closing(view, x, id, b) /\ x.text = TextAfter(view.text, b)
      BY <1>9, <2>2, BurstLast
    <3>3. x.thread = view.thread /\ x.stream = view.stream /\ x.request = view.request
      BY <3>2 DEF Closing, Kept
    <3>4. QED
      BY <1>9, <2>2, <3>1, <3>2, <3>3 DEF Streaming
  <2>3. QED
    BY <1>5, <2>1, <2>2
<1> HIDE DEF x
<1>12. LinkFits(link', view', typed')
  <2>1. LinkFits(link, view, typed) /\ id # 0 /\ id = view.stream
    BY <1>2 DEF ClientInv, Turns, id
  <2>2. QED
    BY <1>1, <1>2, <1>4, <1>5, <1>11, <2>1 DEF LinkFits
<1>13. Bound(w, x, link, stored)
  <2>1. Head(k.down) # Ready /\ Head(k.down) # Done /\ b = Head(k.down) /\ id = view.stream
    BY DEF k, b, id
  <2>2. QED
    BY <1>1, <1>2, <1>10, <1>11, <2>1, BoundReads
<1>14. Grows(stored, diagram, typed, turns, stored, diagram, typed', turns)
       /\ ViewFits(view', stored, diagram, typed', turns)
  BY <1>1, <1>4, <1>11, Quiet
<1>15. link'.sock = link.sock /\ ~link'.waiting
       /\ Bound(w, view', link', stored) /\ Fits(w, diagram, typed')
  BY <1>1, <1>4, <1>10, <1>13 DEF Attached
<1>16. UNCHANGED <<stored, diagram, call, load, gone, turns, calls>>
  BY <1>1
<1>17. QED
  BY <1>1, <1>3, <1>10, <1>12, <1>14, <1>15, <1>16, AttachedStep

LEMMA ReceiveKeeps ==
  ASSUME ClientInv, Receive
  PROVE  ClientInv'
BY ReceiveReady, ReceiveDone, ReceiveNews

-----------------------------------------------------------------------------
(* The bursts the server sends.                                            *)

Neutral(b) == \A j \in DOMAIN b : b[j][1] \notin {"delta", "reset", "error"}

LEMMA TextNeutral ==
  ASSUME NEW x, NEW b, Neutral(b)
  PROVE  TextAfter(x, b) = x
<1>1. ASSUME NEW y, NEW i
      PROVE  TextAt(y, b, i) = y
  <2>1. CASE i \in DOMAIN b
    <3>1. b[i][1] # "delta" /\ b[i][1] # "reset" /\ b[i][1] # "error"
      BY <2>1 DEF Neutral
    <3>2. QED
      BY <2>1, <3>1 DEF TextAt, TextEvent
  <2>2. CASE i \notin DOMAIN b
    BY <2>2 DEF TextAt
  <2>3. QED
    BY <2>1, <2>2
<1>2. QED
  BY <1>1 DEF TextAfter

\* A burst that follows a short one.
LEMMA TextJoined ==
  ASSUME NEW x, NEW a \in Seq(Events), NEW b \in Seq(Events), Len(a) <= 2,
         Len(a) + Len(b) <= 5
  PROVE  TextAfter(x, a \o b) = TextAfter(TextAfter(x, a), b)
<1> DEFINE all == a \o b
           p == Len(a)
           q == Len(b)
<1>1. /\ all \in Seq(Events) /\ Len(all) = p + q
      /\ \A i \in 1 .. p + q : all[i] = IF i <= p THEN a[i] ELSE b[i - p]
  BY ConcatProperties
<1>2. p \in Nat /\ q \in Nat /\ p <= 2
  OBVIOUS
<1>3. DOMAIN all = 1 .. p + q /\ DOMAIN a = 1 .. p /\ DOMAIN b = 1 .. q
  BY <1>1
<1> HIDE DEF all, p, q
<1>4. ASSUME NEW y, NEW i \in 1 .. p
      PROVE  TextAt(y, all, i) = TextAt(y, a, i)
  <2>1. i \in DOMAIN all /\ i \in DOMAIN a /\ all[i] = a[i]
    BY <1>1, <1>2, <1>3, <1>4
  <2>2. QED
    BY <2>1 DEF TextAt
<1>5. ASSUME NEW y, NEW i \in Nat, i >= 1
      PROVE  TextAt(y, all, p + i) = TextAt(y, b, i)
  <2>1. CASE i <= q
    <3>1. p + i \in 1 .. p + q /\ ~(p + i <= p) /\ (p + i) - p = i /\ i \in 1 .. q
      BY <1>2, <1>5, <2>1
    <3>2. p + i \in DOMAIN all /\ i \in DOMAIN b /\ all[p + i] = b[i]
      BY <1>1, <1>3, <3>1
    <3>3. QED
      BY <3>2 DEF TextAt
  <2>2. CASE ~(i <= q)
    <3>1. p + i \notin DOMAIN all /\ i \notin DOMAIN b
      BY <1>2, <1>3, <1>5, <2>2
    <3>2. QED
      BY <3>1 DEF TextAt
  <2>3. QED
    BY <2>1, <2>2
<1>6. ASSUME NEW y, NEW i \in Nat, i > p
      PROVE  TextAt(y, a, i) = y
  BY <1>2, <1>3, <1>6 DEF TextAt
<1>7. ASSUME NEW y, NEW i \in Nat, i > q
      PROVE  TextAt(y, b, i) = y
  BY <1>2, <1>3, <1>7 DEF TextAt
<1>8. CASE p = 0
  <2>1. \A y : /\ TextAt(y, all, 1) = TextAt(y, b, 1) /\ TextAt(y, all, 2) = TextAt(y, b, 2)
               /\ TextAt(y, all, 3) = TextAt(y, b, 3) /\ TextAt(y, all, 4) = TextAt(y, b, 4)
               /\ TextAt(y, all, 5) = TextAt(y, b, 5)
    BY <1>5, <1>8
  <2>2. \A y : /\ TextAt(y, a, 1) = y /\ TextAt(y, a, 2) = y /\ TextAt(y, a, 3) = y
               /\ TextAt(y, a, 4) = y /\ TextAt(y, a, 5) = y
    BY <1>6, <1>8
  <2>3. QED
    BY <2>1, <2>2 DEF TextAfter, all
<1>9. CASE p = 1
  <2>1. \A y : /\ TextAt(y, all, 2) = TextAt(y, b, 1) /\ TextAt(y, all, 3) = TextAt(y, b, 2)
               /\ TextAt(y, all, 4) = TextAt(y, b, 3) /\ TextAt(y, all, 5) = TextAt(y, b, 4)
    BY <1>5, <1>9
  <2>2. \A y : /\ TextAt(y, all, 1) = TextAt(y, a, 1) /\ TextAt(y, a, 2) = y
               /\ TextAt(y, a, 3) = y /\ TextAt(y, a, 4) = y /\ TextAt(y, a, 5) = y
    BY <1>4, <1>6, <1>9
  <2>3. \A y : TextAt(y, b, 5) = y
    BY <1>2, <1>7, <1>9 DEF p, q
  <2>4. QED
    BY <2>1, <2>2, <2>3 DEF TextAfter, all
<1>10. CASE p = 2
  <2>1. \A y : /\ TextAt(y, all, 3) = TextAt(y, b, 1) /\ TextAt(y, all, 4) = TextAt(y, b, 2)
               /\ TextAt(y, all, 5) = TextAt(y, b, 3)
    BY <1>5, <1>10
  <2>2. \A y : /\ TextAt(y, all, 1) = TextAt(y, a, 1) /\ TextAt(y, all, 2) = TextAt(y, a, 2)
               /\ TextAt(y, a, 3) = y /\ TextAt(y, a, 4) = y /\ TextAt(y, a, 5) = y
    BY <1>4, <1>6, <1>10
  <2>3. \A y : TextAt(y, b, 4) = y /\ TextAt(y, b, 5) = y
    BY <1>2, <1>7, <1>10 DEF p, q
  <2>4. QED
    BY <2>1, <2>2, <2>3 DEF TextAfter, all
<1>11. p \in {0, 1, 2}
  BY <1>2
<1>12. QED
  BY <1>8, <1>9, <1>10, <1>11

\* Bursts of one event or two.
LEMMA ShortBursts ==
  /\ \A x, e : TextAfter(x, <<e>>) = TextEvent(x, e)
  /\ \A x, e, f : TextAfter(x, <<e, f>>) = TextEvent(TextEvent(x, e), f)
  /\ \A x : TextAfter(x, <<>>) = x
<1>1. ASSUME NEW x, NEW e
      PROVE  TextAfter(x, <<e>>) = TextEvent(x, e)
  <2> DEFINE b == <<e>>
  <2>1. DOMAIN b = {1} /\ b[1] = e
    OBVIOUS
  <2> HIDE DEF b
  <2>2. \A y : /\ TextAt(y, b, 1) = TextEvent(y, e) /\ TextAt(y, b, 2) = y
               /\ TextAt(y, b, 3) = y /\ TextAt(y, b, 4) = y /\ TextAt(y, b, 5) = y
    BY <2>1 DEF TextAt
  <2>3. TextAfter(x, b) = TextEvent(x, e)
    BY <2>2 DEF TextAfter
  <2>4. QED
    BY <2>3 DEF b
<1>2. ASSUME NEW x, NEW e, NEW f
      PROVE  TextAfter(x, <<e, f>>) = TextEvent(TextEvent(x, e), f)
  <2> DEFINE b == <<e, f>>
  <2>1. DOMAIN b = {1, 2} /\ b[1] = e /\ b[2] = f
    OBVIOUS
  <2> HIDE DEF b
  <2>2. \A y : /\ TextAt(y, b, 1) = TextEvent(y, e) /\ TextAt(y, b, 2) = TextEvent(y, f)
               /\ TextAt(y, b, 3) = y /\ TextAt(y, b, 4) = y /\ TextAt(y, b, 5) = y
    BY <2>1 DEF TextAt
  <2>3. TextAfter(x, b) = TextEvent(TextEvent(x, e), f)
    BY <2>2 DEF TextAfter
  <2>4. QED
    BY <2>3 DEF b
<1>3. ASSUME NEW x
      PROVE  TextAfter(x, <<>>) = x
  <2>1. Neutral(<<>>)
    BY NothingTyped DEF Neutral
  <2>2. QED
    BY <2>1, TextNeutral
<1>4. QED
  BY <1>1, <1>2, <1>3

\* A burst that may be sent when the turn is over, with its diagrams and its text.
EndsWell(b, t, d, X) ==
    /\ b \in Seq(Ending) /\ BurstSaved(b, t, d)
    /\ \A j \in DOMAIN b : b[j][1] # "error" /\ (b[j][1] = "delta" => b[j][2] = X)

LEMMA EndsJoined ==
  ASSUME NEW a, NEW b, NEW t, NEW d, NEW X, EndsWell(a, t, d, X), EndsWell(b, t, d, X)
  PROVE  EndsWell(a \o b, t, d, X) /\ Len(a \o b) = Len(a) + Len(b)
<1> DEFINE all == a \o b
           p == Len(a)
<1>1. a \in Seq(Ending) /\ b \in Seq(Ending)
  BY DEF EndsWell
<1>2. /\ all \in Seq(Ending) /\ Len(all) = Len(a) + Len(b)
      /\ \A i \in 1 .. Len(a) + Len(b) : all[i] = IF i <= Len(a) THEN a[i] ELSE b[i - Len(a)]
  BY <1>1, ConcatProperties
<1>3. \A i \in DOMAIN all :
         (i \in DOMAIN a /\ all[i] = a[i]) \/ (i - p \in DOMAIN b /\ all[i] = b[i - p])
  BY <1>1, <1>2
<1> HIDE DEF all, p
<1>4. EndsWell(all, t, d, X)
  BY <1>2, <1>3 DEF EndsWell, BurstSaved
<1>5. QED
  BY <1>2, <1>4 DEF all

LEMMA EndsAreEvents ==
  ASSUME NEW b, NEW t, NEW d, NEW id, NEW T, NEW X, EndsWell(b, t, d, X),
         Owns(id, X.steers, T)
  PROVE  /\ b \in Seq(Events) /\ BurstSaved(b, t, d) /\ BurstOwned(b, id, T)
         /\ Len(b) <= 5 => IsLast(b)
<1>1. b \in Seq(Ending) /\ DOMAIN b = 1 .. Len(b) /\ Len(b) \in Nat
  BY DEF EndsWell
<1>2. \A e \in Ending : e[1] # "steered"
  BY DEF Ending
<1>3. BurstOwned(b, id, T)
  <2>1. \A j \in DOMAIN b : b[j][1] # "steered" /\ (b[j][1] = "delta" => b[j][2] = X)
    BY <1>1, <1>2 DEF EndsWell
  <2>2. \A j \in DOMAIN b : b[j][1] = "delta" => Owns(id, b[j][2].steers, T)
    BY <2>1
  <2>3. QED
    BY <2>1, <2>2 DEF BurstOwned
<1>4. b \in Seq(Events)
  BY <1>1 DEF Events
<1>5. ~HasError(b) /\ \A j \in 1 .. (Len(b) - 1) : b[j][1] # "error"
  BY <1>1 DEF EndsWell, HasError
<1>6. QED
  BY <1>1, <1>3, <1>4, <1>5 DEF IsLast, EndsWell

-----------------------------------------------------------------------------
(* The steps of the server.                                                *)

LEMMA ServerStep ==
  ASSUME ClientInv, NEW s \in Sockets,
         UNCHANGED <<view, link, call, load, gone, turns, calls, typed>>,
         Grows(stored, diagram, typed, turns, stored', diagram', typed, turns),
         NEW w \in Sock, Fits(w, diagram', typed), sock' = [sock EXCEPT ![s] = w],
         Attached /\ link.sock = s => Bound(w, view, link, stored'),
         sock[s].net = "closed" => w.net = "closed"
  PROVE  ClientInv'
<1>1. /\ World(stored', diagram', typed, turns)
      /\ ViewFits(view, stored', diagram', typed, turns) /\ LinkFits(link, view, typed)
      /\ CallFits(call, view, diagram', typed, turns) /\ LoadFits(load, diagram')
      /\ SocksFit(sock, diagram', typed)
      /\ Attached => Bound(sock[link.sock], view, link, stored')
  BY InvGrows
<1>2. SocksFit(sock', diagram', typed)
  BY <1>1, SockUpdate
<1>3. \A i \in Sockets : sock'[i] = IF i = s THEN w ELSE sock[i]
  BY <1>1 DEF SocksFit
<1>4. link.sock # 0 => link.sock \in Sockets
  BY <1>1, Parameters DEF LinkFits, Link, Sockets
<1>5. ASSUME Attached
      PROVE  Bound(sock'[link.sock], view, link, stored')
  BY <1>1, <1>3, <1>4, <1>5 DEF Attached
<1>6. ASSUME link.waiting
      PROVE  sock'[link.sock].net = "closed"
  <2>1. link.sock \in Sockets /\ sock[link.sock].net = "closed"
    BY <1>1, <1>4, <1>6 DEF LinkFits, ClientInv, Connected
  <2>2. QED
    BY <1>3, <2>1
<1>7. Connected'
  BY <1>5, <1>6 DEF Connected, Attached
<1>8. gone' \subseteq Threads /\ calls' \in Nat
  BY DEF ClientInv
<1>9. /\ ViewFits(view', stored', diagram', typed', turns') /\ LinkFits(link', view', typed')
      /\ CallFits(call', view', diagram', typed', turns') /\ LoadFits(load', diagram')
      /\ SocksFit(sock', diagram', typed') /\ World(stored', diagram', typed', turns')
  BY <1>1, <1>2
<1>10. QED
  BY <1>7, <1>8, <1>9 DEF ClientInv

\* A connection the server acts on.
LEMMA Serving ==
  ASSUME ClientInv, NEW s \in Sockets,
         sock[s].net = "connecting" \/ sock[s].up # <<>> \/ sock[s].run = "running"
  PROVE  /\ sock \in [Sockets -> Sock] /\ sock[s] \in Sock /\ Fits(sock[s], diagram, typed)
         /\ sock[s].id \in Turns /\ sock[s].id # 0 /\ sock[s].thread \in Threads
         /\ sock[s].up \in Seq(Upward) /\ UpOwned(sock[s].up, sock[s].id, typed)
         /\ sock[s].down \in Seq(Seq(Events))
         /\ DownFits(sock[s].down, sock[s].thread, sock[s].id, diagram, typed)
         /\ sock[s].steers \in Seq(Nat) /\ Owns(sock[s].id, sock[s].steers, typed)
         /\ sock[s].sent \in SUBSET {"text", "preview"} /\ sock[s].accepted \in BOOLEAN
         /\ Attached /\ link.sock = s => Bound(sock[s], view, link, stored)
         /\ view \in View
<1>1. sock \in [Sockets -> Sock] /\ sock[s] \in Sock /\ Fits(sock[s], diagram, typed)
  BY DEF ClientInv, SocksFit
<1> DEFINE k == sock[s]
<1>2. k.id # 0 /\ k.thread \in Threads
  BY <1>1 DEF Fits, Silent
<1>3. Attached /\ link.sock = s => Bound(k, view, link, stored)
  BY DEF ClientInv, Connected
<1>4. view \in View
  BY DEF ClientInv, ViewFits
<1>5. /\ k.id \in 0 .. MaxTurns /\ k.up \in Seq(Upward) /\ k.down \in Seq(Seq(Events))
      /\ k.steers \in Seq(Nat) /\ k.sent \in SUBSET {"text", "preview"} /\ k.accepted \in BOOLEAN
  BY <1>1 DEF Sock
<1>6. k.id \in Turns
  BY <1>2, <1>5, Parameters DEF Turns
<1>7. /\ UpOwned(k.up, k.id, typed) /\ Owns(k.id, k.steers, typed)
      /\ DownFits(k.down, k.thread, k.id, diagram, typed)
  BY <1>1 DEF Fits
<1>8. QED
  BY <1>1, <1>2, <1>3, <1>4, <1>5, <1>6, <1>7

LEMMA AcceptsKeeps ==
  ASSUME ClientInv, NEW s \in Sockets, Accepts(s)
  PROVE  ClientInv'
<1> DEFINE k == sock[s]
           w == Answered(k)
<1>1. /\ k.net = "connecting" /\ UNCHANGED <<stored, diagram>>
      /\ UNCHANGED <<view, link, call, load, gone, turns, calls, typed>>
      /\ sock' = [sock EXCEPT ![s].net = "open", ![s].down = <<Ready>>]
  BY DEF Accepts, ServerOnly
<1>2. /\ sock \in [Sockets -> Sock] /\ k \in Sock /\ Fits(k, diagram, typed)
      /\ Attached /\ link.sock = s => Bound(k, view, link, stored)
  BY <1>1, Serving
<1>3. sock' = [sock EXCEPT ![s] = w]
  BY <1>1, <1>2 DEF Answered
<1> HIDE DEF k
<1>4. /\ w \in Sock /\ Fits(w, diagram, typed)
      /\ w.id = k.id /\ w.thread = k.thread /\ w.net = "open" /\ w.up = k.up
      /\ w.down = <<Ready>> /\ w.start = k.start /\ w.run = k.run /\ w.sent = k.sent
  BY <1>1, <1>2, AnsweredFits
<1> HIDE DEF w
<1>5. Attached /\ link.sock = s => Bound(w, view, link, stored)
  BY <1>1, <1>2, <1>4, BoundAnswered
<1>6. Grows(stored, diagram, typed, turns, stored', diagram', typed, turns)
  BY <1>1, Quiet
<1>7. sock[s].net # "closed"
  BY <1>1 DEF k
<1>8. Fits(w, diagram', typed) /\ (Attached /\ link.sock = s => Bound(w, view, link, stored'))
  BY <1>1, <1>4, <1>5
<1>9. QED
  BY <1>1, <1>3, <1>4, <1>6, <1>7, <1>8, ServerStep

\* The text the server has written since the turn began, or began again.
Written(sent, s, steers) == IF "text" \in sent THEN <<[by |-> s, steers |-> steers]>> ELSE <<>>

\* What Push leaves on its way.
Pushed(k, b) == IF k.net = "closed" THEN <<>> ELSE k.down \o <<b>>

LEMMA PushedFits ==
  ASSUME NEW k, NEW b \in Seq(Events), k.down \in Seq(Seq(Events)), NEW d, NEW T,
         DownFits(k.down, k.thread, k.id, d, T), BurstSaved(b, k.thread, d), BurstOwned(b, k.id, T)
  PROVE  /\ Pushed(k, b) \in Seq(Seq(Events)) /\ DownFits(Pushed(k, b), k.thread, k.id, d, T)
         /\ k.net # "closed" => Pushed(k, b) = Append(k.down, b)
<1> DEFINE down == k.down
           all == Append(down, b)
<1>1. down \o <<b>> = all
  OBVIOUS
<1>2. all \in Seq(Seq(Events)) /\ DownFits(all, k.thread, k.id, d, T)
  BY DownAppended
<1>3. <<>> \in Seq(Seq(Events)) /\ DownFits(<<>>, k.thread, k.id, d, T)
  BY NothingSent, NothingTyped DEF DownFits
<1> HIDE DEF all
<1>4. Pushed(k, b) = IF k.net = "closed" THEN <<>> ELSE all
  BY <1>1 DEF Pushed
<1>5. QED
  BY <1>2, <1>3, <1>4 DEF all

\* A running turn tells something, and goes on.
LEMMA Says ==
  ASSUME ClientInv, NEW s \in Sockets, sock[s].run = "running",
         UNCHANGED <<view, link, call, load, gone, turns, calls, typed>>,
         UNCHANGED <<stored, diagram>>,
         NEW b, IsTold(b), BurstSaved(b, sock[s].thread, diagram), BurstOwned(b, sock[s].id, typed),
         NEW up \in Seq(Upward), UpOwned(up, sock[s].id, typed),
         sock[s].up \in Seq(Frames) => up \in Seq(Frames),
         NEW steers \in Seq(Nat), Owns(sock[s].id, steers, typed),
         Acknowledges(b, sock[s].steers, steers),
         NEW sent \in SUBSET {"text", "preview"}, NEW accepted \in BOOLEAN,
         sock' = [sock EXCEPT ![s] = Advanced(sock[s], up, Pushed(sock[s], b), steers, sent, accepted)],
         TextAfter(Written(sock[s].sent, s, sock[s].steers), b) = Written(sent, s, steers)
  PROVE  ClientInv'
<1> DEFINE k == sock[s]
           down == Pushed(k, b)
           w == Advanced(k, up, down, steers, sent, accepted)
<1>1. /\ k \in Sock /\ Fits(k, diagram, typed) /\ view \in View
      /\ k.down \in Seq(Seq(Events)) /\ DownFits(k.down, k.thread, k.id, diagram, typed)
      /\ Attached /\ link.sock = s => Bound(k, view, link, stored)
  BY Serving
<1>2. b \in Seq(Events)
  BY BurstsAreEvents
<1>3. sock' = [sock EXCEPT ![s] = w] /\ (sock[s].net = "closed" => k.net = "closed")
  OBVIOUS
<1>4. /\ k.run = "running" /\ BurstSaved(b, k.thread, diagram) /\ BurstOwned(b, k.id, typed)
      /\ UpOwned(up, k.id, typed) /\ (k.up \in Seq(Frames) => up \in Seq(Frames))
      /\ Owns(k.id, steers, typed) /\ Acknowledges(b, k.steers, steers)
      /\ TextAfter(Written(k.sent, s, k.steers), b) = Written(sent, s, steers)
  OBVIOUS
<1> HIDE DEF k
<1>5. /\ down \in Seq(Seq(Events)) /\ DownFits(down, k.thread, k.id, diagram, typed)
      /\ k.net # "closed" => down = Append(k.down, b)
  BY <1>1, <1>2, <1>4, PushedFits
<1> HIDE DEF down
<1>6. /\ w \in Sock /\ Fits(w, diagram, typed)
      /\ w.id = k.id /\ w.thread = k.thread /\ w.net = k.net /\ w.run = "running"
      /\ w.up = up /\ w.down = down /\ w.steers = steers /\ w.sent = sent
  BY <1>1, <1>4, <1>5, AdvancedFits
<1> HIDE DEF w
<1>7. ASSUME Attached, link.sock = s
      PROVE  Bound(w, view, link, stored)
  <2>1. Bound(k, view, link, stored)
    BY <1>1, <1>7
  <2>2. k.net # "closed" /\ k.up \in Seq(Frames)
    BY <2>1 DEF Bound, Carried
  <2>3. \A x \in Seq(Texts) : Shown(k, link.sock, stored, x) => Shown(w, link.sock, stored, TextAfter(x, b))
    BY <1>4, <1>6, <1>7 DEF Shown, Written
  <2>4. w.down = Append(k.down, b) /\ w.up \in Seq(Frames)
    BY <1>4, <1>5, <1>6, <2>2
  <2>5. link.sock \in Nat /\ stored \in [Turns -> Completed] /\ k.id \in Turns
    <3>1. k.id \in 0 .. MaxTurns /\ k.id # 0
      BY <1>1, <1>4 DEF Sock, Fits, Silent
    <3>2. k.id \in Turns /\ link.sock \in Nat
      BY <1>7, <3>1, Parameters DEF Turns, Sockets
    <3>3. QED
      BY <3>2 DEF ClientInv, World
  <2>6. QED
    BY <1>1, <1>4, <1>6, <2>1, <2>3, <2>4, <2>5, BoundPush
<1>8. Grows(stored, diagram, typed, turns, stored', diagram', typed, turns)
  BY Quiet
<1>9. Fits(w, diagram', typed) /\ (Attached /\ link.sock = s => Bound(w, view, link, stored'))
  BY <1>6, <1>7
<1>10. sock[s].net = "closed" => w.net = "closed"
  BY <1>3, <1>6
<1>11. QED
  BY <1>3, <1>6, <1>8, <1>9, <1>10, ServerStep

\* What is left of the text when a turn is over.
LastText(x, turn) ==
    x = <<>> \/ (turn # NoTurn /\ x = <<[by |-> turn.by, steers |-> turn.steers]>>)

\* The last news of a turn, told before `done`.
LEMMA TurnOver ==
  ASSUME ClientInv, NEW s \in Sockets, sock[s].id # 0, sock[s].run # "over",
         sock[s].up # <<>> \/ sock[s].run = "running",
         UNCHANGED <<view, link, call, load, gone, turns, calls, typed>>,
         Grows(stored, diagram, typed, turns, stored', diagram', typed, turns),
         NEW b, IsLast(b), BurstSaved(b, sock[s].thread, diagram'), BurstOwned(b, sock[s].id, typed),
         sock' = [sock EXCEPT ![s] = EndedTurn(sock[s], <<b, Done>>)],
         Attached /\ link.sock = s =>
            LastText(TextAfter(Written(sock[s].sent, s, sock[s].steers), b), stored'[sock[s].id])
  PROVE  ClientInv'
<1> DEFINE k == sock[s]
           w == EndedTurn(k, <<b, Done>>)
           text == TextAfter(Written(k.sent, s, k.steers), b)
<1>1. /\ k \in Sock /\ view \in View
      /\ k.down \in Seq(Seq(Events))
      /\ Attached /\ link.sock = s => Bound(k, view, link, stored)
  BY Serving
<1>2. Fits(k, diagram', typed)
  BY InvGrows DEF SocksFit
<1>3. b \in Seq(Events)
  BY BurstsAreEvents
<1>4. /\ sock' = [sock EXCEPT ![s] = w] /\ k.id # 0 /\ k.run # "over"
      /\ BurstSaved(b, k.thread, diagram') /\ BurstOwned(b, k.id, typed)
      /\ k.up # <<>> \/ k.run = "running"
      /\ sock[s].net = "closed" => k.net = "closed"
  OBVIOUS
<1>5. Attached /\ link.sock = s => LastText(text, stored'[k.id])
  OBVIOUS
<1> HIDE DEF k
<1>6. DownFits(k.down, k.thread, k.id, diagram', typed)
  BY <1>2 DEF Fits
<1>7. /\ k.down \o <<b, Done>> \in Seq(Seq(Events))
      /\ DownFits(k.down \o <<b, Done>>, k.thread, k.id, diagram', typed)
  BY <1>1, <1>3, <1>4, <1>6, DownEnded
<1>8. /\ w \in Sock /\ Fits(w, diagram', typed) /\ w.run = "over" /\ w.up = <<>>
      /\ k.net = "closed" => w.net = "closed"
      /\ k.net # "closed" => /\ w.id = k.id /\ w.thread = k.thread /\ w.net = k.net
                             /\ w.down = k.down \o <<b, Done>>
  BY <1>1, <1>2, <1>4, <1>7, EndedFits
<1> HIDE DEF w
<1>9. ASSUME Attached, link.sock = s
      PROVE  Bound(w, view, link, stored')
  <2>1. Bound(k, view, link, stored)
    BY <1>1, <1>9
  <2>2. k.net # "closed" /\ (~link.ready => k.run = "none" /\ k.up = <<>>)
    BY <2>1 DEF Bound, Carried, Waits
  <2>3. link.ready
    BY <1>4, <2>2
  <2>4. \A x \in Seq(Texts) : Shown(k, link.sock, stored, x) => x = Written(k.sent, s, k.steers)
    BY <1>4, <1>9 DEF Shown, Written
  <2>5. Shown(w, link.sock, stored', text)
    BY <1>5, <1>8, <1>9, <2>2 DEF Shown, LastText
  <2>6. \A x \in Seq(Texts) : Shown(k, link.sock, stored, x) => Shown(w, link.sock, stored', TextAfter(x, b))
    BY <2>4, <2>5
  <2>7. link.sock \in Nat /\ stored' \in [Turns -> Completed] /\ k.id \in Turns
    <3>1. k.id \in 0 .. MaxTurns
      BY <1>1 DEF Sock
    <3>2. k.id \in Turns /\ link.sock \in Nat
      BY <1>4, <1>9, <3>1, Parameters DEF Turns, Sockets
    <3>3. QED
      BY <3>2 DEF Grows, World
  <2>8. QED
    BY <1>1, <1>4, <1>8, <2>1, <2>2, <2>3, <2>6, <2>7, BoundEnds
<1>10. Attached /\ link.sock = s => Bound(w, view, link, stored')
  BY <1>9
<1>11. sock[s].net = "closed" => w.net = "closed"
  BY <1>4, <1>8
<1>12. QED
  BY <1>4, <1>8, <1>10, <1>11, ServerStep

\* The pieces the last news are made of.
LEMMA SavedFits ==
  ASSUME NEW d \in [Threads -> 0 .. MaxVersion], NEW t \in Threads
  PROVE  Version(t, d[t]) \in Versions /\ SavedIn(Version(t, d[t]), t, d)
<1>1. d[t] \in Nat
  BY Parameters
<1>2. CASE d[t] = 0
  BY <1>2 DEF Version, Versions, SavedIn
<1>3. CASE d[t] # 0
  <2>1. Version(t, d[t]) = <<t, d[t]>> /\ <<t, d[t]>> \in Threads \X Nat
    BY <1>1, <1>3 DEF Version
  <2>2. QED
    BY <1>1, <2>1 DEF Versions, SavedIn
<1>4. QED
  BY <1>2, <1>3

LEMMA DrawnPiece ==
  ASSUME NEW x \in Versions, NEW t, NEW d, NEW X, SavedIn(x, t, d)
  PROVE  LET b == <<<<"graph", x>>>>
         IN /\ EndsWell(b, t, d, X) /\ Len(b) = 1 /\ b \in Seq(Telling)
            /\ \A y : TextAfter(y, b) = y
<1> DEFINE e == <<"graph", x>>
           b == <<e>>
<1>1. e \in Ending /\ e \in Telling /\ e[1] = "graph" /\ e[2] = x
  BY DEF Ending, Telling
<1> HIDE DEF e
<1>2. b \in Seq(Ending) /\ b \in Seq(Telling) /\ Len(b) = 1 /\ \A j \in DOMAIN b : b[j] = e
  BY <1>1
<1>3. \A y : TextAfter(y, b) = TextEvent(y, e)
  BY ShortBursts
<1> HIDE DEF b
<1>4. EndsWell(b, t, d, X)
  BY <1>1, <1>2 DEF EndsWell, BurstSaved
<1>5. \A y : TextEvent(y, e) = y
  BY <1>1 DEF TextEvent
<1>6. QED
  BY <1>2, <1>3, <1>4, <1>5 DEF b, e

LEMMA MarkPiece ==
  ASSUME NEW failed, NEW t, NEW d, NEW X
  PROVE  LET b == FailedMark(failed)
         IN /\ EndsWell(b, t, d, X) /\ Len(b) \in {0, 1}
            /\ \A y : TextAfter(y, b) = y
<1> DEFINE b == FailedMark(failed)
<1>1. b \in Seq(Ending) /\ Len(b) \in {0, 1} /\ \A j \in DOMAIN b : b[j][1] = "failed"
  <2>1. CASE failed
    <3>1. b = <<<<"failed">>>> /\ <<"failed">> \in Ending
      BY <2>1 DEF FailedMark, Ending
    <3>2. QED
      BY <3>1
  <2>2. CASE ~failed
    BY <2>2 DEF FailedMark
  <2>3. QED
    BY <2>1, <2>2
<1> HIDE DEF b
<1>2. EndsWell(b, t, d, X)
  BY <1>1 DEF EndsWell, BurstSaved
<1>3. \A y : TextAfter(y, b) = y
  BY <1>1, TextNeutral DEF Neutral
<1>4. QED
  BY <1>1, <1>2, <1>3 DEF b

LEMMA AnswerPieces ==
  ASSUME NEW y \in Texts, NEW v \in Versions, NEW t, NEW d, SavedIn(v, t, d)
  PROVE  /\ LET b == <<<<"delta", y>>, <<"graph", v>>>>
            IN /\ EndsWell(b, t, d, y) /\ Len(b) = 2
               /\ TextAfter(<<>>, b) = <<y>>
         /\ LET b == <<<<"reset">>, <<"delta", y>>>>
            IN /\ EndsWell(b, t, d, y) /\ Len(b) = 2
               /\ \A x : TextAfter(x, b) = <<y>>
<1> DEFINE e == <<"delta", y>>
           g == <<"graph", v>>
           r == <<"reset">>
           b == <<e, g>>
           c == <<r, e>>
<1>1. /\ e \in Ending /\ g \in Ending /\ r \in Ending
      /\ e[1] = "delta" /\ e[2] = y /\ g[1] = "graph" /\ g[2] = v /\ r[1] = "reset"
  BY DEF Ending
<1>2. /\ \A x : TextEvent(x, r) = <<>> /\ TextEvent(x, g) = x
      /\ TextEvent(<<>>, e) = <<y>>
  BY <1>1 DEF TextEvent
<1> HIDE DEF e, g, r
<1>3. /\ b \in Seq(Ending) /\ Len(b) = 2 /\ \A j \in DOMAIN b : b[j] = e \/ b[j] = g
      /\ c \in Seq(Ending) /\ Len(c) = 2 /\ \A j \in DOMAIN c : c[j] = r \/ c[j] = e
  BY <1>1
<1>4. /\ TextAfter(<<>>, b) = TextEvent(TextEvent(<<>>, e), g)
      /\ \A x : TextAfter(x, c) = TextEvent(TextEvent(x, r), e)
  BY ShortBursts
<1> HIDE DEF b, c
<1>5. EndsWell(b, t, d, y)
  BY <1>1, <1>3 DEF EndsWell, BurstSaved
<1>6. EndsWell(c, t, d, y)
  BY <1>1, <1>3 DEF EndsWell, BurstSaved
<1>7. TextAfter(<<>>, b) = <<y>> /\ \A x : TextAfter(x, c) = <<y>>
  BY <1>2, <1>4
<1>8. QED
  BY <1>3, <1>5, <1>6, <1>7 DEF b, c, e, g, r

\* Two pieces, one after the other.
LEMMA PiecesJoined ==
  ASSUME NEW a, NEW b, NEW t, NEW d, NEW X, EndsWell(a, t, d, X), EndsWell(b, t, d, X),
         Len(a) <= 2, Len(a) + Len(b) <= 5
  PROVE  /\ EndsWell(a \o b, t, d, X) /\ Len(a \o b) = Len(a) + Len(b)
         /\ \A x : TextAfter(x, a \o b) = TextAfter(TextAfter(x, a), b)
<1>1. a \in Seq(Events) /\ b \in Seq(Events)
  BY DEF EndsWell, Events
<1>2. QED
  BY <1>1, EndsJoined, TextJoined

LEMMA StoredTyped ==
  ASSUME ClientInv, NEW id \in Turns
  PROVE  StoredText(id) \in Texts /\ stored[id] \in Completed
<1>1. stored[id] \in Completed
  BY DEF ClientInv, World
<1>2. QED
  BY <1>1 DEF Completed, StoredText, Texts

LEMMA ReplayKeeps ==
  ASSUME ClientInv, NEW s \in Sockets, StartFrame(s), stored[sock[s].id] # NoTurn
  PROVE  ClientInv'
<1> DEFINE k == sock[s]
           id == k.id
           y == StoredText(id)
           v == Saved(s)
           a == <<<<"delta", y>>, <<"graph", v>>>>
           m == FailedMark(stored[id].failed)
           b == a \o m
<1>1. /\ k.run = "none" /\ k.up # <<>> /\ stored[id] # NoTurn
      /\ UNCHANGED <<stored, diagram>>
      /\ UNCHANGED <<view, link, call, load, gone, turns, calls, typed>>
      /\ sock' = [sock EXCEPT ![s] = EndedTurn(@, <<b, Done>>)]
  BY DEF StartFrame, ServerOnly, Ended
<1>2. /\ k.id \in Turns /\ k.id # 0 /\ k.thread \in Threads
      /\ Attached /\ link.sock = s => Bound(k, view, link, stored)
  BY <1>1, Serving
<1>3. y \in Texts
  BY <1>2, StoredTyped
<1>4. v \in Versions /\ SavedIn(v, k.thread, diagram)
  BY <1>2, SavedFits DEF ClientInv, World, Saved
<1>5. y = [by |-> stored[id].by, steers |-> stored[id].steers]
  BY DEF StoredText
<1>6. sock' = [sock EXCEPT ![s] = EndedTurn(sock[s], <<b, Done>>)]
  BY <1>1
<1> HIDE DEF y, v
<1>7. EndsWell(a, k.thread, diagram, y) /\ Len(a) = 2 /\ TextAfter(<<>>, a) = <<y>>
  BY <1>3, <1>4, AnswerPieces
<1>8. /\ EndsWell(m, k.thread, diagram, y) /\ Len(m) \in {0, 1}
      /\ \A x : TextAfter(x, m) = x
  BY MarkPiece
<1> HIDE DEF a, m
<1>9. /\ EndsWell(b, k.thread, diagram, y) /\ Len(b) <= 5
      /\ TextAfter(<<>>, b) = TextAfter(TextAfter(<<>>, a), m)
  <2> DEFINE t == k.thread
  <2>1. EndsWell(a, t, diagram, y) /\ EndsWell(m, t, diagram, y)
    BY <1>7, <1>8
  <2>2. Len(a) <= 2 /\ Len(a) + Len(m) <= 5
    <3> DEFINE p == Len(a)
               q == Len(m)
    <3>1. p = 2
      BY <1>7
    <3>2. q = 0 \/ q = 1
      BY <1>8
    <3> HIDE DEF p, q
    <3>3. p <= 2 /\ p + q <= 5
      BY <3>1, <3>2
    <3>4. QED
      BY <3>3 DEF p, q
  <2> HIDE DEF t
  <2>3. /\ EndsWell(b, t, diagram, y) /\ Len(b) = Len(a) + Len(m)
        /\ \A x : TextAfter(x, b) = TextAfter(TextAfter(x, a), m)
    BY <2>1, <2>2, PiecesJoined
  <2>4. QED
    BY <2>2, <2>3 DEF t
<1>10. TextAfter(<<>>, b) = <<y>>
  BY <1>7, <1>8, <1>9
<1> HIDE DEF b
<1>11. IsLast(b) /\ BurstSaved(b, k.thread, diagram) /\ BurstOwned(b, k.id, typed)
  <2>1. y.steers = stored[id].steers
    BY <1>5
  <2>2. Owns(id, y.steers, typed)
    BY <1>2, <2>1 DEF ClientInv, World
  <2>3. QED
    BY <1>9, <2>2, EndsAreEvents
<1>12. ASSUME Attached, link.sock = s
       PROVE  LastText(TextAfter(Written(k.sent, s, k.steers), b), stored[id])
  <2>1. k.sent = {}
    BY <1>1, <1>2, <1>12 DEF Bound, Carried
  <2>2. Written(k.sent, s, k.steers) = <<>>
    BY <2>1 DEF Written
  <2>3. QED
    BY <1>1, <1>5, <1>10, <2>2 DEF LastText
<1>13. Grows(stored, diagram, typed, turns, stored', diagram', typed, turns)
  BY <1>1, Quiet
<1>14. BurstSaved(b, sock[s].thread, diagram') /\ BurstOwned(b, sock[s].id, typed)
       /\ sock[s].id # 0 /\ sock[s].run # "over" /\ sock[s].up # <<>>
       /\ (Attached /\ link.sock = s =>
              LastText(TextAfter(Written(sock[s].sent, s, sock[s].steers), b), stored'[sock[s].id]))
  BY <1>1, <1>2, <1>11, <1>12
<1> HIDE DEF k, id
<1>15. QED
  BY <1>1, <1>6, <1>11, <1>13, <1>14, TurnOver

LEMMA BeginKeeps ==
  ASSUME ClientInv, NEW s \in Sockets, StartFrame(s), stored[sock[s].id] = NoTurn
  PROVE  ClientInv'
<1> DEFINE k == sock[s]
           w == Begun(k)
<1>1. /\ k.run = "none" /\ k.up # <<>>
      /\ UNCHANGED <<stored, diagram>>
      /\ UNCHANGED <<view, link, call, load, gone, turns, calls, typed>>
      /\ sock' = [sock EXCEPT ![s].up = Tail(sock[s].up), ![s].run = "running",
                              ![s].steers = sock[s].start]
  BY DEF StartFrame, ServerOnly
<1>2. /\ sock \in [Sockets -> Sock] /\ k \in Sock /\ Fits(k, diagram, typed) /\ view \in View
      /\ Attached /\ link.sock = s => Bound(k, view, link, stored)
  BY <1>1, Serving
<1>3. sock' = [sock EXCEPT ![s] = w]
  BY <1>1, <1>2 DEF Begun
<1>4. sock[s].net = "closed" => k.net = "closed"
  OBVIOUS
<1> HIDE DEF k
<1>5. /\ w \in Sock /\ Fits(w, diagram, typed)
      /\ w.id = k.id /\ w.thread = k.thread /\ w.net = k.net /\ w.run = "running"
      /\ w.up = Tail(k.up) /\ w.down = k.down /\ w.steers = k.start /\ w.sent = k.sent
  BY <1>1, <1>2, BegunFits
<1> HIDE DEF w
<1>6. ASSUME Attached, link.sock = s
      PROVE  Bound(w, view, link, stored)
  <2>1. Bound(k, view, link, stored)
    BY <1>2, <1>6
  <2>2. link.ready /\ k.up \in Seq(Frames)
    BY <1>1, <2>1 DEF Bound, Carried, Waits
  <2>3. Tail(k.up) \in Seq(Frames)
    BY <1>1, <2>2
  <2>4. QED
    BY <1>1, <1>2, <1>5, <2>1, <2>2, <2>3, BoundBegins
<1>7. Grows(stored, diagram, typed, turns, stored', diagram', typed, turns)
  BY <1>1, Quiet
<1>8. /\ Fits(w, diagram', typed) /\ (Attached /\ link.sock = s => Bound(w, view, link, stored'))
      /\ sock[s].net = "closed" => w.net = "closed"
  BY <1>1, <1>4, <1>5, <1>6
<1>9. QED
  BY <1>1, <1>3, <1>5, <1>7, <1>8, ServerStep

LEMMA EndFrameKeeps ==
  ASSUME ClientInv, NEW s \in Sockets, EndFrame(s)
  PROVE  ClientInv'
<1> DEFINE k == sock[s]
           w == EndedTurn(k, <<>>)
<1>1. /\ k.up # <<>> /\ Head(k.up)[1] \in {"stop", "bye"}
      /\ UNCHANGED <<stored, diagram>>
      /\ UNCHANGED <<view, link, call, load, gone, turns, calls, typed>>
      /\ sock' = [sock EXCEPT ![s] = EndedTurn(@, <<>>)]
  BY DEF EndFrame, ServerOnly, Ended
<1>2. /\ k \in Sock /\ Fits(k, diagram, typed) /\ k.id # 0
      /\ k.down \in Seq(Seq(Events)) /\ DownFits(k.down, k.thread, k.id, diagram, typed)
      /\ Attached /\ link.sock = s => Bound(k, view, link, stored)
  BY <1>1, Serving
<1>3. sock' = [sock EXCEPT ![s] = w] /\ (sock[s].net = "closed" => k.net = "closed")
  BY <1>1
<1>4. ~(Attached /\ link.sock = s)
  <2>1. SUFFICES ASSUME Attached, link.sock = s
                 PROVE  FALSE
    OBVIOUS
  <2>2. k.up \in Seq(Frames)
    BY <1>2, <2>1 DEF Bound, Carried
  <2>3. Head(k.up) \in Frames
    BY <1>1, <2>2
  <2>4. QED
    BY <1>1, <2>3 DEF Frames
<1> HIDE DEF k
<1>5. /\ k.down \o <<>> \in Seq(Seq(Events))
      /\ DownFits(k.down \o <<>>, k.thread, k.id, diagram, typed)
  <2>1. k.down \o <<>> = k.down
    BY <1>2
  <2>2. QED
    BY <1>2, <2>1
<1>6. w \in Sock /\ Fits(w, diagram, typed) /\ (k.net = "closed" => w.net = "closed")
  <2> DEFINE none == <<>>
  <2>1. /\ k.down \o none \in Seq(Seq(Events))
        /\ DownFits(k.down \o none, k.thread, k.id, diagram, typed)
    BY <1>5
  <2>2. w = EndedTurn(k, none)
    OBVIOUS
  <2> HIDE DEF none, w
  <2>3. QED
    BY <1>2, <2>1, <2>2, EndedFits
<1> HIDE DEF w
<1>7. Grows(stored, diagram, typed, turns, stored', diagram', typed, turns)
  BY <1>1, Quiet
<1>8. Fits(w, diagram', typed)
  BY <1>1, <1>6
<1>9. QED
  BY <1>1, <1>3, <1>4, <1>6, <1>7, <1>8, ServerStep

LEMMA TurnSaved ==
  ASSUME ClientInv, NEW id \in Turns, NEW turn \in Completed, Owns(id, turn.steers, typed),
         stored[id] # NoTurn => turn = stored[id],
         NEW t \in Threads, NEW number \in 0 .. MaxVersion, diagram[t] <= number
  PROVE  Grows(stored, diagram, typed, turns,
               [stored EXCEPT ![id] = turn], [diagram EXCEPT ![t] = number], typed, turns)
<1> DEFINE S2 == [stored EXCEPT ![id] = turn]
           d2 == [diagram EXCEPT ![t] = number]
<1>1. World(stored, diagram, typed, turns)
  BY DEF ClientInv
<1>2. /\ S2 \in [Turns -> Completed]
      /\ \A i \in Turns : S2[i] = IF i = id THEN turn ELSE stored[i]
  BY <1>1 DEF World
<1>3. /\ d2 \in [Threads -> 0 .. MaxVersion]
      /\ \A i \in Threads : d2[i] = IF i = t THEN number ELSE diagram[i]
  BY <1>1 DEF World
<1> HIDE DEF S2, d2
<1>4. \A i \in Turns : Owns(i, S2[i].steers, typed)
  BY <1>1, <1>2 DEF World
<1>5. World(S2, d2, typed, turns)
  BY <1>1, <1>2, <1>3, <1>4 DEF World
<1>6. \A i \in Turns : stored[i] # NoTurn => S2[i] = stored[i]
  BY <1>2
<1>7. \A i \in Threads : diagram[i] <= d2[i]
  <2>1. \A i \in Threads : diagram[i] \in Nat
    BY <1>1, Parameters DEF World
  <2>2. QED
    BY <1>3, <2>1
<1>8. turns <= turns
  BY Quiet DEF Grows
<1>9. Grows(stored, diagram, typed, turns, S2, d2, typed, turns)
  BY <1>1, <1>5, <1>6, <1>7, <1>8 DEF Grows
<1>10. QED
  BY <1>9 DEF S2, d2

\* What the client of a finished turn is told.
LEMMA SavedTold ==
  ASSUME NEW s \in Sockets, NEW turn \in Completed, NEW v \in Versions, NEW t, NEW d,
         SavedIn(v, t, d), NEW failed
  PROVE  LET b == FailedMark(failed) \o SavedEvents(s, turn, v)
         IN /\ EndsWell(b, t, d, [by |-> turn.by, steers |-> turn.steers]) /\ Len(b) <= 5
            /\ TextAfter(<<TextOf(s)>>, b) = <<[by |-> turn.by, steers |-> turn.steers]>>
<1> DEFINE y == [by |-> turn.by, steers |-> turn.steers]
           o == <<TextOf(s)>>
           m == FailedMark(failed)
           g == <<<<"graph", v>>>>
           r == <<<<"reset">>, <<"delta", y>>>>
           e == FailedMark(turn.failed)
           f == IF y = TextOf(s) THEN <<>> ELSE r \o e
           all == SavedEvents(s, turn, v)
<1>1. y \in Texts
  BY DEF Completed, Texts
<1>2. all = g \o f
  BY DEF SavedEvents
<1>3. o = <<y>> \/ y # TextOf(s)
  OBVIOUS
<1>4. y = TextOf(s) => f = <<>>
  OBVIOUS
<1>5. y # TextOf(s) => f = r \o e
  OBVIOUS
<1>6. /\ EndsWell(m, t, d, y) /\ Len(m) \in {0, 1} /\ \A x : TextAfter(x, m) = x
      /\ EndsWell(e, t, d, y) /\ Len(e) \in {0, 1} /\ \A x : TextAfter(x, e) = x
  BY MarkPiece
<1>7. EndsWell(g, t, d, y) /\ Len(g) = 1 /\ \A x : TextAfter(x, g) = x
  BY DrawnPiece
<1> HIDE DEF y
<1>8. EndsWell(r, t, d, y) /\ Len(r) = 2 /\ \A x : TextAfter(x, r) = <<y>>
  BY <1>1, AnswerPieces
<1> HIDE DEF o, m, g, r, e, f, all
<1> DEFINE nm == Len(m)
           ng == Len(g)
           nr == Len(r)
           ne == Len(e)
<1>9. nm \in {0, 1} /\ ng = 1 /\ nr = 2 /\ ne \in {0, 1}
  BY <1>6, <1>7, <1>8
<1> HIDE DEF nm, ng, nr, ne
<1>10. /\ EndsWell(f, t, d, y) /\ Len(f) \in 0 .. 3
       /\ TextAfter(o, f) = <<y>>
  <2>1. CASE y = TextOf(s)
    <3>1. f = <<>> /\ o = <<y>>
      BY <1>3, <1>4, <2>1
    <3>2. EndsWell(<<>>, t, d, y)
      BY NothingTyped DEF EndsWell, BurstSaved
    <3>3. TextAfter(o, <<>>) = o
      BY ShortBursts
    <3>4. QED
      BY <3>1, <3>2, <3>3
  <2>2. CASE y # TextOf(s)
    <3>1. nr <= 2 /\ nr + ne <= 5 /\ nr + ne \in 0 .. 3
      BY <1>9
    <3>2. Len(r) <= 2 /\ Len(r) + Len(e) <= 5 /\ Len(r) + Len(e) \in 0 .. 3
      BY <3>1 DEF nr, ne
    <3>3. /\ EndsWell(r \o e, t, d, y) /\ Len(r \o e) = Len(r) + Len(e)
          /\ \A x : TextAfter(x, r \o e) = TextAfter(TextAfter(x, r), e)
      BY <1>6, <1>8, <3>2, PiecesJoined
    <3>4. TextAfter(o, r \o e) = <<y>>
      BY <1>6, <1>8, <3>3
    <3>5. QED
      BY <1>5, <2>2, <3>2, <3>3, <3>4
  <2>3. QED
    BY <2>1, <2>2
<1> DEFINE nf == Len(f)
<1>11. nf \in 0 .. 3
  BY <1>10
<1> HIDE DEF nf
<1>12. ng <= 2 /\ ng + nf <= 5 /\ ng + nf \in 0 .. 4
  BY <1>9, <1>11
<1>13. Len(g) <= 2 /\ Len(g) + Len(f) <= 5 /\ Len(g) + Len(f) \in 0 .. 4
  BY <1>12 DEF ng, nf
<1>14. /\ EndsWell(all, t, d, y) /\ Len(all) \in 0 .. 4
       /\ TextAfter(o, all) = <<y>>
  <2>1. /\ EndsWell(g \o f, t, d, y) /\ Len(g \o f) = Len(g) + Len(f)
        /\ \A x : TextAfter(x, g \o f) = TextAfter(TextAfter(x, g), f)
    BY <1>7, <1>10, <1>13, PiecesJoined
  <2>2. TextAfter(o, g \o f) = <<y>>
    BY <1>7, <1>10, <2>1
  <2>3. QED
    BY <1>2, <1>13, <2>1, <2>2
<1> DEFINE na == Len(all)
<1>15. na \in 0 .. 4
  BY <1>14
<1> HIDE DEF na
<1>16. nm <= 2 /\ nm + na <= 5
  BY <1>9, <1>15
<1>17. Len(m) <= 2 /\ Len(m) + Len(all) <= 5
  BY <1>16 DEF nm, na
<1>18. /\ EndsWell(m \o all, t, d, y) /\ Len(m \o all) = Len(m) + Len(all)
       /\ \A x : TextAfter(x, m \o all) = TextAfter(TextAfter(x, m), all)
  BY <1>6, <1>14, <1>17, PiecesJoined
<1>19. TextAfter(o, m \o all) = <<y>>
  BY <1>6, <1>14, <1>18
<1>20. Len(m \o all) <= 5
  BY <1>17, <1>18
<1>21. QED
  BY <1>18, <1>19, <1>20 DEF m, all, o, y

LEMMA FinishKeeps ==
  ASSUME ClientInv, NEW s \in Sockets, Finish(s)
  PROVE  ClientInv'
<1> DEFINE k == sock[s]
           id == k.id
           t == k.thread
           first == stored[id] = NoTurn
<1>1. PICK failed \in BOOLEAN, drawn \in BOOLEAN :
         LET turn == IF first THEN [thread |-> t, by |-> s, steers |-> k.steers, failed |-> failed]
                     ELSE stored[id]
             number == IF first /\ drawn THEN diagram[t] + 1 ELSE diagram[t]
         IN /\ number <= MaxVersion
            /\ stored' = [stored EXCEPT ![id] = turn]
            /\ diagram' = [diagram EXCEPT ![t] = number]
            /\ sock' = Ended(s, <<FailedMark(failed) \o SavedEvents(s, turn, Version(t, number)), Done>>)
  BY DEF Finish
<1> DEFINE turn == IF first THEN [thread |-> t, by |-> s, steers |-> k.steers, failed |-> failed]
                   ELSE stored[id]
           number == IF first /\ drawn THEN diagram[t] + 1 ELSE diagram[t]
           v == Version(t, number)
           b == FailedMark(failed) \o SavedEvents(s, turn, v)
<1>2. /\ number <= MaxVersion
      /\ stored' = [stored EXCEPT ![id] = turn]
      /\ diagram' = [diagram EXCEPT ![t] = number]
      /\ sock' = [sock EXCEPT ![s] = EndedTurn(sock[s], <<b, Done>>)]
  BY <1>1 DEF Ended
<1>3. /\ k.run = "running" /\ "text" \in k.sent
      /\ UNCHANGED <<view, link, call, load, gone, turns, calls, typed>>
  BY DEF Finish, ServerOnly
<1>4. /\ k \in Sock /\ id \in Turns /\ id # 0 /\ t \in Threads
      /\ k.steers \in Seq(Nat) /\ Owns(id, k.steers, typed)
  BY <1>3, Serving
<1>5. World(stored, diagram, typed, turns)
  BY DEF ClientInv
<1>6. s # 0 /\ s \in Nat
  BY Parameters DEF Sockets
<1>7. turn \in Completed /\ Owns(id, turn.steers, typed) /\ turn # NoTurn
      /\ (stored[id] # NoTurn => turn = stored[id])
  <2>1. CASE first
    <3> DEFINE new == [thread |-> t, by |-> s, steers |-> k.steers, failed |-> failed]
    <3>1. turn = new
      BY <2>1
    <3>2. new \in Completed /\ new.steers = k.steers
      BY <1>4, <1>6 DEF Completed, Somewhere
    <3>3. new # NoTurn
      BY <1>6 DEF NoTurn
    <3> HIDE DEF new, turn
    <3>4. QED
      BY <1>4, <2>1, <3>1, <3>2, <3>3
  <2>2. CASE ~first
    <3>1. turn = stored[id]
      BY <2>2
    <3> HIDE DEF turn
    <3>2. QED
      BY <1>4, <1>5, <2>2, <3>1 DEF World
  <2>3. QED
    BY <2>1, <2>2
<1>8. number \in 0 .. MaxVersion /\ diagram[t] <= number
  <2>1. diagram[t] \in Nat /\ MaxVersion \in Nat
    BY <1>4, <1>5, Parameters DEF World
  <2>2. number <= MaxVersion
    BY <1>2
  <2>3. number = diagram[t] \/ number = diagram[t] + 1
    OBVIOUS
  <2> HIDE DEF number
  <2>4. QED
    BY <2>1, <2>2, <2>3
<1>9. sock[s].id # 0 /\ sock[s].run = "running" /\ sock[s].run # "over"
  BY <1>3, <1>4
<1>10. t = sock[s].thread /\ id = sock[s].id
  OBVIOUS
<1>11. Written(k.sent, s, k.steers) = <<TextOf(s)>>
  BY <1>3 DEF Written, TextOf
<1> HIDE DEF turn, number, first, id, t
<1>12. Grows(stored, diagram, typed, turns, stored', diagram', typed, turns)
  BY <1>2, <1>4, <1>7, <1>8, TurnSaved
<1>13. diagram' \in [Threads -> 0 .. MaxVersion] /\ diagram'[t] = number /\ stored'[id] = turn
  BY <1>2, <1>4, <1>5, <1>8 DEF World
<1>14. v \in Versions /\ SavedIn(v, t, diagram')
  <2>1. v = Version(t, diagram'[t])
    BY <1>13
  <2> HIDE DEF v
  <2>2. QED
    BY <1>4, <1>13, <2>1, SavedFits
<1> HIDE DEF v, k
<1> DEFINE y == [by |-> turn.by, steers |-> turn.steers]
<1>15. /\ EndsWell(b, t, diagram', y) /\ Len(b) <= 5
       /\ TextAfter(<<TextOf(s)>>, b) = <<y>>
  BY <1>7, <1>14, SavedTold
<1> HIDE DEF b
<1>16. IsLast(b) /\ BurstSaved(b, t, diagram') /\ BurstOwned(b, id, typed)
  <2>1. Owns(id, y.steers, typed)
    BY <1>7
  <2> HIDE DEF y
  <2>2. QED
    BY <1>15, <2>1, EndsAreEvents
<1>17. LastText(TextAfter(Written(sock[s].sent, s, sock[s].steers), b), stored'[sock[s].id])
  BY <1>7, <1>10, <1>11, <1>13, <1>15 DEF LastText, k
<1>18. BurstSaved(b, sock[s].thread, diagram') /\ BurstOwned(b, sock[s].id, typed)
  BY <1>10, <1>16
<1>19. QED
  BY <1>2, <1>3, <1>9, <1>12, <1>16, <1>17, <1>18, TurnOver

LEMMA FailKeeps ==
  ASSUME ClientInv, NEW s \in Sockets, Fail(s)
  PROVE  ClientInv'
<1> DEFINE k == sock[s]
           t == k.thread
           v == Saved(s)
           e == <<"error">>
           g == <<"graph", v>>
           b == (IF "preview" \in k.sent THEN <<g>> ELSE <<>>) \o <<e>>
           x == Written(k.sent, s, k.steers)
<1>1. /\ k.run = "running"
      /\ UNCHANGED <<stored, diagram>>
      /\ UNCHANGED <<view, link, call, load, gone, turns, calls, typed>>
      /\ sock' = [sock EXCEPT ![s] = EndedTurn(sock[s], <<b, Done>>)]
  BY DEF Fail, ServerOnly, Ended
<1>2. k.id # 0 /\ t \in Threads
  BY <1>1, Serving
<1>3. v \in Versions /\ SavedIn(v, t, diagram)
  BY <1>2, SavedFits DEF ClientInv, World, Saved
<1>4. /\ e \in Ending /\ g \in Ending /\ e[1] = "error" /\ g[1] = "graph" /\ g[2] = v
  BY <1>3 DEF Ending
<1>5. sock[s].id # 0 /\ sock[s].run # "over" /\ t = sock[s].thread
      /\ x = Written(sock[s].sent, s, sock[s].steers)
  BY <1>1, <1>2
<1> HIDE DEF v, e, g, t, x
<1>6. /\ b \in Seq(Ending) /\ Len(b) \in 1 .. 2
      /\ \A j \in 1 .. (Len(b) - 1) : b[j] = g
      /\ \A j \in DOMAIN b : b[j] = e \/ b[j] = g
      /\ TextAfter(x, b) = <<>>
  <2>1. CASE "preview" \in k.sent
    <3>1. b = <<g, e>>
      <4>1. b = <<g>> \o <<e>>
        BY <2>1
      <4>2. <<g>> \o <<e>> = Append(<<g>>, e)
        OBVIOUS
      <4>3. <<g, e>> = Append(<<g>>, e)
        OBVIOUS
      <4>4. QED
        BY <4>1, <4>2, <4>3
    <3>2. TextAfter(x, <<g, e>>) = TextEvent(TextEvent(x, g), e)
      BY ShortBursts
    <3>3. TextEvent(TextEvent(x, g), e) = <<>>
      BY <1>4 DEF TextEvent
    <3> HIDE DEF b
    <3>4. QED
      BY <1>4, <3>1, <3>2, <3>3
  <2>2. CASE "preview" \notin k.sent
    <3>1. b = <<e>>
      BY <2>2
    <3>2. TextAfter(x, <<e>>) = TextEvent(x, e)
      BY ShortBursts
    <3>3. TextEvent(x, e) = <<>>
      BY <1>4 DEF TextEvent
    <3> HIDE DEF b
    <3>4. QED
      BY <1>4, <3>1, <3>2, <3>3
  <2>3. QED
    BY <2>1, <2>2
<1> HIDE DEF b
<1>7. IsLast(b)
  BY <1>4, <1>6 DEF IsLast
<1>8. BurstSaved(b, t, diagram) /\ BurstOwned(b, k.id, typed)
  BY <1>3, <1>4, <1>6 DEF BurstSaved, BurstOwned
<1>9. LastText(TextAfter(Written(sock[s].sent, s, sock[s].steers), b), stored'[sock[s].id])
  BY <1>5, <1>6 DEF LastText
<1>10. BurstSaved(b, sock[s].thread, diagram') /\ BurstOwned(b, sock[s].id, typed)
  BY <1>1, <1>5, <1>8
<1>11. Grows(stored, diagram, typed, turns, stored', diagram', typed, turns)
  BY <1>1, Quiet
<1>12. QED
  BY <1>1, <1>5, <1>7, <1>9, <1>10, <1>11, TurnOver

LEMMA EmitKeeps ==
  ASSUME ClientInv, NEW s \in Sockets, NEW part \in {"text", "preview"}, Emit(s, part)
  PROVE  ClientInv'
<1> DEFINE k == sock[s]
           b == CASE part = "text"    -> <<<<"delta", TextOf(s)>>>>
                  [] part = "preview" -> <<<<"preview">>, <<"review", "reviewing">>>>
           sent == k.sent \union {part}
           up == k.up
           accepted == k.accepted
<1>1. /\ k.run = "running" /\ "text" \notin k.sent
      /\ UNCHANGED <<stored, diagram>>
      /\ UNCHANGED <<view, link, call, load, gone, turns, calls, typed>>
      /\ sock' = [Push(s, <<b>>) EXCEPT ![s].sent = @ \union {part}]
  BY DEF Emit, ServerOnly, CanEmit
<1>2. /\ sock \in [Sockets -> Sock] /\ k \in Sock
      /\ up \in Seq(Upward) /\ UpOwned(up, k.id, typed)
      /\ k.steers \in Seq(Nat) /\ Owns(k.id, k.steers, typed)
      /\ k.sent \in SUBSET {"text", "preview"} /\ accepted \in BOOLEAN
  BY <1>1, Serving
<1>3. /\ IsTold(b) /\ ~HasAck(b) /\ BurstSaved(b, k.thread, diagram) /\ BurstOwned(b, k.id, typed)
      /\ TextAfter(<<>>, b) = IF part = "text" THEN <<TextOf(s)>> ELSE <<>>
  <2>1. CASE part = "text"
    <3> DEFINE e == <<"delta", TextOf(s)>>
    <3>1. TextOf(s) \in Texts
      BY <1>2, Parameters DEF TextOf, Texts, Sockets
    <3>2. e \in Telling /\ e[1] = "delta" /\ e[2] = TextOf(s) /\ b = <<e>>
      BY <2>1, <3>1 DEF Telling
    <3>3. TextEvent(<<>>, e) = <<TextOf(s)>>
      BY <3>2 DEF TextEvent
    <3>7. Owns(k.id, e[2].steers, typed)
      BY <1>2, <3>2 DEF TextOf
    <3> HIDE DEF e, b
    <3>4. TextAfter(<<>>, b) = <<TextOf(s)>>
      BY <3>2, <3>3, ShortBursts
    <3>5. b \in Seq(Telling) /\ Len(b) = 1 /\ \A j \in DOMAIN b : b[j] = e
      BY <3>2
    <3>6. QED
      BY <2>1, <3>2, <3>4, <3>5, <3>7 DEF IsTold, HasAck, BurstSaved, BurstOwned
  <2>2. CASE part = "preview"
    <3> DEFINE e == <<"preview">>
               f == <<"review", "reviewing">>
    <3>1. /\ e \in Telling /\ e[1] = "preview" /\ f \in Telling /\ f[1] = "review"
          /\ b = <<e, f>>
      BY <2>2 DEF Telling
    <3> HIDE DEF e, f, b
    <3>2. b \in Seq(Telling) /\ Len(b) = 2 /\ \A j \in DOMAIN b : b[j] = e \/ b[j] = f
      BY <3>1
    <3>3. TextAfter(<<>>, b) = <<>>
      BY <3>1, <3>2, TextNeutral DEF Neutral
    <3>4. QED
      BY <2>2, <3>1, <3>2, <3>3 DEF IsTold, HasAck, BurstSaved, BurstOwned
  <2>3. QED
    BY <2>1, <2>2
<1> HIDE DEF b
<1>4. sock' = [sock EXCEPT ![s] = Advanced(k, up, Pushed(k, b), k.steers, sent, accepted)]
  BY <1>1, <1>2, ZenonT(40) DEF Push, Pushed, Advanced, Sock
<1>5. sent \in SUBSET {"text", "preview"}
  BY <1>2
<1>6. TextAfter(Written(k.sent, s, k.steers), b) = Written(sent, s, k.steers)
  BY <1>1, <1>3 DEF Written, TextOf
<1>7. Acknowledges(b, k.steers, k.steers)
  BY <1>3 DEF Acknowledges
<1>8. k.run = "running" /\ UNCHANGED <<stored, diagram>>
      /\ UNCHANGED <<view, link, call, load, gone, turns, calls, typed>>
  BY <1>1
<1>9. k.up \in Seq(Frames) => up \in Seq(Frames)
  OBVIOUS
<1>10. /\ up \in Seq(Upward) /\ UpOwned(up, k.id, typed)
       /\ k.steers \in Seq(Nat) /\ Owns(k.id, k.steers, typed) /\ accepted \in BOOLEAN
  BY <1>2
<1>11. IsTold(b) /\ BurstSaved(b, k.thread, diagram) /\ BurstOwned(b, k.id, typed)
  BY <1>3
<1> HIDE DEF sent, up, accepted
<1>12. QED
  BY <1>4, <1>5, <1>6, <1>7, <1>8, <1>9, <1>10, <1>11, Says

LEMMA AcceptFrameKeeps ==
  ASSUME ClientInv, NEW s \in Sockets, AcceptFrame(s)
  PROVE  ClientInv'
<1> DEFINE k == sock[s]
           up == Tail(k.up)
<1>1. /\ k.run = "running" /\ k.up # <<>>
      /\ UNCHANGED <<stored, diagram>>
      /\ UNCHANGED <<view, link, call, load, gone, turns, calls, typed>>
  BY DEF AcceptFrame, ServerOnly
<1>2. PICK taken \in BOOLEAN :
         sock' = [Push(s, <<<<<<"review", IF taken THEN "accepted" ELSE "rejected">>>>>>)
                     EXCEPT ![s].up = Tail(@), ![s].accepted = @ \/ taken]
  BY DEF AcceptFrame
<1> DEFINE e == <<"review", IF taken THEN "accepted" ELSE "rejected">>
           b == <<e>>
           accepted == k.accepted \/ taken
<1>3. /\ sock \in [Sockets -> Sock] /\ k \in Sock
      /\ k.up \in Seq(Upward) /\ UpOwned(k.up, k.id, typed)
      /\ k.steers \in Seq(Nat) /\ Owns(k.id, k.steers, typed)
      /\ k.sent \in SUBSET {"text", "preview"} /\ k.accepted \in BOOLEAN
  BY <1>1, Serving
<1>4. up \in Seq(Upward) /\ UpOwned(up, k.id, typed)
  BY <1>1, <1>3, UpShortened
<1>5. k.up \in Seq(Frames) => up \in Seq(Frames)
  BY <1>1
<1>6. e \in Telling /\ e[1] = "review"
  BY DEF Telling
<1>7. sock' = [Push(s, <<b>>) EXCEPT ![s].up = Tail(@), ![s].accepted = @ \/ taken]
  BY <1>2
<1> HIDE DEF e
<1>8. b \in Seq(Telling) /\ Len(b) = 1 /\ \A j \in DOMAIN b : b[j] = e
  BY <1>6
<1> HIDE DEF b
<1>9. /\ IsTold(b) /\ ~HasAck(b) /\ BurstSaved(b, k.thread, diagram) /\ BurstOwned(b, k.id, typed)
      /\ \A x : TextAfter(x, b) = x
  BY <1>6, <1>8, TextNeutral DEF IsTold, HasAck, BurstSaved, BurstOwned, Neutral
<1>10. sock' = [sock EXCEPT ![s] = Advanced(k, up, Pushed(k, b), k.steers, k.sent, accepted)]
  BY <1>3, <1>7, ZenonT(40) DEF Push, Pushed, Advanced, Sock
<1>11. accepted \in BOOLEAN
  OBVIOUS
<1>12. TextAfter(Written(k.sent, s, k.steers), b) = Written(k.sent, s, k.steers)
  BY <1>9
<1>13. Acknowledges(b, k.steers, k.steers)
  BY <1>9 DEF Acknowledges
<1> HIDE DEF up, accepted
<1>14. QED
  BY <1>1, <1>3, <1>4, <1>5, <1>9, <1>10, <1>11, <1>12, <1>13, Says

\* What the client of a restarted turn is told.
LEMMA SteerTold ==
  ASSUME ClientInv, NEW s \in Sockets, sock[s].run = "running", NEW steer \in Nat,
         steer \in DOMAIN typed, typed[steer] = sock[s].id
  PROVE  LET b == SteerEvents(s, steer)
         IN /\ IsTold(b) /\ BurstSaved(b, sock[s].thread, diagram) /\ BurstOwned(b, sock[s].id, typed)
            /\ Acknowledges(b, sock[s].steers, Append(sock[s].steers, steer))
            /\ \A x : TextAfter(x, b) = <<>>
<1> DEFINE t == sock[s].thread
           id == sock[s].id
           steers == sock[s].steers
           v == Saved(s)
           number == Len(steers) + 1
           g == <<"graph", v>>
           r == <<"reset">>
           e == <<"steered", steer, number>>
           a == IF "preview" \in sock[s].sent THEN <<g>> ELSE <<>>
           c == <<r, e>>
           b == a \o c
<1>1. t \in Threads /\ steers \in Seq(Nat)
  BY Serving
<1>2. v \in Versions /\ SavedIn(v, t, diagram)
  BY <1>1, SavedFits DEF ClientInv, World, Saved
<1>3. SteerEvents(s, steer) = b
  BY DEF SteerEvents
<1>4. number \in Nat /\ number = Len(steers) + 1
  BY <1>1
<1> HIDE DEF number, v
<1>5. /\ g \in Telling /\ r \in Telling /\ e \in Telling
      /\ g[1] = "graph" /\ g[2] = v /\ r[1] = "reset"
      /\ e[1] = "steered" /\ e[2] = steer /\ e[3] = number
  BY <1>2, <1>4 DEF Telling
<1>6. \A x : TextEvent(x, r) = <<>> /\ TextEvent(x, e) = x
  BY <1>5 DEF TextEvent
<1> HIDE DEF g, r, e
<1>7. c \in Seq(Telling) /\ Len(c) = 2 /\ c[1] = r /\ c[2] = e /\ \A x : TextAfter(x, c) = <<>>
  <2>1. \A x : TextAfter(x, c) = TextEvent(TextEvent(x, r), e)
    BY ShortBursts
  <2>2. c \in Seq(Telling) /\ Len(c) = 2 /\ c[1] = r /\ c[2] = e
    BY <1>5
  <2>3. QED
    BY <1>6, <2>1, <2>2
<1> DEFINE p == Len(a)
<1>8. a \in Seq(Telling) /\ p \in {0, 1} /\ \A j \in 1 .. p : a[j] = g
  <2>1. CASE "preview" \in sock[s].sent
    <3>1. a = <<g>>
      BY <2>1
    <3> HIDE DEF a
    <3>2. QED
      BY <1>5, <3>1
  <2>2. CASE "preview" \notin sock[s].sent
    <3>1. a = <<>>
      BY <2>2
    <3> HIDE DEF a
    <3>2. QED
      BY <3>1
  <2>3. QED
    BY <2>1, <2>2
<1> HIDE DEF a, c
<1>9. /\ b \in Seq(Telling) /\ Len(b) = p + 2
      /\ \A j \in 1 .. p + 2 : b[j] = IF j <= p THEN a[j] ELSE c[j - p]
  <2>1. /\ b \in Seq(Telling) /\ Len(b) = Len(a) + Len(c)
        /\ \A j \in 1 .. Len(a) + Len(c) : b[j] = IF j <= Len(a) THEN a[j] ELSE c[j - Len(a)]
    BY <1>7, <1>8, ConcatProperties
  <2>2. QED
    BY <1>7, <2>1
<1>10. \A x : TextAfter(x, b) = <<>>
  <2>1. p <= 2 /\ p + 2 <= 5
    BY <1>8
  <2>2. Len(a) <= 2 /\ Len(a) + Len(c) <= 5
    BY <1>7, <2>1
  <2>3. a \in Seq(Events) /\ c \in Seq(Events)
    BY <1>7, <1>8 DEF Events
  <2>4. \A x : TextAfter(x, b) = TextAfter(TextAfter(x, a), c)
    BY <2>2, <2>3, TextJoined
  <2>5. QED
    BY <1>7, <2>4
<1> HIDE DEF b, p
<1>11. DOMAIN b = 1 .. p + 2
  BY <1>9
<1>12. /\ p + 2 \in DOMAIN b /\ b[p + 2] = e
       /\ \A j \in DOMAIN b : j # p + 2 => b[j] = g \/ b[j] = r
  <2>1. p + 2 \in 1 .. p + 2 /\ ~(p + 2 <= p) /\ (p + 2) - p = 2
    BY <1>8
  <2>2. ASSUME NEW j \in 1 .. p + 2, j # p + 2
        PROVE  j \in 1 .. p \/ (~(j <= p) /\ j - p = 1)
    BY <1>8, <2>2
  <2>3. \A j \in 1 .. p : j <= p /\ j \in 1 .. p + 2
    BY <1>8
  <2>4. b[p + 2] = e
    BY <1>7, <1>9, <2>1
  <2>5. ASSUME NEW j \in DOMAIN b, j # p + 2
        PROVE  b[j] = g \/ b[j] = r
    <3>1. CASE j \in 1 .. p
      BY <1>8, <1>9, <2>3, <3>1
    <3>2. CASE ~(j <= p) /\ j - p = 1
      BY <1>7, <1>9, <1>11, <2>5, <3>2
    <3>3. QED
      BY <1>11, <2>2, <2>5, <3>1, <3>2
  <2>6. QED
    BY <1>11, <2>1, <2>4, <2>5
<1>13. IsTold(b)
  <2>1. p + 2 <= 5
    BY <1>8
  <2>2. QED
    BY <1>9, <2>1 DEF IsTold
<1>14. \A j \in DOMAIN b : b[j] = e \/ b[j] = g \/ b[j] = r
  BY <1>12
<1>15. BurstSaved(b, t, diagram) /\ BurstOwned(b, id, typed)
  BY <1>2, <1>5, <1>14 DEF BurstSaved, BurstOwned
<1>16. Acknowledges(b, steers, Append(steers, steer))
  <2>1. \A j \in DOMAIN b : b[j][1] = "steered" => j = p + 2
    BY <1>5, <1>12
  <2>2. /\ b[p + 2][1] = "steered" /\ b[p + 2][2] \in Nat /\ b[p + 2][3] = Len(steers) + 1
        /\ Append(steers, steer) = Append(steers, b[p + 2][2])
    BY <1>4, <1>5, <1>12
  <2>3. QED
    BY <1>12, <2>1, <2>2 DEF Acknowledges
<1>17. QED
  BY <1>3, <1>10, <1>13, <1>15, <1>16

LEMMA SteerRead ==
  ASSUME ClientInv, NEW s \in Sockets, SteerFrame(s)
  PROVE  /\ sock[s].run = "running" /\ sock[s].up # <<>>
         /\ UNCHANGED <<stored, diagram>>
         /\ UNCHANGED <<view, link, call, load, gone, turns, calls, typed>>
         /\ Tail(sock[s].up) \in Seq(Upward) /\ UpOwned(Tail(sock[s].up), sock[s].id, typed)
         /\ sock[s].up \in Seq(Frames) => Tail(sock[s].up) \in Seq(Frames)
         /\ Head(sock[s].up)[2] \in Nat /\ Head(sock[s].up)[2] \in DOMAIN typed
         /\ typed[Head(sock[s].up)[2]] = sock[s].id
<1> DEFINE up == sock[s].up
           f == Head(up)
<1>1. /\ sock[s].run = "running" /\ up # <<>> /\ f[1] = "steer"
      /\ UNCHANGED <<stored, diagram>>
      /\ UNCHANGED <<view, link, call, load, gone, turns, calls, typed>>
  BY DEF SteerFrame, ServerOnly
<1>2. up \in Seq(Upward) /\ UpOwned(up, sock[s].id, typed)
  BY <1>1, Serving
<1>3. 1 \in DOMAIN up /\ f = up[1] /\ f \in Upward
  BY <1>1, <1>2
<1>4. f \in {"steer"} \X Nat
  BY <1>1, <1>3 DEF Upward, Frames, LastFrames
<1>5. f[2] \in Nat /\ f[2] \in DOMAIN typed /\ typed[f[2]] = sock[s].id
  BY <1>1, <1>2, <1>3, <1>4 DEF UpOwned
<1>6. Tail(up) \in Seq(Upward) /\ UpOwned(Tail(up), sock[s].id, typed)
  BY <1>1, <1>2, UpShortened
<1>7. up \in Seq(Frames) => Tail(up) \in Seq(Frames)
  BY <1>1
<1>8. QED
  BY <1>1, <1>5, <1>6, <1>7

LEMMA SteerRefused ==
  ASSUME ClientInv, NEW s \in Sockets, SteerFrame(s), sock' = [sock EXCEPT ![s].up = Tail(@)]
  PROVE  ClientInv'
<1> DEFINE k == sock[s]
           up == Tail(k.up)
           down == k.down
           steers == k.steers
           sent == k.sent
           accepted == k.accepted
           w == Advanced(k, up, down, steers, sent, accepted)
<1>1. /\ k.run = "running" /\ up \in Seq(Upward) /\ UpOwned(up, k.id, typed)
      /\ k.up \in Seq(Frames) => up \in Seq(Frames)
      /\ UNCHANGED <<stored, diagram>>
      /\ UNCHANGED <<view, link, call, load, gone, turns, calls, typed>>
  BY SteerRead
<1>2. /\ sock \in [Sockets -> Sock] /\ k \in Sock /\ Fits(k, diagram, typed)
      /\ down \in Seq(Seq(Events)) /\ DownFits(down, k.thread, k.id, diagram, typed)
      /\ steers \in Seq(Nat) /\ Owns(k.id, steers, typed)
      /\ sent \in SUBSET {"text", "preview"} /\ accepted \in BOOLEAN
      /\ Attached /\ link.sock = s => Bound(k, view, link, stored)
  BY <1>1, Serving
<1>3. sock' = [sock EXCEPT ![s] = w]
  BY <1>2 DEF Advanced, Sock
<1>4. (sock[s].net = "closed" => k.net = "closed") /\ down = k.down /\ steers = k.steers /\ sent = k.sent
  OBVIOUS
<1> HIDE DEF k, up, down, steers, sent, accepted
<1>5. /\ w \in Sock /\ Fits(w, diagram, typed)
      /\ w.id = k.id /\ w.thread = k.thread /\ w.net = k.net /\ w.run = "running"
      /\ w.up = up /\ w.down = down /\ w.steers = steers /\ w.sent = sent
  BY <1>1, <1>2, AdvancedFits
<1> HIDE DEF w
<1>6. ASSUME Attached, link.sock = s
      PROVE  Bound(w, view, link, stored)
  <2>1. Bound(k, view, link, stored)
    BY <1>2, <1>6
  <2>2. w.up \in Seq(Frames)
    BY <1>1, <1>5, <2>1 DEF Bound, Carried
  <2>3. QED
    BY <1>1, <1>4, <1>5, <2>1, <2>2, BoundRead
<1>7. Grows(stored, diagram, typed, turns, stored', diagram', typed, turns)
  BY <1>1, Quiet
<1>8. /\ Fits(w, diagram', typed) /\ (Attached /\ link.sock = s => Bound(w, view, link, stored'))
      /\ sock[s].net = "closed" => w.net = "closed"
  BY <1>1, <1>4, <1>5, <1>6
<1>9. QED
  BY <1>1, <1>3, <1>5, <1>7, <1>8, ServerStep

\* The steer the server takes up next.
SteerTakenUp(s) ==
    sock' = [Push(s, <<SteerEvents(s, Head(sock[s].up)[2])>>) EXCEPT
                ![s].up = Tail(@), ![s].sent = {},
                ![s].steers = Append(@, Head(sock[s].up)[2])]

LEMMA SteerAdvances ==
  ASSUME ClientInv, NEW s \in Sockets, SteerFrame(s),
         SteerTakenUp(s)
  PROVE  sock' = [sock EXCEPT ![s] =
                    Advanced(sock[s], Tail(sock[s].up),
                             Pushed(sock[s], SteerEvents(s, Head(sock[s].up)[2])),
                             Append(sock[s].steers, Head(sock[s].up)[2]), {}, sock[s].accepted)]
<1> DEFINE k == sock[s]
           steer == Head(k.up)[2]
           b == SteerEvents(s, steer)
           up == Tail(k.up)
           steers == Append(k.steers, steer)
           sent == {}
           accepted == k.accepted
           down == Pushed(k, b)
           q == [k EXCEPT !.down = down]
<1>1. sock \in [Sockets -> Sock] /\ k \in Sock
  BY SteerRead, Serving
<1>2. Push(s, <<b>>) = [sock EXCEPT ![s] = q]
  BY <1>1 DEF Push, Pushed
<1>3. sock' = [[sock EXCEPT ![s] = q] EXCEPT ![s].up = Tail(@), ![s].sent = {},
                                             ![s].steers = Append(@, steer)]
  BY <1>2 DEF SteerTakenUp
<1> HIDE DEF down, b, steer
<1>4. sock' = [sock EXCEPT ![s] = [q EXCEPT !.up = Tail(@), !.sent = {}, !.steers = Append(@, steer)]]
  BY <1>1, <1>3
<1>5. [q EXCEPT !.up = Tail(@), !.sent = {}, !.steers = Append(@, steer)]
        = Advanced(k, up, down, steers, sent, accepted)
  BY <1>1 DEF Advanced, Sock
<1>6. QED
  BY <1>4, <1>5 DEF down, b, steer

LEMMA SteerTaken ==
  ASSUME ClientInv, NEW s \in Sockets, SteerFrame(s),
         SteerTakenUp(s)
  PROVE  ClientInv'
<1> DEFINE k == sock[s]
           steer == Head(k.up)[2]
           b == SteerEvents(s, steer)
           up == Tail(k.up)
           steers == Append(k.steers, steer)
           sent == {}
           accepted == k.accepted
<1>1. /\ k.run = "running" /\ up \in Seq(Upward) /\ UpOwned(up, k.id, typed)
      /\ k.up \in Seq(Frames) => up \in Seq(Frames)
      /\ UNCHANGED <<stored, diagram>>
      /\ UNCHANGED <<view, link, call, load, gone, turns, calls, typed>>
      /\ steer \in Nat /\ steer \in DOMAIN typed /\ typed[steer] = k.id
  BY SteerRead
<1>2. /\ sock \in [Sockets -> Sock] /\ k \in Sock
      /\ k.steers \in Seq(Nat) /\ Owns(k.id, k.steers, typed) /\ accepted \in BOOLEAN
  BY <1>1, Serving
<1>3. steers \in Seq(Nat) /\ Owns(k.id, steers, typed)
  BY <1>1, <1>2, OwnsMore
<1>4. sock' = [sock EXCEPT ![s] = Advanced(k, up, Pushed(k, b), steers, sent, accepted)]
  BY SteerAdvances
<1> HIDE DEF steer
<1>5. /\ IsTold(b) /\ BurstSaved(b, k.thread, diagram) /\ BurstOwned(b, k.id, typed)
      /\ Acknowledges(b, k.steers, steers)
      /\ \A x : TextAfter(x, b) = <<>>
  BY <1>1, SteerTold
<1>6. sent \in SUBSET {"text", "preview"}
  OBVIOUS
<1>7. Written(sent, s, steers) = <<>>
  BY DEF Written
<1> HIDE DEF b, up, steers, sent, accepted
<1>8. TextAfter(Written(k.sent, s, k.steers), b) = Written(sent, s, steers)
  BY <1>5, <1>7
<1>9. k.run = "running" /\ UNCHANGED <<stored, diagram>>
      /\ UNCHANGED <<view, link, call, load, gone, turns, calls, typed>>
  BY <1>1
<1>10. up \in Seq(Upward) /\ UpOwned(up, k.id, typed) /\ (k.up \in Seq(Frames) => up \in Seq(Frames))
  BY <1>1
<1>11. IsTold(b) /\ BurstSaved(b, k.thread, diagram) /\ BurstOwned(b, k.id, typed)
       /\ Acknowledges(b, k.steers, steers)
  BY <1>5
<1>12. accepted \in BOOLEAN
  BY <1>2
<1>13. QED
  BY <1>3, <1>4, <1>6, <1>8, <1>9, <1>10, <1>11, <1>12, Says

LEMMA SteerFrameKeeps ==
  ASSUME ClientInv, NEW s \in Sockets, SteerFrame(s)
  PROVE  ClientInv'
<1>1. \/ sock' = [sock EXCEPT ![s].up = Tail(@)]
      \/ SteerTakenUp(s)
  BY DEF SteerFrame, SteerTakenUp
<1>2. QED
  BY <1>1, SteerRefused, SteerTaken

LEMMA ServerKeeps ==
  ASSUME ClientInv, NEW s \in Sockets, Server(s)
  PROVE  ClientInv'
<1>1. CASE StartFrame(s)
  BY <1>1, ReplayKeeps, BeginKeeps
<1>2. CASE \E part \in {"text", "preview"} : Emit(s, part)
  BY <1>2, EmitKeeps
<1>3. QED
  BY <1>1, <1>2, AcceptsKeeps, SteerFrameKeeps, AcceptFrameKeeps, EndFrameKeeps, FinishKeeps,
     FailKeeps DEF Server

-----------------------------------------------------------------------------
(* The invariant of the page.                                              *)

LEMMA ClientStarts ==
  ASSUME Init
  PROVE  ClientInv
<1>1. World(stored, diagram, typed, turns)
  <2>1. NoTurn \in Completed /\ NoTurn.steers = <<>>
    BY NothingTyped DEF NoTurn, Completed, Somewhere
  <2>2. stored = [i \in Turns |-> NoTurn] /\ diagram = [t \in Threads |-> 0]
        /\ typed = <<>> /\ turns = 0
    BY DEF Init
  <2>3. stored \in [Turns -> Completed] /\ \A i \in Turns : stored[i].steers = <<>>
    BY <2>1, <2>2
  <2>4. diagram \in [Threads -> 0 .. MaxVersion]
    BY <2>2, Parameters
  <2>5. typed \in Seq(Turns) /\ turns \in 0 .. MaxTurns
    BY <2>2, Parameters
  <2>6. QED
    BY <2>3, <2>4, <2>5, NothingSent DEF World
<1>2. ViewFits(view, stored, diagram, typed, turns) /\ view.stream = 0
  <2>1. view = EmptyView(Home) /\ turns \in Nat
    BY DEF Init
  <2>2. Home \in Somewhere
    BY Parameters DEF Somewhere
  <2>3. QED
    BY <2>1, <2>2, ViewEmpty
<1>3. LinkFits(link, view, typed) /\ link.sock = 0 /\ ~link.waiting
  <2>1. link = NoLink
    BY DEF Init
  <2>2. NoLink.sock = 0 /\ ~NoLink.waiting
    BY DEF NoLink
  <2>3. QED
    BY <1>2, <2>1, <2>2, NoLinkFits
<1>4. CallFits(call, view, diagram, typed, turns) /\ LoadFits(load, diagram)
  BY DEF Init, CallFits, LoadFits
<1>5. SocksFit(sock, diagram, typed)
  <2>1. NewSocket \in Sock /\ Fits(NewSocket, diagram, typed)
    BY NewSocketFits
  <2>2. sock = [s \in Sockets |-> NewSocket]
    BY DEF Init
  <2>3. QED
    BY <2>1, <2>2 DEF SocksFit
<1>6. Connected
  BY <1>3 DEF Connected, Attached
<1>7. gone \subseteq Threads /\ calls \in Nat
  BY DEF Init
<1>8. QED
  BY <1>1, <1>2, <1>3, <1>4, <1>5, <1>6, <1>7 DEF ClientInv

LEMMA ClientStays ==
  ASSUME ClientInv, UNCHANGED vars
  PROVE  ClientInv'
<1>1. UNCHANGED <<view, link, sock, stored, diagram, call, load, gone, turns, calls, typed>>
  BY DEF vars
<1>2. CallFits(call', view, diagram', typed, turns) /\ LoadFits(load', diagram')
      /\ gone' \subseteq Threads /\ calls' \in Nat
  BY <1>1 DEF ClientInv
<1>3. Grows(stored, diagram, typed, turns, stored, diagram', typed, turns)
  BY <1>1, Quiet
<1>4. QED
  BY <1>1, <1>2, <1>3, SessionStep

LEMMA UserKeeps ==
  ASSUME ClientInv, User
  PROVE  ClientInv'
BY SendTurnKeeps, SteerKeeps, AcceptPreviewKeeps, StopKeeps, AskingKeeps, OpenThreadKeeps,
   DeleteKeeps, RetryMessageKeeps DEF User

LEMMA HttpKeeps ==
  ASSUME ClientInv, Http
  PROVE  ClientInv'
BY CallAnswered, ChangeSaved, ServeLoadKeeps, LoadedKeeps, NotServedFails, AdoptedKeeps,
   RetryCheckedKeeps, ThreadCreatedKeeps DEF Http

LEMMA ClientSteps ==
  ASSUME ClientInv, [Next]_vars
  PROVE  ClientInv'
BY UserKeeps, HttpKeeps, ReceiveKeeps, LinkBreaksKeeps, WatchdogKeeps, ReconnectKeeps,
   ServerKeeps, ClientStays DEF Next

\* The page, its transport, the frames under way and the server's turns always fit together.
THEOREM PageFits == Spec => []ClientInv
<1>1. Init => ClientInv
  BY ClientStarts
<1>2. ClientInv /\ [Next]_vars => ClientInv'
  BY ClientSteps
<1>3. QED
  BY <1>1, <1>2, PTL DEF Spec

\* Every field holds what the hook, the transport or a frame may put there (useAgentStream.ts,
\* agentTransport.ts, chat_websocket.py).
THEOREM PageTypeCorrect == Spec => []TypeOK
<1>1. ClientInv => TypeOK
  <2> SUFFICES ASSUME ClientInv
               PROVE  TypeOK
    OBVIOUS
  <2>1. view.thread \in Threads \union {NoThread} /\ view.review \in Reviews
    BY DEF ClientInv, ViewFits, View, Somewhere
  <2>2. link.sock \in 0 .. MaxSockets /\ link.attempt \in 0 .. 1
    BY DEF ClientInv, LinkFits, Link
  <2>3. \A s \in Sockets : /\ sock[s].net \in {"unused", "connecting", "open", "closed"}
                           /\ sock[s].run \in {"none", "running", "over"}
    BY DEF ClientInv, SocksFit, Sock
  <2>4. diagram \in [Threads -> 0 .. MaxVersion] /\ gone \subseteq Threads
    BY DEF ClientInv, World
  <2>5. QED
    BY <2>1, <2>2, <2>3, <2>4 DEF TypeOK, Reviews
<1>2. QED
  BY <1>1, PageFits, PTL

-----------------------------------------------------------------------------
(* The messages.                                                           *)

NoPartials == [i \in Turns |-> <<>>]
OwnedText(x, id, T) == \A k \in DOMAIN x : Owns(id, x[k].steers, T)

\* A finished message is what one run of its turn wrote.
Whole(x, id, T) == x \in Writings /\ x # <<>> /\ OwnedText(x, id, T)

PageOwned(v, T) ==
    /\ OwnedText(v.text, v.stream, T)
    /\ \A i \in Turns : \A k \in DOMAIN v.partials[i] : Whole(v.partials[i][k], i, T)

\* What a step does to the messages: nothing, the page is left, the turn is cut short, the
\* server is heard, or the turn is done.
Quieted ==
    /\ view'.text = view.text /\ view'.partials = view.partials
    /\ view'.stream = view.stream \/ view.text = <<>>
    /\ view.busy => view'.busy
PageLeft == view'.text = <<>> /\ view'.partials = NoPartials /\ ~InThread
TurnCut == ~view'.busy /\ view.stream \in Turns /\ CutShort(view, view', view.stream)
Heard ==
    /\ view'.stream = view.stream /\ view'.partials = view.partials /\ view'.busy
    /\ \E b : BurstOwned(b, view.stream, typed) /\ b \in Seq(Events)
              /\ view'.text = TextAfter(view.text, b)
TurnDone ==
    /\ view'.text = <<>> /\ view'.partials = view.partials
    /\ view.text # <<>> => view'.answers[view.stream] = view.text
Moves == Quieted \/ PageLeft \/ TurnCut \/ Heard \/ TurnDone

LEMMA ViewStands ==
  ASSUME view' = view
  PROVE  Moves
BY DEF Moves, Quieted

LEMMA EmptyMessages ==
  ASSUME NEW t, NEW n, NEW done
  PROVE  /\ EmptyView(t).text = <<>> /\ EmptyView(t).partials = NoPartials
         /\ EmptyView(t).thread = t /\ EmptyView(t).request = 0
         /\ Hydrated(t, n, done).text = <<>> /\ Hydrated(t, n, done).partials = NoPartials
         /\ Hydrated(t, n, done).thread = t /\ Hydrated(t, n, done).request = 0
BY DEF EmptyView, Hydrated, NoPartials

LEMMA StartedMessages ==
  ASSUME NEW v, NEW id, NEW steers, StartTurn(v, id, steers), v \in View
  PROVE  /\ view'.text = v.text /\ view'.partials = v.partials /\ view'.busy
         /\ view'.stream = id /\ view'.request = id /\ view'.thread = v.thread
<1>1. view' = StartedView(v, id, steers)
  BY DEF StartTurn, StartedView
<1>2. QED
  BY <1>1 DEF StartedView, View

\* A turn starts on an idle page, or takes over from one that has not written anything.
LEMMA StartedQuiet ==
  ASSUME ClientInv, NEW id, NEW steers, StartTurn(view, id, steers), view.text = <<>>
  PROVE  Moves
<1>1. view \in View
  BY DEF ClientInv, ViewFits
<1>2. QED
  BY <1>1, StartedMessages DEF Moves, Quieted

LEMMA SilentPage ==
  ASSUME ClientInv
  PROVE  /\ ~view.busy => view.text = <<>>
         /\ ~(IsActive(view) /\ IsChatActive) => view.text = <<>>
         /\ view.stream = 0 => ~view.busy
         /\ view \in View
<1>1. view \in View /\ Clean(view) /\ Phased(view) /\ LinkFits(link, view, typed)
  BY DEF ClientInv, ViewFits
<1>2. ~view.busy => view.text = <<>>
  BY <1>1 DEF Clean
<1>3. view.stream = 0 => ~view.busy
  BY <1>1 DEF Phased
<1>4. ~IsActive(view) => ~view.busy
  BY <1>1, <1>3 DEF Phased, IsActive
<1>5. ~IsChatActive => view.text = <<>> \/ view.stream = 0
  BY <1>1 DEF LinkFits, IsChatActive
<1>6. QED
  BY <1>1, <1>2, <1>3, <1>4, <1>5

LEMMA UserMoves ==
  ASSUME ClientInv, User
  PROVE  Moves
<1>0. view \in View /\ ViewFits(view, stored, diagram, typed, turns)
  BY DEF ClientInv, ViewFits
<1>1. CASE SendTurn
  <2>1. NewTurn(view) /\ view.text = <<>>
    BY <1>1, SilentPage DEF SendTurn
  <2>2. QED
    BY <2>1, StartedQuiet DEF NewTurn
<1>2. CASE Steer \/ NewChat \/ SaveGraphEdit \/ RestoreRevision
  BY <1>2, ViewStands DEF Steer, NewChat, SaveGraphEdit, RestoreRevision
<1>3. CASE AcceptPreview
  <2>1. view' = [view EXCEPT !.review = "pending"]
    BY <1>3 DEF AcceptPreview
  <2>2. /\ view'.text = view.text /\ view'.partials = view.partials
        /\ view'.stream = view.stream /\ view'.busy = view.busy
    BY <1>0, <2>1 DEF View
  <2>3. QED
    BY <2>2 DEF Moves, Quieted
<1>4. CASE Stop
  <2>1. view' = StoppedView(view) /\ view.busy
    BY <1>4 DEF Stop, StoppedView
  <2>2. CutShort(view, view', view.stream)
    BY <1>0, <2>1, ViewStopped
  <2>3. view.stream \in Turns
    BY <1>0, <2>1, Parameters DEF ViewFits, Phased, View, Turns
  <2>4. QED
    BY <2>2, <2>3 DEF Moves, TurnCut, CutShort
<1>5. CASE \E t \in Threads : OpenThread(t)
  BY <1>5, ViewStands DEF OpenThread
<1>6. CASE \E t \in Threads : DeleteThread(t)
  <2>1. view' = EmptyView(NoThread) /\ view.thread # NoThread
    BY <1>6 DEF DeleteThread, LeaveThread
  <2>2. view'.text = <<>> /\ view'.partials = NoPartials /\ view'.thread = NoThread
    BY <2>1, EmptyMessages
  <2>3. QED
    BY <2>1, <2>2 DEF Moves, PageLeft, InThread
<1>7. ASSUME NEW id \in Turns, RetryMessage(id)
      PROVE  Moves
  <2>1. (view' = view \/ NewTurn(view)) /\ view.text = <<>>
    BY <1>7, SilentPage DEF RetryMessage, Resting
  <2>2. QED
    BY <2>1, StartedQuiet, ViewStands DEF NewTurn
<1>8. QED
  BY <1>1, <1>2, <1>3, <1>4, <1>5, <1>6, <1>7 DEF User

LEMMA RetryMoves ==
  ASSUME ClientInv, RetryChecked
  PROVE  Moves
<1>1. /\ call.kind = "retry" /\ call.served /\ call' = NoCall
      /\ \/ view' = view
         \/ StartTurn(view, call.id, call.steers)
         \/ NewTurn(Hydrate(call))
         \/ view' = Hydrate(call)
  BY DEF RetryChecked
<1>2. call # NoCall /\ ~Changes(call)
  BY <1>1 DEF NoCall, Changes
<1>3. /\ call \in Calls /\ call.number <= diagram[call.thread]
      /\ call.done \in [Turns -> Completed]
      /\ call.id \in Turns /\ call.id <= turns /\ view.stream = 0
  BY <1>1, <1>2 DEF ClientInv, CallFits
<1>4. call.thread \in Threads /\ call.number \in Nat
  BY <1>3 DEF Calls
<1>5. Hydrate(call) \in View
  BY <1>3, <1>4, HydrateFits DEF ViewFits
<1>6. /\ Hydrate(call).text = <<>> /\ Hydrate(call).partials = NoPartials
      /\ Hydrate(call).request = 0
  BY EmptyMessages DEF Hydrate
<1>7. view.text = <<>>
  BY <1>3, SilentPage
<1>8. CASE view' = Hydrate(call)
  <2>1. view'.request # call.id
    BY <1>3, <1>6, <1>8 DEF Turns
  <2>2. ~InThread
    BY <1>1, <1>2, <2>1 DEF InThread
  <2>3. QED
    BY <1>6, <1>8, <2>2 DEF Moves, PageLeft
<1>9. CASE NewTurn(Hydrate(call))
  <2>1. /\ view'.text = <<>> /\ view'.partials = NoPartials /\ view'.request = turns + 1
    BY <1>5, <1>6, <1>9, StartedMessages DEF NewTurn
  <2>2. turns \in Nat /\ call.id \in Nat
    BY <1>3, Parameters DEF ClientInv, World, Turns
  <2>3. turns + 1 # call.id
    BY <1>3, <2>2
  <2>4. ~InThread
    BY <1>1, <1>2, <2>1, <2>3 DEF InThread
  <2>5. QED
    BY <2>1, <2>4 DEF Moves, PageLeft
<1>10. QED
  BY <1>1, <1>7, <1>8, <1>9, ViewStands, StartedQuiet

LEMMA HttpMoves ==
  ASSUME ClientInv, Http
  PROVE  Moves
<1>0. view \in View
  BY DEF ClientInv, ViewFits
<1>1. CASE ServeCall \/ ServeLoad \/ CallFails \/ LoadFails
  BY <1>1, ViewStands DEF ServeCall, ServeLoad, CallFails, LoadFails
<1>2. CASE Loaded
  <2>1. load # NoCall /\ load' = NoCall /\ (view' = view \/ view' = Hydrate(load))
    BY <1>2 DEF Loaded, LeaveThread
  <2>2. Hydrate(load).text = <<>> /\ Hydrate(load).partials = NoPartials
    BY EmptyMessages DEF Hydrate
  <2>3. ~InThread
    BY <2>1 DEF InThread
  <2>4. QED
    BY <2>1, <2>2, <2>3, ViewStands DEF Moves, PageLeft
<1>3. CASE Adopted
  <2>1. \/ view' = view
        \/ view' = [view EXCEPT !.durable = Version(call.thread, call.number), !.preview = FALSE]
    BY <1>3 DEF Adopted
  <2>2. /\ view'.text = view.text /\ view'.partials = view.partials
        /\ view'.stream = view.stream /\ view'.busy = view.busy
    BY <1>0, <2>1 DEF View
  <2>3. QED
    BY <2>2 DEF Moves, Quieted
<1>4. CASE \E t \in Threads : ThreadCreated(t)
  <2>1. PICK t \in Threads : /\ call.kind = "create" /\ call' = NoCall
                             /\ view' = view \/ NewTurn(EmptyView(t))
    BY <1>4 DEF ThreadCreated
  <2>2. turns \in Nat
    BY Parameters DEF ClientInv, World
  <2>3. ViewFits(EmptyView(t), stored, diagram, typed, turns)
    BY <2>2, ViewEmpty DEF Somewhere
  <2>4. EmptyView(t) \in View
    BY <2>3 DEF ViewFits
  <2>5. NewTurn(EmptyView(t)) => view'.text = <<>> /\ view'.partials = NoPartials
    BY <2>4, EmptyMessages, StartedMessages DEF NewTurn
  <2>6. call' # call /\ call.kind # "retry"
    BY <2>1 DEF NoCall
  <2>7. ~InThread
    BY <2>6 DEF InThread
  <2>8. QED
    BY <2>1, <2>5, <2>7, ViewStands DEF Moves, PageLeft
<1>5. QED
  BY <1>1, <1>2, <1>3, <1>4, RetryMoves DEF Http

LEMMA DoneMessages ==
  ASSUME NEW id \in Turns, view \in View, view.stream = id
  PROVE  LET w == Settled(HandleBurst(view, id, Done), id, TRUE)
         IN /\ w.partials = view.partials /\ w.text = <<>>
            /\ view.text # <<>> => w.answers[id] = view.text
<1>1. HandleBurst(view, id, Done) = OnDone(view, id)
  BY DoneHandled
<1>2. QED
  BY <1>1 DEF Settled, OnDone, Cleared, View

LEMMA ReceiveMoves ==
  ASSUME ClientInv, Receive
  PROVE  Moves
<1> DEFINE k == sock[link.sock]
           b == Head(k.down)
           id == view.stream
           x == HandleBurst(view, id, b)
<1>1. /\ Attached /\ k.down # <<>>
      /\ \/ view' = view
         \/ b = Done /\ view' = Settled(HandleBurst(view, link.id, b), link.id, TRUE)
         \/ b # Ready /\ b # Done /\ view' = HandleBurst(view, link.id, b)
  BY DEF Receive
<1>2. /\ id \in Turns /\ link.id = id /\ view.request = id /\ view \in View
      /\ k \in Sock /\ k.id = id /\ k.thread = view.thread /\ Bound(k, view, link, stored)
      /\ Fits(k, diagram, typed) /\ ViewFits(view, stored, diagram, typed, turns)
  BY <1>1, AttachedTurn DEF Attached, ClientInv
<1>3. CASE b = Done /\ view' = Settled(HandleBurst(view, link.id, b), link.id, TRUE)
  <2>2. view' = Settled(HandleBurst(view, id, Done), id, TRUE)
    BY <1>2, <1>3
  <2>5. view.stream = id
    OBVIOUS
  <2>6. id \in Turns /\ view \in View
    BY <1>2
  <2> HIDE DEF id, k, b
  <2> DEFINE w == Settled(HandleBurst(view, id, Done), id, TRUE)
  <2>7. /\ w.partials = view.partials /\ w.text = <<>>
        /\ view.text # <<>> => w.answers[id] = view.text
    BY <2>5, <2>6, DoneMessages DEF w
  <2> HIDE DEF w
  <2>3. /\ view'.partials = view.partials /\ view'.text = <<>>
        /\ view.text # <<>> => view'.answers[id] = view.text
    BY <2>2, <2>7 DEF w
  <2>4. QED
    BY <2>3, <2>5 DEF Moves, TurnDone
<1>4. CASE b # Ready /\ b # Done /\ view' = HandleBurst(view, link.id, b)
  <2>1. view' = x
    BY <1>2, <1>4
  <2>2. view.busy /\ (IsTold(b) \/ IsLast(b))
    BY <1>1, <1>2, <1>4, NextFrame
  <2>3. k.down \in Seq(Seq(Events)) /\ DownFits(k.down, k.thread, k.id, diagram, typed)
    BY <1>2 DEF Sock, Fits
  <2>4. BurstOwned(b, id, typed) /\ b \in Seq(Events)
    BY <1>1, <1>2, <2>3, DownShortened
  <2>5. Streaming(view, id)
    BY <1>2, <2>2 DEF ViewFits, Streaming, Phased, View, Turns
  <2> HIDE DEF b, k
  <2>6. CASE IsTold(b)
    <3>1. /\ x.text = TextAfter(view.text, b) /\ x.busy /\ x.stream = id
          /\ x.partials = view.partials
      BY <2>5, <2>6, BurstTold DEF Told, Kept, Streaming
    <3> HIDE DEF x
    <3>2. Heard
      BY <2>1, <2>4, <3>1 DEF Heard
    <3>3. QED
      BY <3>2 DEF Moves
  <2>7. CASE IsLast(b)
    <3>1. Closing(view, x, id, b) /\ x.text = TextAfter(view.text, b)
      BY <2>5, <2>7, BurstLast
    <3> HIDE DEF x
    <3>2. CASE Streaming(x, id)
      <4>1. x.busy /\ x.stream = id /\ x.partials = view.partials
        BY <3>1, <3>2 DEF Closing, Kept, Streaming
      <4>2. Heard
        BY <2>1, <2>4, <3>1, <4>1 DEF Heard
      <4>3. QED
        BY <4>2 DEF Moves
    <3>3. CASE Halted(x, id)
      <4>1. ~x.busy /\ x.text = <<>> /\ CutShort(view, x, id)
        BY <3>1, <3>3 DEF Closing, Kept, Halted, Clean, CutShort
      <4>2. QED
        BY <1>2, <2>1, <4>1 DEF Moves, TurnCut
    <3>4. QED
      BY <3>1, <3>2, <3>3 DEF Closing
  <2>8. QED
    BY <2>2, <2>6, <2>7
<1>5. QED
  BY <1>1, <1>3, <1>4, ViewStands

LEMMA EndLinkMoves ==
  ASSUME ClientInv, Attached, EndLink
  PROVE  Moves
<1>1. view' = view \/ view' = Settled(view, link.id, FALSE)
  BY DEF EndLink
<1>2. /\ view.stream \in Turns /\ link.id = view.stream /\ view.request = view.stream
      /\ ViewFits(view, stored, diagram, typed, turns)
  BY AttachedTurn DEF Attached, ClientInv
<1>3. view' = Settled(view, link.id, FALSE) => CutShort(view, view', view.stream)
  BY <1>2, ViewBroken
<1>4. QED
  BY <1>1, <1>2, <1>3, ViewStands DEF Moves, TurnCut, CutShort

LEMMA MessagesMove ==
  ASSUME ClientInv, Next
  PROVE  Moves
<1>1. CASE LinkBreaks \/ Watchdog
  BY <1>1, EndLinkMoves DEF LinkBreaks, Watchdog
<1>2. CASE Reconnect
  BY <1>2, ViewStands DEF Reconnect
<1>3. CASE \E s \in Sockets : Server(s)
  <2>1. view' = view
    BY <1>3, ZenonT(40) DEF Server, ServerOnly, Accepts, StartFrame, Emit, SteerFrame, AcceptFrame, EndFrame,
       Finish, Fail
  <2>2. QED
    BY <2>1, ViewStands
<1>4. QED
  BY <1>1, <1>2, <1>3, UserMoves, HttpMoves, ReceiveMoves DEF Next

\* What was typed stays typed.
LEMMA FollowUpsStay ==
  ASSUME ClientInv, Next
  PROVE  DOMAIN typed \subseteq DOMAIN typed' /\ \A k \in DOMAIN typed : typed'[k] = typed[k]
<1>1. CASE Steer
  <2>1. typed' = Append(typed, view.stream) /\ typed \in Seq(Turns)
    BY <1>1 DEF Steer, ClientInv, World
  <2>2. view.stream \in Nat
    BY Parameters DEF ClientInv, ViewFits, View
  <2>3. QED
    BY <2>1, <2>2, SMTT(30)
<1>2. CASE ~Steer
  <2>1. ASSUME User
        PROVE  typed' = typed
    BY <1>2, <2>1, ZenonT(40)
       DEF User, SendTurn, AcceptPreview, Stop, NewChat, SaveGraphEdit, RestoreRevision,
           OpenThread, DeleteThread, RetryMessage
  <2>2. ASSUME Http
        PROVE  typed' = typed
    BY <2>2, ZenonT(40)
       DEF Http, ServeCall, ServeLoad, Loaded, CallFails, LoadFails, Adopted, RetryChecked,
           ThreadCreated
  <2>3. ASSUME Receive \/ LinkBreaks \/ Watchdog \/ Reconnect
        PROVE  typed' = typed
    BY <2>3, ZenonT(40) DEF Receive, LinkBreaks, Watchdog, Reconnect
  <2>4. ASSUME \E s \in Sockets : Server(s)
        PROVE  typed' = typed
    BY <2>4, ZenonT(40) DEF Server, ServerOnly, Accepts, StartFrame, Emit, SteerFrame,
       AcceptFrame, EndFrame, Finish, Fail
  <2>5. typed' = typed
    BY <2>1, <2>2, <2>3, <2>4 DEF Next
  <2>6. QED
    BY <2>5
<1>3. QED
  BY <1>1, <1>2

\* One run's text is on the screen at most.
LEMMA OneWriting ==
  ASSUME ClientInv
  PROVE  view.text \in Writings
<1>1. LinkFits(link, view, typed) /\ ViewFits(view, stored, diagram, typed, turns)
  BY DEF ClientInv
<1>2. CASE link.sock = 0
  BY <1>1, <1>2, SilentPage, WritingsTyped DEF LinkFits
<1>3. CASE link.sock # 0 /\ ~link.ready
  BY <1>1, <1>3, WritingsTyped DEF LinkFits
<1>4. CASE link.sock # 0 /\ link.ready
  <2>1. Attached
    BY <1>1, <1>4 DEF LinkFits, Attached
  <2>2. Bound(sock[link.sock], view, link, stored) /\ sock[link.sock] \in Sock
    BY <1>4, <2>1, AttachedTurn
  <2>3. TextArrives(sock[link.sock], link.sock, view, stored)
    BY <1>4, <2>2 DEF Bound
  <2>4. PICK y : Arrives(view.text, sock[link.sock].down, y)
    BY <2>3 DEF TextArrives
  <2>5. sock[link.sock].down \in Seq(Seq(Events))
    BY <2>2 DEF Sock
  <2>6. QED
    BY <2>4, <2>5, ArrivesTyped
<1>5. QED
  BY <1>2, <1>3, <1>4

LEMMA OwnedStays ==
  ASSUME NEW id, NEW x, NEW T, NEW T2, DOMAIN T \subseteq DOMAIN T2,
         \A k \in DOMAIN T : T2[k] = T[k]
  PROVE  /\ OwnedText(x, id, T) => OwnedText(x, id, T2)
         /\ Whole(x, id, T) => Whole(x, id, T2)
<1>1. OwnedText(x, id, T) => OwnedText(x, id, T2)
  BY DEF OwnedText, Owns
<1>2. QED
  BY <1>1 DEF Whole

LEMMA DeltaBrings ==
  ASSUME NEW e \in Events, e[1] = "delta"
  PROVE  e[2] \in Texts
<1>1. /\ e \notin {"graph"} \X Versions
      /\ e \notin {"review"} \X {"reviewing", "accepted", "rejected"}
      /\ e \notin {"steered"} \X Nat \X Nat
  OBVIOUS
<1>2. e \notin {<<"reset">>, <<"preview">>, <<"failed">>, <<"error">>, <<"ready">>, <<"done">>}
  OBVIOUS
<1>3. e \in {"delta"} \X Texts
  BY <1>1, <1>2 DEF Events, Telling, Ending
<1>4. QED
  BY <1>3

LEMMA OwnedEvent ==
  ASSUME NEW x \in Seq(Texts), NEW b \in Seq(Events), NEW id, NEW T, NEW i \in Nat,
         OwnedText(x, id, T), BurstOwned(b, id, T)
  PROVE  TextAt(x, b, i) \in Seq(Texts) /\ OwnedText(TextAt(x, b, i), id, T)
<1>1. CASE i \in DOMAIN b /\ b[i][1] = "delta"
  <2> DEFINE m == b[i][2]
  <2>1. TextAt(x, b, i) = Append(x, m)
    BY <1>1 DEF TextAt, TextEvent
  <2>2. m \in Texts /\ Owns(id, m.steers, T)
    <3>1. b[i] \in Events
      BY <1>1
    <3>2. m \in Texts
      BY <1>1, <3>1, DeltaBrings
    <3>3. QED
      BY <1>1, <3>2 DEF BurstOwned
  <2> HIDE DEF m
  <2>3. Append(x, m) \in Seq(Texts) /\ DOMAIN Append(x, m) = 1 .. Len(x) + 1
        /\ \A k \in 1 .. Len(x) + 1 : Append(x, m)[k] = IF k = Len(x) + 1 THEN m ELSE x[k]
    BY <2>2
  <2>4. OwnedText(Append(x, m), id, T)
    BY <2>2, <2>3 DEF OwnedText
  <2>5. QED
    BY <2>1, <2>3, <2>4
<1>2. CASE i \in DOMAIN b /\ b[i][1] # "delta"
  <2>1. TextAt(x, b, i) = x \/ TextAt(x, b, i) = <<>>
    BY <1>2 DEF TextAt, TextEvent
  <2>2. OwnedText(<<>>, id, T) /\ <<>> \in Seq(Texts)
    BY DEF OwnedText
  <2>3. QED
    BY <2>1, <2>2
<1>3. CASE i \notin DOMAIN b
  BY <1>3 DEF TextAt
<1>4. QED
  BY <1>1, <1>2, <1>3

\* What a burst of its own turn writes is the turn's.
LEMMA OwnedAfter ==
  ASSUME NEW x \in Seq(Texts), NEW b \in Seq(Events), NEW id, NEW T,
         OwnedText(x, id, T), BurstOwned(b, id, T)
  PROVE  OwnedText(TextAfter(x, b), id, T)
<1> DEFINE y1 == TextAt(x, b, 1)
           y2 == TextAt(y1, b, 2)
           y3 == TextAt(y2, b, 3)
           y4 == TextAt(y3, b, 4)
           y5 == TextAt(y4, b, 5)
<1>0. TextAfter(x, b) = y5
  BY DEF TextAfter
<1>1. y1 \in Seq(Texts) /\ OwnedText(y1, id, T)
  BY OwnedEvent
<1> HIDE DEF y1
<1>2. y2 \in Seq(Texts) /\ OwnedText(y2, id, T)
  BY <1>1, OwnedEvent
<1> HIDE DEF y2
<1>3. y3 \in Seq(Texts) /\ OwnedText(y3, id, T)
  BY <1>2, OwnedEvent
<1> HIDE DEF y3
<1>4. y4 \in Seq(Texts) /\ OwnedText(y4, id, T)
  BY <1>3, OwnedEvent
<1> HIDE DEF y4
<1>5. y5 \in Seq(Texts) /\ OwnedText(y5, id, T)
  BY <1>4, OwnedEvent
<1> HIDE DEF y5
<1>6. QED
  BY <1>0, <1>5

LEMMA FinishedMessages ==
  ASSUME NEW v \in View, NEW id \in Turns, NEW i \in Turns, v.text # <<>>
  PROVE  /\ Finished(v, id)[i] = IF i = id THEN Append(v.partials[i], v.text) ELSE v.partials[i]
         /\ v.partials[i] \in Seq(Seq(Texts)) /\ v.text \in Seq(Texts)
<1>1. v.partials \in [Turns -> Seq(Seq(Texts))] /\ v.text \in Seq(Texts)
  BY DEF View
<1>2. QED
  BY <1>1 DEF Finished

LEMMA MessagesStayWhole ==
  ASSUME ClientInv, PageOwned(view, typed), Next
  PROVE  PageOwned(view', typed')
<1>0. /\ view \in View /\ view.text \in Seq(Texts) /\ view.text \in Writings
      /\ view.partials \in [Turns -> Seq(Seq(Texts))]
  BY OneWriting DEF ClientInv, ViewFits, View
<1>1. DOMAIN typed \subseteq DOMAIN typed' /\ \A k \in DOMAIN typed : typed'[k] = typed[k]
  BY FollowUpsStay
<1>2. /\ OwnedText(view.text, view.stream, typed')
      /\ \A i \in Turns : \A k \in DOMAIN view.partials[i] : Whole(view.partials[i][k], i, typed')
  BY <1>1, OwnedStays DEF PageOwned
<1>3. \A id : OwnedText(<<>>, id, typed')
  BY DEF OwnedText
<1>4. Moves
  BY MessagesMove
<1>5. CASE Quieted
  BY <1>2, <1>3, <1>5 DEF Quieted, PageOwned
<1>6. CASE PageLeft
  <2>1. \A i \in Turns : view'.partials[i] = <<>>
    BY <1>6 DEF PageLeft, NoPartials
  <2>2. QED
    BY <1>3, <1>6, <2>1 DEF PageLeft, PageOwned
<1>7. CASE TurnCut
  <2>1. /\ view.stream \in Turns /\ view'.text = <<>>
        /\ view'.partials = Finished(view, view.stream)
    BY <1>7 DEF TurnCut, CutShort
  <2>2. CASE view.text = <<>>
    BY <1>2, <1>3, <2>1, <2>2 DEF Finished, PageOwned
  <2>3. CASE view.text # <<>>
    <3>1. Whole(view.text, view.stream, typed')
      BY <1>0, <1>2, <2>3 DEF Whole
    <3>2. ASSUME NEW i \in Turns, NEW k \in DOMAIN view'.partials[i]
          PROVE  Whole(view'.partials[i][k], i, typed')
      <4> DEFINE p == view.partials[i]
                 m == view.text
      <4>1. /\ view'.partials[i] = IF i = view.stream THEN Append(p, m) ELSE p
            /\ p \in Seq(Seq(Texts)) /\ m \in Seq(Texts)
        BY <1>0, <2>1, <2>3, FinishedMessages
      <4>2. \A j \in DOMAIN p : Whole(p[j], i, typed')
        BY <1>2
      <4>3. i = view.stream => Whole(m, i, typed')
        BY <3>1
      <4> HIDE DEF p, m
      <4>4. CASE i = view.stream
        <5>1. k \in DOMAIN Append(p, m) /\ view'.partials[i] = Append(p, m)
          BY <3>2, <4>1, <4>4
        <5>2. (k \in DOMAIN p /\ Append(p, m)[k] = p[k]) \/ Append(p, m)[k] = m
          BY <4>1, <5>1
        <5>3. QED
          BY <4>2, <4>3, <4>4, <5>1, <5>2
      <4>5. CASE i # view.stream
        BY <3>2, <4>1, <4>2, <4>5
      <4>6. QED
        BY <4>4, <4>5
    <3>3. QED
      BY <1>3, <2>1, <3>2 DEF PageOwned
  <2>4. QED
    BY <2>2, <2>3
<1>8. CASE Heard
  <2>1. PICK b : /\ BurstOwned(b, view.stream, typed) /\ b \in Seq(Events)
                 /\ view'.text = TextAfter(view.text, b)
    BY <1>8 DEF Heard
  <2>2. OwnedText(view'.text, view.stream, typed)
    BY <1>0, <2>1, OwnedAfter DEF PageOwned
  <2>3. OwnedText(view'.text, view.stream, typed')
    BY <1>1, <2>2, OwnedStays
  <2>4. QED
    BY <1>2, <1>8, <2>3 DEF Heard, PageOwned
<1>9. CASE TurnDone
  BY <1>2, <1>3, <1>9 DEF TurnDone, PageOwned
<1>10. QED
  BY <1>4, <1>5, <1>6, <1>7, <1>8, <1>9 DEF Moves

LEMMA MessagesStartWhole ==
  ASSUME Init
  PROVE  PageOwned(view, typed)
<1>1. view.text = <<>> /\ \A i \in Turns : view.partials[i] = <<>>
  BY EmptyMessages DEF Init, NoPartials
<1>2. QED
  BY <1>1 DEF PageOwned, OwnedText

LEMMA WholeMessages ==
  ASSUME ClientInv, PageOwned(view, typed)
  PROVE  MessagesAreWhole
<1>1. Len(view.text) <= 1
  <2>1. view.text = <<>> \/ \E m \in Texts : view.text = <<m>>
    BY OneWriting DEF Writings
  <2>2. CASE view.text = <<>>
    BY <2>2
  <2>3. ASSUME NEW m \in Texts, view.text = <<m>>
        PROVE  Len(view.text) <= 1
    <3>1. Len(<<m>>) = 1
      OBVIOUS
    <3>2. Len(view.text) = 1
      BY <2>3, <3>1
    <3>3. QED
      BY <3>2
  <2>4. QED
    BY <2>1, <2>2, <2>3
<1>2. ASSUME NEW i \in Turns, NEW message \in ToSet(view.partials[i])
      PROVE  Len(message) = 1 /\ \A n \in ToSet(message[1].steers) : typed[n] = i
  <2>1. PICK k \in DOMAIN view.partials[i] : message = view.partials[i][k]
    BY <1>2 DEF ToSet
  <2>2. Whole(message, i, typed)
    BY <2>1 DEF PageOwned
  <2>3. PICK m \in Texts : message = <<m>>
    BY <2>2 DEF Whole, Writings
  <2>4. Len(message) = 1 /\ message[1] = m /\ 1 \in DOMAIN message
    BY <2>3
  <2>5. Owns(i, m.steers, typed)
    BY <2>2, <2>4 DEF Whole, OwnedText
  <2>6. QED
    BY <2>4, <2>5 DEF ToSet, Owns
<1>3. QED
  BY <1>1, <1>2 DEF MessagesAreWhole

LEMMA PrefixGrows ==
  ASSUME NEW S, NEW x \in Seq(S), NEW m \in S
  PROVE  IsPrefix(x, x) /\ IsPrefix(x, Append(x, m)) /\ IsPrefix(<<>>, x)
<1>1. ASSUME NEW y \in Seq(S), Len(x) <= Len(y), \A i \in 1 .. Len(x) : x[i] = y[i]
      PROVE  IsPrefix(x, y)
  <2>1. /\ SubSeq(x, 1, Len(x)) = [i \in 1 .. Len(x) |-> x[i]]
        /\ SubSeq(y, 1, Len(x)) = [i \in 1 .. Len(x) |-> y[i]]
    BY <1>1
  <2>2. SubSeq(x, 1, Len(x)) = SubSeq(y, 1, Len(x))
    BY <1>1, <2>1
  <2>3. QED
    BY <1>1, <2>2 DEF IsPrefix
<1>2. Append(x, m) \in Seq(S) /\ Len(Append(x, m)) = Len(x) + 1
      /\ \A i \in 1 .. Len(x) : Append(x, m)[i] = x[i]
  OBVIOUS
<1>3. IsPrefix(x, x)
  BY <1>1
<1> DEFINE y == Append(x, m)
<1>5. y \in Seq(S) /\ Len(x) <= Len(y) /\ \A i \in 1 .. Len(x) : x[i] = y[i]
  BY <1>2
<1> HIDE DEF y
<1>6. IsPrefix(x, y)
  BY <1>1, <1>5
<1>4. IsPrefix(<<>>, x)
  BY DEF IsPrefix
<1>7. QED
  BY <1>3, <1>4, <1>6 DEF y

\* In its thread, a step takes nothing from what earlier attempts wrote, and what a turn that
\* ends has written is its answer or stays beside the others.
Keeping ==
    InThread =>
         /\ \A i \in Turns : IsPrefix(view.partials[i], view'.partials[i])
         /\ view.busy /\ ~view'.busy /\ view.text # <<>> =>
              \/ view'.answers[view.stream] = view.text
              \/ view'.partials[view.stream]
                    = Append(view.partials[view.stream], view.text)

LEMMA PartialsStay ==
  ASSUME ClientInv, [Next]_vars
  PROVE  [Keeping]_vars
<1>0. view \in View /\ view.partials \in [Turns -> Seq(Seq(Texts))] /\ view.text \in Seq(Texts)
  BY DEF ClientInv, ViewFits, View
<1>1. \A i \in Turns : /\ IsPrefix(view.partials[i], view.partials[i])
                       /\ IsPrefix(view.partials[i], Append(view.partials[i], view.text))
  BY <1>0, PrefixGrows
<1>2. CASE UNCHANGED vars
  BY <1>2
<1>3. CASE Next
  <2>1. SUFFICES ASSUME InThread
                 PROVE  Keeping
    BY DEF Keeping
  <2>2. Moves
    BY <1>3, MessagesMove
  <2>3. CASE Quieted \/ Heard
    <3>1. view'.partials = view.partials /\ (view.busy => view'.busy)
      BY <2>3 DEF Quieted, Heard
    <3>2. QED
      BY <1>1, <3>1 DEF Keeping
  <2>4. CASE PageLeft
    BY <2>1, <2>4 DEF PageLeft
  <2>5. CASE TurnCut
    <3>1. view.stream \in Turns /\ view'.partials = Finished(view, view.stream)
      BY <2>5 DEF TurnCut, CutShort
    <3>2. CASE view.text = <<>>
      BY <1>1, <3>1, <3>2 DEF Finished, Keeping
    <3>3. CASE view.text # <<>>
      <4>1. \A i \in Turns : view'.partials[i] = IF i = view.stream
                                                 THEN Append(view.partials[i], view.text)
                                                 ELSE view.partials[i]
        BY <1>0, <3>1, <3>3, FinishedMessages
      <4>2. \A i \in Turns : IsPrefix(view.partials[i], view'.partials[i])
        BY <1>1, <4>1
      <4>3. view'.partials[view.stream] = Append(view.partials[view.stream], view.text)
        BY <3>1, <4>1
      <4>4. QED
        BY <4>2, <4>3 DEF Keeping
    <3>4. QED
      BY <3>2, <3>3
  <2>6. CASE TurnDone
    <3>1. view'.partials = view.partials
          /\ (view.text # <<>> => view'.answers[view.stream] = view.text)
      BY <2>6 DEF TurnDone
    <3>2. QED
      BY <1>1, <3>1 DEF Keeping
  <2>7. QED
    BY <2>2, <2>3, <2>4, <2>5, <2>6 DEF Moves
<1>4. QED
  BY <1>2, <1>3

\* The streamed text and every kept message are of the turn they were written for.
THEOREM MessagesFit == Spec => []PageOwned(view, typed)
<1>1. Init => PageOwned(view, typed)
  BY MessagesStartWhole
<1>2. ClientInv /\ PageOwned(view, typed) /\ [Next]_vars => PageOwned(view, typed)'
  <2>1. ASSUME PageOwned(view, typed), UNCHANGED vars
        PROVE  PageOwned(view', typed')
    <3>1. view' = view /\ typed' = typed
      BY <2>1 DEF vars
    <3>2. QED
      BY <2>1, <3>1
  <2>2. QED
    BY <2>1, MessagesStayWhole
<1>3. QED
  BY <1>1, <1>2, PageFits, PTL DEF Spec

\* What the page shows is of the open thread, a page at rest has no open message and no unsaved
\* diagram or review, an answer that is done is what was stored, no message mixes two runs, and
\* what a turn wrote before it was cut short stays on the page as it is, whatever connection
\* breaks, whatever is retried and whatever answer arrives late (useAgentStream.ts).
THEOREM PageShowsTheUsers == Spec => ShownIsTheUsers
<1>1. ClientInv => ViewIsOfThread /\ IdleIsClean /\ DoneShowsStored
  <2> SUFFICES ASSUME ClientInv
               PROVE  ViewIsOfThread /\ IdleIsClean /\ DoneShowsStored
    OBVIOUS
  <2>1. ViewFits(view, stored, diagram, typed, turns) /\ LinkFits(link, view, typed)
    BY DEF ClientInv
  <2>2. ViewIsOfThread
    BY <2>1 DEF ViewIsOfThread, ViewFits, DiagramFits, SavedIn, LinkFits
  <2>3. IdleIsClean
    BY <2>1 DEF IdleIsClean, ViewFits, Clean
  <2>4. DoneShowsStored
    BY <2>1 DEF DoneShowsStored, ViewFits, Recorded, StoredText
  <2>5. QED
    BY <2>2, <2>3, <2>4
<1>2. ClientInv /\ PageOwned(view, typed) => MessagesAreWhole
  BY WholeMessages
<1>3. ClientInv /\ [Next]_vars
        => [InThread =>
              /\ \A i \in Turns : IsPrefix(view.partials[i], view'.partials[i])
              /\ view.busy /\ ~view'.busy /\ view.text # <<>> =>
                   \/ view'.answers[view.stream] = view.text
                   \/ view'.partials[view.stream]
                         = Append(view.partials[view.stream], view.text)]_vars
  BY PartialsStay DEF Keeping
<1>4. Spec => [](ViewIsOfThread /\ IdleIsClean /\ DoneShowsStored /\ MessagesAreWhole)
  BY <1>1, <1>2, PageFits, MessagesFit, PTL
<1>5. Spec => PartialsAreKept
  BY <1>3, PageFits, PTL DEF PartialsAreKept, Spec
<1>6. QED
  BY <1>4, <1>5 DEF ShownIsTheUsers

-----------------------------------------------------------------------------
(* The steers.                                                             *)

\* An acknowledged steer stays in the request that is streamed or would be sent again.
Survives ==
    view.request # 0 /\ view'.request = view.request => IsPrefix(view.steers, view'.steers)

LEMMA SteersStand ==
  ASSUME ClientInv, view'.steers = view.steers
  PROVE  Survives
<1>1. view.steers \in Seq(Nat)
  BY DEF ClientInv, ViewFits, View
<1>2. Extends(view.steers, view.steers)
  BY <1>1 DEF Extends
<1>3. QED
  BY <1>1, <1>2, PrefixExtends DEF Survives

LEMMA TurnSteers ==
  ASSUME ClientInv, NEW v \in View, NEW id, NEW steers, StartTurn(v, id, steers),
         id = view.request => steers = view.steers
  PROVE  Survives
<1>1. view' = StartedView(v, id, steers)
  BY DEF StartTurn, StartedView
<1>2. view'.request = id /\ view'.steers = steers
  BY <1>1 DEF StartedView, View
<1>3. QED
  BY <1>2, SteersStand DEF Survives

LEMMA NewTurnSteers ==
  ASSUME ClientInv, NEW v \in View, NewTurn(v)
  PROVE  Survives
<1>1. StartTurn(v, turns + 1, <<>>)
  BY DEF NewTurn
<1>2. turns \in Nat /\ view.request <= turns /\ view.request \in Nat
  BY Parameters DEF ClientInv, World, ViewFits, Resendable, View
<1>3. turns + 1 # view.request
  BY <1>2
<1>4. QED
  BY <1>1, <1>3, TurnSteers

LEMMA LeaveSteers ==
  ASSUME ClientInv, NEW next, LeaveThread(next), next.request = 0
  PROVE  Survives
BY DEF LeaveThread, Survives

LEMMA UserSteers ==
  ASSUME ClientInv, User
  PROVE  Survives
<1>0. view \in View
  BY DEF ClientInv, ViewFits
<1>1. CASE SendTurn
  BY <1>0, <1>1, NewTurnSteers DEF SendTurn
<1>2. CASE Steer \/ NewChat \/ SaveGraphEdit \/ RestoreRevision
  BY <1>2, SteersStand DEF Steer, NewChat, SaveGraphEdit, RestoreRevision
<1>3. CASE AcceptPreview
  <2>1. view' = [view EXCEPT !.review = "pending"]
    BY <1>3 DEF AcceptPreview
  <2>2. view'.steers = view.steers
    BY <1>0, <2>1 DEF View
  <2>3. QED
    BY <2>2, SteersStand
<1>4. CASE Stop
  <2>1. view' = StoppedView(view)
    BY <1>4 DEF Stop, StoppedView
  <2>2. view'.steers = view.steers
    BY <1>0, <2>1 DEF StoppedView, Rested, Cleared, View
  <2>3. QED
    BY <2>2, SteersStand
<1>5. CASE \E t \in Threads : OpenThread(t)
  BY <1>5, SteersStand DEF OpenThread
<1>6. CASE \E t \in Threads : DeleteThread(t)
  <2>1. LeaveThread(EmptyView(NoThread))
    BY <1>6 DEF DeleteThread
  <2>2. EmptyView(NoThread).request = 0
    BY DEF EmptyView
  <2>3. QED
    BY <2>1, <2>2, LeaveSteers
<1>7. ASSUME NEW id \in Turns, RetryMessage(id)
      PROVE  Survives
  <2>1. view' = view \/ NewTurn(view)
    BY <1>7 DEF RetryMessage
  <2>2. QED
    BY <1>0, <2>1, NewTurnSteers, SteersStand
<1>8. QED
  BY <1>1, <1>2, <1>3, <1>4, <1>5, <1>6, <1>7 DEF User

LEMMA RetrySteers ==
  ASSUME ClientInv, RetryChecked
  PROVE  Survives
<1>1. /\ call.kind = "retry" /\ call.served
      /\ \/ view' = view
         \/ StartTurn(view, call.id, call.steers)
         \/ NewTurn(Hydrate(call))
         \/ view' = Hydrate(call)
  BY DEF RetryChecked
<1>2. call # NoCall /\ ~Changes(call)
  BY <1>1 DEF NoCall, Changes
<1>3. /\ call \in Calls /\ call.number <= diagram[call.thread]
      /\ call.done \in [Turns -> Completed]
      /\ view.request = call.id => call.steers = view.steers
  BY <1>1, <1>2 DEF ClientInv, CallFits
<1>4. call.thread \in Threads /\ call.number \in Nat
  BY <1>3 DEF Calls
<1>5. ViewFits(Hydrate(call), stored, diagram, typed, turns)
  BY <1>3, <1>4, HydrateFits
<1>6. Hydrate(call) \in View /\ view \in View
  BY <1>5 DEF ViewFits, ClientInv
<1>7. CASE view' = Hydrate(call)
  <2>1. view'.request = 0
    BY <1>7 DEF Hydrate, Hydrated, EmptyView
  <2>2. QED
    BY <2>1 DEF Survives
<1>8. QED
  BY <1>1, <1>3, <1>6, <1>7, SteersStand, TurnSteers, NewTurnSteers

LEMMA HttpSteers ==
  ASSUME ClientInv, Http
  PROVE  Survives
<1>0. view \in View
  BY DEF ClientInv, ViewFits
<1>1. CASE ServeCall \/ ServeLoad \/ CallFails \/ LoadFails
  BY <1>1, SteersStand DEF ServeCall, ServeLoad, CallFails, LoadFails
<1>2. CASE Loaded
  <2>1. view' = view \/ LeaveThread(Hydrate(load))
    BY <1>2 DEF Loaded
  <2>2. Hydrate(load).request = 0
    BY DEF Hydrate, Hydrated, EmptyView
  <2>3. QED
    BY <2>1, <2>2, LeaveSteers, SteersStand
<1>3. CASE Adopted
  <2>1. \/ view' = view
        \/ view' = [view EXCEPT !.durable = Version(call.thread, call.number), !.preview = FALSE]
    BY <1>3 DEF Adopted
  <2>2. view'.steers = view.steers
    BY <1>0, <2>1 DEF View
  <2>3. QED
    BY <2>2, SteersStand
<1>4. CASE \E t \in Threads : ThreadCreated(t)
  <2>1. PICK t \in Threads : view' = view \/ NewTurn(EmptyView(t))
    BY <1>4 DEF ThreadCreated
  <2>2. turns \in Nat
    BY Parameters DEF ClientInv, World
  <2>3. ViewFits(EmptyView(t), stored, diagram, typed, turns)
    BY <2>2, ViewEmpty DEF Somewhere
  <2>4. EmptyView(t) \in View
    BY <2>3 DEF ViewFits
  <2>5. QED
    BY <2>1, <2>4, NewTurnSteers, SteersStand
<1>5. QED
  BY <1>1, <1>2, <1>3, <1>4, RetrySteers DEF Http

LEMMA ReceiveSteers ==
  ASSUME ClientInv, Receive
  PROVE  Survives
<1> DEFINE k == sock[link.sock]
           b == Head(k.down)
           id == view.stream
           x == HandleBurst(view, id, b)
<1>1. /\ Attached /\ k.down # <<>>
      /\ \/ view' = view
         \/ b = Done /\ view' = Settled(HandleBurst(view, link.id, b), link.id, TRUE)
         \/ b # Ready /\ b # Done /\ view' = HandleBurst(view, link.id, b)
  BY DEF Receive
<1>2. /\ id \in Turns /\ link.id = id /\ view.request = id /\ view \in View
      /\ k \in Sock /\ k.id = id /\ k.thread = view.thread /\ Bound(k, view, link, stored)
      /\ Fits(k, diagram, typed)
  BY <1>1, AttachedTurn DEF Attached
<1>3. CASE b = Done /\ view' = Settled(HandleBurst(view, link.id, b), link.id, TRUE)
  <2>1. HandleBurst(view, id, Done) = OnDone(view, id)
    BY DoneHandled
  <2>2. view' = Settled(OnDone(view, id), id, TRUE)
    BY <1>2, <1>3, <2>1
  <2>3. view'.steers = view.steers
    BY <1>2, <2>2 DEF Settled, OnDone, Cleared, View
  <2>4. QED
    BY <2>3, SteersStand
<1>4. CASE b # Ready /\ b # Done /\ view' = HandleBurst(view, link.id, b)
  <2>1. view' = x
    BY <1>2, <1>4
  <2>2. view.busy /\ (IsTold(b) \/ IsLast(b))
    BY <1>1, <1>2, <1>4, NextFrame
  <2>3. k.down \in Seq(Seq(Events)) /\ DownFits(k.down, k.thread, k.id, diagram, typed)
    BY <1>2 DEF Sock, Fits
  <2>4. BurstOwned(b, id, typed)
    BY <1>1, <1>2, <2>3, DownShortened
  <2>5. /\ Streaming(view, id) /\ view.steers \in Seq(Nat) /\ Owns(id, view.steers, typed)
    BY <1>2, <2>2 DEF ClientInv, ViewFits, ViewOwned, Streaming, Phased, View, Turns
  <2> HIDE DEF b, id, k
  <2>6. CASE IsTold(b)
    <3>1. x.steers = Known(view.steers, b)
      BY <2>5, <2>6, BurstTold
    <3>2. Extends(view.steers, Known(view.steers, b))
      BY <2>4, <2>5, <2>6, KnownGrows
    <3>3. Known(view.steers, b) \in Seq(Nat)
      BY <3>2 DEF Extends
    <3>4. IsPrefix(view.steers, Known(view.steers, b))
      BY <2>5, <3>2, <3>3, PrefixExtends
    <3>5. QED
      BY <2>1, <3>1, <3>4 DEF Survives
  <2>7. CASE IsLast(b)
    <3>1. x.steers = view.steers
      BY <2>5, <2>7, BurstLast DEF Closing
    <3>2. QED
      BY <2>1, <3>1, SteersStand
  <2>8. QED
    BY <2>2, <2>6, <2>7
<1>5. QED
  BY <1>1, <1>3, <1>4, SteersStand

LEMMA EndLinkSteers ==
  ASSUME ClientInv, EndLink
  PROVE  Survives
<1>1. view' = view \/ view' = Settled(view, link.id, FALSE)
  BY DEF EndLink
<1>2. view \in View
  BY DEF ClientInv, ViewFits
<1>3. Settled(view, link.id, FALSE).steers = view.steers
  BY <1>2 DEF Settled, OnError, WithRetry, Rested, Cleared, View
<1>4. QED
  BY <1>1, <1>3, SteersStand

LEMMA SteersSurvive ==
  ASSUME ClientInv, Next
  PROVE  Survives
<1>1. CASE LinkBreaks \/ Watchdog
  BY <1>1, EndLinkSteers DEF LinkBreaks, Watchdog
<1>2. CASE Reconnect
  BY <1>2, SteersStand DEF Reconnect
<1>3. CASE \E s \in Sockets : Server(s)
  <2>1. view' = view
    BY <1>3, ZenonT(40) DEF Server, ServerOnly, Accepts, StartFrame, Emit, SteerFrame, AcceptFrame, EndFrame,
       Finish, Fail
  <2>2. QED
    BY <2>1, SteersStand
<1>4. QED
  BY <1>1, <1>2, <1>3, UserSteers, HttpSteers, ReceiveSteers DEF Next

LEMMA PageOwns ==
  ASSUME ClientInv
  PROVE  CommandsOfTheirTurn
<1>1. ASSUME NEW s \in Sockets
      PROVE  /\ \A e \in SteerFrames(sock[s].up) : typed[e[2]] = sock[s].id
             /\ \A n \in ToSet(sock[s].steers \o sock[s].start) : typed[n] = sock[s].id
  <2> DEFINE k == sock[s]
             all == k.steers \o k.start
  <2>1. k \in Sock /\ Fits(k, diagram, typed)
    BY DEF ClientInv, SocksFit
  <2>2. /\ UpOwned(k.up, k.id, typed) /\ Owns(k.id, k.start, typed) /\ Owns(k.id, k.steers, typed)
        /\ k.steers \in Seq(Nat) /\ k.start \in Seq(Nat)
    BY <2>1 DEF Fits, Sock
  <2>3. \A e \in SteerFrames(k.up) : typed[e[2]] = k.id
    BY <2>2 DEF SteerFrames, UpOwned
  <2> DEFINE a == k.steers
             c == k.start
             p == Len(a)
             q == Len(c)
  <2>4. /\ a \in Seq(Nat) /\ c \in Seq(Nat) /\ Owns(k.id, a, typed) /\ Owns(k.id, c, typed)
        /\ all = a \o c
    BY <2>2
  <2>10. /\ p \in Nat /\ q \in Nat /\ DOMAIN a = 1 .. p /\ DOMAIN c = 1 .. q
    BY <2>4
  <2> HIDE DEF a, c, all
  <2>11. /\ all \in Seq(Nat) /\ Len(all) = p + q
         /\ \A i \in 1 .. p + q : all[i] = IF i <= p THEN a[i] ELSE c[i - p]
    BY <2>4, ConcatProperties
  <2>12. DOMAIN all = 1 .. p + q
    BY <2>11
  <2> HIDE DEF p, q
  <2>5. ASSUME NEW i \in DOMAIN all
        PROVE  typed[all[i]] = k.id
    <3>1. i \in 1 .. p + q
      BY <2>5, <2>12
    <3>2. CASE i <= p
      <4>1. i \in DOMAIN a /\ all[i] = a[i]
        BY <3>1, <3>2, <2>10, <2>11
      <4>2. QED
        BY <4>1, <2>4 DEF Owns
    <3>3. CASE ~(i <= p)
      <4>1. i - p \in DOMAIN c /\ all[i] = c[i - p]
        BY <3>1, <3>3, <2>10, <2>11
      <4>2. QED
        BY <4>1, <2>4 DEF Owns
    <3>4. QED
      BY <3>2, <3>3
  <2>6. \A n \in ToSet(all) : typed[n] = k.id
    BY <2>5 DEF ToSet
  <2>7. QED
    BY <2>3, <2>6 DEF all
<1>2. ASSUME NEW i \in Turns
      PROVE  \A n \in ToSet(stored[i].steers) : typed[n] = i
  <2>1. Owns(i, stored[i].steers, typed)
    BY DEF ClientInv, World
  <2>2. QED
    BY <2>1 DEF Owns, ToSet
<1>3. QED
  BY <1>1, <1>2 DEF CommandsOfTheirTurn

LEMMA PageAgrees ==
  ASSUME ClientInv
  PROVE  SteersAgree
<1> DEFINE down == sock[link.sock].down
           applied == sock[link.sock].steers
           x == view.steers
           missing == Len(x) + 1 .. Len(applied)
           acks == Acks(down)
           CountOf(p) == down[p[1]][p[2]][3]
<1>1. SUFFICES ASSUME Attached, sock[link.sock].run = "running"
               PROVE  /\ IsPrefix(x, applied)
                      /\ {CountOf(p) : p \in acks} = missing
                      /\ \A p \in acks : down[p[1]][p[2]][2] = applied[CountOf(p)]
                      /\ \A p, q \in acks : p[1] < q[1] => CountOf(p) < CountOf(q)
                      /\ \A p, q \in acks : p[1] = q[1] => p = q
  BY DEF SteersAgree
<1>2. /\ Bound(sock[link.sock], view, link, stored) /\ sock[link.sock] \in Sock
  BY <1>1, AttachedTurn DEF Attached
<1>3. Agrees(down, applied, x) /\ down \in Seq(Seq(Events))
  BY <1>1, <1>2 DEF Bound, Sock
<1>4. \A i \in 1 .. Len(down) : IsTold(down[i])
  BY <1>1, <1>2 DEF Bound, Carried, Waits, Runs
<1> HIDE DEF down, applied, x
<1>5. ASSUME NEW i, NEW j, IsAck(down, i, j)
      PROVE  i \in Nat /\ j \in Nat /\ <<i, j>> \in acks
  <2>1. i \in DOMAIN down /\ i \in 1 .. Len(down) /\ i \in Nat
    BY <1>3, <1>5 DEF IsAck
  <2>2. IsTold(down[i]) /\ j \in DOMAIN down[i]
    BY <1>4, <1>5, <2>1 DEF IsAck
  <2>3. j \in 1 .. 5
    BY <2>2 DEF IsTold
  <2>4. QED
    BY <1>5, <2>1, <2>3 DEF Acks, IsAck
<1>6. ASSUME NEW p \in acks
      PROVE  p = <<p[1], p[2]>> /\ IsAck(down, p[1], p[2]) /\ p[1] \in Nat /\ p[2] \in Nat
  <2>1. p \in (DOMAIN down) \X (1 .. 5) /\ p[2] \in DOMAIN down[p[1]]
        /\ down[p[1]][p[2]][1] = "steered"
    BY DEF Acks
  <2>2. p = <<p[1], p[2]>> /\ p[1] \in DOMAIN down
    BY <2>1
  <2>3. IsAck(down, p[1], p[2])
    BY <2>1, <2>2 DEF IsAck
  <2>4. QED
    BY <1>5, <2>2, <2>3
<1> HIDE DEF acks
<1>7. IsPrefix(x, applied)
  BY <1>3 DEF Agrees
<1>8. \A p \in acks : CountOf(p) \in missing /\ down[p[1]][p[2]][2] = applied[CountOf(p)]
  BY <1>3, <1>6 DEF Agrees
<1>9. ASSUME NEW m \in missing
      PROVE  \E p \in acks : CountOf(p) = m
  <2>1. PICK i \in Nat, j \in Nat : IsAck(down, i, j) /\ down[i][j][3] = m
    BY <1>3, <1>9 DEF Agrees
  <2> DEFINE p == <<i, j>>
  <2>2. p \in acks /\ p[1] = i /\ p[2] = j
    BY <1>5, <2>1
  <2>3. QED
    BY <2>1, <2>2
<1>10. {CountOf(p) : p \in acks} = missing
  BY <1>8, <1>9
<1>11. ASSUME NEW p \in acks, NEW q \in acks
       PROVE  (p[1] < q[1] => CountOf(p) < CountOf(q)) /\ (p[1] = q[1] => p = q)
  <2> DEFINE i == p[1]
             j == p[2]
             a == q[1]
             c == q[2]
  <2>4. /\ i \in Nat /\ j \in Nat /\ a \in Nat /\ c \in Nat
        /\ IsAck(down, i, j) /\ IsAck(down, a, c)
    BY <1>6
  <2>5. \A m, n, f, g \in Nat : IsAck(down, m, n) /\ IsAck(down, f, g) =>
            (m < f => down[m][n][3] < down[f][g][3]) /\ (m = f => n = g)
    BY <1>3 DEF Agrees
  <2> HIDE DEF i, j, a, c
  <2>6. (i < a => down[i][j][3] < down[a][c][3]) /\ (i = a => j = c)
    BY <2>4, <2>5
  <2>1. /\ p[1] < q[1] => CountOf(p) < CountOf(q)
        /\ p[1] = q[1] => p[2] = q[2]
    BY <2>6 DEF i, j, a, c
  <2>2. p = <<p[1], p[2]>> /\ q = <<q[1], q[2]>>
    BY <1>6
  <2>3. QED
    BY <2>1, <2>2
<1>12. QED
  BY <1>7, <1>8, <1>10, <1>11

\* A follow-up reaches the turn it was typed for and no other, both sides know the same ones,
\* and none that was acknowledged is lost to a retry (agentTransport.ts, chat_websocket.py).
THEOREM SteersReachTheTurn == Spec => SteersReachTheirTurn
<1>1. ClientInv => SteersAgree /\ CommandsOfTheirTurn
  BY PageAgrees, PageOwns
<1>2. ClientInv /\ [Next]_vars => [view.request # 0 /\ view'.request = view.request
                                     => IsPrefix(view.steers, view'.steers)]_vars
  BY SteersSurvive DEF Survives
<1>3. Spec => []ClientInv
  BY PageFits
<1>4. Spec => [](SteersAgree /\ CommandsOfTheirTurn)
  BY <1>1, <1>3, PTL
<1>5. Spec => AcknowledgedSteersSurvive
  BY <1>2, <1>3, PTL DEF AcknowledgedSteersSurvive, Spec
<1>6. QED
  BY <1>4, <1>5 DEF SteersReachTheirTurn

=============================================================================
