---------------------------- MODULE AgentClient ----------------------------
(***************************************************************************)
(* The browser side of a chat: the AgentTransport singleton with its       *)
(* WebSocket, pre-start retry, watchdog and queued steers, the view that   *)
(* useAgentStream keeps beside it, and the requests of the thread session  *)
(* (open, delete), the editor, the history panel and the retry button that *)
(* answer while a turn runs.  The server is the part of chat_websocket.py  *)
(* a client can tell apart: it replays a stored turn, or runs one, takes   *)
(* the commands of its socket in order, saves once per request id and ends *)
(* with `done`.  Links break at any moment in either direction.            *)
(*                                                                         *)
(* A promise continuation runs in the step that settles its promise: the   *)
(* browser runs it before any other event.  A steer is its position in     *)
(* `typed`, a text is the socket that generated it and the steers it       *)
(* answers, a diagram version is its thread and its number.  Events the    *)
(* server sends one after another with nothing to wait for are one burst;  *)
(* `ready` and `done`, which the transport itself acts on, stand alone.     *)
(***************************************************************************)
EXTENDS Naturals, Sequences, SequencesExt, FiniteSets

CONSTANTS
    Threads,         \* conversations of the user, some not used yet
    Home,            \* the conversation open at the start
    NoThread,        \* between the deletion of the open thread and the next
    MaxTurns,        \* request ids the client creates
    MaxSockets,      \* connections the client opens
    MaxVersion,      \* diagram versions saved per thread
    MaxExtras        \* follow-ups, edits, restores and changes of thread

ASSUME SomeThread == Home \in Threads /\ NoThread \notin Threads
ASSUME Bounds == {MaxTurns, MaxSockets, MaxVersion, MaxExtras} \subseteq Nat

VARIABLES
    view,      \* useAgentStream's refs and state
    link,      \* AgentTransport's fields
    sock,      \* per connection: its frames in flight and the server's turn
    stored,    \* per request id: the completed turn, or NoTurn
    diagram,   \* per thread: the number of its current saved diagram
    call,      \* the retry check, edit or restore in flight
    load,      \* the thread being opened
    gone,      \* deleted threads
    turns,     \* request ids created
    calls,     \* edits, restores and changes of thread asked for
    typed      \* the turn each follow-up was typed for

vars == <<view, link, sock, stored, diagram, call, load, gone, turns,
          calls, typed>>

Turns == 1 .. MaxTurns
Sockets == 1 .. MaxSockets
NoTurn == [thread |-> NoThread, by |-> 0, steers |-> <<>>, failed |-> FALSE]
NoRetry == [kind |-> "none", steers |-> <<>>]
NoVersion == <<>>
NoCall == [kind |-> "none"]

IsActive(v) == v.stream # 0 /\ v.terminal # v.stream

-----------------------------------------------------------------------------
(* The view.                                                               *)

Ready == <<<<"ready">>>>
Done  == <<<<"done">>>>

EmptyView(t) ==
    [thread |-> t, stream |-> 0, terminal |-> 0, busy |-> FALSE, request |-> 0,
     steers |-> <<>>, text |-> <<>>, answers |-> [i \in Turns |-> <<>>],
     partials |-> [i \in Turns |-> <<>>], retries |-> [i \in Turns |-> NoRetry], preview |-> FALSE, review |-> "none",
     durable |-> NoVersion]

Version(t, n) == IF n = 0 THEN NoVersion ELSE <<t, n>>

(* What opening a thread shows: its diagram and its failed turns' retries. *)
Hydrated(t, n, done) ==
    [EmptyView(t) EXCEPT
        !.durable = Version(t, n),
        !.retries = [i \in Turns |-> IF done[i].failed /\ done[i].thread = t
                                     THEN [kind |-> "source", steers |-> <<>>]
                                     ELSE NoRetry]]

(* A turn that ends leaves no open message, preview or review behind.      *)
Cleared(v) ==
    [v EXCEPT !.text = <<>>, !.preview = FALSE, !.review = "none", !.busy = FALSE]

(* Cut short, its message is finished as it is and stays on the page.      *)
Rested(v, id) ==
    IF v.text = <<>> THEN Cleared(v)
    ELSE [Cleared(v) EXCEPT !.partials[id] = Append(@, v.text)]

(* Mutant: an interrupted turn offers Retry with the request as first sent. *)
WithPlainRetry(v, id) == [v EXCEPT !.retries[id] = [kind |-> "replay", steers |-> <<>>]]

WithRetry(v, id) ==
    [v EXCEPT !.retries[id] = IF v.request = id
                              THEN [kind |-> "replay", steers |-> v.steers]
                              ELSE NoRetry]

OnReset(v, id) ==
    [v EXCEPT !.text = <<>>, !.preview = FALSE, !.review = "none",
              !.retries[id] = IF v.text # <<>> THEN NoRetry ELSE @]

OnReviewStatus(v, status) ==
    [v EXCEPT !.review =
        CASE status = "reviewing" -> IF @ \in {"pending", "accepted"} THEN @ ELSE "reviewing"
          [] status = "accepted"  -> IF @ = "none" THEN @ ELSE "accepted"
          [] status = "rejected"  -> "none"]

(* steer_applied extends the request a retry would replay, in order only.  *)
OnSteerApplied(v, id, steer, count) ==
    IF v.terminal = id \/ v.request # id \/ count # Len(v.steers) + 1
    THEN v
    ELSE [v EXCEPT !.steers = Append(@, steer)]

OnDone(v, id) ==
    [Cleared(v) EXCEPT !.terminal = id,
                       !.answers[id] = IF v.text = <<>> THEN @ ELSE v.text]

(* Mutant: an error ends the turn and leaves its message open.             *)
OnErrorOpen(v, id) ==
    [WithRetry([Cleared(v) EXCEPT !.text = v.text], id) EXCEPT !.terminal = id]

OnError(v, id) == [WithRetry(Rested(v, id), id) EXCEPT !.terminal = id]

HandleEvent(v, id, e) ==
    IF v.stream # id THEN v ELSE
    CASE e[1] = "delta"       -> [v EXCEPT !.text = Append(@, e[2])]
      [] e[1] = "reset"       -> OnReset(v, id)
      [] e[1] = "review"      -> OnReviewStatus(v, e[2])
      [] e[1] = "steered"     -> OnSteerApplied(v, id, e[2], e[3])
      [] e[1] = "failed"      -> WithRetry(v, id)
      [] e[1] = "graph"       -> IF e[2] = NoVersion THEN v
                                 ELSE [v EXCEPT !.durable = e[2], !.preview = FALSE]
      [] e[1] = "preview"     -> [v EXCEPT !.preview = TRUE]
      [] e[1] = "error"       -> OnError(v, id)
      [] e[1] = "done"        -> OnDone(v, id)
      [] OTHER                -> v

(* The i-th event of a burst, where it has that many.                      *)
Handled(v, id, burst, i) == IF i \in DOMAIN burst THEN HandleEvent(v, id, burst[i]) ELSE v

(* A burst has five events at most: a failure mark, a diagram, a reset, a   *)
(* text and the mark again.                                                *)
HandleBurst(v, id, burst) ==
    Handled(Handled(Handled(Handled(Handled(v, id, burst, 1), id, burst, 2),
                            id, burst, 3), id, burst, 4), id, burst, 5)

(* The continuations of sendMessage: a turn the view has left changes      *)
(* nothing, one that ended without `done` offers a retry.                  *)
Settled(v, id, sawDone) ==
    IF v.stream # id THEN v
    ELSE [(IF sawDone THEN v ELSE OnError(v, id)) EXCEPT !.stream = 0, !.terminal = 0]

-----------------------------------------------------------------------------
(* The transport.                                                          *)

NoLink == [sock |-> 0, id |-> 0, thread |-> NoThread, ready |-> FALSE, queued |-> <<>>, replay |-> <<>>,
           attempt |-> 0, waiting |-> FALSE]
NewSocket == [id |-> 0, thread |-> NoThread, net |-> "unused",
              start |-> <<>>, up |-> <<>>, down |-> <<>>, run |-> "none", steers |-> <<>>,
              sent |-> {}, accepted |-> FALSE]

Opened == Cardinality({s \in Sockets : sock[s].net # "unused"})

(* connect: a new WebSocket for the current request.                       *)
Connect(socks, s, id, t, steers) ==
    [socks EXCEPT ![s] = [NewSocket EXCEPT !.id = id, !.thread = t, !.start = steers,
                                           !.net = "connecting"]]

(* A connection closed at both ends is of no more interest.                *)
Spent == [NewSocket EXCEPT !.net = "closed", !.run = "over"]

(* The client closes its end: nothing more is read, the server sees the    *)
(* frames sent before and then the disconnect, which is the end of it      *)
(* where no turn has been asked for.                                       *)
ClosedEnd(k, lastFrames) ==
    IF k.run = "over" \/ (k.run = "none" /\ k.up \o lastFrames = <<>>) THEN Spent
    ELSE [k EXCEPT !.net = "closed", !.down = <<>>,
                   !.up = @ \o lastFrames \o <<<<"bye">>>>]

Closed(socks, s, lastFrames) == [socks EXCEPT ![s] = ClosedEnd(@, lastFrames)]

(* stopGeneration: the stop frame is sent only after the start frame.      *)
StopGeneration(socks, l) ==
    IF l.sock = 0 \/ socks[l.sock].net = "closed" THEN socks
    ELSE Closed(socks, l.sock, IF l.ready THEN <<<<"stop">>>> ELSE <<>>)

IsChatActive == link.sock # 0 /\ ~link.waiting

(* retryBeforeStart: once per request, and never after the start frame.    *)
CanRetryBeforeStart == ~link.ready /\ link.attempt = 0

(* The open socket ends without `done`: another attempt or a settled       *)
(* promise.                                                                *)
EndLink ==
    IF CanRetryBeforeStart
    THEN link' = [link EXCEPT !.waiting = TRUE] /\ UNCHANGED view
    ELSE link' = NoLink /\ view' = Settled(view, link.id, FALSE)

-----------------------------------------------------------------------------
(* What the user does.  The composer is locked while an edit, a restore, a *)
(* retry check or a new chat is under way and while an accepted diagram    *)
(* finishes; while a thread opens only the diagram's own questions are     *)
(* left.                                                                   *)

(* The bound on what the user does besides sending; only a thread deleted  *)
(* while an answer is awaited comes on top of it.                          *)
MoreExtras == Len(typed) + calls < MaxExtras

ComposerOpen ==
    /\ call = NoCall
    /\ view.review \in {"none", "reviewing"}
    /\ view.thread # NoThread
    /\ load = NoCall \/ view.durable # NoVersion

(* Mutant: follow-ups queued for the last turn are left for the next.      *)
StartTurnQueued(v, id, steers) ==
    LET s == Opened + 1
    IN /\ s < MaxSockets
       /\ view' = [v EXCEPT !.stream = id, !.terminal = 0, !.busy = TRUE, !.request = id,
                            !.steers = steers, !.review = "none", !.retries[id] = NoRetry]
       /\ link' = [NoLink EXCEPT !.sock = s, !.id = id, !.thread = v.thread, !.replay = steers,
                                !.queued = link.queued]
       /\ sock' = Connect(StopGeneration(sock, link), s, id, v.thread, steers)

(* sendMessage for a turn: it replaces whatever the socket carried.  One   *)
(* connection is kept for its second attempt.                              *)
StartTurn(v, id, steers) ==
    LET s == Opened + 1
    IN /\ s < MaxSockets
       /\ view' = [v EXCEPT !.stream = id, !.terminal = 0, !.busy = TRUE, !.request = id,
                            !.steers = steers, !.review = "none", !.retries[id] = NoRetry]
       /\ link' = [NoLink EXCEPT !.sock = s, !.id = id, !.thread = v.thread,
                                !.replay = steers]
       /\ sock' = Connect(StopGeneration(sock, link), s, id, v.thread, steers)

NewTurn(v) ==
    /\ turns < MaxTurns
    /\ turns' = turns + 1
    /\ StartTurn(v, turns + 1, <<>>)

SendTurn ==
    /\ ComposerOpen
    /\ ~(IsActive(view) /\ IsChatActive)
    /\ NewTurn(view)
    /\ UNCHANGED <<stored, diagram, call, load, gone, calls, typed>>

(* steerGeneration: queued until the start frame is sent.                  *)
Steer ==
    /\ ComposerOpen
    /\ IsActive(view) /\ IsChatActive
    /\ MoreExtras
    /\ typed' = Append(typed, view.stream)
    /\ IF link.ready
       THEN /\ sock' = [sock EXCEPT ![link.sock].up = Append(@, <<"steer", Len(typed) + 1>>)]
            /\ UNCHANGED link
       ELSE /\ link' = [link EXCEPT !.queued = Append(@, Len(typed) + 1)]
            /\ UNCHANGED sock
    /\ UNCHANGED <<view, stored, diagram, call, load, gone, turns, calls>>

(* Stop takes a painted candidate under review.                            *)
AcceptPreview ==
    /\ view.busy /\ view.review = "reviewing" /\ view.preview
    /\ link.sock # 0 /\ link.ready
    /\ sock' = [sock EXCEPT ![link.sock].up = Append(@, <<"accept">>)]
    /\ view' = [view EXCEPT !.review = "pending"]
    /\ UNCHANGED <<link, stored, diagram, call, load, gone, turns, calls, typed>>

Stop ==
    /\ view.busy /\ view.review \in {"none", "reviewing"}
    /\ view' = [Rested(view, view.stream) EXCEPT !.stream = 0, !.terminal = 0]
    /\ sock' = StopGeneration(sock, link)
    /\ link' = NoLink
    /\ UNCHANGED <<stored, diagram, call, load, gone, turns, calls, typed>>

(* resetThreadView: the running turn is stopped with the thread.           *)
LeaveThread(next) ==
    /\ view' = next
    /\ sock' = IF view.stream # 0 THEN StopGeneration(sock, link) ELSE sock
    /\ link' = IF view.stream # 0 THEN NoLink ELSE link

Ask(record) == MoreExtras /\ calls' = calls + 1 /\ call' = record

NewCall(kind) == [kind |-> kind, thread |-> view.thread, id |-> 0, steers |-> <<>>,
                  base |-> view.durable, served |-> FALSE, number |-> 0, done |-> <<>>]

Opening(t) == [kind |-> "load", thread |-> t, served |-> FALSE, number |-> 0, done |-> <<>>]

OpenThread(t) ==
    /\ ~view.busy /\ call = NoCall /\ load = NoCall
    /\ t \notin gone
    /\ MoreExtras /\ calls' = calls + 1
    /\ load' = Opening(t)
    /\ UNCHANGED <<view, link, sock, stored, diagram, call, gone, turns, typed>>

(* The open thread is deleted and the latest one fetched in its place;     *)
(* only an edit being saved holds this back.                               *)
DeleteThread(t) ==
    /\ view.thread # NoThread /\ t \notin gone \union {view.thread}
    /\ call.kind # "edit"
    /\ call # NoCall \/ MoreExtras
    /\ calls' = IF MoreExtras THEN calls + 1 ELSE calls
    /\ gone' = gone \union {view.thread}
    /\ LeaveThread(EmptyView(NoThread))
    /\ load' = Opening(t)
    /\ UNCHANGED <<stored, diagram, call, turns, typed>>

(* A message sent as a new chat: its thread is created first.              *)
NewChat ==
    /\ ComposerOpen /\ load = NoCall
    /\ Ask(NewCall("create"))
    /\ UNCHANGED <<view, link, sock, stored, diagram, load, gone, turns, typed>>

Resting == ~view.busy /\ view.thread # NoThread /\ call = NoCall /\ load = NoCall

SaveGraphEdit ==
    /\ Resting /\ ~IsActive(view) /\ view.durable # NoVersion
    /\ Ask(NewCall("edit"))
    /\ UNCHANGED <<view, link, sock, stored, diagram, load, gone, turns, typed>>

RestoreRevision ==
    /\ Resting /\ view.durable # NoVersion
    /\ Ask(NewCall("restore"))
    /\ UNCHANGED <<view, link, sock, stored, diagram, load, gone, turns, typed>>

(* Retry asks first whether an interrupted request was saved after all.    *)
RetryMessage(id) ==
    /\ Resting /\ view.stream = 0
    /\ CASE view.retries[id].kind = "replay" ->
              /\ call' = [NewCall("retry") EXCEPT !.id = id,
                                                  !.steers = view.retries[id].steers]
              /\ UNCHANGED <<view, link, sock, turns, calls>>
         [] view.retries[id].kind = "source" ->
              /\ NewTurn(view)
              /\ UNCHANGED <<call, calls>>
         [] OTHER -> FALSE
    /\ UNCHANGED <<stored, diagram, load, gone, typed>>

-----------------------------------------------------------------------------
(* HTTP responses.  The server answers at one moment, the client reads the *)
(* answer at a later one.                                                  *)

Served(c) == [c EXCEPT !.served = TRUE, !.number = diagram[c.thread], !.done = stored]

(* Edits and restores are saved only over the version they started from.   *)
Changes(c) == c.kind \in {"edit", "restore"}

ServeCall ==
    /\ call # NoCall /\ ~call.served
    /\ IF Changes(call)
       THEN /\ call.base = Version(call.thread, diagram[call.thread])
            /\ call.thread \notin gone
            /\ diagram[call.thread] < MaxVersion
            /\ diagram' = [diagram EXCEPT ![call.thread] = @ + 1]
            /\ call' = [call EXCEPT !.served = TRUE, !.number = diagram[call.thread] + 1]
       ELSE /\ call' = Served(call)
            /\ UNCHANGED diagram
    /\ UNCHANGED <<view, link, sock, stored, load, gone, turns, calls, typed>>

ServeLoad ==
    /\ load # NoCall /\ ~load.served
    /\ load' = Served(load)
    /\ UNCHANGED <<view, link, sock, stored, diagram, call, gone, turns, calls, typed>>

Hydrate(c) == Hydrated(c.thread, c.number, c.done)

(* A hydration never interrupts the turn of the thread it is for.          *)
Loaded ==
    /\ load # NoCall /\ load.served
    /\ load' = NoCall
    /\ IF load.thread = view.thread /\ view.stream # 0
       THEN UNCHANGED <<view, link, sock>>
       ELSE LeaveThread(Hydrate(load))
    /\ UNCHANGED <<stored, diagram, call, gone, turns, calls, typed>>

CallFails ==
    /\ call # NoCall
    /\ call' = NoCall
    /\ UNCHANGED <<view, link, sock, stored, diagram, load, gone, turns, calls, typed>>

LoadFails ==
    /\ load # NoCall
    /\ load' = NoCall
    /\ UNCHANGED <<view, link, sock, stored, diagram, call, gone, turns, calls, typed>>

(* Mutant: an answer is adopted whatever thread the view has moved to.     *)
AnyAnswer(c) == view.thread # NoThread

IsCurrent(c) == view.thread = c.thread /\ view.durable = c.base

(* saveGraphEdit and adoptRestoredGraph: the answer is shown while the     *)
(* view is still the one that asked.                                       *)
Adopted ==
    /\ call # NoCall /\ call.served /\ Changes(call)
    /\ call' = NoCall
    /\ view' = IF IsCurrent(call) /\ ~IsActive(view)
               THEN [view EXCEPT !.durable = Version(call.thread, call.number),
                                 !.preview = FALSE]
               ELSE view
    /\ UNCHANGED <<link, sock, stored, diagram, load, gone, turns, calls, typed>>

(* retryMessage after its check: a saved answer is shown, a saved failure  *)
(* is retried as a new request, an unsaved request is sent again.          *)
RetryChecked ==
    /\ call.kind = "retry" /\ call.served
    /\ call' = NoCall
    /\ CASE view.thread # call.thread -> UNCHANGED <<view, link, sock, turns>>
         [] view.thread = call.thread /\ call.done[call.id] = NoTurn ->
              StartTurn(view, call.id, call.steers) /\ UNCHANGED turns
         [] /\ view.thread = call.thread
            /\ call.done[call.id] # NoTurn /\ call.done[call.id].failed ->
              NewTurn(Hydrate(call))
         [] OTHER ->
              view' = Hydrate(call) /\ UNCHANGED <<link, sock, turns>>
    /\ UNCHANGED <<stored, diagram, load, gone, calls, typed>>

(* A thread nobody has used, as the store makes it.                        *)
Fresh(t) == /\ t \notin gone \union {view.thread}
            /\ diagram[t] = 0
            /\ \A s \in Sockets : sock[s].net # "unused" => sock[s].thread # t
            /\ load = NoCall

(* startThreadAndSend: the new thread takes over from a turn still running. *)
ThreadCreated(t) ==
    /\ call.kind = "create" /\ call.served
    /\ Fresh(t)
    /\ call' = NoCall
    /\ IF view.thread = call.thread
       THEN NewTurn(EmptyView(t))
       ELSE UNCHANGED <<view, link, sock, turns>>
    /\ UNCHANGED <<stored, diagram, load, gone, calls, typed>>

-----------------------------------------------------------------------------
(* The socket, seen from the client.                                       *)

Attached == link.sock # 0 /\ ~link.waiting

(* What the client sends when its connection is accepted.                  *)
FirstFrames(queued) == <<<<"start">>>> \o [i \in 1 .. Len(queued) |-> <<"steer", queued[i]>>]

(* onmessage: the first frame starts the turn and sends the queued steers, *)
(* `done` closes the socket and settles the promise.                       *)
Receive ==
    /\ Attached /\ sock[link.sock].down # <<>>
    /\ LET s == link.sock
           burst == Head(sock[s].down)
           handled == HandleBurst(view, link.id, burst)
       IN CASE burst = Ready ->
                 /\ sock' = [sock EXCEPT ![s].down = Tail(@),
                                         ![s].up = FirstFrames(link.queued)]
                 /\ link' = [link EXCEPT !.ready = TRUE, !.queued = <<>>]
                 /\ UNCHANGED view
            [] burst = Done ->
                 /\ sock' = Closed(sock, s, <<>>)
                 /\ link' = NoLink
                 /\ view' = Settled(handled, link.id, TRUE)
            [] OTHER ->
                 /\ sock' = [sock EXCEPT ![s].down = Tail(@)]
                 /\ view' = handled
                 /\ UNCHANGED link
    /\ UNCHANGED <<stored, diagram, call, load, gone, turns, calls, typed>>

(* The connection breaks: what the server has not read is lost with what   *)
(* the client has not read.                                                *)
LinkBreaks ==
    /\ Attached
    /\ \E kept \in 0 .. Len(sock[link.sock].up) :
           sock' = Closed([sock EXCEPT ![link.sock].up = SubSeq(@, 1, kept)],
                          link.sock, <<>>)
    /\ EndLink
    /\ UNCHANGED <<stored, diagram, call, load, gone, turns, calls, typed>>

(* Mutant: the watchdog covers the handshake only.                         *)
HandshakeWatchdog ==
    /\ Attached /\ ~link.ready
    /\ sock' = Closed(sock, link.sock, <<>>)
    /\ EndLink
    /\ UNCHANGED <<stored, diagram, call, load, gone, turns, calls, typed>>

(* The handshake or the turn takes too long: the client closes its end.    *)
Watchdog ==
    /\ Attached
    /\ sock' = Closed(sock, link.sock, <<>>)
    /\ EndLink
    /\ UNCHANGED <<stored, diagram, call, load, gone, turns, calls, typed>>

(* The delay before the second attempt is over.                            *)
Reconnect ==
    /\ link.waiting
    /\ Opened + 1 \in Sockets
    /\ link' = [link EXCEPT !.sock = Opened + 1, !.waiting = FALSE, !.attempt = 1]
    /\ sock' = Connect(sock, Opened + 1, link.id, link.thread, link.replay)
    /\ UNCHANGED <<view, stored, diagram, call, load, gone, turns, calls, typed>>

-----------------------------------------------------------------------------
(* The server's end of socket s.                                           *)

Push(s, events) == [sock EXCEPT ![s].down = IF sock[s].net = "closed" THEN <<>>
                                            ELSE @ \o events]

(* The turn is over: its last news is sent, nothing more is read.           *)
EndedTurn(k, events) ==
    IF k.net = "closed" THEN Spent
    ELSE [k EXCEPT !.down = @ \o events, !.run = "over", !.up = <<>>, !.start = <<>>,
                   !.steers = <<>>, !.sent = {}, !.accepted = FALSE]

Ended(s, events) == [sock EXCEPT ![s] = EndedTurn(@, events)]

TextOf(s) == [by |-> s, steers |-> sock[s].steers]
StoredText(id) == [by |-> stored[id].by, steers |-> stored[id].steers]
Saved(s) == Version(sock[s].thread, diagram[sock[s].thread])
FailedMark(failed) == IF failed THEN <<<<"failed">>>> ELSE <<>>

ServerOnly == UNCHANGED <<view, link, call, load, gone, turns, calls, typed>>

Accepts(s) ==
    /\ sock[s].net = "connecting"
    /\ sock' = [sock EXCEPT ![s].net = "open", ![s].down = <<Ready>>]
    /\ UNCHANGED <<stored, diagram>> /\ ServerOnly

(* The workflow shows a candidate diagram before it writes the answer.     *)
CanEmit(s, part) == part \notin sock[s].sent /\ "text" \notin sock[s].sent

(* A turn stored under this request id is replayed, never run again.       *)
StartFrame(s) ==
    /\ sock[s].run = "none" /\ sock[s].up # <<>> /\ Head(sock[s].up) = <<"start">>
    /\ LET id == sock[s].id
       IN IF stored[id] # NoTurn
          THEN sock' = Ended(s, <<<<<<"delta", StoredText(id)>>, <<"graph", Saved(s)>>>>
                                    \o FailedMark(stored[id].failed), Done>>)
          ELSE sock' = [sock EXCEPT ![s].up = Tail(@), ![s].run = "running",
                                    ![s].steers = sock[s].start]
    /\ UNCHANGED <<stored, diagram>> /\ ServerOnly

Emit(s, part) ==
    /\ sock[s].run = "running" /\ CanEmit(s, part)
    /\ sock' = [Push(s, <<CASE part = "text"    -> <<<<"delta", TextOf(s)>>>>
                            [] part = "preview" -> <<<<"preview">>, <<"review", "reviewing">>>>>>)
                   EXCEPT ![s].sent = @ \union {part}]
    /\ UNCHANGED <<stored, diagram>> /\ ServerOnly

(* Mutant: the server acknowledges a steer it counted once too often.      *)
SteerEventsSkipped(s, steer) ==
    (IF "preview" \in sock[s].sent THEN <<<<"graph", Saved(s)>>>> ELSE <<>>)
    \o <<<<"reset">>, <<"steered", steer, Len(sock[s].steers) + 2>>>>

SteerEvents(s, steer) ==
    (IF "preview" \in sock[s].sent THEN <<<<"graph", Saved(s)>>>> ELSE <<>>)
    \o <<<<"reset">>, <<"steered", steer, Len(sock[s].steers) + 1>>>>

(* A steer restarts the turn or is refused; an accepted diagram refuses it. *)
SteerFrame(s) ==
    /\ sock[s].run = "running" /\ sock[s].up # <<>> /\ Head(sock[s].up)[1] = "steer"
    /\ LET steer == Head(sock[s].up)[2]
       IN \/ sock' = [sock EXCEPT ![s].up = Tail(@)]
          \/ /\ ~sock[s].accepted
             /\ sock' = [Push(s, <<SteerEvents(s, steer)>>) EXCEPT
                             ![s].up = Tail(@), ![s].sent = {},
                             ![s].steers = Append(@, steer)]
    /\ UNCHANGED <<stored, diagram>> /\ ServerOnly

AcceptFrame(s) ==
    /\ sock[s].run = "running" /\ sock[s].up # <<>> /\ Head(sock[s].up)[1] = "accept"
    /\ \E taken \in BOOLEAN :
          /\ taken => "preview" \in sock[s].sent
          /\ sock' = [Push(s, <<<<<<"review", IF taken THEN "accepted" ELSE "rejected">>>>>>)
                         EXCEPT ![s].up = Tail(@), ![s].accepted = @ \/ taken]
    /\ UNCHANGED <<stored, diagram>> /\ ServerOnly

(* stop and disconnect cancel the turn, and close the connection with it.  *)
EndFrame(s) ==
    /\ sock[s].run \in {"none", "running"} /\ sock[s].up # <<>>
    /\ Head(sock[s].up)[1] \in {"stop", "bye"}
    /\ sock' = Ended(s, <<>>)
    /\ UNCHANGED <<stored, diagram>> /\ ServerOnly

(* Mutant: the client keeps the text it was streamed.                      *)
StreamedEvents(s, turn, version) == <<<<"graph", version>>>>

(* What the client is told of a saved turn: the stored text replaces the   *)
(* streamed one when another run of this request was saved first.          *)
SavedEvents(s, turn, version) ==
    <<<<"graph", version>>>>
    \o (IF [by |-> turn.by, steers |-> turn.steers] = TextOf(s) THEN <<>>
        ELSE <<<<"reset">>, <<"delta", [by |-> turn.by, steers |-> turn.steers]>>>>
             \o FailedMark(turn.failed))

(* The workflow ends and persist_turn saves it once per request id; a new  *)
(* diagram becomes the current one, or history when it lost the race.      *)
Finish(s) ==
    /\ sock[s].run = "running" /\ "text" \in sock[s].sent
    /\ sock[s].thread \notin gone
    /\ \E failed, drawn \in BOOLEAN :
          LET t == sock[s].thread
              first == stored[sock[s].id] = NoTurn
              turn == IF first THEN [thread |-> t, by |-> s, steers |-> sock[s].steers,
                                 failed |-> failed]
                      ELSE stored[sock[s].id]
              number == IF first /\ drawn THEN diagram[t] + 1 ELSE diagram[t]
          IN /\ failed => ~drawn
             /\ drawn => "preview" \in sock[s].sent
             /\ number <= MaxVersion
             /\ stored' = [stored EXCEPT ![sock[s].id] = turn]
             /\ diagram' = [diagram EXCEPT ![t] = number]
             /\ sock' = Ended(s, <<FailedMark(failed)
                                    \o SavedEvents(s, turn, Version(t, number)), Done>>)
    /\ ServerOnly

(* The deadline, a provider or the database ends the turn unsaved.         *)
Fail(s) ==
    /\ sock[s].run = "running"
    /\ sock' = Ended(s, <<(IF "preview" \in sock[s].sent THEN <<<<"graph", Saved(s)>>>> ELSE <<>>)
                            \o <<<<"error">>>>, Done>>)
    /\ UNCHANGED <<stored, diagram>> /\ ServerOnly

-----------------------------------------------------------------------------
Init ==
    /\ view = EmptyView(Home)
    /\ link = NoLink
    /\ sock = [s \in Sockets |-> NewSocket]
    /\ stored = [i \in Turns |-> NoTurn]
    /\ diagram = [t \in Threads |-> 0]
    /\ call = NoCall /\ load = NoCall /\ gone = {}
    /\ turns = 0 /\ calls = 0 /\ typed = <<>>

User ==
    \/ SendTurn \/ Steer \/ AcceptPreview \/ Stop
    \/ NewChat \/ SaveGraphEdit \/ RestoreRevision
    \/ \E t \in Threads : OpenThread(t) \/ DeleteThread(t)
    \/ \E id \in Turns : RetryMessage(id)

Http ==
    \/ ServeCall \/ ServeLoad \/ Loaded \/ CallFails \/ LoadFails
    \/ Adopted \/ RetryChecked
    \/ \E t \in Threads : ThreadCreated(t)

Server(s) ==
    \/ Accepts(s) \/ StartFrame(s) \/ SteerFrame(s) \/ AcceptFrame(s) \/ EndFrame(s)
    \/ Finish(s) \/ Fail(s)
    \/ \E part \in {"text", "preview"} : Emit(s, part)

Next ==
    \/ User \/ Http \/ Receive \/ LinkBreaks \/ Watchdog \/ Reconnect
    \/ \E s \in Sockets : Server(s)

Fairness == WF_vars(Watchdog) /\ WF_vars(Reconnect)

Spec == Init /\ [][Next]_vars /\ Fairness

-----------------------------------------------------------------------------
(* Every field holds what the hook, the transport or a frame may put there. *)
TypeOK ==
    /\ view.thread \in Threads \union {NoThread}
    /\ view.review \in {"none", "reviewing", "pending", "accepted"}
    /\ link.sock \in 0 .. MaxSockets /\ link.attempt \in 0 .. 1
    /\ \A s \in Sockets : /\ sock[s].net \in {"unused", "connecting", "open", "closed"}
                          /\ sock[s].run \in {"none", "running", "over"}
    /\ diagram \in [Threads -> 0 .. MaxVersion]
    /\ gone \subseteq Threads

(* What the view shows and the turn its socket carries are of the open     *)
(* thread, whatever answers arrive after the user has moved on, and no     *)
(* socket outlives the turn it was opened for.                             *)
ViewIsOfThread ==
    /\ view.durable # NoVersion => /\ view.durable[1] = view.thread
                                   /\ view.durable[2] <= diagram[view.thread]
    /\ link.sock # 0 => /\ link.id = view.stream
                        /\ link.thread = view.thread

(* Whichever way a turn ends (done, error, stop, a broken link, a timeout, *)
(* another thread), no message is left open that the next answer would     *)
(* continue, and no unsaved diagram or review of it stays on the screen.   *)
IdleIsClean ==
    ~view.busy => view.text = <<>> /\ ~view.preview /\ view.review = "none"

(* The answer a turn is done with is the answer stored for it, also when a *)
(* retry ran beside the attempt whose answer was saved.  What earlier      *)
(* attempts wrote before they were cut short may stand beside it.          *)
DoneShowsStored ==
    \A i \in Turns : view.answers[i] # <<>> =>
        stored[i] # NoTurn /\ view.answers[i] = <<StoredText(i)>>

(* No message mixes what two runs wrote: a run that a steer restarts, a    *)
(* retry and the next turn each write a message of their own, and one cut  *)
(* short answers the follow-ups of its own turn.                           *)
MessagesAreWhole ==
    /\ Len(view.text) <= 1
    /\ \A i \in Turns : \A message \in ToSet(view.partials[i]) :
          /\ Len(message) = 1
          /\ \A n \in ToSet(message[1].steers) : typed[n] = i

(* A step that shows nothing but what happens in the open thread: no answer *)
(* replaces its messages, and a retry under check is sent again.           *)
InThread ==
    /\ view'.thread = view.thread /\ load' = load
    /\ call' = call \/ (call.kind = "retry" /\ view'.request = call.id)

(* A turn that is cut short keeps what it has written, and nothing that    *)
(* happens in its thread takes it away, a retry of the same request        *)
(* included; only the stored conversation, fetched anew, replaces it.      *)
PartialsAreKept ==
    [][InThread =>
         /\ \A i \in Turns : IsPrefix(view.partials[i], view'.partials[i])
         /\ view.busy /\ ~view'.busy /\ view.text # <<>> =>
              \/ view'.answers[view.stream] = view.text
              \/ view'.partials[view.stream]
                    = Append(view.partials[view.stream], view.text)]_vars

(* The acknowledgements under way to a client, by their place.             *)
Acks(frames) ==
    {p \in (DOMAIN frames) \X (1 .. 5) :
        p[2] \in DOMAIN frames[p[1]] /\ frames[p[1]][p[2]][1] = "steered"}

(* What the client would replay is what the running turn has applied, once *)
(* the acknowledgements under way arrive: they bring the steers it lacks,  *)
(* each once and in order.                                                 *)
SteersAgree ==
    Attached /\ sock[link.sock].run = "running" =>
        LET down == sock[link.sock].down
            applied == sock[link.sock].steers
            missing == Len(view.steers) + 1 .. Len(applied)
            CountOf(p) == down[p[1]][p[2]][3]
        IN /\ IsPrefix(view.steers, applied)
           /\ {CountOf(p) : p \in Acks(down)} = missing
           /\ \A p \in Acks(down) : down[p[1]][p[2]][2] = applied[CountOf(p)]
           /\ \A p, q \in Acks(down) : p[1] < q[1] => CountOf(p) < CountOf(q)
           /\ \A p, q \in Acks(down) : p[1] = q[1] => p = q

SteerFrames(frames) == {frames[i] : i \in {j \in DOMAIN frames : frames[j][1] = "steer"}}

(* A follow-up reaches the turn it was typed for and no other, through     *)
(* queueing, reconnection and replay.                                      *)
CommandsOfTheirTurn ==
    /\ \A s \in Sockets :
          /\ \A e \in SteerFrames(sock[s].up) : typed[e[2]] = sock[s].id
          /\ \A n \in ToSet(sock[s].steers \o sock[s].start) : typed[n] = sock[s].id
    /\ \A i \in Turns : \A n \in ToSet(stored[i].steers) : typed[n] = i

(* A correction the server acknowledged stays part of its request through  *)
(* every disconnect and retry.                                             *)
AcknowledgedSteersSurvive ==
    [][view.request # 0 /\ view'.request = view.request
         => IsPrefix(view.steers, view'.steers)]_vars

(* A turn does not generate for ever: the watchdog ends it where neither   *)
(* the server nor the network says anything more.                          *)
TurnEnds == view.busy ~> ~view.busy

(* A follow-up to a turn that has not ended steers it instead of opening a *)
(* second run (hooks/useAgentStream.test.tsx).  It does not: between the   *)
(* two attempts to connect there is no active socket, the steer is refused *)
(* and the message starts a turn of its own, the first one being dropped.  *)
FollowUpSteers ==
    [][turns' # turns /\ view'.thread = view.thread => ~IsActive(view)]_vars

(* What the page shows belongs to the open thread and ends clean, an       *)
(* answer that is done is what was stored, and one that was cut short is   *)
(* kept as it is (useAgentStream.ts).                                      *)
ShownIsTheUsers ==
    [](ViewIsOfThread /\ IdleIsClean /\ DoneShowsStored /\ MessagesAreWhole)
        /\ PartialsAreKept

(* A steer reaches the turn it was typed for, is known on both sides, and  *)
(* is replayed once it was acknowledged (agentTransport.ts).               *)
SteersReachTheirTurn ==
    [](SteersAgree /\ CommandsOfTheirTurn) /\ AcknowledgedSteersSurvive
=============================================================================
