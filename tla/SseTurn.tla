------------------------------ MODULE SseTurn ------------------------------
(***************************************************************************)
(* Chat over Server-Sent Events (backend/api/sse_handler.py): POST         *)
(* /api/chat runs the agent and streams what it sends, stores the turn and *)
(* ends with "done"; POST /api/chat/use-search-tool lets the reader of a   *)
(* running answer ask for a web search.                                    *)
(*                                                                         *)
(* Several requests on one conversation run side by side: repetitions of a *)
(* request, which carry its client_request_id, and retries of its failed   *)
(* generation, under an id of their own.  Each stream is a generator that  *)
(* waits for its message's checks, then for the agent's events, and can    *)
(* lose its reader wherever it waits; the server may crash under all of    *)
(* them.  What a stream does between two waits is one action.              *)
(*                                                                         *)
(* Time passes in ticks of ten seconds, the time limit of one check, and   *)
(* is kept as what remains of each limit.                                  *)
(***************************************************************************)
EXTENDS Integers, Sequences, FiniteSets

CONSTANTS
  Requests,     \* chat requests the browser sends: 1..n
  Ids,          \* client_request_id values
  IdOf,         \* the id each request carries
  Sources,      \* the id whose turn a request retries, or NoId
  NoId,
  Updates,      \* number of steering updates each request carries
  TextOf,       \* the text each request's agent writes
  GraphOf,      \* the diagram it draws, if it draws one
  Starts,       \* how the conversation and the first request may be at first
  Known,        \* the diagram saved before the first request, if any
  NoGraph,
  QueueSize,    \* max_sse_queue_events
  AgentTime,    \* agent_timeout_s without the headroom, in ticks
  Slack,        \* what a stream's record is given beyond AgentTime, in ticks
  MaxPreviews,  \* bound: previews an agent sends
  MaxTroubles   \* bound: readers lost, crashes and lost conversations together

Refusals == {"off topic", "unsafe", "not validated"}

ASSUME ConstantsAssumption ==
  /\ Requests \subseteq Nat
  /\ IdOf \in [Requests -> Ids] /\ Sources \in [Requests -> Ids \cup {NoId}]
  /\ NoId \notin Ids /\ Updates \in [Requests -> 0..3]
  /\ \A q, r \in Requests : q # r => TextOf[q] # TextOf[r] /\ GraphOf[q] # GraphOf[r]
  /\ \A r \in Requests : /\ TextOf[r] \notin Refusals \cup {"nothing"}
                          /\ GraphOf[r] \notin {Known, NoGraph, "preview"}
  /\ "preview" \notin {Known, NoGraph}
  /\ Starts \subseteq [room : Nat, saved : {Known, NoGraph}, searches : BOOLEAN,
                       sends : SUBSET Requests, action : {"none", "extend", "new"}]
  /\ {QueueSize, AgentTime, Slack, MaxPreviews, MaxTroubles} \subseteq Nat \ {0}

\* The checks of a message and of three updates, and the check of the whole, take at most
\* five ticks.
ASSUME SlackAssumption == Slack > 5

VARIABLES
  start,      \* how it began
  thread,     \* the chat_threads row: kept, deleted by its owner, or evicted
  turns,      \* the stored turns, in order
  saved,      \* the working diagram
  archive,    \* the diagrams in the history
  pc,         \* where each request is
  run,        \* the local variables of each stream and its agent
  record,     \* ticks until each stream's active_streams row expires, 0 if none counts
  reader,     \* whether the browser still reads each stream
  shown,      \* what the browser shows of each request
  drew,       \* history: requests that ended with an approved diagram of their own
  row,        \* the search_tool_requests row
  expired,    \* whether its expires_at_epoch has passed
  waiter,     \* await_search_tool_request
  click,      \* the use-search-tool request
  crashed     \* the server was killed once

storage == <<thread, turns, saved, archive>>
browser == <<reader, shown, drew>>
search == <<row, expired, waiter, click>>
vars == <<start, storage, pc, run, record, browser, search, crashed>>

-----------------------------------------------------------------------------
(* What is stored and what is shown.                                       *)

Publications == {"approved", "withheld", "unchanged"}
Texts == Refusals \cup {TextOf[r] : r \in Requests}
Graphs == {Known, NoGraph} \cup {GraphOf[r] : r \in Requests}

Blank == [text |-> "nothing", graph |-> "as before", notices |-> {}, end |-> "open"]

\* check: the message check the stream waits for, and the ticks it has taken; left: ticks
\* until the terminal deadline; base: the diagram the agent started from; queue: previews
\* on their way; sent: previews the agent has sent; previews: one was passed on
\* (graph_event_count).
NoRun == [check |-> 0, busy |-> 0, left |-> 0, base |-> NoGraph, agent |-> "none",
          queue |-> 0, sent |-> 0, previews |-> FALSE]

Completed(id) == \E i \in DOMAIN turns : turns[i].id = id
StoredTurn(id) == turns[CHOOSE i \in DOMAIN turns : turns[i].id = id]
Room == start.room - Len(turns)
SavedGraph == IF thread = "kept" THEN saved ELSE NoGraph

\* The message itself, then every update, then the whole.
Retries(r) == Sources[r] # NoId
Checks(r) == IF Updates[r] = 0 THEN 1 ELSE Updates[r] + 2

Searcher == 1
InFlight == {"opened", "checking", "accepted", "streaming", "closing", "finishing"}
Over == Publications \cup {"failed"}

Turns == [id : Ids, text : Texts, graph : Graphs, retry : BOOLEAN]
Runs ==
  [check : 0..5, busy : 0..1, left : 0..AgentTime, base : Graphs,
   agent : {"none", "working", "offering", "waiting", "answering", "cancelled"} \cup Over,
   queue : 0..QueueSize, sent : 0..MaxPreviews, previews : BOOLEAN]
Views ==
  [text : Texts \cup {"nothing"}, graph : Graphs \cup {"as before", "preview"},
   notices : SUBSET {"generation failed", "in history", "too large"},
   end : {"open", "done", "error", "cut"}]

TypeOK ==
  /\ start \in Starts /\ thread \in {"kept", "deleted", "evicted"}
  /\ turns \in Seq(Turns) /\ saved \in Graphs /\ archive \subseteq Graphs
  /\ pc \in [Requests -> {"idle", "ended"} \cup InFlight]
  /\ run \in [Requests -> Runs] /\ shown \in [Requests -> Views]
  /\ record \in [Requests -> 0..AgentTime + Slack]
  /\ reader \in [Requests -> BOOLEAN] /\ drew \subseteq Requests
  /\ row \in {"none", "open", "marked"} /\ expired \in BOOLEAN
  /\ waiter \in {"none", "starting", "polling", "granted", "refused", "cancelled",
             "killed"}
  /\ click \in {"none", "read", "ok", "expired"}
  /\ crashed \in BOOLEAN

Init ==
  /\ start \in Starts
  /\ thread = "kept" /\ turns = << >> /\ saved = start.saved /\ archive = {}
  /\ pc = [r \in Requests |-> "idle"] /\ run = [r \in Requests |-> NoRun]
  /\ record = [r \in Requests |-> 0]
  /\ reader = [r \in Requests |-> TRUE] /\ shown = [r \in Requests |-> Blank] /\ drew = {}
  /\ row = "none" /\ expired = FALSE /\ waiter = "none" /\ click = "none"
  /\ crashed = FALSE

-----------------------------------------------------------------------------
(* The words of a stream.                                                  *)

\* What the events sent to it make of the view of the browser, if it still reads them.
Show(r, view) == shown' = [shown EXCEPT ![r] = IF reader[r] THEN view ELSE @]

\* An "error" event.
Refused(r) == [shown[r] EXCEPT !.end = "error"]

\* replay_completed_turn: the stored answer, the saved diagram, "generation_failed" when
\* the turn can be retried, "done".
Replay(turn, graph) ==
  [text |-> turn.text, graph |-> graph, end |-> "done",
   notices |-> IF turn.retry THEN {"generation failed"} ELSE {}]

\* A failure; graph_data takes a preview back, if one was passed on.
Complaint(r) ==
  IF run[r].previews THEN [Refused(r) EXCEPT !.graph = SavedGraph] ELSE Refused(r)

\* The end of the generator: its finally releases the record.
Ends(r) ==
  /\ pc' = [pc EXCEPT ![r] = "ended"] /\ run' = [run EXCEPT ![r] = NoRun]
  /\ record' = [record EXCEPT ![r] = 0]

-----------------------------------------------------------------------------
(* POST /api/chat, before the stream opens.                                *)

\* resolve_retry_source: only the failed generation of a stored turn can be retried.
RetryUnavailable(r) ==
  Retries(r) /\ ~(Completed(Sources[r]) /\ StoredTurn(Sources[r]).retry)

\* A conversation that is gone and a retry of nothing are refused; a completed turn is
\* replayed whatever the limits say.
Post(r) ==
  /\ pc[r] = "idle"
  /\ r \in start.sends
  /\ \A q \in start.sends : q < r /\ IdOf[q] = IdOf[r] => pc[q] # "idle"
  /\ \/ \* gone, unavailable, full, or at the rate limit, which other requests count to
        /\ thread = "kept" /\ ~RetryUnavailable(r) => ~Completed(IdOf[r])
        /\ pc' = [pc EXCEPT ![r] = "ended"]
        /\ Show(r, Refused(r))
     \/ /\ thread = "kept" /\ ~RetryUnavailable(r)
        /\ Completed(IdOf[r])
        /\ pc' = [pc EXCEPT ![r] = "ended"]
        /\ Show(r, Replay(StoredTurn(IdOf[r]), saved))
     \/ /\ thread = "kept" /\ ~RetryUnavailable(r)
        /\ ~Completed(IdOf[r]) /\ Room > 0
        /\ pc' = [pc EXCEPT ![r] = "opened"]
        /\ UNCHANGED shown
  /\ UNCHANGED <<start, storage, run, record, reader, drew, search, crashed>>

(***************************************************************************)
(* The stream opens: register_active_stream, and then everything that was  *)
(* read before the registration is read again.                             *)
(***************************************************************************)
\* Mutant: the record is given the agent's time and its headroom only.
RegisterShort(r) == record' = [record EXCEPT ![r] = AgentTime + 3]

Register(r) == record' = [record EXCEPT ![r] = AgentTime + Slack]

Open(r) ==
  /\ pc[r] = "opened"
  /\ IF thread = "kept" /\ ~Completed(IdOf[r])
     THEN /\ Register(r)
          /\ pc' = [pc EXCEPT ![r] = "checking"]
          /\ run' = [run EXCEPT ![r].check = 1]
          /\ UNCHANGED shown
     ELSE /\ Ends(r)
          /\ Show(r, IF thread = "kept" THEN Replay(StoredTurn(IdOf[r]), saved)
                                        ELSE Refused(r))
  /\ UNCHANGED <<start, storage, reader, drew, search, crashed>>

-----------------------------------------------------------------------------
(* Storing the turn.                                                       *)

\* persist_turn: a repeated id changes nothing; a diagram that was not drawn on the
\* working diagram only enters the history.
Store(r, text, graph, retry) ==
  /\ thread = "kept"
  /\ IF Completed(IdOf[r])
     THEN UNCHANGED <<turns, saved, archive>>
     ELSE /\ Room > 0
          /\ turns' = Append(turns, [id |-> IdOf[r], text |-> text, graph |-> graph,
                                     retry |-> retry])
          /\ saved' = IF graph # NoGraph /\ saved = run[r].base THEN graph ELSE saved
          /\ archive' = archive \cup ({graph} \ {NoGraph})

Canonical(r) == StoredTurn(IdOf[r])'

(***************************************************************************)
(* The message checks: input_error.                                        *)
(***************************************************************************)
CheckPasses(r) ==
  /\ pc[r] = "checking"
  /\ IF run[r].check < Checks(r)
     THEN run' = [run EXCEPT ![r].check = @ + 1, ![r].busy = 0] /\ pc' = pc
     ELSE run' = [run EXCEPT ![r] = NoRun] /\ pc' = [pc EXCEPT ![r] = "accepted"]
  /\ UNCHANGED <<start, storage, record, browser, search, crashed>>

\* A refusal is the answer of a stored turn, and is told as that turn.
CheckRefuses(r) ==
  /\ pc[r] = "checking"
  /\ \/ \E refusal \in Refusals :
          /\ Store(r, refusal, NoGraph, FALSE)
          /\ Show(r, Replay(Canonical(r), saved'))
     \/ \* the conversation is gone or full, or the database failed
        /\ UNCHANGED <<turns, saved, archive>>
        /\ Show(r, Refused(r))
  /\ Ends(r)
  /\ UNCHANGED <<start, thread, reader, drew, search, crashed>>

-----------------------------------------------------------------------------
(* The agent.                                                              *)

\* graph_continuity_error.  A retry may send the version its browser shows; without an
\* action the wording decides whether a new diagram is asked for.
MayContinue(r) ==
  CASE start.action = "extend" ->
         SavedGraph # NoGraph /\ (SavedGraph = Known \/ Retries(r))
    [] start.action = "new"    -> SavedGraph = NoGraph
    [] OTHER                   -> TRUE

\* The agent works on the saved diagram, against the terminal deadline.
Begins(r) ==
  run' = [run EXCEPT ![r].base = SavedGraph, ![r].agent = "working", ![r].left = AgentTime]

Start(r) ==
  /\ pc[r] = "accepted"
  /\ \/ /\ MayContinue(r)
        /\ pc' = [pc EXCEPT ![r] = "streaming"]
        /\ Begins(r)
        /\ UNCHANGED <<shown, record>>
     \/ \* knowledge_base_ready is false, or the diagram forbids the request
        /\ Ends(r) /\ Show(r, Refused(r))
  /\ UNCHANGED <<start, storage, reader, drew, search, crashed>>

AtWork(r) == pc[r] = "streaming" /\ run[r].agent \in {"working", "answering"}

\* send: a full queue makes the agent wait.
AgentSends(r) ==
  /\ AtWork(r) /\ run[r].queue < QueueSize /\ run[r].sent < MaxPreviews
  /\ run' = [run EXCEPT ![r].queue = @ + 1, ![r].sent = @ + 1]
  /\ UNCHANGED <<start, storage, pc, record, browser, search, crashed>>

AgentEnds(r) ==
  /\ AtWork(r)
  /\ \E outcome \in Over : run' = [run EXCEPT ![r].agent = outcome]
  /\ UNCHANGED <<start, storage, pc, record, browser, search, crashed>>

\* agent_task.cancel(): an agent that waits for the search decision takes the waiter,
\* which is a task of its own, with it; an agent that does not yet wait leaves it behind.
CancelAgent(r) ==
  /\ run' = [run EXCEPT ![r].agent = "cancelled"]
  /\ IF run[r].agent = "waiting" /\ waiter \in {"starting", "polling"}
     THEN waiter' = "cancelled" /\ row' = "none"
     ELSE UNCHANGED <<waiter, row>>
  /\ UNCHANGED <<expired, click>>

-----------------------------------------------------------------------------
(* The stream passes events on.                                            *)

Streaming(r) == pc[r] = "streaming" /\ run[r].left > 0

Forward(r) ==
  /\ Streaming(r) /\ run[r].queue > 0
  /\ run' = [run EXCEPT ![r].queue = @ - 1, ![r].previews = TRUE]
  /\ Show(r, [shown[r] EXCEPT !.graph = "preview"])
  /\ UNCHANGED <<start, storage, pc, record, reader, drew, search, crashed>>

\* Nothing came for a moment: the reader may have left, or the agent be done.
Quiet(r) ==
  /\ Streaming(r) /\ run[r].queue = 0
  /\ \/ /\ ~reader[r]
        /\ CancelAgent(r)
        /\ pc' = [pc EXCEPT ![r] = "closing"]
     \/ /\ reader[r] /\ run[r].agent \in Over
        /\ pc' = [pc EXCEPT ![r] = "finishing"]
        /\ UNCHANGED <<run, search>>
  /\ UNCHANGED <<start, storage, record, browser, crashed>>

\* The terminal deadline.
Timeout(r) ==
  /\ pc[r] = "streaming" /\ run[r].left = 0
  /\ CancelAgent(r)
  /\ Show(r, Complaint(r))
  /\ pc' = [pc EXCEPT ![r] = "closing"]
  /\ UNCHANGED <<start, storage, record, reader, drew, crashed>>

\* The cancelled agent has ended.
Close(r) ==
  /\ pc[r] = "closing"
  /\ Ends(r)
  /\ UNCHANGED <<start, storage, browser, search, crashed>>

-----------------------------------------------------------------------------
(* The turn is stored and the stream says "done".                          *)

\* Mutant: the stream leaves the text its own agent wrote.
OwnText(r) == TextOf[r]

CanonicalText(r) == Canonical(r).text

Approved(r) == run[r].agent = "approved"

\* Mutant: whatever turn is stored, it is taken to hold this stream's diagram.
NotifyAlways(r) == IF Approved(r) /\ saved' # GraphOf[r] THEN {"in history"} ELSE {}

\* graph_notice.
InHistory(r) ==
  IF Approved(r) /\ saved' # GraphOf[r] /\ Canonical(r).graph = GraphOf[r]
  THEN {"in history"} ELSE {}

NotStored(r) ==
  /\ UNCHANGED <<turns, saved, archive, drew>>
  /\ Show(r, Complaint(r))

Stored(r) ==
  \E fits \in {TRUE} \cup {~Approved(r)} :
    LET graph == IF Approved(r) /\ fits THEN GraphOf[r] ELSE NoGraph
        tooLarge == ~fits /\ ~Completed(IdOf[r])
        failed == CanonicalText(r) # TextOf[r] /\ Canonical(r).retry
    IN  /\ Store(r, TextOf[r], graph, run[r].agent = "withheld")
        /\ Show(r, [text |-> CanonicalText(r), graph |-> saved', end |-> "done",
                    notices |-> InHistory(r)
                        \cup (IF tooLarge THEN {"too large"} ELSE {})
                        \cup (IF failed THEN {"generation failed"} ELSE {})])
        /\ drew' = IF Approved(r) THEN drew \cup {r} ELSE drew

\* NotStored: the agent failed, the conversation is gone or full, or the database failed.
Finish(r) ==
  /\ pc[r] = "finishing"
  /\ NotStored(r) \/ (run[r].agent # "failed" /\ Stored(r))
  /\ Ends(r)
  /\ UNCHANGED <<start, thread, reader, search, crashed>>

-----------------------------------------------------------------------------
(* The search decision: await_search_tool_request and the endpoint.        *)

\* retrieval_notice offers the search; the waiter is a task of its own.
Offer ==
  /\ start.searches /\ run[Searcher].agent = "working" /\ waiter = "none"
  /\ run' = [run EXCEPT ![Searcher].agent = "offering"]
  /\ waiter' = "starting"
  /\ UNCHANGED <<start, storage, pc, record, browser, row, expired, click, crashed>>

AgentWaits ==
  /\ \/ /\ run[Searcher].agent = "offering"
        /\ run' = [run EXCEPT ![Searcher].agent = "waiting"]
     \/ /\ run[Searcher].agent = "waiting" /\ waiter \in {"granted", "refused"}
        /\ run' = [run EXCEPT ![Searcher].agent = "answering"]
  /\ UNCHANGED <<start, storage, pc, record, browser, search, crashed>>

\* The finally of the waiter.
DeleteRow == row' = "none"

WaiterSteps ==
  /\ \/ waiter = "starting" /\ waiter' = "polling" /\ row' = "open" /\ expired' = FALSE
     \/ /\ waiter = "polling" /\ row = "marked" /\ ~expired
        /\ waiter' = "granted" /\ DeleteRow /\ UNCHANGED expired
     \/ /\ waiter = "polling" /\ expired
        /\ waiter' = "refused" /\ DeleteRow /\ UNCHANGED expired
  /\ UNCHANGED <<start, storage, pc, run, record, browser, click, crashed>>

RowExpires ==
  /\ row # "none" /\ ~expired
  /\ expired' = TRUE
  /\ UNCHANGED <<start, storage, pc, run, record, browser, row, waiter, click, crashed>>

\* prune_search_tool_requests; then mark_search_tool_requested reads the row and updates
\* it in two statements.
ClickReads ==
  /\ click = "none" /\ waiter # "none" /\ thread = "kept"
  /\ row' = IF expired THEN "none" ELSE row
  /\ click' = IF row' = "none" THEN "expired" ELSE "read"
  /\ UNCHANGED <<start, storage, pc, run, record, browser, expired, waiter, crashed>>

MarkRow == row' = IF row = "none" THEN "none" ELSE "marked"

ClickMarks ==
  /\ click = "read"
  /\ MarkRow
  /\ click' = "ok"
  /\ UNCHANGED <<start, storage, pc, run, record, browser, expired, waiter, crashed>>

-----------------------------------------------------------------------------
(* Around the streams.                                                     *)

Troubles ==
  Cardinality({r \in Requests : ~reader[r]}) + (IF crashed THEN 1 ELSE 0)
    + (IF thread = "kept" THEN 0 ELSE 1)

Disconnect(r) ==
  /\ pc[r] \in InFlight /\ reader[r] /\ Troubles < MaxTroubles
  /\ reader' = [reader EXCEPT ![r] = FALSE]
  /\ shown' = [shown EXCEPT ![r].end = IF @ = "open" THEN "cut" ELSE @]
  /\ UNCHANGED <<start, storage, pc, run, record, drew, search, crashed>>

\* A generator whose reader left is cancelled where it waits.
Cut(r) ==
  /\ ~reader[r]
  /\ \/ /\ pc[r] \in {"opened", "checking"}
        /\ Ends(r) /\ UNCHANGED search
     \/ /\ pc[r] = "streaming"
        /\ CancelAgent(r)
        /\ pc' = [pc EXCEPT ![r] = "closing"] /\ UNCHANGED record
  /\ UNCHANGED <<start, storage, browser, crashed>>

\* The process is killed; what it stored outlives it.
Crash ==
  /\ Troubles < MaxTroubles /\ ~crashed
  /\ crashed' = TRUE
  /\ LET hit == {r \in Requests : pc[r] \in InFlight}
     IN  /\ hit # {}
         /\ pc' = [r \in Requests |-> IF r \in hit THEN "ended" ELSE pc[r]]
         /\ run' = [r \in Requests |-> NoRun]
         /\ shown' = [r \in Requests |->
              IF r \in hit /\ shown[r].end = "open" THEN [shown[r] EXCEPT !.end = "cut"]
                                                    ELSE shown[r]]
  /\ waiter' = IF waiter = "none" THEN "none" ELSE "killed"
  /\ UNCHANGED <<start, storage, record, reader, drew, row, expired, click>>

\* The owner deletes the conversation, or retention does: never under a live record.
Lose ==
  /\ thread = "kept" /\ Troubles < MaxTroubles
  /\ thread' = "deleted" \/ (thread' = "evicted" /\ \A r \in Requests : record[r] = 0)
  /\ UNCHANGED <<start, turns, saved, archive, pc, run, record, browser, search, crashed>>

\* A check ends within a tick, and what needs no waiting within the same one.
Tick ==
  /\ \E r \in Requests : record[r] > 0
  /\ \A r \in Requests :
       /\ pc[r] \in {"idle", "checking", "streaming", "ended"}
       /\ pc[r] = "checking" => run[r].busy = 0
       /\ pc[r] = "streaming" => run[r].left > 0
  /\ waiter \notin {"starting", "polling"}
  /\ record' = [r \in Requests |-> IF record[r] > 0 THEN record[r] - 1 ELSE 0]
  /\ run' = [r \in Requests |->
       CASE pc[r] = "streaming" -> [run[r] EXCEPT !.left = @ - 1]
         [] pc[r] = "checking"  -> [run[r] EXCEPT !.busy = 1]
         [] OTHER               -> run[r]]
  /\ UNCHANGED <<start, storage, pc, browser, search, crashed>>

Stream(r) ==
  \/ Open(r) \/ CheckPasses(r) \/ CheckRefuses(r) \/ Start(r)
  \/ Forward(r) \/ Quiet(r) \/ Timeout(r) \/ Close(r) \/ Finish(r) \/ Cut(r)

Next ==
  \/ \E r \in Requests : Post(r) \/ Stream(r) \/ AgentSends(r) \/ AgentEnds(r) \/ Disconnect(r)
  \/ Offer \/ AgentWaits \/ WaiterSteps \/ RowExpires \/ ClickReads \/ ClickMarks
  \/ Crash \/ Lose \/ Tick

\* The event loop runs every stream and the waiter, and time passes; nothing is assumed
\* of agents, browsers and owners.
Fairness ==
  /\ \A r \in Requests : WF_vars(Stream(r))
  /\ WF_vars(WaiterSteps) /\ WF_vars(RowExpires) /\ WF_vars(Tick)

Spec == Init /\ [][Next]_vars /\ Fairness

-----------------------------------------------------------------------------
(* Properties.                                                             *)

\* A browser told "done" shows the one answer the conversation keeps for the id of its
\* request, however the request and its repetitions race, break off or are refused.
Answers == INSTANCE AnswerRegister WITH
  Attempts <- Requests, Answers <- Texts, NoAnswer <- "nothing",
  stored <- [id \in Ids |-> IF Completed(id) THEN StoredTurn(id).text ELSE "nothing"],
  told <- [r \in Requests |-> IF shown[r].end = "done" THEN shown[r].text ELSE "nothing"]

OneAnswerPerId == Answers!Spec

\* Whatever ends a stream that is still read, the browser is not left with a diagram that
\* was only a preview.
NoPreviewLeft ==
  \A r \in Requests : shown[r].end \in {"done", "error"} => shown[r].graph # "preview"

\* Told "done" with its own answer, a browser knows what became of the approved diagram:
\* it is the one shown, it is in the history, or it was too large; and no browser is sent
\* to the history for a diagram that is not there.
NoDiagramLost ==
  \A r \in Requests :
    /\ "in history" \in shown[r].notices => GraphOf[r] \in archive
    /\ r \in drew /\ shown[r].end = "done" /\ shown[r].text = TextOf[r]
         => \/ shown[r].graph = GraphOf[r]
            \/ shown[r].notices \cap {"in history", "too large"} # {}

\* Retention never takes a conversation from under a running stream, however long its
\* checks, its agent and its end take: the record outlasts them.
InFlightKept ==
  [][thread = "kept" /\ thread' = "evicted"
       => \A r \in Requests : pc[r] \notin InFlight \ {"opened"}]_vars

\* A search decision leaves no row behind, whichever of the waiter, its cancelled agent
\* and a late click comes last, and nothing is searched for without a click.
RowsFollowWaiter ==
  /\ waiter \in {"granted", "refused", "cancelled"} => row = "none"
  /\ waiter = "granted" => click = "ok"

\* Every stream ends, even if its agent never does, its search is never answered, or its
\* reader has silently gone.
StreamsEnd == \A r \in Requests : pc[r] = "opened" ~> pc[r] = "ended"

\* Whatever ends a stream, its reader knows what became of the diagram it was shown, and
\* no search decision outlives its waiter (sse_handler.py).
StreamsEndClean == NoPreviewLeft /\ NoDiagramLost /\ RowsFollowWaiter

\* A stream runs its course: its conversation is kept until it ends, and it ends
\* (sse_handler.py).
StreamsRunTheirCourse == InFlightKept /\ StreamsEnd
=============================================================================
