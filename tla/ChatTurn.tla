------------------------------ MODULE ChatTurn ------------------------------
(***************************************************************************)
(* One steerable turn over one WebSocket (backend/api/chat_websocket.py),  *)
(* from the registration of its stream to its release: the main loop, the  *)
(* task that receives the client's commands, the agent task, which runs    *)
(* the staged pipeline and then answers, the terminal deadline, and a      *)
(* client that steers, stops, accepts previews and may leave at any time.  *)
(*                                                                         *)
(* The database answers reads; only the completing transaction may fail.   *)
(***************************************************************************)
EXTENDS StagedPipeline, Sequences

CONSTANTS
  MaxSteers,    \* _MAX_STEERS_PER_RUN
  QueueSize,    \* maxsize of the command queue
  MaxCommands   \* bound: commands the client sends

ASSUME TurnAssumption ==
  /\ MaxSteers \in Nat /\ MaxCommands \in Nat
  /\ QueueSize \in Nat \ {0}

\* The variables of StagedPipeline are those of the current run.
VARIABLES
  pc,          \* where the main loop is
  why,         \* why the agent task was cancelled
  agent,       \* the agent task
  question,    \* steers merged into the content
  asked,       \* steers in the content the agent was started with
  tries,       \* sanitation_attempt_count
  inbox,       \* frames the client sent and nobody read yet
  queue,       \* command_queue
  sent,        \* commands the client sent
  connected,   \* the client is there
  listening,   \* the receiver task runs
  preview,     \* graph_preview_sent
  screen,      \* the diagram last sent for display, 0 for the saved one
  firstOfRun,  \* versions handed out before the current run
  timeUp,      \* the terminal deadline has passed
  saving,      \* what persist_turn did
  stored,      \* the stored turn
  told,        \* the last word to the client
  failed,      \* that word was preceded by an error
  applied,     \* steer_applied events the client got
  registered   \* the active_streams record exists

client   == <<inbox, sent, connected, screen, told, failed, applied>>
loop     == <<pc, why, question, asked, tries, preview, firstOfRun, saving, stored,
              registered>>
vars == <<pipelineVars, client, loop, agent, queue, listening, timeUp>>

Command == [type : {"steer", "stop", "disconnect"}] \cup
           [type : {"accept_preview"}, version : Nat]
Turn   == [question : Nat, answers : Nat, graph : Nat,
           publication : Publications \cup {"no turn"}]
NoTurn == [question |-> 0, answers |-> 0, graph |-> 0, publication |-> "no turn"]

\* A late agent ended with WorkflowDeadlineExceeded, a silent one without text.
Finished == {"answered", "silent", "raised", "late", "gone"}

TypeOK ==
  /\ PipelineTypeOK
  /\ pc \in {"top", "wait", "classify", "cancelling", "store", "reply",
             "teardown", "ended"}
  /\ why \in {"nothing", "timeout", "stop", "disconnect", "steer"}
  /\ agent \in {"none", "running", "cancelled"} \cup Finished
  /\ question \in 0..MaxSteers /\ asked \in Nat /\ tries \in 0..MaxSteers /\ applied \in Nat
  /\ inbox \in Seq(Command) /\ queue \in Seq(Command)
  /\ Len(queue) <= QueueSize
  /\ sent \in 0..MaxCommands
  /\ connected \in BOOLEAN /\ listening \in BOOLEAN
  /\ preview \in BOOLEAN /\ screen \in 0..minted /\ firstOfRun \in 0..minted
  /\ timeUp \in BOOLEAN
  /\ saving \in {"none", "saved", "dropped", "failed"}
  /\ stored \in Turn
  /\ told \in {"nothing", "done", "stopped"} /\ failed \in BOOLEAN
  /\ registered \in BOOLEAN

Init ==
  /\ PipelineInit
  /\ pc = "top" /\ why = "nothing" /\ agent = "none"
  /\ question = 0 /\ asked = 0 /\ tries = 0 /\ applied = 0
  /\ inbox = << >> /\ queue = << >> /\ sent = 0
  /\ connected = TRUE /\ listening = TRUE
  /\ preview = FALSE /\ screen = 0 /\ firstOfRun = 0
  /\ timeUp = FALSE
  /\ saving = "none" /\ stored = NoTurn
  /\ told = "nothing" /\ failed = FALSE
  /\ registered = TRUE

-----------------------------------------------------------------------------
(* What the main loop sends.                                               *)

\* restore_graph_preview sends the saved diagram if a preview was sent.
Restore ==
  /\ screen' = IF preview /\ connected THEN 0 ELSE screen
  /\ preview' = FALSE

KeepScreen == UNCHANGED <<screen, preview>>

\* The last word of the turn; a client that left hears nothing.
Tell(word, error) ==
  /\ pc' = "teardown"
  /\ told' = IF connected THEN word ELSE "nothing"
  /\ failed' = (connected /\ error)

\* command_rejected; sending it to a client that left may end the turn.
Reject ==
  /\ pc' = "wait" \/ (~connected /\ pc' = "teardown")
  /\ UNCHANGED <<screen, preview, told, failed>>

-----------------------------------------------------------------------------
(* The main loop.                                                          *)

StartRun ==
  /\ pc = "top" /\ ~timeUp
  /\ \E j \in Jobs :
       /\ (j.kind = "create") = (job.kind = "create") /\ j.overview = job.overview
       /\ Begin(j)
  /\ agent' = "running"
  /\ asked' = question
  /\ firstOfRun' = minted
  /\ pc' = "wait"
  /\ UNCHANGED <<control, minted, offered, granted, client, why, question, tries,
                 preview, saving, stored, registered, queue, listening, timeUp>>

StartTooLate ==
  /\ pc = "top" /\ timeUp
  /\ Restore /\ Tell("done", TRUE)
  /\ UNCHANGED <<pipelineVars, inbox, sent, connected, applied, why, question, asked, tries,
                 firstOfRun, saving, stored, registered, agent, queue, listening, timeUp>>

\* Mutant: an agent that has ended already needs no restart.
LeaveEnded(reason) ==
  /\ pc' = IF agent = "running" THEN "cancelling" ELSE "wait"
  /\ why' = IF agent = "running" THEN reason ELSE why
  /\ agent' = IF agent = "running" THEN "cancelled" ELSE agent

\* Mutant: the loop awaits the agent without having cancelled it.
AwaitAgent(reason) ==
  /\ pc' = "cancelling"
  /\ why' = reason
  /\ UNCHANGED agent

\* agent_task.cancel() does nothing to a task that has ended.
CancelAgent(reason) ==
  /\ pc' = "cancelling"
  /\ why' = reason
  /\ agent' = IF agent = "running" THEN "cancelled" ELSE agent

OnTimeout ==
  /\ pc = "wait" /\ timeUp
  /\ CancelAgent("timeout")
  /\ UNCHANGED <<pipelineVars, client, question, asked, tries, preview, firstOfRun, saving,
                 stored, registered, queue, listening, timeUp>>

\* Commands win a tie with completion.
NextCommand(type) ==
  /\ pc = "wait" /\ ~timeUp /\ queue # << >>
  /\ Head(queue).type = type
  /\ queue' = Tail(queue)

OnAccept ==
  /\ NextCommand("accept_preview")
  /\ LET v == Head(queue).version
     IN  \/ Accept(v)
            /\ UNCHANGED <<pc, screen, preview, told, failed>>
         \/ ~Accepts(v) /\ Reject /\ UNCHANGED pipelineVars
  /\ UNCHANGED <<inbox, sent, connected, applied, why, question, asked, tries, firstOfRun,
                 saving, stored, registered, agent, listening, timeUp>>

OnStop ==
  /\ NextCommand("stop") \/ NextCommand("disconnect")
  /\ CancelAgent(Head(queue).type)
  /\ UNCHANGED <<pipelineVars, client, question, asked, tries, preview, firstOfRun, saving,
                 stored, registered, listening, timeUp>>

\* Mutant: an accepted diagram does not keep the run from being steered.
AnyRunSteerable == TRUE

Steerable == control.accepted = NoAcceptance

OverBudget == question >= MaxSteers \/ tries >= MaxSteers

\* A steer is refused while an accepted diagram is finishing, when it is empty,
\* too large or over the limit; otherwise the input checks are asked.
OnSteer ==
  /\ NextCommand("steer")
  /\ \/ Reject /\ UNCHANGED tries
     \/ /\ Steerable /\ ~OverBudget
        /\ tries' = tries + 1
        /\ pc' = "classify"
        /\ UNCHANGED <<screen, preview, told, failed>>
  /\ UNCHANGED <<pipelineVars, inbox, sent, connected, applied, why, question, asked,
                 firstOfRun, saving, stored, registered, agent, listening, timeUp>>

\* The input checks took a while: the agent may have ended meanwhile.
Classify ==
  /\ pc = "classify"
  /\ \/ Reject /\ UNCHANGED <<why, agent, question>>
     \/ /\ question' = question + 1
        /\ CancelAgent("steer")
        /\ UNCHANGED <<screen, preview, told, failed>>
  /\ UNCHANGED <<pipelineVars, inbox, sent, connected, applied, asked, tries, firstOfRun,
                 saving, stored, registered, queue, listening, timeUp>>

\* Mutant: the preview of the abandoned run stays on the screen.
LeftPreview == KeepScreen

ResetPreview == Restore

\* A new review control; the old one stays with the abandoned run.
ApplySteer ==
  /\ why = "steer"
  /\ ResetPreview
  /\ control' = NoControl
  /\ applied' = IF connected THEN applied + 1 ELSE applied
  /\ pc' = "top" \/ (~connected /\ pc' = "teardown")
  /\ UNCHANGED <<told, failed>>

\* await agent_task suppresses only the cancellation: a failure of the agent's
\* own ends the turn in the handler of the endpoint.
AgentStopped ==
  /\ pc = "cancelling" /\ agent \in Finished
  /\ \/ /\ agent \in {"raised", "late"}
        /\ KeepScreen /\ Tell("done", TRUE) /\ UNCHANGED <<control, applied>>
     \/ /\ agent \notin {"raised", "late"}
        /\ \/ ApplySteer
           \/ /\ why = "timeout"
              /\ Restore /\ Tell("done", TRUE) /\ UNCHANGED <<control, applied>>
           \/ /\ why = "stop"
              /\ Restore /\ Tell("stopped", FALSE) /\ UNCHANGED <<control, applied>>
           \/ /\ why = "disconnect"
              /\ KeepScreen /\ pc' = "teardown"
              /\ UNCHANGED <<control, applied, told, failed>>
  /\ UNCHANGED <<job, step, stage, attempt, candidate, layer, verdict, gates, result,
                 minted, offered, granted, inbox, sent, connected, why, question, asked,
                 tries, firstOfRun, saving, stored, registered, agent, queue, listening,
                 timeUp>>

HasNewGraph == result.publication \in {"approved", "user_accepted"}

OnResult ==
  /\ pc = "wait" /\ ~timeUp /\ queue = << >>
  /\ agent \in Finished
  /\ IF agent = "answered" \/ (agent = "silent" /\ HasNewGraph)
     THEN pc' = "store" /\ UNCHANGED <<screen, preview, told, failed>>
     ELSE Restore /\ Tell("done", TRUE)
  /\ UNCHANGED <<pipelineVars, inbox, sent, connected, applied, why, question, asked, tries,
                 firstOfRun, saving, stored, registered, agent, queue, listening, timeUp>>

\* persist_turn: the turn with its diagram, without a diagram that is too large,
\* or nothing at all (a full conversation, a failed transaction).
Store ==
  /\ pc = "store"
  /\ pc' = "reply"
  /\ \/ saving' = "failed" /\ UNCHANGED stored
     \/ /\ saving' \in {"saved"} \cup (IF HasNewGraph THEN {"dropped"} ELSE {})
        /\ stored' = [question |-> question, answers |-> asked,
                      graph |-> IF saving' = "saved" THEN result.version ELSE 0,
                      publication |-> result.publication]
  /\ UNCHANGED <<pipelineVars, client, why, question, asked, tries, preview, firstOfRun,
                 registered, agent, queue, listening, timeUp>>

\* Mutant: a diagram that could not be stored stays on the screen.
ShowDropped == saving # "failed" /\ KeepScreen

\* The saved diagram, as new authority or in place of the preview.
ShowSaved ==
  IF saving = "saved" THEN screen' = (IF connected THEN 0 ELSE screen) /\ preview' = FALSE
  ELSE Restore

\* Mutant: a failed completion is reported as done.
NeverUnsaved == FALSE

Unsaved == saving # "saved"

Reply ==
  /\ pc = "reply"
  /\ ShowSaved
  /\ Tell("done", Unsaved)
  /\ UNCHANGED <<pipelineVars, inbox, sent, connected, applied, why, question, asked, tries,
                 firstOfRun, saving, stored, registered, agent, queue, listening, timeUp>>

\* Mutant: the stream is released before the agent has stopped.
AtOnce == TRUE

AgentDown == agent \in Finished \cup {"none"}

\* The finally block: the agent, then the receiver, then the stream record.
Teardown ==
  /\ pc = "teardown"
  /\ \/ /\ agent = "running"
        /\ agent' = "cancelled"
        /\ UNCHANGED <<pc, listening, registered>>
     \/ /\ AgentDown
        /\ pc' = "ended" /\ listening' = FALSE /\ registered' = FALSE
        /\ UNCHANGED agent
  /\ UNCHANGED <<pipelineVars, client, why, question, asked, tries, preview, firstOfRun,
                 saving, stored, queue, timeUp>>

-----------------------------------------------------------------------------
(* The agent task.                                                         *)

AgentDraws ==
  /\ agent = "running"
  /\ PipelineStep
  /\ IF step = "render" /\ step' = "review"
     THEN preview' = TRUE /\ screen' = IF connected THEN candidate.version ELSE screen
     ELSE KeepScreen
  /\ UNCHANGED <<inbox, sent, connected, told, failed, applied, pc, why, question, asked,
                 tries, firstOfRun, saving, stored, registered, agent, queue, listening,
                 timeUp>>

\* With or without a diagram; no text is an answer the loop rejects.
AgentAnswers ==
  /\ agent = "running" /\ step \in {"scope", "ended"}
  /\ agent' \in {"answered", "silent"}
  /\ UNCHANGED <<pipelineVars, client, loop, queue, listening, timeUp>>

\* A call failed, the deadline was noticed, or a send found no client; the
\* open review is closed on the way out.
AgentFails ==
  /\ agent = "running"
  /\ agent' \in {"raised", "late"}
  /\ Unwind
  /\ UNCHANGED <<minted, offered, granted, client, loop, queue, listening, timeUp>>

\* Cancelled, a cleanup of its own may still fail.
AgentUnwinds ==
  /\ agent = "cancelled"
  /\ agent' \in {"gone", "raised"}
  /\ Unwind
  /\ UNCHANGED <<minted, offered, granted, client, loop, queue, listening, timeUp>>

-----------------------------------------------------------------------------
(* The receiver task, the deadline and the client.                         *)

\* Mutant: the queue takes one command more.
LateRoom == Len(queue) <= QueueSize

Room == Len(queue) < QueueSize

\* The receiver waits while the command queue is full.
Receive ==
  /\ listening /\ inbox # << >> /\ Room
  /\ queue' = Append(queue, Head(inbox))
  /\ inbox' = Tail(inbox)
  /\ UNCHANGED <<pipelineVars, sent, connected, screen, told, failed, applied, loop, agent,
                 listening, timeUp>>

\* Mutant: the disconnect is dropped when the queue is full.
QueuedIfRoom == IF Len(queue) < QueueSize THEN Append(queue, [type |-> "disconnect"])
                ELSE queue

DrainedQueue == <<[type |-> "disconnect"]>>

ReceiverEnds ==
  /\ listening /\ ~connected /\ inbox = << >>
  /\ queue' = DrainedQueue
  /\ listening' = FALSE
  /\ UNCHANGED <<pipelineVars, client, loop, agent, timeUp>>

TimerFires ==
  /\ ~timeUp /\ pc # "ended"
  /\ timeUp' = TRUE
  /\ UNCHANGED <<pipelineVars, client, loop, agent, queue, listening>>

ClientSends(command) ==
  /\ connected /\ told = "nothing" /\ sent < MaxCommands
  /\ inbox' = Append(inbox, command)
  /\ sent' = sent + 1
  /\ UNCHANGED <<pipelineVars, connected, screen, told, failed, applied, loop, agent, queue,
                 listening, timeUp>>

ClientLeaves ==
  /\ connected /\ pc # "ended"
  /\ connected' = FALSE
  /\ UNCHANGED <<pipelineVars, inbox, sent, screen, told, failed, applied, loop, agent, queue,
                 listening, timeUp>>

-----------------------------------------------------------------------------

LoopStep ==
  \/ StartRun \/ StartTooLate \/ OnTimeout \/ OnAccept \/ OnStop \/ OnSteer
  \/ Classify \/ AgentStopped \/ OnResult \/ Store \/ Reply \/ Teardown

AgentStep == AgentDraws \/ AgentAnswers \/ AgentFails

ReceiverStep == Receive \/ ReceiverEnds

ClientStep ==
  \/ ClientLeaves
  \/ ClientSends([type |-> "steer"]) \/ ClientSends([type |-> "stop"])
  \/ \E v \in offered : ClientSends([type |-> "accept_preview", version |-> v])

Next == LoopStep \/ AgentStep \/ AgentUnwinds \/ ReceiverStep \/ TimerFires \/ ClientStep

\* asyncio runs every ready task and the input checks carry timeouts; a
\* cancelled task unwinds.  Nothing is assumed of the agent's own calls, nor that
\* the deadline passes.
Spec == Init /\ [][Next]_vars
        /\ WF_vars(LoopStep) /\ WF_vars(AgentUnwinds) /\ WF_vars(ReceiverStep)

-----------------------------------------------------------------------------
(* Properties.                                                             *)

\* A granted acceptance is never steered away: the control that holds it lives
\* until the turn is over, and a diagram stored after it is stored as accepted.
AcceptanceSurvives ==
  granted # NoAcceptance =>
    /\ control.accepted = granted
    /\ stored.graph # 0 => stored.publication = "user_accepted"

\* The stored answer was generated from every steer the stored question holds,
\* and the client was told of exactly those.
AnswerFollowsSteers ==
  stored # NoTurn =>
    /\ stored.answers = stored.question
    /\ connected => applied = stored.question

\* Once a steer is applied, no preview of an abandoned run is on the screen.
SteeringClearsPreviews ==
  pc \in {"top", "wait", "classify"} /\ connected =>
    screen = 0 \/ screen > (IF pc = "top" THEN minted ELSE firstOfRun)

\* After a stop, and after a stored turn, whether or not its diagram could be
\* kept, the last diagram sent to the client is the saved one.
SavedDiagramShown ==
  told = "stopped" \/ (told = "done" /\ stored # NoTurn) => screen = 0

\* A turn that ends without an error was stored; a diagram that was stored is
\* never reported as an error.
DoneMeansStored ==
  told = "done" => (failed <=> ~(stored # NoTurn /\ saving = "saved"))

\* Retention keeps conversations with an active stream: the record covers the
\* agent task, its cancellation included.
AgentCovered == agent \in {"running", "cancelled"} => registered

\* Once the deadline has passed the turn ends and releases its stream, whatever
\* its agent, its client and its queue were doing.
TurnEnds == timeUp ~> (pc = "ended")

\* "otherwise a full queue could leave paid work running until the timeout":
\* once the client has left, the turn ends without the help of the timer.
LeavingEndsTurn == ~connected ~> (pc = "ended")

\* What the user did while the turn ran decides what is stored: an acceptance that was
\* granted, and the steers that were acknowledged (chat_websocket.py).
CommandsAreHonoured == AcceptanceSurvives /\ AnswerFollowsSteers

\* The client is never told another story than the store: no stale preview stays, the
\* last diagram sent is the saved one, and "done" is a stored turn (chat_websocket.py).
ClientSeesTheStore == SteeringClearsPreviews /\ SavedDiagramShown /\ DoneMeansStored

\* Neither a deadline nor a client that left waits for anybody (chat_websocket.py).
TurnComesToAnEnd == TurnEnds /\ LeavingEndsTurn
=============================================================================
