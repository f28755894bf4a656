------------------------------- MODULE MCParts -------------------------------
(***************************************************************************)
(* The parts that share no state with the others, one at a time: the       *)
(* evaluation channel of DiagramEvaluation, the verdicts on messages, the  *)
(* queue of analytics events, the routing of a conversation and the runner *)
(* of browser cases.  A behaviour runs one of them and leaves the others   *)
(* as they are; a run of TLC explores each of them on its own.             *)
(***************************************************************************)
EXTENDS DiagramEvaluation, BrowserRuns, AnalyticsQueue, Conversation

VARIABLES
  part,                      \* the part that runs
  now, cache, calls, heard   \* InputVerdicts

\* Two messages, three checks of them, and room for one verdict.
Verdicts == INSTANCE InputVerdicts WITH
  Keys <- {"k", "l"}, Checks <- 1..3, TTL <- 2, Capacity <- 1, MaxTime <- 3

\* Four events, reported in this order.
Reports == 1..4

Clause(marks) ==
  [c \in {"edits", "draws", "opens", "explains", "asks", "refused", "artifact", "names",
          "target", "adds", "removes", "contextual", "supposes"} |-> c \in marks]

Words(clauses, marks) ==
  [clauses |-> [i \in DOMAIN clauses |-> Clause(clauses[i])],
   applied |-> "applied" \in marks, topic |-> "topic" \in marks,
   concept |-> "concept" \in marks, refuses |-> "refuses" \in marks,
   expands |-> "expands" \in marks, confirms |-> "confirms" \in marks,
   recalls |-> "recalls" \in marks]

\* The patterns of complexity.py find this in the words beside each message.
Sayings == {
  Words(<<{"edits", "names", "adds"}>>, {"applied", "expands"}),  \* Expand the billing service
  Words(<<{"names"}>>, {}),                                       \* The billing one
  Words(<<{}, {"asks"}>>, {"confirms"}),                          \* Yes, do it
  Words(<<{"draws", "opens"}>>, {"applied"}),                     \* Design a search platform
  Words(<<{"draws", "opens"}, {}>>, {"applied", "refuses"}),      \* ..., no diagram
  Words(<<{}>>, {}),                                              \* It must handle a million users
  Words(<<{"asks"}>>, {"concept"}),                               \* What is tokenization?
  Words(<<{"edits", "artifact", "adds", "contextual"}>>, {}),     \* Add a cache to this diagram
  Words(<<>>, {}) }                                               \* `expand the billing service`

ofVerdicts == <<now, cache, calls, heard>>

PartsInit ==
  /\ part \in {"evaluation", "verdicts", "analytics", "conversation", "browser"}
  /\ Init /\ (part = "evaluation" \/ orderly)
  /\ Verdicts!Init /\ QueueInit /\ TalkInit /\ SuiteInit

PartsNext ==
  /\ UNCHANGED part
  /\ \/ part = "evaluation" /\ Next
     \/ part # "evaluation" /\ UNCHANGED vars
  /\ \/ part = "verdicts" /\ Verdicts!Next
     \/ part # "verdicts" /\ UNCHANGED ofVerdicts
  /\ \/ part = "analytics" /\ QueueNext
     \/ part # "analytics" /\ UNCHANGED queueVars
  /\ \/ part = "conversation" /\ TalkNext
     \/ part # "conversation" /\ UNCHANGED talkVars
  /\ \/ part = "browser" /\ SuiteNext
     \/ part # "browser" /\ UNCHANGED suiteVars

\* The fairness of the parts.  All but the runner's can do nothing in their first state.
PartsSpec ==
  /\ PartsInit
  /\ [][PartsNext]_<<part, vars, ofVerdicts, queueVars, talkVars, suiteVars>>
  /\ WF_vars(Resume) /\ WF_vars(Receive) /\ QueueFairness
  /\ WF_suiteVars(part = "browser" /\ Main)
  /\ \A c \in Cases : WF_suiteVars(part = "browser" /\ Attempt(c))

-----------------------------------------------------------------------------
(* The properties of the parts.                                            *)

\* A verdict on a message that is reused is as strict as all that arrived since it is
\* kept, and as short-lived as the oldest (chat_guards.py).
ReuseIsSound == Verdicts!ReuseIsSound

\* The expansion planner is asked what the user asked for, over all the replies to the
\* question, and a continued design has all that was required of it since
\* (service_expansion_tool.py, orchestrator_node.py).
RequestsStayTheUsers == ExpansionIsTheUsers /\ DesignKeepsRequirements

\* A suite of browser cases ends (browser_runner.py).
SuiteComesToAnEnd == <>(part = "browser" => Over)
=============================================================================
