--------------------------- MODULE Conversation ---------------------------
(***************************************************************************)
(* What a message of a conversation is taken to ask for: the check before  *)
(* it is sent (agent/complexity.py), the turn's prelude (agent/graph.py)   *)
(* and the orchestrator's routing with the service expansion dialogue      *)
(* (agent/nodes/orchestrator_node.py, agent/tools/service_expansion_tool). *)
(* They read the stored messages and the diagram of the moment; words are  *)
(* abstracted to what the patterns find in them.                           *)
(***************************************************************************)
EXTENDS Naturals, Sequences, FiniteSetsExt

CONSTANTS
  Messages,   \* what users write: see Message
  MaxTurns,   \* bound on stored turns
  MaxVersion  \* bound on changes of the diagram

\* A clause of a message, by the patterns that match it: each is a Boolean.
ClauseMarks == {"edits", "draws", "opens", "explains", "asks", "refused", "artifact",
                "names", "target", "adds", "removes", "contextual", "supposes"}
Message == [clauses : Seq([ClauseMarks -> BOOLEAN]), applied : BOOLEAN, topic : BOOLEAN,
            concept : BOOLEAN, refuses : BOOLEAN, expands : BOOLEAN, confirms : BOOLEAN,
            recalls : BOOLEAN]

VARIABLES
  history,  \* the thread's messages: [role, text]
  diagram,  \* the saved diagram: [kind, version]
  pending,  \* a message on its way: [msg, action, version], or Nothing
  routed,   \* what the last turn was taken to ask for, or Nothing
  exchange,    \* history: the user's messages of an open question about services
  design    \* history: the user's messages about the system being designed

talkVars == <<history, diagram, pending, routed, exchange, design>>

Nothing == [nothing |-> TRUE]
Kinds == {"none", "lesson", "services"}  \* no diagram, not of a system, with a service

TalkInit ==
  /\ history = << >> /\ diagram = [kind |-> "none", version |-> 0]
  /\ pending = Nothing /\ routed = Nothing
  /\ exchange = << >> /\ design = << >>

-----------------------------------------------------------------------------
(* Intent of a message (complexity.py).                                    *)

\* Quoted text is removed first: a message of nothing else has no clause left.
Blank(m) == m.clauses = << >>

Some(m, P(_)) == \E i \in DOMAIN m.clauses : P(m.clauses[i])
Current(c, kind) == c.artifact \/ (c.names /\ kind # "none")

Designs(m) == {c \in {m.clauses[i] : i \in DOMAIN m.clauses} :
  c.draws /\ ~c.explains /\ (~c.asks \/ c.opens) /\ ~c.refused}
Mutations(m) == {c \in {m.clauses[i] : i \in DOMAIN m.clauses} :
  c.edits /\ ~c.explains /\ ~c.asks /\ ~c.refused}

\* resolve_graph_operation.
Operation(m, kind) ==
  LET edit == \E c \in Mutations(m) : Current(c, kind) \/ c.target
      talk == m.topic \/ m.concept \/ (~Blank(m) /\ Head(m.clauses).asks)
              \/ Some(m, LAMBDA c : c.explains)
      current == Some(m, LAMBDA c : Current(c, kind))
  IN  CASE Blank(m) \/ (talk /\ Designs(m) = {} /\ ~edit) -> "none"
        [] OTHER ->
             IF m.applied /\ \E c \in Designs(m) : ~Current(c, kind) THEN "create"
             ELSE IF \E c \in Designs(m) : Current(c, kind) THEN "edit"
             ELSE IF kind = "none" /\ m.applied /\ ~current THEN "create"
             ELSE IF edit THEN "edit" ELSE "none"

\* is_graph_extension_request.
Extends(m, kind) ==
  LET eligible == SelectSeq(m.clauses, LAMBDA c : ~c.refused /\ ~c.explains)
      Alone(c) == [m EXCEPT !.clauses = <<c>>]
  IN  /\ kind # "none" /\ ~m.refuses /\ Operation(m, kind) # "create"
      /\ \A i \in DOMAIN eligible : ~eligible[i].removes
      /\ \E i \in DOMAIN eligible :
           LET c == eligible[i]
           IN  /\ ~c.asks \/ c.supposes
               /\ c.adds
               /\ c.contextual \/ Operation(Alone(c), kind) = "edit"

\* diagram_submission_action.
SubmissionAction(m, kind) ==
  CASE m.refuses -> "answer"
    [] ~m.refuses /\ kind # "none" /\ Operation(m, kind) = "create" -> "new_chat"
    [] OTHER ->
         IF Extends(m, kind) THEN "extend"
         ELSE IF Operation(m, kind) # "none" THEN "send"
         ELSE IF kind = "none" THEN "send"
         ELSE IF m.concept \/ (~Blank(m) /\ Head(m.clauses).explains) THEN "answer"
         ELSE "ask"

-----------------------------------------------------------------------------
(* A message is checked, and the user chooses where the check asks; a      *)
(* message for a new chat leaves this conversation.                        *)

Chosen(m) ==
  LET action == SubmissionAction(m, diagram.kind)
  IN  IF action = "ask" THEN {"extend", "answer"} ELSE {action} \ {"new_chat"}

GraphAction(action) ==
  IF action \in {"extend", "answer"} THEN action
  ELSE IF diagram.kind = "none" THEN "new" ELSE "none"

SubmitMessage ==
  /\ pending = Nothing /\ Len(history) < 2 * MaxTurns
  /\ \E m \in Messages : \E action \in Chosen(m) :
       pending' = [msg |-> m, action |-> GraphAction(action), version |-> diagram.version]
  /\ routed' = Nothing
  /\ UNCHANGED <<history, diagram, exchange, design>>

\* Other tabs edit, undo and restore.
ChangeDiagram ==
  /\ diagram.version < MaxVersion
  /\ \E kind \in Kinds : diagram' = [kind |-> kind, version |-> diagram.version + 1]
  /\ routed' = Nothing
  /\ UNCHANGED <<history, pending, exchange, design>>

\* graph_continuity_error: it refuses the turn before anything is stored.
Discontinuous ==
  CASE pending.action = "extend" ->
         diagram.kind = "none" \/ pending.version # diagram.version
    [] pending.action = "new" -> diagram.kind # "none"
    [] pending.action = "answer" -> FALSE
    [] OTHER -> diagram.kind # "none" /\ Operation(pending.msg, diagram.kind) = "create"

Refused ==
  /\ pending # Nothing /\ Discontinuous
  /\ pending' = Nothing /\ routed' = Nothing
  /\ UNCHANGED <<history, diagram, exchange, design>>

-----------------------------------------------------------------------------
(* service_expansion_request.                                              *)

Said(i) == history[i].role = "user"
Question(i) == history[i].role = "assistant" /\ history[i].text = "question"
N == Len(history)

Users(i) == LET talk == SubSeq(history, i, N)
                said == SelectSeq(talk, LAMBDA e : e.role = "user")
            IN  [j \in DOMAIN said |-> said[j].text]

\* Mutant: the walk goes on over answers that are not the question.
AnyExchange(i) == \A j \in i..N : (j - i) % 2 = 1 \/ Said(j)

\* From message i on the thread alternates between the user and the question.
Exchange(i) == \A j \in i..N : IF (j - i) % 2 = 0 THEN Said(j) ELSE Question(j)

Openers == {i \in 1..N : (N - i) % 2 = 1 /\ Exchange(i) /\ history[i].text.expands}

\* Mutant: the replies come latest first.
LatestFirst(m) ==
  LET users == Users(Max(Openers))
  IN  <<users[1], m>> \o [j \in 1..(Len(users) - 1) |-> users[Len(users) + 1 - j]]

\* The original request, the earlier replies in order, and this one.
Resumed(m) == Append(Users(Max(Openers)), m)

LastUser == LET users == {i \in 1..N : Said(i)}
            IN  IF users = {} THEN << >> ELSE <<history[Max(users)].text>>

\* Mutant: a confirmation continues the last expansion there was.
AnyExpansion ==
  LET users == {i \in 1..N : Said(i) /\ history[i].text.expands}
  IN  IF users = {} THEN << >> ELSE <<history[Max(users)].text>>

Confirmed == IF LastUser # << >> /\ LastUser[1].expands THEN LastUser ELSE << >>

ExpansionRequest(m) ==
  IF diagram.kind # "services" THEN << >>
  ELSE IF m.expands THEN <<m>>
  ELSE IF N > 0 /\ Question(N) THEN IF Openers = {} THEN << >> ELSE Resumed(m)
  ELSE IF m.confirms THEN Confirmed ELSE << >>

(* _continued_design_query.                                                *)

Explains(m) == m.concept \/ m.topic

\* Mutant: a question in between does not close the design.
NeverCloses(m) == FALSE

Closes(m) == ~m.applied /\ Explains(m)

ContinuedDesign(m) ==
  LET starts == {i \in 1..N : /\ Said(i) /\ history[i].text.applied
                              /\ \A j \in (i + 1)..N : Said(j) => ~Closes(history[j].text)}
  IN  IF m.applied \/ Explains(m) \/ starts = {} THEN << >>
      ELSE Append(SelectSeq(Users(Max(starts)), LAMBDA u : u.applied \/ ~Blank(u)), m)

-----------------------------------------------------------------------------
(* run_agent's prelude, and orchestrator_route.                            *)

Off(m, action) == action = "answer" \/ m.refuses

Action(m, action) ==
  IF action = "none" /\ ~Off(m, action) /\ Extends(m, diagram.kind) THEN "extend" ELSE action

\* Mutant: what was asked for as an answer is drawn all the same.
PreludeIgnoresChoice(m, action) ==
  IF action = "extend" THEN "edit" ELSE IF diagram.kind = "none" THEN "create"
  ELSE Operation(m, diagram.kind)

Intent(m, action) ==
  IF Off(m, action) THEN "none" ELSE IF action = "extend" THEN "edit"
  ELSE IF action = "new" \/ diagram.kind = "none" THEN "create"
  ELSE Operation(m, diagram.kind)

\* The prelude asks back, and the turn is over.
AsksBack(m, action) ==
  \/ Intent(m, action) = "create" /\ diagram.kind # "none"
  \/ Intent(m, action) = "edit" /\ action = "extend" /\ diagram.kind = "none"

\* "Start a new chat for a different diagram, or extend the saved diagram?"
Replaces(intent) == intent = "create" /\ diagram.kind # "none"

Tokens == {"DESIGN", "SIMPLE", "MEMORY", "SEARCH"}

\* The plan: it fails or is unclear, is about something else, or has targets.
Plans == {"question", "other", "expand"}

Route(m, action, plan, token) ==
  LET request == ExpansionRequest(m)
      planned == request # << >> /\ action # "new"
      local == IF Intent(m, action) # "none" THEN Intent(m, action)
               ELSE Operation(m, diagram.kind)
      memory == m.recalls /\ N > 0
      continued == IF (local = "create" /\ diagram.kind = "none")
                      \/ (local = "none" /\ ~memory /\ ~m.applied
                          /\ token = "DESIGN" /\ ~Off(m, action))
                   THEN ContinuedDesign(m) ELSE << >>
      expand == planned /\ plan = "expand"
      \* A token DESIGN with a design to continue asks for one.
      intent == IF expand THEN IF Off(m, action) THEN "none" ELSE "edit"
                ELSE IF local = "none" /\ continued # << >> THEN "create"
                ELSE Intent(m, action)
  IN  IF planned /\ plan = "question"
      THEN [plan |-> request, query |-> << >>, intent |-> "none", answer |-> "question",
            continues |-> FALSE]
      ELSE [plan |-> IF planned THEN request ELSE << >>,
            query |-> IF expand THEN << >> ELSE continued,
            continues |-> ~expand /\ continued # << >>,
            intent |-> IF Replaces(intent) THEN "none" ELSE intent, answer |-> "answer"]

AskedBack == [plan |-> << >>, query |-> << >>, intent |-> "none", answer |-> "answer",
              continues |-> FALSE]

-----------------------------------------------------------------------------
(* A turn: it is stored with what it answered or with its failure, or the  *)
(* process ends first and nothing is stored.                               *)

\* What the user has asked for, by what was said to the user.
Wanted(m) ==
  IF m.expands THEN <<m>>
  ELSE IF exchange # << >> THEN Append(exchange, m)
  ELSE IF m.confirms /\ LastUser # << >> /\ LastUser[1].expands THEN LastUser ELSE << >>

\* A question that follows a confirmation is not tied to the request before it.
Opened(m) == IF ~m.expands /\ exchange = << >> THEN << >> ELSE Wanted(m)

Developed(m) ==
  IF m.applied THEN <<m>> ELSE IF Explains(m) THEN << >>
  ELSE IF design = << >> \/ Blank(m) THEN design ELSE Append(design, m)

Stored(m, answer) ==
  /\ history' = history \o <<[role |-> "user", text |-> m], [role |-> "assistant", text |-> answer]>>
  /\ exchange' = IF answer = "question" THEN Opened(m) ELSE << >>
  /\ design' = Developed(m)

Turn ==
  /\ pending # Nothing /\ ~Discontinuous
  /\ \E plan \in Plans, token \in Tokens :
       LET m == pending.msg
           action == Action(m, pending.action)
           route == IF AsksBack(m, action) THEN AskedBack ELSE Route(m, action, plan, token)
       IN  /\ routed' = [route |-> route, msg |-> m, action |-> action, kind |-> diagram.kind,
                         owed |-> IF diagram.kind # "services" \/ action = "new" THEN << >>
                                  ELSE Wanted(m),
                         due |-> IF m.applied \/ Explains(m) \/ design = << >> THEN << >>
                                 ELSE Append(design, m)]
           /\ \/ Stored(m, route.answer)
              \/ Stored(m, "answer")
              \/ UNCHANGED <<history, exchange, design>>
  /\ pending' = Nothing
  /\ UNCHANGED diagram

TalkNext == SubmitMessage \/ ChangeDiagram \/ Refused \/ Turn

TalkSpec == TalkInit /\ [][TalkNext]_talkVars

-----------------------------------------------------------------------------
(* Properties.                                                             *)

TalkTypeOK ==
  /\ \A i \in DOMAIN history : history[i].role \in {"user", "assistant"}
  /\ diagram \in [kind : Kinds, version : 0..MaxVersion]
  /\ \A i \in DOMAIN exchange : exchange[i] \in Messages
  /\ \A i \in DOMAIN design : design[i] \in Messages

\* The planner is asked about what the user asked for and about nothing else: a reply
\* to the question carries the original request and every reply since, in order; once
\* something else was answered, failed or stopped in between, nothing is resumed.
ExpansionIsTheUsers == routed # Nothing => routed.route.plan = routed.owed

\* A design that is continued is the latest one, with everything the user has required
\* of it since and nothing said before it; a question on a new topic closes it.
DesignKeepsRequirements ==
  routed # Nothing =>
    /\ routed.route.continues => routed.route.query = routed.due
    /\ routed.route.intent = "create" => routed.route.query = routed.due

\* Whatever the other tabs did since the message was checked, a turn creates no diagram
\* over a saved one, edits none where there is none, and draws nothing for a user who
\* chose an answer or refused a diagram.
DrawsOnlyWhenAllowed ==
  routed # Nothing /\ routed.route.intent # "none" =>
    /\ routed.action # "answer" /\ ~routed.msg.refuses
    /\ routed.route.intent = "create" <=> routed.kind = "none"
=============================================================================
