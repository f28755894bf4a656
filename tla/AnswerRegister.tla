--------------------------- MODULE AnswerRegister ---------------------------
(***************************************************************************)
(* What the chat transports promise about a request id: the conversation   *)
(* keeps at most one answer for it, once and for all, and whoever is told  *)
(* that a request with this id is done is told this answer, however often  *)
(* the request is repeated and however its repetitions race.               *)
(*                                                                         *)
(* Abstract: SseTurn, with all its streams, agents, replays and crashes,   *)
(* is checked to implement this specification.                             *)
(***************************************************************************)
CONSTANTS
  Attempts,  \* chat requests reaching the server
  Ids,       \* client_request_id values
  IdOf,      \* the id each attempt carries
  Answers,   \* what can be answered
  NoAnswer

VARIABLES
  stored,  \* the answer of each id
  told     \* the answer each attempt was told, once it was told that it is done

vars == <<stored, told>>

Init ==
  /\ stored = [id \in Ids |-> NoAnswer]
  /\ told = [r \in Attempts |-> NoAnswer]

\* An attempt commits an answer; its client may be gone.
Store(id, answer) ==
  /\ stored[id] = NoAnswer
  /\ stored' = [stored EXCEPT ![id] = answer]

\* An attempt is done: what it tells is the answer stored by now.
Tell(r) ==
  /\ told[r] = NoAnswer
  /\ stored'[IdOf[r]] # NoAnswer
  /\ told' = [told EXCEPT ![r] = stored'[IdOf[r]]]

Next ==
  \E r \in Attempts :
    \/ \E answer \in Answers : Store(IdOf[r], answer) /\ UNCHANGED told
    \/ UNCHANGED stored /\ Tell(r)
    \/ \E answer \in Answers : Store(IdOf[r], answer) /\ Tell(r)

Spec == Init /\ [][Next]_vars
=============================================================================
