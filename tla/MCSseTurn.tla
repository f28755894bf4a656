----------------------------- MODULE MCSseTurn -----------------------------
(***************************************************************************)
(* SseTurn on a request, a repetition of it, a retry of its failed         *)
(* generation with three steering updates, and a request of another tab.   *)
(***************************************************************************)
EXTENDS SseTurn

MCIdOf == <<"a", "a", "b", "c">>
MCSources == <<"none", "none", "a", "none">>
MCUpdates == <<0, 0, 3, 0>>
MCTextOf == <<"text 1", "text 2", "text 3", "text 4">>
MCGraphOf == <<"diagram 1", "diagram 2", "diagram 3", "diagram 4">>

\* A repeated and a doubled first diagram, the second in the last place of a conversation;
\* two tabs that extend one diagram; a follow-up with a search on offer, and its retry.
MCStarts ==
  {[room |-> 2, saved |-> "no graph", action |-> "new", searches |-> FALSE, sends |-> {1, 2}],
   [room |-> 1, saved |-> "no graph", action |-> "new", searches |-> FALSE, sends |-> {1, 4}],
   [room |-> 2, saved |-> "known", action |-> "extend", searches |-> FALSE, sends |-> {1, 4}],
   [room |-> 2, saved |-> "known", action |-> "extend", searches |-> TRUE, sends |-> {1, 3}]}
=============================================================================
