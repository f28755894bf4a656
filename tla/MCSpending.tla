----------------------------- MODULE MCSpending -----------------------------
(***************************************************************************)
(* What an evaluation spends, one part at a time: the calls it makes        *)
(* (ProviderCalls), and the live gate that judges its cases (LiveGate), with *)
(* two cases and every account of their threads that two calls can come to. *)
(***************************************************************************)
EXTENDS LiveGate, ProviderCalls

VARIABLE part  \* the part that runs: "gate" or "calls"

Threads == {"t1", "t2", "nobody's"}

\* Who ran which thread: as it should be; one case none; one thread in both.
MCThreadSets == {<<{"t1"}, {"t2"}>>, <<{"t1"}, {}>>, <<{"t1", "t2"}, {"t2"}>>}

Good == [usable |-> TRUE, complete |-> TRUE]

AttemptLists ==
  {<<>>, <<Good>>, <<Good, Good>>} \cup {<<a>> : a \in Attempts}
  \cup {<<Good, a>> : a \in Attempts}

AnyCalls == {[thread |-> t, search |-> s, complete |-> c, attempts |-> a] :
            t \in Threads, s \in {"ok", "invalid"}, c \in BOOLEAN, a \in AttemptLists}

\* A call with at most one fault.
CommonCalls == {k \in AnyCalls : k.search = "ok" \/ (k.complete /\ k.attempts = <<Good>>)}

Sound(t) == [thread |-> t, search |-> "ok", complete |-> TRUE, attempts |-> <<Good>>]

MCTelemetries == {<<>>} \cup {<<k>> : k \in CommonCalls}
                 \cup {<<Sound(t), k>> : t \in {"t1", "t2"}, k \in CommonCalls}

\* Sound, dear, too many calls, incomplete, and a call that cannot be priced.
MCFreshTelemetries ==
  {<<Sound("t1"), Sound("t2")>>} \cup
  {<<Sound("t1"), [Sound("t2") EXCEPT !.attempts = a]>> :
     a \in {<<Good, Good>>, <<[usable |-> TRUE, complete |-> FALSE]>>,
           <<[usable |-> FALSE, complete |-> TRUE]>>}}
  \cup {<<[Sound("t1") EXCEPT !.attempts = <<Good, Good>>],
          [Sound("t2") EXCEPT !.attempts = <<Good, Good>>]>>}

SpendingInit ==
  /\ part \in {"gate", "calls"} /\ Init /\ CallsInit
  /\ part = "calls" => review = "blocking"

SpendingNext ==
  /\ UNCHANGED part
  /\ \/ part = "gate" /\ Next /\ UNCHANGED callVars
     \/ part = "calls" /\ CallsNext /\ UNCHANGED vars

SpendingSpec == SpendingInit /\ [][SpendingNext]_<<part, vars, callVars>>
=============================================================================
