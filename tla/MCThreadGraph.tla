--------------------------- MODULE MCThreadGraph ---------------------------
(***************************************************************************)
(* Instances of ThreadGraph for TLC.  Up to four chat requests, the first   *)
(* sent twice (a retry racing its original); all diagrams share nodes.     *)
(***************************************************************************)
EXTENDS ThreadGraph, TLC

CONSTANTS c1, c2, l1, a1, a2, a3, a4, q1, q2, q3, t1, t2

OneSentTwice == (a1 :> q1) @@ (a2 :> q1) @@ (a3 :> q2) @@ (a4 :> q3)
MCRelated    == {<<c1, c2>>, <<c2, c1>>, <<c1, c1>>, <<c2, c2>>}
\* The diagram c2 with a saved layout is over the size limit.
LargeWithLayout == {<<c2, l1>>}

-----------------------------------------------------------------------------
(* One run explores three scenes of a conversation, each with room for what *)
(* it is about:                                                            *)
(*   "requests"  four chat requests, two of them copies of one, race for   *)
(*               the last places of a conversation; one may draw its first *)
(*               diagram;                                                  *)
(*   "branches"  two parallel generations, and a tab that edits, restores  *)
(*               and saves layouts, from no diagram or one with a version;  *)
(*   "rollout"   one generation, a tab, and an earlier release that writes *)
(*               the same conversation.                                    *)

VARIABLE scene

Idle(S) == \A a \in S : phase[a] = "idle"

\* What a scene has room for.  In the rollout the last version is for a tab that may be
\* stale against it.
InScene ==
  CASE scene = "requests" -> /\ graph.version <= 1 /\ graph.content # c2
                             /\ graph.layout = NoLayout /\ Len(revisions) <= 1
                             /\ tab[t1].content = NoContent
    [] scene = "branches" -> Idle({a2, a4}) /\ Len(minted) <= 4 /\ Len(revisions) <= 5
    [] scene = "rollout"  -> /\ Idle({a2, a3, a4})
                             /\ Len(minted) <= 3 /\ Len(revisions) <= 3
                             /\ Len(minted) = 3 => tab[t1].content # NoContent

SceneInit ==
  /\ Init /\ scene \in {"requests", "branches", "rollout"}
  /\ scene = "requests" => graph = NoGraph
  /\ scene = "branches" => graph # LegacyGraph(0)

SceneNext ==
  /\ Next
  /\ UNCHANGED scene
  /\ OldWriterStep => scene = "rollout"
  /\ InScene'

SceneSpec == SceneInit /\ [][SceneNext]_<<vars, scene>>
=============================================================================
