------------------------------- MODULE MCChan -------------------------------
(***************************************************************************)
(* The calls goroutines make in the runs of module Chan: on a channel with *)
(* a buffer of one and one without; on one channel with a buffer of two;   *)
(* or a send that does not block on a channel without a buffer that        *)
(* another goroutine receives from and a third closes.                     *)
(***************************************************************************)
EXTENDS ChanHistory, TLC

CONSTANTS
  c1, c2, c3, v1, v2,
  Scenes   \* the sets of calls, one of which a behaviour makes

VARIABLE scene   \* the calls of this behaviour

To(x, v) == [chan |-> x, send |-> TRUE, val |-> v]
From(x) == [chan |-> x, send |-> FALSE, val |-> Zero]

Single(case, block) == [kind |-> "chan", cases |-> <<case>>, block |-> block]
Select(cases) == [kind |-> "select", cases |-> cases, block |-> TRUE]
Poll(cases) == [kind |-> "select", cases |-> cases, block |-> FALSE]
Closing(x) == [kind |-> "close", cases |-> <<From(x)>>, block |-> TRUE]

SingleOps ==
  {Single(To(c3, v1), TRUE), Single(To(c3, v2), FALSE), Single(From(c3), TRUE),
   Single(From(c3), FALSE), Closing(c3)}

SelectOps ==
  {Single(To(c1, v1), TRUE), Single(From(c2), TRUE), Single(From(c2), FALSE),
   Select(<<From(c2), From(c1)>>), Select(<<From(c1), To(c2, v1)>>),
   Select(<<To(c2, v1), From(c2)>>), Poll(<<To(c2, v1), From(c1)>>), Closing(c1)}

CloseOps == {Single(To(c2, v1), FALSE), Single(From(c2), TRUE), Closing(c2)}

AllOps == SingleOps \cup SelectOps \cup CloseOps
AllScenes == {SingleOps, SelectOps, CloseOps}
CloseScene == {CloseOps}

Capacities == c1 :> 1 @@ c2 :> 0 @@ c3 :> 2
Addresses == c1 :> 1 @@ c2 :> 2 @@ c3 :> 3

Goroutines == Permutations(G)

-----------------------------------------------------------------------------
SceneInit == HistoryInit /\ scene \in Scenes

SceneNext ==
  /\ HistoryNext
  /\ \A g \in G : op'[g] \in scene \cup {None}
  /\ UNCHANGED scene

SceneSpec == SceneInit /\ [][SceneNext]_<<vars, stuck, scene>>
=============================================================================
