------------------------------ MODULE CondVar ------------------------------
(***************************************************************************)
(* What sync.Cond promises: goroutines wait in the order in which they     *)
(* called Wait; a Signal ends the wait of the first one, a Broadcast of    *)
(* all, and nothing else ends a wait.                                      *)
(***************************************************************************)
EXTENDS Sequences, SequencesExt

CONSTANT G

VARIABLES
  waiters,  \* those whom no Signal or Broadcast has reached, in order
  inWait    \* goroutines in Wait

Init == waiters = <<>> /\ inWait = {}

Add(g) ==
  /\ g \notin inWait
  /\ waiters' = Append(waiters, g)
  /\ inWait' = inWait \cup {g}

NotifyOne == waiters # <<>> /\ waiters' = Tail(waiters) /\ UNCHANGED inWait

NotifyAll == waiters' = <<>> /\ UNCHANGED inWait

Return(g) ==
  /\ g \in inWait /\ ~Contains(waiters, g)
  /\ inWait' = inWait \ {g}
  /\ UNCHANGED waiters

Next == NotifyOne \/ NotifyAll \/ \E g \in G : Add(g) \/ Return(g)

Spec == Init /\ [][Next]_<<waiters, inWait>>
=============================================================================
