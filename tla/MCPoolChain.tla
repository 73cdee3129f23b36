---------------------------- MODULE MCPoolChain ----------------------------
(***************************************************************************)
(* PoolChain with a history variable: whether the call of a consumer has   *)
(* met an empty queue or a new ring.                                       *)
(***************************************************************************)
EXTENDS PoolChain, TLC

VARIABLE met

HistoryInit == Init /\ met = [t \in Thieves |-> TRUE]

HistoryNext ==
  /\ Next
  /\ met' = [t \in Thieves |->
       IF (At(t, "out") /\ val[t] # Nothing)' THEN TRUE
       ELSE IF At(t, "out") /\ At(t, "out")' THEN met[t]
       ELSE (~At(t, "out") /\ met[t]) \/ Queue = <<>> \/ Queue' = <<>>
            \/ Len(rings') # Len(rings)]

HistorySpec == HistoryInit /\ [][HistoryNext]_<<vars, met>>

(* A consumer comes away empty-handed only if the queue was empty at some  *)
(* moment of its call, or the producer has begun another ring since.       *)
NothingJustified ==
  \A t \in Thieves : At(t, "out") /\ val[t] = Nothing => met[t]

(* The rings and the chain implement the queue that module Deque promises. *)
Abstract == INSTANCE Deque WITH queue <- Queue, got <- [t \in T |-> Got(t)]

Implements == Abstract!Spec

Symmetry == Permutations(Thieves) \cup Permutations(Value)
=============================================================================
