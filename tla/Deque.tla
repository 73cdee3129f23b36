------------------------------- MODULE Deque -------------------------------
(***************************************************************************)
(* What poolChain promises sync.Pool: its owner pushes and pops at the     *)
(* head, others pop at the tail.  No value is lost or handed out twice.    *)
(* Only the owner's answer that there is nothing means that there is       *)
(* nothing; the others may come away empty-handed from a queue that is     *)
(* changing.                                                               *)
(***************************************************************************)
EXTENDS Sequences, SequencesExt

CONSTANTS
  Owner, Thieves,
  Value,
  Nothing,  \* the answer of a pop that finds no value
  None      \* no answer yet, or one that has been taken

VARIABLES
  queue,    \* tail first
  got       \* what the last call of each has returned

vars == <<queue, got>>

Init == queue = <<>> /\ got = [t \in Thieves \cup {Owner} |-> None]

Push(v) == queue' = Append(queue, v) /\ UNCHANGED got

PopHead ==
  \/ /\ queue # <<>>
     /\ queue' = Front(queue)
     /\ got' = [got EXCEPT ![Owner] = Last(queue)]
  \/ /\ queue = <<>>
     /\ got' = [got EXCEPT ![Owner] = Nothing]
     /\ UNCHANGED queue

PopTail(t) ==
  \/ /\ queue # <<>>
     /\ queue' = Tail(queue)
     /\ got' = [got EXCEPT ![t] = Head(queue)]
  \/ /\ got' = [got EXCEPT ![t] = Nothing]
     /\ UNCHANGED queue

\* A new call: the answer of the last one has been taken.
Forget(t) == got' = [got EXCEPT ![t] = None] /\ UNCHANGED queue

Next ==
  \/ (\E v \in Value : Push(v)) \/ PopHead
  \/ \E t \in Thieves : PopTail(t)
  \/ \E t \in Thieves \cup {Owner} : Forget(t)

Spec == Init /\ [][Next]_vars
=============================================================================
