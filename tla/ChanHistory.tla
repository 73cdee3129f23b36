---------------------------- MODULE ChanHistory ----------------------------
(***************************************************************************)
(* Chan with a history variable: whether the call a goroutine is in has    *)
(* met a moment at which it could not proceed.                             *)
(***************************************************************************)
EXTENDS Chan

VARIABLE stuck

Stuck(g) ==
  /\ op[g] # None /\ result[g] = None
  /\ \A i \in Cases(g) : ~CanProceed(g, i)

HistoryInit == Init /\ stuck = [g \in G |-> FALSE]

HistoryNext ==
  /\ Next
  /\ stuck' = [g \in G |-> op'[g] # None /\ ~op'[g].block /\ (stuck[g] \/ Stuck(g))]

HistorySpec == HistoryInit /\ [][HistoryNext]_<<vars, stuck>>

TakesDefault(g) == result[g] # None /\ result[g].how = "default"

(* The language specification on select: a communication that can proceed  *)
(* is chosen, and only otherwise the default case.  So a call that takes   *)
(* it was unable to proceed at some moment since it began.                 *)
DefaultJustified == \A g \in G : TakesDefault(g) => stuck[g]

\* A send that does not block, on a channel without a buffer that has been
\* closed.
SendsAtClose(g) ==
  LET c == ChanOf(g, 1) IN
  op[g].kind = "chan" /\ Sends(g, 1) /\ Cap[c] = 0 /\ ch[c].closed

(* The fast paths decide it from two reads that are not made at one        *)
(* moment, and yet that moment exists, with one exception: a close that    *)
(* comes between the reads dequeues the receivers of a channel without a   *)
(* buffer, so that a send finds it open first and then without a receiver. *)
DefaultUnlessClosed ==
  \A g \in G : TakesDefault(g) => stuck[g] \/ SendsAtClose(g)
=============================================================================
