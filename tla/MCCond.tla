------------------------------- MODULE MCCond -------------------------------
(***************************************************************************)
(* Cond with goroutines that either call what they like, or keep to the    *)
(* use the comment on Cond.Wait describes: takers wait until there is an   *)
(* item, and each Put of an item is followed by a Signal outside the lock. *)
(*                                                                         *)
(* A history variable keeps, for a Signal or Broadcast that stands between *)
(* its two loads, the waiters it found as it began that nobody has         *)
(* notified since.                                                         *)
(***************************************************************************)
EXTENDS Cond

CONSTANT MaxItems   \* bound on the items of the clients

VARIABLES
  owed,
  items,
  role     \* what a goroutine has come for; "signal" after a Put

clientvars == <<items, role>>

First == CHOOSE g \in G : TRUE

\* Free goroutines; one that puts for two that take; one that takes from two.
Roles == {[g \in G |-> "free"],
          [g \in G |-> IF g = First THEN "put" ELSE "take"],
          [g \in G |-> IF g = First THEN "take" ELSE "put"]}

MCInit == Init /\ owed = [g \in G |-> {}] /\ items = 0 /\ role \in Roles

Free(g) ==
  /\ \/ role[g] = "free" /\ Call(g)
     \/ role[g] \in {"put", "take"} /\ LockL(g)
     \/ role[g] = "put" /\ items = MaxItems /\ UnlockL(g)
     \/ Waiting(g) \/ Notifying(g)
  /\ UNCHANGED clientvars

Put(g) ==
  /\ role[g] = "put" /\ items < MaxItems
  /\ UnlockL(g)
  /\ items' = items + 1
  /\ role' = [role EXCEPT ![g] = "signal"]

PutSignals(g) ==
  /\ role[g] = "signal"
  /\ Load(g, "one")
  /\ role' = [role EXCEPT ![g] = "put"]
  /\ UNCHANGED items

Take(g) ==
  /\ role[g] = "take" /\ items > 0
  /\ UnlockL(g)
  /\ items' = items - 1
  /\ UNCHANGED role

TakeWaits(g) ==
  /\ role[g] = "take" /\ items = 0
  /\ Timely /\ Add(g)
  /\ UNCHANGED clientvars

WaitersNow == {g \in G : Unnotified(g)}

Loading(g) == pc[g] \in {"one", "all"}

MCNext ==
  /\ \E g \in G : Free(g) \/ Put(g) \/ PutSignals(g) \/ Take(g) \/ TakeWaits(g)
  /\ owed' = [g \in G |->
       IF pc[g] = "out" /\ Loading(g)' THEN WaitersNow
       ELSE IF Loading(g)' THEN owed[g] \cap WaitersNow' ELSE {}]

mcvars == <<vars, owed, clientvars>>

MCSpec == MCInit /\ [][MCNext]_mcvars /\ Fairness

\* A Signal or Broadcast that does nothing on its fast path.
GivesUp(g) == Loading(g) /\ pc'[g] = "out"

(* A Signal or Broadcast returns on its fast path, decided by two loads    *)
(* that other calls may come between, only when whoever waited as it began *)
(* has been notified.                                                      *)
FastPathCovers ==
  [][\A g \in G : GivesUp(g) => owed[g] = {}]_<<vars, owed>>

\* Signals that have not taken effect, and takers that have been woken.
SignalsComing == {g \in G : role[g] = "signal" \/ pc[g] \in {"one", "oneLocked"}}
TakersComing ==
  {g \in G : \/ pc[g] = "hold" /\ role[g] = "take"
             \/ /\ pc[g] \in {"added", "enter", "asleep", "woken", "relock"}
                /\ ~Unnotified(g)}

(* While a client waits, there is a signal or a woken taker for every      *)
(* item: nobody sleeps beside an item that is left for it.                 *)
NoItemForgotten ==
  (\E g \in G : Unnotified(g)) =>
    items <= Cardinality(SignalsComing) + Cardinality(TakersComing)
=============================================================================
