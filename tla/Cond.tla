-------------------------------- MODULE Cond --------------------------------
(***************************************************************************)
(* sync.Cond (sync/cond.go) with its notifyList (runtime/sema.go), on the  *)
(* abstract Lock for c.L.  Wait draws a ticket before it unlocks c.L, and  *)
(* only then goes to the list, unless its ticket has been notified in the  *)
(* meantime.  Tickets are counters of fixed width that wrap around.        *)
(*                                                                         *)
(* Signal and Broadcast are called without c.L, which allows every         *)
(* interleaving that calling them with c.L allows.                         *)
(***************************************************************************)
EXTENDS Integers, FiniteSets, Sequences, SequencesExt

CONSTANTS
  G,         \* goroutines
  NoG,       \* "nobody"
  Tickets    \* the number of tickets, 2^32 in the code

ASSUME CondAssumption ==
  /\ NoG \notin G
  /\ Tickets \in Nat \ {0} /\ Tickets % 2 = 0
  /\ IsFiniteSet(G) /\ Cardinality(G) <= Tickets \div 2

VARIABLES
  holder, wants,   \* c.L
  wait, notify,    \* the next ticket to draw, and to notify
  list,            \* the parked waiters: [g, ticket]
  pc,
  t,               \* the ticket of a Wait, or the wait a notifier has loaded
  ready            \* the waiters a notifier has taken off and is to ready

L == <<holder, wants>>
vars == <<L, wait, notify, list, pc, t, ready>>

Lk == INSTANCE Lock

CondPC == {"out", "lock", "hold", "added", "enter", "asleep", "woken", "relock",
           "one", "oneLocked", "all", "allLocked", "ready"}

Init ==
  /\ Lk!Init
  /\ wait = 0 /\ notify = 0
  /\ list = <<>>
  /\ pc = [g \in G |-> "out"]
  /\ t = [g \in G |-> 0]
  /\ ready = [g \in G |-> <<>>]

Goto(g, from, to) == pc[g] = from /\ pc' = [pc EXCEPT ![g] = to]

After(a) == (a + 1) % Tickets

\* less: the sign of the difference, as a signed integer of the same width.
Less(a, b) == (a - b) % Tickets >= Tickets \div 2

-----------------------------------------------------------------------------
(* The caller's Lock and Unlock of c.L.                                    *)

LockL(g) ==
  /\ \/ Lk!Request(g) /\ Goto(g, "out", "lock")
     \/ Lk!Acquire(g) /\ Goto(g, "lock", "hold")
  /\ UNCHANGED <<wait, notify, list, t, ready>>

UnlockL(g) ==
  /\ Lk!Release(g)
  /\ Goto(g, "hold", "out")
  /\ UNCHANGED <<wait, notify, list, t, ready>>

-----------------------------------------------------------------------------
(* Wait.                                                                   *)

Add(g) ==
  /\ Goto(g, "hold", "added")
  /\ t' = [t EXCEPT ![g] = wait]
  /\ wait' = After(wait)
  /\ UNCHANGED <<L, notify, list, ready>>

WaitUnlock(g) ==
  /\ Lk!Release(g)
  /\ Goto(g, "added", "enter")
  /\ UNCHANGED <<wait, notify, list, t, ready>>

\* Slip: nobody looks whether the ticket has been notified.
ListWaitBlind(g) ==
  /\ Goto(g, "enter", "asleep")
  /\ list' = Append(list, [g |-> g, ticket |-> t[g]])
  /\ UNCHANGED <<L, wait, notify, t, ready>>

ListWait(g) ==
  /\ IF Less(t[g], notify)
     THEN Goto(g, "enter", "woken") /\ UNCHANGED list
     ELSE Goto(g, "enter", "asleep")
          /\ list' = Append(list, [g |-> g, ticket |-> t[g]])
  /\ UNCHANGED <<L, wait, notify, t, ready>>

\* c.L.Lock(), and the return.
WaitLock(g) ==
  /\ \/ Lk!Request(g) /\ Goto(g, "woken", "relock")
     \/ Lk!Acquire(g) /\ Goto(g, "relock", "hold")
  /\ UNCHANGED <<wait, notify, list, t, ready>>

-----------------------------------------------------------------------------
(* Signal and Broadcast.  The fast path loads wait, then notify.           *)

Load(g, to) ==
  /\ Goto(g, "out", to)
  /\ t' = [t EXCEPT ![g] = wait]
  /\ UNCHANGED <<L, wait, notify, list, ready>>

\* Slip: the list is looked at instead of the tickets.
FastPathList(g, from, to) ==
  /\ Goto(g, from, IF list = <<>> THEN "out" ELSE to)
  /\ UNCHANGED <<L, wait, notify, list, t, ready>>

FastPath(g, from, to) ==
  /\ Goto(g, from, IF t[g] = notify THEN "out" ELSE to)
  /\ UNCHANGED <<L, wait, notify, list, t, ready>>

NotifyAll(g) ==
  /\ Goto(g, "allLocked", IF list = <<>> THEN "out" ELSE "ready")
  /\ ready' = [ready EXCEPT ![g] = list]
  /\ list' = <<>>
  /\ notify' = wait
  /\ UNCHANGED <<L, wait, t>>

\* Slip: the first on the list is taken, whatever its ticket.
NotifyOneFirst(g) ==
  /\ Goto(g, "oneLocked", IF list = <<>> THEN "out" ELSE "ready")
  /\ notify' = IF notify = wait THEN notify ELSE After(notify)
  /\ list' = IF list = <<>> THEN list ELSE Tail(list)
  /\ ready' = [ready EXCEPT ![g] = IF list = <<>> THEN <<>> ELSE <<Head(list)>>]
  /\ UNCHANGED <<L, wait, t>>

\* The n-th on the list is taken off, to be made ready.
TakeOff(g, n) ==
  /\ Goto(g, "oneLocked", "ready")
  /\ list' = RemoveAt(list, n)
  /\ ready' = [ready EXCEPT ![g] = <<list[n]>>]

\* Slip: the ticket counts as notified only if its holder is on the list.
NotifyOneListed(g) ==
  /\ \/ \E n \in DOMAIN list :
          list[n].ticket = notify /\ TakeOff(g, n) /\ notify' = After(notify)
     \/ /\ \A n \in DOMAIN list : list[n].ticket # notify
        /\ Goto(g, "oneLocked", "out")
        /\ UNCHANGED <<notify, list, ready>>
  /\ UNCHANGED <<L, wait, t>>

\* The waiter that holds the ticket need not be on the list yet.
NotifyOne(g) ==
  /\ notify' = IF notify = wait THEN notify ELSE After(notify)
  /\ \/ \E n \in DOMAIN list :
          notify # wait /\ list[n].ticket = notify /\ TakeOff(g, n)
     \/ /\ notify = wait \/ \A n \in DOMAIN list : list[n].ticket # notify
        /\ Goto(g, "oneLocked", "out")
        /\ UNCHANGED <<list, ready>>
  /\ UNCHANGED <<L, wait, t>>

\* readyWithTime, when the list is unlocked.
Ready(g) ==
  LET s == Head(ready[g]) IN
  /\ pc[g] = "ready"
  /\ ready' = [ready EXCEPT ![g] = Tail(@)]
  /\ pc' = [pc EXCEPT ![s.g] = "woken",
                      ![g] = IF Len(ready[g]) = 1 THEN "out" ELSE @]
  /\ UNCHANGED <<L, wait, notify, list, t>>

-----------------------------------------------------------------------------
(* The bound on tickets: nobody stands between its ticket and the list     *)
(* while half of all tickets are drawn.                                    *)
Timely ==
  \A g \in G : pc[g] \in {"added", "enter"} =>
    (wait - t[g]) % Tickets < Tickets \div 2

Waiting(g) == WaitUnlock(g) \/ ListWait(g) \/ WaitLock(g)

Notifying(g) ==
  \/ FastPath(g, "one", "oneLocked") \/ NotifyOne(g)
  \/ FastPath(g, "all", "allLocked") \/ NotifyAll(g)
  \/ Ready(g)

Call(g) ==
  \/ LockL(g) \/ UnlockL(g)
  \/ Timely /\ Add(g)
  \/ Load(g, "one") \/ Load(g, "all")

Next == \E g \in G : Call(g) \/ Waiting(g) \/ Notifying(g)

Safety == Init /\ [][Next]_vars

(* Goroutines inside Wait, Signal and Broadcast are scheduled.             *)
Fairness == \A g \in G : WF_vars(Waiting(g)) /\ WF_vars(Notifying(g))

Spec == Safety /\ Fairness

-----------------------------------------------------------------------------
TypeOK ==
  /\ holder \in G \cup {NoG} /\ wants \subseteq G
  /\ wait \in 0 .. Tickets - 1 /\ notify \in 0 .. Tickets - 1
  /\ list \in Seq([g : G, ticket : 0 .. Tickets - 1])
  /\ pc \in [G -> CondPC]
  /\ t \in [G -> 0 .. Tickets - 1]
  /\ ready \in [G -> Seq([g : G, ticket : 0 .. Tickets - 1])]

Listed(g) == \E n \in DOMAIN list : list[n].g = g

\* Whom no Signal or Broadcast has reached.
Unnotified(g) ==
  \/ pc[g] \in {"added", "enter"} /\ ~Less(t[g], notify)
  \/ pc[g] = "asleep" /\ Listed(g)

\* The waiter that holds ticket n and has not been notified.
HolderOf(n) ==
  LET H == {g \in G : Unnotified(g) /\ t[g] = n} IN
  IF H = {} THEN NoG ELSE CHOOSE g \in H : TRUE

(* Tickets, the list and the readying of waiters implement the promise of  *)
(* a condition variable: first come, first notified, and a Wait that       *)
(* nobody has notified does not return.                                    *)
Abstract == INSTANCE CondVar WITH
  waiters <- [n \in 1 .. (wait - notify) % Tickets |->
               HolderOf((notify + n - 1) % Tickets)],
  inWait <- {g \in G : pc[g] \in {"added", "enter", "asleep", "woken", "relock"}}

Implements == Abstract!Spec

(* A waiter that is notified wakes up, whether it was on the list, was     *)
(* still on its way to it, or was overtaken by other waiters.              *)
NotifiedWakes ==
  \A g \in G :
    pc[g] \in {"added", "enter", "asleep"} /\ ~Unnotified(g)
      ~> pc[g] \in {"woken", "relock", "hold"}
=============================================================================
