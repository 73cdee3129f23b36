----------------------------- MODULE Semaphore -----------------------------
(***************************************************************************)
(* What runtime/sema.go promises its callers: counting semaphores, one per *)
(* address.  A goroutine that wants a permit of an address waits until it  *)
(* is given one; a release adds a permit.  Neither the order of the        *)
(* waiters nor the way they sleep and wake is part of the promise, only    *)
(* that permits are neither lost nor invented and that a permit and a      *)
(* waiter do not face each other forever.                                  *)
(***************************************************************************)
EXTENDS Naturals

CONSTANTS
  G,        \* goroutines
  Addr,     \* addresses used as semaphores
  NoAddr    \* "wants nothing"

VARIABLES
  count,    \* permits of each address
  wants     \* address whose permit a goroutine is waiting for

vars == <<count, wants>>

Init ==
  /\ count \in [Addr -> Nat]
  /\ wants = [g \in G |-> NoAddr]

Want(g, a) ==
  /\ wants[g] = NoAddr
  /\ wants' = [wants EXCEPT ![g] = a]
  /\ UNCHANGED count

Take(g, a) ==
  /\ wants[g] = a
  /\ count[a] > 0
  /\ count' = [count EXCEPT ![a] = @ - 1]
  /\ wants' = [wants EXCEPT ![g] = NoAddr]

Give(a) ==
  /\ count' = [count EXCEPT ![a] = @ + 1]
  /\ UNCHANGED wants

TakeSome(a) == \E g \in G : Take(g, a)

Next == \E a \in Addr : Give(a) \/ TakeSome(a) \/ \E g \in G : Want(g, a)

Safety == Init /\ [][Next]_vars

Spec == Safety /\ \A a \in Addr : WF_vars(TakeSome(a))
=============================================================================
