----------------------------- MODULE SemaClient -----------------------------
(***************************************************************************)
(* The semaphores of Sema driven by goroutines that acquire and release in *)
(* any order, and the proof obligation that they implement Semaphore.      *)
(***************************************************************************)
EXTENDS Sema

CONSTANT MaxCalls   \* bound: calls of the semaphore per goroutine

ASSUME ClientAssumption == MaxCalls \in Nat

VARIABLE calls      \* calls begun by each goroutine

vars == <<semaVars, calls>>

Init == SemaInit /\ calls = [g \in G |-> 0]

Call(g) ==
  /\ calls[g] < MaxCalls
  /\ SemaCall(g)
  /\ calls' = [calls EXCEPT ![g] = @ + 1]

Step(g) == SemaStep(g) /\ UNCHANGED calls

Next == \E g \in G : Call(g) \/ Step(g)

(* Every runnable goroutine is eventually scheduled; nobody has to call.   *)
Spec == Init /\ [][Next]_vars /\ \A g \in G : WF_vars(Step(g))

-----------------------------------------------------------------------------
(* semacquire1 and semrelease1 implement the abstract semaphore: permits   *)
(* are conserved, and while permits and waiters of an address face each    *)
(* other, some waiter gets one.                                            *)
ImplementsSemaphore == Permits!Spec
=============================================================================
