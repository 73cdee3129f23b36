----------------------------- MODULE WaitGroup -----------------------------
(***************************************************************************)
(* sync.WaitGroup (sync/waitgroup.go) on the abstract Semaphore that       *)
(* runtime/sema.go implements.  The word wg.state is the pair counter,     *)
(* waiters.  Add is the atomic addition and, for the Add that brings the   *)
(* counter to zero beside waiters, a check that the word is still the one  *)
(* it computed, a reset of the word, and one release per waiter.           *)
(*                                                                         *)
(* Goroutines use the WaitGroup as the messages of its panics demand: the  *)
(* counter does not go negative, and a positive Add of a counter at zero   *)
(* comes neither beside waiters nor before the Waits of the last round     *)
(* have returned.  Nor is Add called with zero beside an Add that is about *)
(* to wake the waiters: it would wake them a second time.                  *)
(* A goroutine that panics stops there.                                    *)
(***************************************************************************)
EXTENDS Integers, FiniteSets

CONSTANTS
  G,          \* goroutines
  WgSema,     \* the address &wg.sema
  NoAddr,
  Deltas,     \* arguments of Add
  MaxCounter  \* bound of the counter

ASSUME WaitGroupAssumption ==
  /\ IsFiniteSet(G)
  /\ WgSema # NoAddr
  /\ Deltas \subseteq Int
  /\ MaxCounter \in Nat

VARIABLES
  counter, waiters,   \* wg.state
  permits, waitsFor,  \* wg.sema
  pc,
  w                   \* Add's local w

sema == <<permits, waitsFor>>
vars == <<counter, waiters, sema, pc, w>>

Sem == INSTANCE Semaphore WITH
  Addr <- {WgSema}, count <- permits, wants <- waitsFor

Init ==
  /\ counter = 0
  /\ waiters = 0
  /\ permits = [a \in {WgSema} |-> 0]
  /\ waitsFor = [g \in G |-> NoAddr]
  /\ pc = [g \in G |-> "out"]
  /\ w = [g \in G |-> 0]

Goto(g, from, to) == pc[g] = from /\ pc' = [pc EXCEPT ![g] = to]

-----------------------------------------------------------------------------
(* Add and Done, which is Add(-1).                                         *)

\* Slip: Add takes the slow way although nobody waits.
AddBranchAlone(delta, v) ==
  IF v < 0 \/ (waiters # 0 /\ delta > 0 /\ v = delta) THEN "panic"
  ELSE IF v > 0 THEN "out" ELSE "check"

\* Where Add goes with the counter v and the waiters it has found.
AddBranch(delta, v) ==
  IF v < 0 \/ (waiters # 0 /\ delta > 0 /\ v = delta) THEN "panic"
  ELSE IF v > 0 \/ waiters = 0 THEN "out" ELSE "check"

Add(g, delta) ==
  LET v == counter + delta
      to == AddBranch(delta, v) IN
  /\ counter' = v
  /\ Goto(g, "out", to)
  /\ w' = [w EXCEPT ![g] = IF to = "check" THEN waiters ELSE 0]
  /\ UNCHANGED <<waiters, sema>>

\* wg.state.Load() != state.
AddCheck(g) ==
  /\ Goto(g, "check",
          IF counter = 0 /\ waiters = w[g] THEN "reset" ELSE "panic")
  /\ UNCHANGED <<counter, waiters, sema, w>>

\* wg.state.Store(0).
AddReset(g) ==
  /\ Goto(g, "reset", "release")
  /\ counter' = 0
  /\ waiters' = 0
  /\ UNCHANGED <<sema, w>>

\* Slip: the loop stops one round early.
AddReleaseShort(g) ==
  /\ Sem!Give(WgSema)
  /\ w' = [w EXCEPT ![g] = @ - 1]
  /\ Goto(g, "release", IF w[g] <= 2 THEN "out" ELSE "release")
  /\ UNCHANGED <<counter, waiters>>

\* One round of the loop that wakes the waiters.
AddRelease(g) ==
  /\ Sem!Give(WgSema)
  /\ w' = [w EXCEPT ![g] = @ - 1]
  /\ Goto(g, "release", IF w[g] = 1 THEN "out" ELSE "release")
  /\ UNCHANGED <<counter, waiters>>

-----------------------------------------------------------------------------
\* Slip: Wait adds itself without looking at the counter it adds to.
WaitBlind(g) ==
  /\ waiters' = waiters + 1
  /\ Sem!Want(g, WgSema)
  /\ Goto(g, "out", "asleep")
  /\ UNCHANGED <<counter, w>>

(* Wait.  One that finds the counter at zero returns at once.              *)

Wait(g) ==
  \/ /\ counter = 0
     /\ Goto(g, "out", "out")
     /\ UNCHANGED vars
  \/ /\ counter # 0
     /\ waiters' = waiters + 1
     /\ Sem!Want(g, WgSema)
     /\ Goto(g, "out", "asleep")
     /\ UNCHANGED <<counter, w>>

WaitWoken(g) ==
  /\ Sem!Take(g, WgSema)
  /\ Goto(g, "asleep", "woken")
  /\ UNCHANGED <<counter, waiters, w>>

\* The check for reuse, and the return.
WaitReturn(g) ==
  /\ Goto(g, "woken", IF counter = 0 /\ waiters = 0 THEN "out" ELSE "panic")
  /\ UNCHANGED <<counter, waiters, sema, w>>

-----------------------------------------------------------------------------
In(here) == {g \in G : pc[g] \in here}

(* The proper use of Add: see above.                                       *)
Proper(delta) ==
  /\ counter + delta \in 0 .. MaxCounter
  /\ delta > 0 /\ counter = 0 => In({"asleep", "woken"}) = {}
  /\ delta = 0 /\ counter = 0 => waiters = 0

(* Somebody stays to finish the tasks.                                     *)
Attended(g) == \E h \in G \ {g} : pc[h] # "asleep"

Call(g) ==
  \/ \E delta \in Deltas : Proper(delta) /\ Add(g, delta)
  \/ Attended(g) /\ Wait(g)

Step(g) == AddCheck(g) \/ AddReset(g) \/ AddRelease(g) \/ WaitReturn(g)

Next == \E g \in G : Call(g) \/ Step(g) \/ WaitWoken(g)

Safety == Init /\ [][Next]_vars

(* Goroutines inside Add and Wait are scheduled, and the semaphore serves  *)
(* some waiter, as it promises; nobody has to call Add or Wait.            *)
Spec ==
  /\ Safety
  /\ \A g \in G : WF_vars(Step(g))
  /\ WF_vars(\E g \in G : WaitWoken(g))

-----------------------------------------------------------------------------
TypeOK ==
  /\ counter \in 0 .. MaxCounter
  /\ waiters \in Nat
  /\ permits \in [{WgSema} -> Nat]
  /\ waitsFor \in [G -> {WgSema, NoAddr}]
  /\ pc \in [G -> {"out", "check", "reset", "release", "asleep", "woken", "panic"}]
  /\ w \in [G -> Nat]

(* A WaitGroup that is properly used does not panic, in particular not     *)
(* because of the Waits that run while the last Add resets the word.       *)
NoPanic == In({"panic"}) = {}

Releasing(g) == IF pc[g] = "release" THEN w[g] ELSE 0

(* The goroutines asleep in Wait are those counted in the word, those with *)
(* a permit to take and those an Add is about to release: nobody is left   *)
(* asleep, and no permit is left over for the Waits of a later round.      *)
WaitersMatched ==
  \A g \in G :
    (\A h \in G : h # g => Releasing(h) = 0) =>
      Cardinality(In({"asleep"})) = waiters + permits[WgSema] + Releasing(g)

(* At zero the word counts waiters only while an Add is about to wake      *)
(* them, and a single Add does.                                            *)
OneWaker ==
  /\ counter = 0 /\ waiters > 0 => In({"check", "reset"}) # {}
  /\ \A g, h \in In({"check", "reset", "release"}) : g = h

(* A Wait comes back only when the counter has come to zero, and before    *)
(* the next round begins.                                                  *)
AwakeAtZero ==
  permits[WgSema] > 0 \/ In({"woken"}) # {} => counter = 0 /\ waiters = 0

(* Whoever sleeps is counted once, is woken by one Add, and at zero.       *)
WaitersServed == WaitersMatched /\ OneWaker /\ AwakeAtZero

(* Once the counter is zero, every Wait returns.                           *)
WaitReturns ==
  \A g \in G : pc[g] = "asleep" /\ counter = 0 ~> pc[g] = "out"
=============================================================================
