------------------------------- MODULE Mutex -------------------------------
(***************************************************************************)
(* sync.Mutex (sync/mutex.go) on the semaphores of runtime/sema.go.        *)
(*                                                                         *)
(* The word m.state is the four variables mutexLocked, mutexWoken,         *)
(* mutexStarving and waiters.  A compare-and-swap loop takes effect at its *)
(* successful swap, where the value it decided on is the value of the      *)
(* word; a failed swap only loads the word again.  Decisions that are      *)
(* acted upon later without a swap (the delta of a starving waiter, the    *)
(* branch Unlock takes on the result of its Add) are made where the code   *)
(* loads the word.                                                         *)
(*                                                                         *)
(* pc[g] is where g stands in Lock or Unlock.  While it is inside the      *)
(* semaphore (spc[g] # "idle") pc[g] is the point it will return to.       *)
(***************************************************************************)
EXTENDS Sema

CONSTANT MutexSema   \* the address &m.sema

ASSUME MutexAssumption == MutexSema \in Addr

VARIABLES
  mutexLocked, mutexWoken, mutexStarving, waiters,  \* m.state
  pc,         \* control point
  awoke,      \* lockSlow's awoke
  starving,   \* lockSlow's starving
  waited      \* lockSlow's waitStartTime # 0

mutexWord == <<mutexLocked, mutexWoken, mutexStarving, waiters>>

lockLocals == <<awoke, starving, waited>>

vars == <<semaVars, mutexWord, pc, lockLocals>>

MutexPC == {"out", "loop", "woken", "take", "takeexit", "held", "unlockslow"}

Init ==
  /\ SemaInit
  /\ mutexLocked = FALSE
  /\ mutexWoken = FALSE
  /\ mutexStarving = FALSE
  /\ waiters = 0
  /\ pc = [g \in G |-> "out"]
  /\ awoke = [g \in G |-> FALSE]
  /\ starving = [g \in G |-> FALSE]
  /\ waited = [g \in G |-> FALSE]

At(g, here) == spc[g] = "idle" /\ pc[g] = here

To(g, there) == pc' = [pc EXCEPT ![g] = there]

\* Lock returns: g holds the mutex and lockSlow's locals are gone.
Acquired(g) ==
  /\ To(g, "held")
  /\ awoke' = [awoke EXCEPT ![g] = FALSE]
  /\ starving' = [starving EXCEPT ![g] = FALSE]
  /\ waited' = [waited EXCEPT ![g] = FALSE]

Free == ~mutexLocked /\ ~mutexWoken /\ ~mutexStarving /\ waiters = 0

-----------------------------------------------------------------------------
(* Lock, TryLock.                                                          *)

\* Slip: TryLock does not look at the locked bit.
TryLockBlind(g) ==
  /\ At(g, "out")
  /\ ~mutexStarving
  /\ mutexLocked' = TRUE
  /\ To(g, "held")
  /\ UNCHANGED <<semaVars, mutexWoken, mutexStarving, waiters, lockLocals>>

\* The fast path: a word of zero becomes mutexLocked, else lockSlow.
Lock(g) ==
  /\ At(g, "out")
  /\ \/ Free /\ mutexLocked' = TRUE /\ To(g, "held")
     \/ ~Free /\ To(g, "loop") /\ UNCHANGED mutexLocked
  /\ UNCHANGED <<semaVars, mutexWoken, mutexStarving, waiters, lockLocals>>

\* A successful TryLock; one that fails, for whatever reason, does nothing.
TryLock(g) ==
  /\ At(g, "out")
  /\ ~mutexLocked /\ ~mutexStarving
  /\ mutexLocked' = TRUE
  /\ To(g, "held")
  /\ UNCHANGED <<semaVars, mutexWoken, mutexStarving, waiters, lockLocals>>

-----------------------------------------------------------------------------
(* lockSlow.                                                               *)

\* The throw of lockSlow, by what g may load as the word where it stands.
Inconsistent(g) ==
  \/ At(g, "loop") /\ awoke[g] /\ ~mutexWoken
  \/ At(g, "woken") /\ ~mutexStarving /\ ~mutexWoken
  \/ /\ At(g, "woken") /\ mutexStarving
     /\ mutexLocked \/ mutexWoken \/ waiters = 0

\* A spinner announces itself so that Unlock wakes nobody else.
LockSpin(g) ==
  /\ At(g, "loop")
  /\ mutexLocked /\ ~mutexStarving
  /\ ~awoke[g] /\ ~mutexWoken /\ waiters # 0
  /\ mutexWoken' = TRUE
  /\ awoke' = [awoke EXCEPT ![g] = TRUE]
  /\ UNCHANGED <<semaVars, mutexLocked, mutexStarving, waiters, pc,
                 starving, waited>>

\* Slip: the woken goroutine leaves its mark in the word.
LockCASWoken(g) ==
  /\ At(g, "loop") /\ ~Inconsistent(g)
  /\ ~mutexLocked /\ ~mutexStarving
  /\ mutexLocked' = TRUE
  /\ Acquired(g)
  /\ UNCHANGED <<semaVars, mutexWoken, mutexStarving, waiters>>

\* Swap in the locked bit and return.
LockCAS(g) ==
  /\ At(g, "loop") /\ ~Inconsistent(g)
  /\ ~mutexLocked /\ ~mutexStarving
  /\ mutexLocked' = TRUE
  /\ mutexWoken' = (mutexWoken /\ ~awoke[g])
  /\ Acquired(g)
  /\ UNCHANGED <<semaVars, mutexStarving, waiters>>

\* Swap in one more waiter and sleep, at the head of the queue if g has
\* slept before.
LockSleep(g) ==
  /\ At(g, "loop") /\ ~Inconsistent(g)
  /\ mutexLocked \/ mutexStarving
  /\ waiters' = waiters + 1
  /\ mutexStarving' = (mutexStarving \/ (starving[g] /\ mutexLocked))
  /\ mutexWoken' = (mutexWoken /\ ~awoke[g])
  /\ waited' = [waited EXCEPT ![g] = TRUE]
  /\ SemacquireCall(g, MutexSema, waited[g])
  /\ To(g, "woken")
  /\ UNCHANGED <<mutexLocked, awoke, starving>>

\* Back from the semaphore.  late says whether g has been waiting for more
\* than starvationThresholdNs.  In starvation mode the lock is g's own, and
\* g settles from this load whether it will leave that mode.
LockWoken(g, late) ==
  LET isStarving == starving[g] \/ late IN
  /\ At(g, "woken") /\ ~Inconsistent(g)
  /\ starving' = [starving EXCEPT ![g] = isStarving]
  /\ \/ /\ ~mutexStarving
        /\ awoke' = [awoke EXCEPT ![g] = TRUE]
        /\ To(g, "loop")
     \/ /\ mutexStarving
        /\ To(g, IF ~isStarving \/ waiters = 1 THEN "takeexit" ELSE "take")
        /\ UNCHANGED awoke
  /\ UNCHANGED <<semaVars, mutexWord, waited>>

\* Slip: the delta lacks the waiter that leaves.
LockTakeUncounted(g) ==
  /\ At(g, "take") \/ At(g, "takeexit")
  /\ mutexLocked' = TRUE
  /\ mutexStarving' = (mutexStarving /\ pc[g] = "take")
  /\ Acquired(g)
  /\ UNCHANGED <<semaVars, mutexWoken, waiters>>

\* atomic.AddInt32(&m.state, delta).
LockTake(g) ==
  /\ At(g, "take") \/ At(g, "takeexit")
  /\ mutexLocked' = TRUE
  /\ waiters' = waiters - 1
  /\ mutexStarving' = (mutexStarving /\ pc[g] = "take")
  /\ Acquired(g)
  /\ UNCHANGED <<semaVars, mutexWoken>>

-----------------------------------------------------------------------------
(* Unlock.                                                                 *)

Idle == waiters = 0 \/ mutexLocked \/ mutexWoken \/ mutexStarving

\* Slip: the slow path is for a woken goroutine only.
UnlockHasty(g) ==
  /\ At(g, "held")
  /\ mutexLocked' = FALSE
  /\ IF mutexStarving
     THEN SemreleaseCall(g, MutexSema, TRUE) /\ To(g, "out")
     ELSE /\ To(g, IF mutexWoken THEN "unlockslow" ELSE "out")
          /\ UNCHANGED semaVars
  /\ UNCHANGED <<mutexWoken, mutexStarving, waiters, lockLocals>>

\* The Add, and the branch taken on its result: done, hand off, or wake one.
Unlock(g) ==
  /\ At(g, "held")
  /\ mutexLocked' = FALSE
  /\ \/ /\ mutexStarving
        /\ SemreleaseCall(g, MutexSema, TRUE)
        /\ To(g, "out")
     \/ /\ ~mutexStarving
        /\ To(g, IF waiters = 0 /\ ~mutexWoken THEN "out" ELSE "unlockslow")
        /\ UNCHANGED semaVars
  /\ UNCHANGED <<mutexWoken, mutexStarving, waiters, lockLocals>>

\* unlockSlow in normal mode: leave, or turn a waiter into a woken one.
UnlockSlow(g) ==
  /\ At(g, "unlockslow")
  /\ To(g, "out")
  /\ \/ Idle /\ UNCHANGED <<semaVars, waiters, mutexWoken>>
     \/ /\ ~Idle
        /\ waiters' = waiters - 1
        /\ mutexWoken' = TRUE
        /\ SemreleaseCall(g, MutexSema, FALSE)
  /\ UNCHANGED <<mutexLocked, mutexStarving, lockLocals>>

-----------------------------------------------------------------------------
Semaphores(g) == SemaStep(g) /\ UNCHANGED <<mutexWord, pc, lockLocals>>

Step(g) ==
  \/ LockCAS(g) \/ LockSleep(g) \/ LockTake(g)
  \/ \E late \in BOOLEAN : LockWoken(g, late)
  \/ Unlock(g) \/ UnlockSlow(g)
  \/ Semaphores(g)

Next == \E g \in G : Step(g) \/ LockSpin(g) \/ Lock(g) \/ TryLock(g)

Safety == Init /\ [][Next]_vars

(* Goroutines inside the mutex are scheduled, and every holder unlocks; no *)
(* goroutine has to lock, spin or try.                                     *)
Spec == Safety /\ \A g \in G : WF_vars(Step(g))

-----------------------------------------------------------------------------
TypeOK ==
  /\ SemaTypeOK
  /\ mutexLocked \in BOOLEAN
  /\ mutexWoken \in BOOLEAN
  /\ mutexStarving \in BOOLEAN
  /\ waiters \in Nat
  /\ pc \in [G -> MutexPC]
  /\ awoke \in [G -> BOOLEAN]
  /\ starving \in [G -> BOOLEAN]
  /\ waited \in [G -> BOOLEAN]

(* Lock and TryLock exclude each other: the bit mutexLocked says that      *)
(* somebody holds the mutex, and two goroutines never do.                  *)
MutualExclusion ==
  /\ mutexLocked <=> \E g \in G : pc[g] = "held"
  /\ \A g, h \in G : pc[g] = "held" /\ pc[h] = "held" => g = h

(* lockSlow never throws "sync: inconsistent mutex state".                 *)
NoInconsistentState == \A g \in G : ~Inconsistent(g)

(* g carries the wakeup that is under way: it has announced itself as      *)
(* woken, has come back from the semaphore, has been handed a permit, or   *)
(* is about to add one.                                                    *)
Carries(g) ==
  \/ pc[g] = "loop" /\ awoke[g]
  \/ pc[g] \in {"woken", "take", "takeexit"} /\ spc[g] = "idle"
  \/ ticket[g]
  \/ spc[g] = "xadd"

(* Unlock wakes one waiter at a time: mutexWoken, or a free mutex in       *)
(* starvation mode, stands for exactly one wakeup under way, carried by    *)
(* one goroutine or lying in the semaphore as its only permit.             *)
SingleWakeup ==
  /\ ~(mutexStarving /\ mutexWoken)
  /\ \A g, h \in G : Carries(g) /\ Carries(h) => g = h
  /\ sem[MutexSema] <= 1
  /\ sem[MutexSema] = 1 => \A g \in G : ~Carries(g)
  /\ (mutexWoken \/ (mutexStarving /\ ~mutexLocked))
       <=> (sem[MutexSema] = 1 \/ \E g \in G : Carries(g))

(* A mutex does not stay in starvation mode without waiters: newcomers     *)
(* would all queue up and nobody would ever take it.                       *)
StarvingHasWaiters == mutexStarving => waiters > 0

Asleep == {g \in G : pc[g] \in {"woken", "take", "takeexit"}}

(* The count of waiters in the word is the number of goroutines in or back *)
(* from the semaphore, less the one an Unlock has already counted out.     *)
WaitersExact ==
  waiters + (IF mutexWoken /\ ~\E g \in G : pc[g] = "loop" /\ awoke[g]
             THEN 1 ELSE 0) = Cardinality(Asleep)

(* The word never contradicts itself or the queue: no throw, no starvation *)
(* mode without waiters, no waiter uncounted or counted twice.             *)
WordConsistent == NoInconsistentState /\ StarvingHasWaiters /\ WaitersExact

(* A free mutex with waiters is about to be taken or to wake one: nobody   *)
(* sleeps beside a free mutex with no one to wake it.                      *)
NoWaiterForgotten ==
  ~mutexLocked /\ waiters > 0 =>
    mutexWoken \/ mutexStarving \/ \E g \in G : pc[g] = "unlockslow"

-----------------------------------------------------------------------------
(* The holder is the goroutine at "held"; a goroutine wants the lock from  *)
(* the time it misses the fast path until then.                            *)
Holder == IF mutexLocked THEN CHOOSE g \in G : pc[g] = "held" ELSE NoG

Wanting == {g \in G : pc[g] \in {"loop", "woken", "take", "takeexit"}}

Abstract == INSTANCE Lock WITH holder <- Holder, wants <- Wanting

(* sync.Mutex implements the abstract lock, progress included.             *)
ImplementsLock == Abstract!Spec

(* The safety half of it: only the holder's Unlock ends its hold.          *)
ImplementsSafely == Abstract!Safety

-----------------------------------------------------------------------------
(* The comment on Mutex fairness: in starvation mode new arrivals do not   *)
(* acquire the mutex but queue themselves, so a goroutine that enters the  *)
(* semaphore for the first time does not come straight out of it.          *)
NewcomersQueue ==
  [][\A g \in G : spc[g] = "acquire" /\ ~scall[g].flag /\ mutexStarving
                    => spc'[g] # "idle"]_vars
=============================================================================
