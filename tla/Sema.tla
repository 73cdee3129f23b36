------------------------------- MODULE Sema -------------------------------
(***************************************************************************)
(* The semaphores of runtime/sema.go, on which sync.Mutex, sync.RWMutex,   *)
(* sync.WaitGroup and internal/poll sleep.  The module models one          *)
(* semaRoot: the addresses of Addr are those that hash to it, so they      *)
(* share its lock and its count of waiters.  The treap of the root is the  *)
(* function waitq from addresses to their lists of sudogs; its balancing   *)
(* (rotateLeft, rotateRight, the random tickets) is left out, and          *)
(* sudog.ticket is kept only in its second role, the direct handoff.       *)
(*                                                                         *)
(* A call is begun by SemacquireCall or SemreleaseCall and proceeds by the *)
(* steps of SemaStep, which split it wherever it touches shared memory     *)
(* without holding root.lock.  It has returned when spc[g] is "idle".      *)
(***************************************************************************)
EXTENDS Naturals, Sequences, FiniteSets

CONSTANTS
  G,        \* goroutines
  Addr,     \* semaphore addresses that hash to this root
  NoG,      \* "no goroutine"
  NoAddr    \* "no address"

ASSUME SemaAssumption ==
  /\ IsFiniteSet(G)
  /\ NoG \notin G
  /\ NoAddr \notin Addr

VARIABLES
  sem,       \* the word at each address
  rootLock,  \* holder of root.lock
  nwait,     \* root.nwait
  waitq,     \* the sudogs queued on each address, as their goroutines
  ticket,    \* s.ticket # 0 after a handoff, for the sudog of a goroutine
  spc,       \* where a goroutine stands in semacquire1 or semrelease1
  scall,     \* arguments of its call: the address, and lifo or handoff
  sdeq       \* the waiter a releaser has taken off the queue

semaVars == <<sem, rootLock, nwait, waitq, ticket, spc, scall, sdeq>>

NoCall == [addr |-> NoAddr, flag |-> FALSE]

AcquirePC == {"acquire", "lockroot", "recheck", "parked", "ready"}
ReleasePC == {"xadd", "check", "dequeue", "wake"}

SemaInit ==
  /\ sem = [a \in Addr |-> 0]
  /\ rootLock = NoG
  /\ nwait = 0
  /\ waitq = [a \in Addr |-> <<>>]
  /\ ticket = [g \in G |-> FALSE]
  /\ spc = [g \in G |-> "idle"]
  /\ scall = [g \in G |-> NoCall]
  /\ sdeq = [g \in G |-> NoG]

-----------------------------------------------------------------------------
(* Calls and returns.                                                      *)

Enter(g, at, a, flag) ==
  /\ spc[g] = "idle"
  /\ spc' = [spc EXCEPT ![g] = at]
  /\ scall' = [scall EXCEPT ![g] = [addr |-> a, flag |-> flag]]
  /\ UNCHANGED <<sem, rootLock, nwait, waitq, ticket, sdeq>>

SemacquireCall(g, a, lifo) == Enter(g, "acquire", a, lifo)

SemreleaseCall(g, a, handoff) == Enter(g, "xadd", a, handoff)

Return(g) ==
  /\ spc' = [spc EXCEPT ![g] = "idle"]
  /\ scall' = [scall EXCEPT ![g] = NoCall]

Goto(g, at) ==
  /\ spc' = [spc EXCEPT ![g] = at]
  /\ UNCHANGED scall

-----------------------------------------------------------------------------
(* cansemacquire: the compare-and-swap loop takes effect at the load that  *)
(* finds zero or at the successful swap.                                   *)

CanSemacquire(a) == sem[a] > 0

TakePermit(a) == sem' = [sem EXCEPT ![a] = @ - 1]

(* root.queue: at the head of the address's list if lifo, else at its end. *)
Enqueue(q, g, lifo) == IF lifo THEN <<g>> \o q ELSE Append(q, g)

-----------------------------------------------------------------------------
(* semacquire1.                                                            *)

\* The easy case, before root.lock is taken.
AcquireFast(g) ==
  LET a == scall[g].addr IN
  /\ spc[g] = "acquire"
  /\ \/ CanSemacquire(a) /\ TakePermit(a) /\ Return(g)
     \/ ~CanSemacquire(a) /\ Goto(g, "lockroot") /\ UNCHANGED sem
  /\ UNCHANGED <<rootLock, nwait, waitq, ticket, sdeq>>

\* lockWithRank, then root.nwait.Add(1) to disable the releasers' easy case.
AcquireLock(g) ==
  /\ spc[g] = "lockroot"
  /\ rootLock = NoG
  /\ rootLock' = g
  /\ nwait' = nwait + 1
  /\ Goto(g, "recheck")
  /\ UNCHANGED <<sem, waitq, ticket, sdeq>>

\* Slip: queue without looking at the word again.
AcquireRecheckBlind(g) ==
  LET a == scall[g].addr IN
  /\ spc[g] = "recheck"
  /\ rootLock' = NoG
  /\ waitq' = [waitq EXCEPT ![a] = Enqueue(@, g, scall[g].flag)]
  /\ Goto(g, "parked")
  /\ UNCHANGED <<sem, nwait, ticket, sdeq>>

\* The second cansemacquire; on failure queue and park, which drops the lock.
AcquireRecheck(g) ==
  LET a == scall[g].addr IN
  /\ spc[g] = "recheck"
  /\ rootLock' = NoG
  /\ \/ /\ CanSemacquire(a)
        /\ TakePermit(a)
        /\ nwait' = nwait - 1
        /\ Return(g)
        /\ UNCHANGED waitq
     \/ /\ ~CanSemacquire(a)
        /\ waitq' = [waitq EXCEPT ![a] = Enqueue(@, g, scall[g].flag)]
        /\ Goto(g, "parked")
        /\ UNCHANGED <<sem, nwait>>
  /\ UNCHANGED <<ticket, sdeq>>

\* Made ready: a handed-over ticket, a permit still there, or round again.
AcquireWoken(g) ==
  LET a == scall[g].addr IN
  /\ spc[g] = "ready"
  /\ \/ /\ ticket[g]
        /\ ticket' = [ticket EXCEPT ![g] = FALSE]
        /\ Return(g)
        /\ UNCHANGED sem
     \/ /\ ~ticket[g] /\ CanSemacquire(a)
        /\ TakePermit(a)
        /\ Return(g)
        /\ UNCHANGED ticket
     \/ /\ ~ticket[g] /\ ~CanSemacquire(a)
        /\ Goto(g, "lockroot")
        /\ UNCHANGED <<sem, ticket>>
  /\ UNCHANGED <<rootLock, nwait, waitq, sdeq>>

-----------------------------------------------------------------------------
(* semrelease1.                                                            *)

ReleaseXadd(g) ==
  /\ spc[g] = "xadd"
  /\ sem' = [sem EXCEPT ![scall[g].addr] = @ + 1]
  /\ Goto(g, "check")
  /\ UNCHANGED <<rootLock, nwait, waitq, ticket, sdeq>>

\* The easy case: nobody waits on this root.
ReleaseCheck(g) ==
  /\ spc[g] = "check"
  /\ \/ nwait = 0 /\ Return(g)
     \/ nwait # 0 /\ Goto(g, "dequeue")
  /\ UNCHANGED <<sem, rootLock, nwait, waitq, ticket, sdeq>>

\* semaRoot.dequeue: the first waiter of an address leaves its list.
Dequeue(g, a) ==
  /\ sdeq' = [sdeq EXCEPT ![g] = Head(waitq[a])]
  /\ waitq' = [waitq EXCEPT ![a] = Tail(@)]

\* Slip: leave the waiter in the list.
ReleaseDequeueShares(g) ==
  LET a == scall[g].addr IN
  /\ spc[g] = "dequeue"
  /\ rootLock = NoG
  /\ IF nwait = 0 \/ waitq[a] = <<>>
     THEN Return(g) /\ UNCHANGED <<nwait, sdeq>>
     ELSE /\ sdeq' = [sdeq EXCEPT ![g] = Head(waitq[a])]
          /\ nwait' = nwait - 1
          /\ Goto(g, "wake")
  /\ UNCHANGED <<sem, rootLock, waitq, ticket>>

\* Under root.lock: check again, take the first waiter of the address.  The
\* waiters counted by nwait may all wait on other addresses of the root.
ReleaseDequeue(g) ==
  LET a == scall[g].addr IN
  /\ spc[g] = "dequeue"
  /\ rootLock = NoG
  /\ \/ /\ nwait = 0 \/ waitq[a] = <<>>
        /\ Return(g)
        /\ UNCHANGED <<nwait, waitq, sdeq>>
     \/ /\ nwait # 0 /\ waitq[a] # <<>>
        /\ Dequeue(g, a)
        /\ nwait' = nwait - 1
        /\ Goto(g, "wake")
  /\ UNCHANGED <<sem, rootLock, ticket>>

\* Slip: hand over a ticket without taking the permit it stands for.
ReleaseWakeInvents(g) ==
  /\ spc[g] = "wake"
  /\ ticket' = [ticket EXCEPT ![sdeq[g]] = @ \/ scall[g].flag]
  /\ spc' = [spc EXCEPT ![g] = "idle", ![sdeq[g]] = "ready"]
  /\ scall' = [scall EXCEPT ![g] = NoCall]
  /\ sdeq' = [sdeq EXCEPT ![g] = NoG]
  /\ UNCHANGED <<sem, rootLock, nwait, waitq>>

\* Try to hand the permit over, then make the waiter runnable.
ReleaseWake(g) ==
  LET a == scall[g].addr
      s == sdeq[g] IN
  /\ spc[g] = "wake"
  /\ \/ /\ scall[g].flag /\ CanSemacquire(a)
        /\ TakePermit(a)
        /\ ticket' = [ticket EXCEPT ![s] = TRUE]
     \/ /\ ~(scall[g].flag /\ CanSemacquire(a))
        /\ UNCHANGED <<sem, ticket>>
  /\ spc' = [spc EXCEPT ![g] = "idle", ![s] = "ready"]
  /\ scall' = [scall EXCEPT ![g] = NoCall]
  /\ sdeq' = [sdeq EXCEPT ![g] = NoG]
  /\ UNCHANGED <<rootLock, nwait, waitq>>

SemaStep(g) ==
  \/ AcquireFast(g) \/ AcquireLock(g) \/ AcquireRecheck(g) \/ AcquireWoken(g)
  \/ ReleaseXadd(g) \/ ReleaseCheck(g) \/ ReleaseDequeue(g) \/ ReleaseWake(g)

-----------------------------------------------------------------------------
SemaTypeOK ==
  /\ sem \in [Addr -> Nat]
  /\ rootLock \in G \cup {NoG}
  /\ nwait \in Nat
  /\ waitq \in [Addr -> Seq(G)]
  /\ ticket \in [G -> BOOLEAN]
  /\ spc \in [G -> {"idle"} \cup AcquirePC \cup ReleasePC]
  /\ scall \in [G -> [addr : Addr \cup {NoAddr}, flag : BOOLEAN]]
  /\ sdeq \in [G -> G \cup {NoG}]

Queued(a) == {waitq[a][i] : i \in DOMAIN waitq[a]}

AllQueued == UNION {Queued(a) : a \in Addr}

Dequeued == {sdeq[g] : g \in G} \ {NoG}

(* Every parked goroutine is on exactly one list, the list of the address  *)
(* it called with, or in the hands of exactly one releaser of that address *)
(* that is about to ready it: a sleep is paired with a single wakeup.      *)
SleepersPaired ==
  /\ \A g \in G : spc[g] = "parked" <=> g \in AllQueued \cup Dequeued
  /\ AllQueued \cap Dequeued = {}
  /\ \A a \in Addr :
       /\ \A g \in Queued(a) : scall[g].addr = a
       /\ \A i, j \in DOMAIN waitq[a] : waitq[a][i] = waitq[a][j] => i = j
  /\ \A g \in G : sdeq[g] # NoG =>
       /\ scall[sdeq[g]].addr = scall[g].addr
       /\ \A h \in G : sdeq[h] = sdeq[g] => h = g

Waiting == AllQueued \cup {g \in G : spc[g] = "recheck"}

(* root.nwait, read by releasers without the lock, counts the queued       *)
(* sudogs and the goroutine that is between its nwait.Add(1) and queueing. *)
NwaitExact == nwait = Cardinality(Waiting)

(* Queues, the hands of releasers and the count that is read without the   *)
(* lock agree in every state.                                              *)
QueuesExact == SleepersPaired /\ NwaitExact

(* The calls that will still look at the queue or the word of a: releasers *)
(* past their Xadd, and awoken waiters that have not tried again.          *)
Wakers(a) ==
  {g \in G : /\ scall[g].addr = a
             /\ \/ spc[g] \in {"check", "dequeue", "wake"}
                \/ spc[g] = "ready" /\ ~ticket[g]}

(* No lost wakeup: while a goroutine sleeps on a, every permit of a is     *)
(* matched by a waker that is still under way.                             *)
NoLostWakeup ==
  \A a \in Addr : waitq[a] # <<>> => sem[a] <= Cardinality(Wakers(a))

-----------------------------------------------------------------------------
(* Goroutines that acquire and release in any order.                       *)

SemaCall(g) ==
  \E a \in Addr, flag \in BOOLEAN :
    SemacquireCall(g, a, flag) \/ SemreleaseCall(g, a, flag)

SemaNext == \E g \in G : SemaCall(g) \/ SemaStep(g)

SemaSafety == SemaInit /\ [][SemaNext]_semaVars

(* A goroutine waits for a permit from its call until it takes one, or     *)
(* until a releaser has taken one in its name.                             *)
Wants ==
  [g \in G |-> IF spc[g] \in AcquirePC /\ ~ticket[g]
               THEN scall[g].addr ELSE NoAddr]

Permits == INSTANCE Semaphore WITH count <- sem, wants <- Wants

(* Permits are neither lost nor invented.                                  *)
ConservesPermits == Permits!Safety
=============================================================================
