# Go's synchronization primitives in TLA+

Specifications, model-checking runs and machine-checked proofs for the core of
the concurrency support in this tree: the semaphores of `runtime/sema.go`,
`sync.Mutex`, `sync.RWMutex`, `sync.Once` and `OnceFunc`, `sync.WaitGroup`,
`sync.Cond`, channels with `select`, and what rests on the same ideas: the queues of
`sync.Pool`, `sync.Map`, `context`, and descriptors with the network poller
(`internal/poll`, `runtime/netpoll.go`). The sources are those under
`src/src/`. `PROJECT.json` gives, for every definition that models code, the
lines it stands for; for every property, a slip in the code it would catch; for
every hazard, the properties that look at it.

To run: `tlc -config MCMutex.cfg MCMutex` (each run below names its module and
its configuration), `tlapm MutexProofs.tla`.

## 1. Inventory

### The parts and how they meet

    channels, select          Mutex     RWMutex    Once     WaitGroup    Cond
    runtime/chan.go             |       w |  \       |        |           |  \
    runtime/select.go           |         v   \      v        |           v   \
          |                     |       Mutex  |   Mutex      |         c.L    notifyList
          |                     v              v              v                  |
          |                 semaphores (runtime/sema.go: semacquire1, semrelease1)|
          v                     |                                                |
       hchan.lock           root.lock                                  notifyList.lock
          \_____________________|________________________________________________/
                        gopark / goready (runtime/proc.go)

    sync.Pool's queues      sync.Map        context           poll.FD
    sync/poolqueue.go       sync/map.go     c.mu, timers,     fdMutex --- semaphores
      atomics only          m.mu, atomics   channels          pollDesc -- timers, epoll

The parts share memory and nothing else: a word changed by `sync/atomic`
operations, or a structure under a runtime lock. A goroutine that must wait puts
itself on a list, gives the runtime lock back and parks; another takes it off
and readies it. Every hard question comes from what may happen between those
steps.

| part | state | operations | what is hard | what makes it correct |
|---|---|---|---|---|
| semaphores | a word per address; per root a lock, `nwait` and a treap of waiter lists; `sudog.ticket` | `semacquire1`, `semrelease1` | the fast paths look at the word and at `nwait` without the lock; a dequeued waiter is readied after the unlock; a handoff takes the permit in the waiter's name | permits are conserved; no permit lies beside a sleeping waiter that nobody will wake |
| `Mutex` | one word: locked, woken, starving, waiter count; a semaphore | `Lock`, `TryLock`, `Unlock` | compare-and-swap on an old copy of the word; two modes that waiters switch; newcomers overtake | one holder; one wakeup under way, matched by the bits; the count is that of the waiters; no throw; a lock that is wanted does not stay free |
| `RWMutex` | `w`, `readerCount`, `readerWait`, two semaphores | `RLock`, `RUnlock`, `Lock`, `Unlock`, both `Try`s | readers leave while a writer announces itself; permits of one round meet readers of the next | exclusion; exact counts; the writer woken once; nobody left behind; readers do not pass a pending writer |
| `Once`, `OnceFunc` | `done`, a mutex, the closure's `valid` and `p` | `Do`, the closure | the fast path reads `done` without the lock; `f` may panic | `f` is called once; nobody gets past before it ended; all calls come to the same |
| `WaitGroup` | counter and waiters in one word; a semaphore | `Add`, `Done`, `Wait` | the last `Done` resets the word after it has left it; reuse | `Wait` returns at zero, all of them, and no permit is left for the next round |
| `Cond` | `wait` and `notify` tickets, a list; `c.L` | `Wait`, `Signal`, `Broadcast` | a waiter has its ticket before it is on the list; the fast path is two loads; tickets wrap | first come, first notified; no signal is lost between ticket and list |
| channels | a ring buffer, two wait queues, `closed`, a lock per channel; `selectDone` per goroutine | send, receive, close, `select`, each blocking or not | a select waits in several queues and may be woken from each; lock-free fast paths; `close` meets everybody | a bounded queue of values; each waiter woken once; no deadlock over channel locks |
| Pool queues | rings whose head and tail share a word; a chain of them with `next` and `prev` | `pushHead`, `popHead`, `popTail` | a slot is taken and cleared in two steps; indices wrap; rings are added at one end and dropped at the other | a deque: nothing lost, doubled or kept alive; only a changing queue sends a consumer away |
| `sync.Map` | `read` (and `amended`), `dirty`, `misses`, a pointer per entry | `Load`, `Swap`, `LoadOrStore`, `LoadAndDelete`, the `CompareAnd`s, `Range` | two maps share entries; promotion and expunging race with stores that hold an entry | linearizable; the dirty map lacks no live key |
| `context` | a tree of `mu`, `done`, `children`, `err`, `timer` | `WithCancel`, `WithDeadline`, `AfterFunc`, cancel, stop, `Done`, `Err` | a parent is cancelled while its child registers; three ways to be tied to a parent; timers | a cancel reaches every descendant, with its cause; nothing stays behind in a parent or timer |
| descriptors | the fdMutex word and its semaphores; `pollDesc` (`rg`, `wg`, deadlines, sequence numbers, timers) | `Read`, `Write`, `Set*Deadline`, `Close`, `destroy`; `netpoll`, timers | readiness, deadlines old and new, close and reuse meet a goroutine that is about to park | nobody sleeps beside input, an expired deadline or a close; destroyed once, by the last one out |

### Parts that are not modelled, or not yet

| part | plan |
|---|---|
| the treap of `semaRoot`, the links of `waitq` | pure data-structure modules against the sequences used here |
| timers | the status machine of `runtime/time.go`; `PollDesc` and `Context` use its contract |
| `io.Pipe`, `internal/singleflight` | on `Channel`, `Lock`, `WaitGroup` |
| `database/sql` pool | `SqlPool` |
| scheduler, futex locks | `Scheduler`; until then parking and readying, and runtime locks, are atomic |
| `sync/pool.go` | not planned: `pin` gives each queue one producer, and the victim cache is filled while the world is stopped |
| allocator and collector, `net/http`, `os`, compiler and tools, the sequential library, vendored code | not planned; `PROJECT.json` gives the reason for each |

## 2. Plan

The modules come in the order of who rests on whom, the most basic first.

1. `Semaphore` (abstract), `Sema`, `SemaClient`; proof that one implements the other. *Done.*
2. `Lock` (abstract), `Mutex` on the detailed `Sema`; proof that it implements `Lock`. *Done.*
3. `RWMutex` on `Lock` and `Semaphore`; its exclusion and counts proved. *Done.*
4. `Once` on `Lock`; `f` called once, proved. *Done.*
5. `WaitGroup` on `Semaphore`, its safety proved; `CondVar` (abstract) and `Cond` on `Lock`, its safety and that it implements `CondVar` proved. *Done.*
6. `Channel` (abstract), `Chan`; its queues, wakeups and lock order proved, and that it implements `Channel`. *Done.*
7. `FdMutex` on `Semaphore`, its counts proved; `PollDesc`, and `FD` which composes the two, its safety proved. *Done.*
8. `SyncMap`, its dirty map proved; `Context`, its cancellation proved. *Done.* `Deque` (abstract) and `PoolChain`. *Model-checked.*
9. The treap and `waitq`, timers, `io.Pipe`, `singleflight`, the pool of
   `database/sql`, the scheduler.
10. Further proofs: `NothingRetained` of `PoolChain`, and an invariant of `SyncMap` that names the order of calls which `Linearizable` finds.

The modules that rest on another use its abstract specification where a theorem
justifies it: `RWMutex`, `Once` and `Cond` sleep on `Lock`, `RWMutex`,
`WaitGroup` and `FdMutex` on `Semaphore`. Only `Mutex` uses the detailed `Sema`, because its
bits describe what goes on inside a semaphore call.

## 3. The modules

In all of them a goroutine has a program counter (`pc`, in `Sema` `spc`), an
action is what the code does from one access of shared memory to the next, and a
goroutine outside any call may make any call of the type, for ever unless a bound
is named. `sync/atomic` operations are single, sequentially consistent steps, as
that package promises. Definitions marked `Slip` are the altered forms of the
definition that follows them, each a mistake the code could contain; nothing
refers to them in the specifications themselves.

**`Semaphore`** -- what `sema.go` promises: counts, goroutines that want a permit,
`Take` and `Give`; while permit and waiter face each other some waiter gets one.
No order is promised, and none is kept: a newcomer may take a permit on the fast
path.

**`Sema`** -- `semacquire1` and `semrelease1` on one root. `AcquireFast` is the
first `cansemacquire`; `AcquireLock` takes `root.lock`; `AcquireRecheck` raises
`nwait`, tries once more and queues; `AcquireWoken` is the way out of `goparkunlock`, a return
with a ticket or a permit, else round the loop. `ReleaseXadd`, `ReleaseCheck` (the
look at `nwait` without the lock), `ReleaseDequeue` and `ReleaseWake` (the readying
with the handoff, outside the lock) are the other side. The addresses in `Addr`
hash to the same root. The treap is a function from addresses to lists; FIFO and
LIFO queueing are kept.
**`SemaClient`** lets goroutines call it freely and states the refinement of
`Semaphore`: a goroutine wants a permit from its call until it takes one or a
releaser has taken one for it.

**`Lock`** -- what `Mutex` promises. **`Mutex`** -- the word as four variables,
`LockSpin`, `LockCAS` and `LockSleep` for the round of `lockSlow` that succeeds
(a swap that fails has no effect but another round with a fresh copy, so the load
and the swap that succeeds are one step), `LockWoken` for the load after the
semaphore, which settles whether the goroutine is starving and whether it will
end starvation mode, `LockTake` for the addition of that delta, `Unlock` and
`UnlockSlow`. The time a goroutine has waited is a nondeterministic `late`. In this
tree `lockSlow` begins with `old` at zero and not with the word; the first swap then fails
on any other word, so nothing changes. A goroutine unlocks what it has locked.

**`RWMutex`** -- each atomic addition is a step; `r` of `Lock` is kept between
the announcement and the addition to `readerWait`; `Unlock` releases `r` permits
one by one. `TryLock`, which takes `w` and may give it back, is modelled with its
three steps. Read locks are not nested, which the documentation of the type
forbids beside writers.

**`Once`** -- the fast path, `doSlow` with its second look at `done` under the
mutex, the deferred store and unlock, which also run when `f` panics, and around it
the closure of `OnceFunc`, whose `valid` and `p` decide what every call
comes to.

**`WaitGroup`** -- the addition, and for the one that reaches zero beside waiters
the check, the reset and one release per waiter. A `Wait`'s load and its swap are one
step, since the swap fails on any other word. Calls are those the panics of the code
demand (`Proper`), and somebody stays awake to finish the tasks (`Attended`). `Add(0)` is among them, except
at a counter of zero that still counts waiters. That a second `Add` comes at that moment is therefore ruled out, not caught: `NoPanic` says
nothing of it, and a positive one that the code may or may not notice is a mistake of the caller.

**`CondVar`**, **`Cond`** -- tickets modulo `Tickets` (2^32 in the code), `less` by the sign
of the difference; each stretch under `notifyList.lock` is a step; the two loads of
the fast path are two. `Timely` bounds how many tickets are drawn while a goroutine
is between its ticket and the list. `MCCond` adds the history that
`FastPathCovers` needs, and roles: goroutines call what they like, or are clients that
put items and signal, or take items in the waiting loop from the comment on `Wait`.

**`Channel`** -- values, `closed`, pending calls and their results; a send to a
waiting receiver is one step of both (`Meet`). **`Chan`** -- `chansend` and `chanrecv` under the channel's lock
are one step each, the lock-free looks before them are steps of their own; `closechan` takes
waiters one by one; `selectgo` locks its channels one after the other in the order
of their addresses, polls, queues on all, parks, and relocks to take its stale sudogs
out. `waitq.dequeue` skips the sudogs of selects that somebody else has won. The
wakeups a goroutine has still to deliver are in `wake`, and until they are delivered
the sleeper already has its result: that is the refinement mapping. `ChanHistory`
remembers whether a call has met a moment at which it could not proceed, and `MCChan` names
the calls, in three scenes. Left out: nil channels, timers' channels, the race detector,
stack shrinking, the random order of polling (any ready case may be chosen).

**`FdMutex`** -- the word as four variables; a loop round a swap of the whole word is a
step, as in `Mutex`; the wakeups of `increfAndClose` and `rwunlock` are steps of their
own. Any balanced use is allowed: `use` says what a goroutine may do next.
**`PollDesc`** -- `rg`, `wg`, the deadlines with their sequence numbers and timers, and
the kernel's edge-triggered events. A stretch under `pd.lock` is a step; each
`netpollunblock` in it is a step of its own, because `netpollblock` and
`netpollcheckerr` look at `rg` and `atomicInfo` without the lock. Stale timers
and events stay around and may come at any time. A deadline in the past is any negative number, so that setting
another one than before stops a timer that has run and changes `seq`, as comparing exact values does
in the code. The clock, the timer and epoll are external. **`FD`** composes them into `Read`, `Write`, `Set*Deadline`, `Close` and
`destroy`; the parking of `netpollblock` (swap, second look, commit, wakeup) is spelt
out. `Reopen` hands the `pollDesc` to a new descriptor. `MCFD` has three scenarios.

**`Context`** -- calls nest, so a goroutine has a stack of frames; what it does under
one `c.mu` without a call is a step, and `cancel` calls its children one after the other with
`c.mu` held. A node of `tree` has a parent, a kind (`cancel`, `timer`, `after`) and a
link to the parent: a `cancelCtx` that `parentCancelCtx` finds, one that must be
watched by a goroutine, or one with an `AfterFunc` method. `err` stands for error and cause.
The cancel function of a deadline that was past from the beginning passes `removeFromParent` false; the
model allows that for every cancelled context of a deadline that has no timer, a few more than those.
An `AfterFunc` relies on a `Once` to start its function or to stop it, but not both; `Context` takes a
`Once.Do` as one step, and `MCContext` checks `Once` beside it, in behaviours of its own.

**`Deque`** -- what the owner and the consumers of a Pool queue are promised.
**`PoolChain`** -- the rings and the chain. A swap of `headTail` that succeeds is one
step with its load; reading the slot, clearing its value and clearing its type word are
separate steps of `popTail`, and `pushHead` looks at the type word as the code does.
`MCPoolChain` adds the history `NothingJustified` needs and the refinement mapping:
a push takes effect at the addition to `headTail`, a pop at its swap.

**`SyncMap`** -- the two maps, entries and their pointers; a stretch under `m.mu` is
a step between two accesses of entries, an operation on an entry is a step. Entries nobody
can reach are reused, which bounds the model and loses nothing. `MCSyncMap`
checks linearizability with a monitor: `history` is the set of all pairs of
contents and results of pending calls that some order of the calls explains.
It is closed under "a pending call takes effect now", and loses the pairs
that contradict a result when a call returns; if it gets empty, no order explains what
the calls have returned. The monitor follows one key, which suffices because an object is linearizable when
its parts are (`Range` is watched for that key: the documentation promises no
snapshot, only that no key is visited twice and that what is
seen was there at some moment of the call). A call begins with its first access and
returns with its last; a longer interval would only allow more orders.

## 4. The runs

| run | module, cfg | what it asks | size |
|---|---|---|---|
| `sema` | `SemaClient`, `MCSema` | sleepers are on one list or in one releaser's hands, `nwait` is exact, no lost wakeup, implements `Semaphore` with its progress | 3 goroutines, 2 addresses, 2 calls each; 717,000 states |
| `mutex` | `MCMutex` | exclusion, no throw, one wakeup, starving means waiters, exact waiter count, no waiter beside a free mutex, implements `Lock` with its progress | 3 goroutines, any number of calls; 39,000 |
| `mutex_newcomers` | `MCMutex`, `MCMutexNewcomer` | *violated*: newcomers queue in starvation mode | 3 |
| `rwmutex` | `RWMutex`, `MCRWMutex` | exclusion, exact counts, one wakeup for the writer, no reader forgotten or admitted past a writer, every announced writer gets in | 5 goroutines; 30,000 |
| `waitgroup` | `MCWaitGroup` | no panic in proper use; waiters matched by permits, one waker, awake only at zero (`WaitersServed`); every `Wait` returns | 6 goroutines, counter to 3; 3,700 |
| `cond` | `MCCond` | implements `CondVar`, the fast path gives up only when it may, the notified wake up, no client sleeps beside an item no signal is coming for | 3 goroutines, 6 tickets, 2 items; 368,000 |
| `chan` | `MCChan` | the queue invariants of `chan.go`, every sleeper woken once, nobody left in a call that has a partner or in a cycle of locks, a default case was justified at some moment unless a close took the receivers from a send, implements `Channel` | 3 goroutines; a channel of capacity 2 with its fast paths, a buffered and an unbuffered one with selects, or an unbuffered one with a close; 393,000 states |
| `chan_close` | `MCChan`, `MCChanClose` | *violated*: a default case was justified at some moment | the third of those scenes |
| `fd` | `MCFD` | no throw of `netpoll.go`; nobody asleep at a lock or in the poller is forgotten; deadlines do not expire early; the last one out destroys the descriptor; every call ends that has a reason to | 3 goroutines, three scenarios of 4 or 5 calls; 572,000 |
| `context` | `MCContext` | a cancel has reached every descendant when it lets go of its mutex; nothing is left in parents and timers; every call and helper goroutine ends; of a `Once`: `f` called once, all calls share its fate, every call ends | 2 goroutines, 3 contexts in three trees, 2 calls besides those that create them; 3 callers of a `Once`, two panic values, any number of calls; 138,000 |
| `pool` | `MCPoolChain` | no value lost, given twice or kept alive; consumers are sent away only by an empty or changing queue; implements `Deque` | an owner and 2 consumers, rings of 1 and 2 slots, 8 indices, any number of calls; 609,000 |
| `syncmap` | `MCSyncMap` | linearizable; the dirty map lacks no live key | 3 goroutines with roles, two of which store; 2 keys, 2 values, any number of calls; 947,000 |

Several properties are conjunctions: `QueuesExact`, `WordConsistent`, `CountsExact`,
`OnceForAll` and `WaitersServed` each say of one structure that all its parts agree, and
are defined by named parts that the proofs treat one by one.

**Bounds.** The interesting cases need few actors. A lost wakeup takes a waiter, a
releaser and a third who takes the permit or the lock between them; starvation mode takes a holder, a
starving waiter and a newcomer, each of which may take any role later, since only `sema`, `fd` and
`context` bound the number of calls. `rwmutex` has two writers beside
three readers, so that permits of one round meet the next. `waitgroup` has enough
goroutines for several waiters, the last `Done` and a new round. Six tickets wrap several times
per behaviour, and are the fewest for which three goroutines stay within half the range. A select
race takes the select and one goroutine at each of its two channels. `NoDeadlock` is an
invariant and needs no fairness: a state in which somebody is left behind by all others is
a violation at once. A descriptor needs a reader, a second one that waits for the lock, and
a third that closes; or a sleeper, a setter of deadlines and two generations of timers. Three contexts
in a row show a cancel that passes through a child still being made. Rings of one and two slots
with eight indices wrap within a few calls, and two consumers are enough to race for a
slot, a ring and a `prev` pointer. In `SyncMap`, two goroutines store to one key, by different operations and with different
values; one of them also stores to the other key, which makes the dirty map and expunges the entry the other may be storing to.
Six entries are more than are ever in use at one moment there, so that bound cuts nothing off. The theorems of section 5 have none of these bounds. `rwmutexMaxReaders` is 16: only that it exceeds the number of goroutines matters.
Symmetry is used in runs without liveness only.

**Deadlock** is checked except where a program may really stop: `sema`, `fd` and
`context` (the calls are used up, or all wait), `cond` (everybody may wait for a
signal), `chan` (everybody may wait on a channel), `pool` (every ring of the chain may have
been used).

**Fairness.** A goroutine inside a call is eventually scheduled (weak fairness of
its step, which the preemptive scheduler gives; a runnable goroutine does not wait
for ever for its turn). Nobody has to begin a call, with one exception: a holder of
a lock eventually unlocks. Where a goroutine sleeps on an abstract part, the assumption is
exactly what that part promises, that *some* waiter is served. Starvation of a single goroutine is not
excluded at the level of `Mutex`: a newcomer may always be faster (see the first finding), and no
property here claims otherwise.
`FD` and `Context` need less: calls are bounded, and it suffices that *something* that can go on
does (weak fairness of one disjunction). Time passes and timers fire there; input need not come
and a goroutine of the program need not cancel, so `MayWait` names the sleepers that have nothing to wake them.
The lock-free parts (`PoolChain`, `SyncMap`) have no liveness properties: a
loop round a swap may lose for ever, and the code promises nothing else.

**Findings**: two texts that promise more than the code does.

`mutex_newcomers`, without harm to exclusion: the comment on mutex fairness says that in starvation mode
ownership goes directly to the waiter at the front and newcomers queue. A
newcomer is counted and calls `runtime_SemacquireMutex`, whose first
`cansemacquire` can take the permit between the releaser's `Xadd` and its
handoff; it then takes the mutex and the front waiter queues again.

`chan_close`: the language specification (`src/doc/go_spec.html:6768`) has a `select` choose a communication that can proceed
and the default case only otherwise. The fast path of a send that does not block reads `c.closed` and then `full(c)`,
for a channel without a buffer whether `recvq` is empty. If `closechan` sets `closed` and dequeues the receivers between the
two reads, the send has found the channel open and then without a receiver, and reports that it would block
(`chan.go:202`). Before the close it could have met the receiver, afterwards it would have had to panic; there was no moment for the default case. The run
has exactly the three calls this takes. `DefaultUnlessClosed` says that this is the only such case, and is proved.

**Observations** made while modelling, which no run states:

* `rwmutex.go:47` says that a blocked `Lock` keeps new readers out. A permit released for a
  reader of the round before can be taken by a reader that arrives
  behind the blocked writer. The earlier reader waits in its place, so the
  writer waits for no more readers than before (`NoNewAdmissions`).
* `waitgroup.go`: an `Add(0)` beside an `Add` that has brought the counter to zero and has
  not yet reset the word takes itself for the one that wakes the waiters as well: they are woken
  twice, and the permits left over end `Wait`s of a later round at once. `Proper` excludes
  just this `Add(0)`; with any other that is proper, `WaitersServed` holds.
* `netpoll.go:523` counts a parked goroutine in `netpollWaiters`; only `netpollgoready`
  takes it out again (`:529`), which close and deadlines use but readiness events do not.
  The count, a hint to the scheduler, can only grow with them.
* `context.go:469` says that only `afterFuncCtx` implements the `AfterFunc` method; it does not
  implement it. Nothing in the package does, the branch is for contexts of others.
* `poolChain.popTail` may come away empty-handed although the chain was never empty during the call:
  the ring it looks at is drained while the producer goes on to a new one.
  `NothingJustified` allows for that.

## 5. What is proved

| module | theorems |
|---|---|
| `MutexProofs`, semaphores | every action of `Sema` preserves `SemaInv` (lemmas for what embeds it); `SemaInvariant`, `SemaTypeCorrect`; `SemaQueuesExact` from its parts; `SemaLosesNoWakeup`; `SemaImplementsSemaphore` (safety) |
| `MutexProofs`, mutexes | `MutexTypeCorrect`, `MutexExcludes`, `MutexSingleWakeup`; `MutexWordConsistent` from `MutexConsistent`, `MutexStarvingHasWaiters` and `MutexWaitersExact`; `MutexForgetsNobody`, `MutexImplementsLock` (safety) |
| `RWMutexProofs` | `RWMutexInvariant` and from it exclusion, `RWMutexCountsExact` (the counts, the writer's wakeup, no forgotten reader), `syscall_hasWaitingReaders`, no new admissions |
| `WaitGroupProofs` | `WaitGroupInvariant`, `WaitGroupTypeCorrect`, `WaitGroupNoPanic`, `WaitGroupServesWaiters` |
| `CondProofs` | `CondInvariant`, `CondTypeCorrect`, `CondImplementsCondVar`; `CondFastPathCovers`, an action property; `CondNoItemForgotten` |
| `ChanProofs` | `ChanInvariant`, `ChanTypeCorrect`, `ChanQueuesExclusive`, `ChanWokenOnce`, `ChanNoLockCycle`; `ChanRefInvariant`, `ChanImplements`; `ChanDefaultInvariant`, `ChanDefaultUnlessClosed` |
| `FDProofs` | of any balanced use of an `fdMutex`: `MuInvariant`, `FdMutexTypeCorrect`, `FdMutexRefsExact`, `FdMutexSleepersCounted`, `FdMutexForgetsNoLock`, `FdMutexExcludes`; of a descriptor: `FDInvariant`, `FDTypeCorrect`, `FDSleepersCounted`, `FDDestroyedLast`, `FDNoThrow`, `FDForgetsNoSleeper`, and `FDOnTime`, an action property |
| `ContextProofs` | `ContextInvariant`, `ContextTypeCorrect`, `ContextCancelReaches`, `ContextNothingLeaks`; of a `Once`: `OnceInvariant`, `OnceTypeCorrect`; `OnceIsForAll` from `OnceCallsOnce` and `OnceSharesFate` |
| `SyncMapProofs` | `SyncMapInvariant`, `SyncMapTypeCorrect`, `SyncMapDirtyComplete` |

They hold for every value of the constants that satisfies the assumptions in the
modules. Those say that the set of goroutines is finite where they are counted; that the values which stand for
nobody, no call or no entry are none of the goroutines, calls or entries; that the
mutex's semaphore is among the addresses and `rwmutexMaxReaders` above the number of goroutines; that the number of tickets of a `Cond` is even and at least
twice that of the goroutines (2^32 in the code); that
channels are finitely many and no two have one address, and that no result is the mark for none (`ChanAssumption`), and that the calls are well formed: a
send, a receive or a close has one case, a select one or more (`OpsAssumption`), a call of `sync.Map` has a kind
and the values that kind takes (`CallAssumption`); and that every tree of contexts gives each a parent, a kind and a link, with timers
and watching goroutines no goroutines of the program (`ContextAssumption`). Nothing says that a tree is finite or without cycles: a
context is created under one that has been made. TLC evaluates all of them in the runs.

*Semaphores.* `SemaInv` says, for every control point, what the arguments of the call
are; that a goroutine is on at most one list, its own address's, exactly when it is
parked and in no releaser's hands; who holds `root.lock`; and that `nwait` is the number
queued, plus one while an acquirer has raised it and not yet queued. Exactness of
`nwait` is a cardinality argument over the disjoint lists. The
refinement needs only that a ticket is set while its owner sleeps. `NoLostWakeup` is inductive
beside `SemaInv`, one address at a time: a step adds a permit and a waker, or takes
a waker away together with a permit, or leaves no permit or no sleeper. The step that needs the most is
`ReleaseCheck`, which goes home on `nwait = 0`, read without the lock: that nobody
sleeps then is the exactness of `nwait`, counted from before the waiter is queued.

*Mutex.* `MutualExclusion` is not inductive: a goroutine that wakes in starvation
mode takes the lock with an addition, without looking at the locked bit. That the bit is free
then is `SingleWakeup`: the woken bit, or a free mutex in starvation mode,
stands for exactly one wakeup, which is either the semaphore's only permit or carried by one goroutine.
`CarrierModes` says which bits go with which carrier, `StarvingHasWaiters` that
the addition cannot take the count below zero. The throws of `lockSlow`
contradict the same invariants. `MutexWaitersExact` is then an account of the
goroutines asleep, one step at a time.

*RWMutex.* The invariant is an accounting of the numbers of goroutines at each
control point: `readerCount` is the readers announced, less `rwmutexMaxReaders`
while a writer is; `readerWait`, which may be negative, is what the writer must still wait for;
the permits are those asleep and not yet served. The proof moves one goroutine at
a time from one control point to another (`CntMove`), so that every action is
linear arithmetic over the counts.

*Once.* Who holds the mutex, how often `f` was called at each control point, that
`done` means `f` has ended, and that the closure's variables tell its fate.

*WaitGroup.* The invariant `WgInv` follows the one `Add` that finds zero beside waiters. While it checks and resets,
the counter is zero, the word is what it left, no permit exists and nobody is awake (`WakerInv`); the only
goroutines that could change the word would have to add at zero beside waiters, or below zero, and
`Proper` excludes both, as the code's panics demand. `MatchInv` counts: asleep are those in the
word, those with a permit, and those the loop has still to release. `WaitersServed` alone
does not say why no second `Add` starts to wake, which is what `ZeroInv` and
`WakerInv` add; `AwakeInv` keeps the counter at zero until the last one is out.

*Descriptor mutex.* `MuInv` says which uses go with which bits: the locks and
references in the word are those of the goroutines inside, and a goroutine that sleeps for a lock
is counted in the word, or has a permit, or is in the loop of an unlock or of the `Close` that took it out
of the word. Each is a count of goroutines, moved by `SetMove` (how the size of a set changes when one element comes or
goes; each module that counts has a copy of it). These theorems are about any balanced use of an
`fdMutex`.

*Descriptors.* `FD` is one such use: `PcInv` says which use goes with which point of a call, so every step of `FD` is a step
of the `fdMutex` or leaves it alone, and `MuInv` carries over. None of the properties the run checks is inductive. That nobody sleeps beside
input (`InputInv`) has to be followed from the system call that found nothing, through `netpollcheckerr` and the swap of `rg`,
to the sleep: at each of those points either the notification is there, or an event is under way.
For errors (`ErrorInv`) it holds only behind the second look, which is why that look is there. `TimerInv` is what stale timers do to deadlines: a
timer function that has started and is not stale has the sequence number of the
deadline it was set for, and then that deadline has come (`FiredAgree`); a deadline ahead has the timer it shares with the other mode, or
its own (`TimerOf`, `DeadlinesPending`); and between the two halves of a shared timer the other deadline is still to be expired (`HalfExpired`).
`FDOnTime` follows from the same invariant, step by step. `CloseInv` orders `increfAndClose`, `evict` and `destroy`; with `RefsExact`
the last reference is given back when nobody is inside.

*Channels.* `ChanInv` follows a goroutine that waits. Asleep, it is in the queue of each of its cases and nobody has won its select
(`AsleepInv`, `WonInv`). Dequeued, exactly one wakeup of it is in somebody's hands, and the sudog in that wakeup is in no queue
any more, nor will it be (`WakeInv`, `Taken`); the sudogs it leaves in other queues are stale, and only its own pass 3
takes the last of them out (`QueueInv`). `QueuesExclusive` by itself is not inductive: it speaks of channels nobody has locked, but a
communication relies on it when it has the lock. `ExclusiveInv` says the same of every channel at any time, but
for a closed one whose `closechan` is still going through its queues. The steps fall into few kinds, by what they do
to the queues: one lemma says what becomes of the waiting goroutines when sudogs are dropped and one is won (`WinWaits`),
when sudogs are dropped only (`QuietWaits`), when a goroutine parks, is readied, or cleans up after a select. `ChanNoLockCycle` needs its own
invariant: what a goroutine holds in a select comes, in the order of addresses, before what it is still to lock. Of any goroutines that are
locking, the one with the greatest lock then waits for none of the others.
`ChanImplements` has a lemma per action: the step is one of `Channel`, or none (`Refines`). It needs three facts beside `ChanInv`: a call has a
result of its own from the step that fixes it to its return, and a call on a fast path that found its channel closed finds it closed again
(`ResultInv`); `sendx` is where the value after the last one goes (`RingInv`); a select that has nothing left to lock has all its locks
(`LockInv`). The ring buffer and the abstract sequence are compared once for each of the three ways it changes (`PutHolds`, `GetHolds`, `ExchangeHolds`).
A result is abstractly there as soon as a waker has dequeued the sleeper (`Outcome`). `ChanInv` makes the mapping well defined, because at
most one wakeup of a goroutine is under way; and since the sleeper's sudog is taken when its result appears, it cannot be settled twice (`OthersResult`).

`ChanDefaultUnlessClosed` is about two reads without a lock (`DefaultInv`). A receive reads first that there is nothing and then that the channel is not closed;
because a closed channel stays closed, the first moment is one at which it could not proceed. A send reads first that the channel is not closed and then that it is
full. With a buffer, nobody can fill it after the close, so if it is full then and closed, it was full just before the close. Without one the
close itself takes the receivers away, and that is the exception. `Arrives` says how a call gets to its second read and to its default case, so that
the invariant needs no more of the other actions than what they leave alone.

*Cond.* Everything is said in *ages*: how many tickets have been drawn since a ticket was, its own draw included (`Age`), modulo the number of tickets. `TicketInv` says that the
waiters nobody has notified are as many as the tickets pending, and hold those tickets, one each; since they are goroutines, no more than half of all
tickets are ever pending. Drawing adds one to every age, notifying takes the greatest away, and whether `less` tells the truth
is linear arithmetic (`LessIsOlder`), provided both ages are at most half. For a goroutine between its ticket and the list
that is `WayInv`, which is where `Timely` is needed: it may have been notified long ago, and nothing else stops the tickets from
going round while it stands there. A waiter may be notified before it is on the list; `NotifyOne` then finds nobody, and
the proof that its abstract step is still the departure of the oldest waiter (`OldestLeaves`) is `OldestTicket` and `OnTheWayAfter`. Once every operation is known to
leave the waiters alone, to add a youngest one, or to take away the oldest or all (`CondStep`), the refinement is
about sequences ordered by age (`InOrder`). `CondFastPathCovers` needs only that the waiters a notifier owes are older than the `wait` it loaded (`OwedInv`): if that is
the `notify` it loads next, none of them is pending. `NoItemForgotten` is not inductive: it counts every signal under way, and some of those end
on the fast path. `ItemsInv` counts, for each waiter, only the signals whose loaded ticket is younger than it, which cannot end there while it waits;
each step of a client then keeps the balance of items against signals and takers, and `NotifyOne` makes a taker of
the waiter it notifies as it ceases to be a signal.

*Contexts.* `CtxInv` speaks of the frames of a goroutine's stack from the bottom up (`Frame`), so that a call leaves the numbers of the frames
below as they are; five lemmas say what a call, a return, a step within a frame and a new stack do to all frames (`PushFrames` and those beside it), and
the steps are proved from those. `LockInv`: a mutex is held by one frame only, that of a cancel at the children or of a creation that has met a
cancelled parent. `CancelReaches` is not inductive, because it speaks of parents whose mutex is free; in between, a child that
lives is in its parent's children, and the cancel that goes through them has still to call it or is calling it (`ReachInv`). A child that was
never registered is one whose creation has met the cancel, and has the call that cancels it on top (`RegisterInv`).
`NothingLeaks` needs, for every tie of a cancelled context to its parent or timer, the frame that will undo it: a child cancelled with `removeFromParent` unset
is taken out by its parent's `cancel`, which empties `children`, or was cancelled before that cancel began; any other by its own `removeChild` (`LeakInv`, `ChildrenInv`). `KnownInv` says that
before a context is tied to its parent nobody else can touch it, which is why the creation may set the hook, or start the goroutine, without `c.mu`.

*sync.Map.* `DirtyComplete` is about the moments between calls' stretches under `m.mu`. Inside, `LockInv` says what the call at hand knows, and
`Filling` how far `dirtyLocked` has come: the keys done are in the new dirty map unless their entries are expunged, the others are not, and none of
those is expunged yet. Calls without the lock change entries meanwhile. They neither expunge nor take back an expunged entry, which is what
`entry.trySwap` and the other lock-free operations refuse to do.

**Only model-checked:**

* All liveness: the prover does no fairness arguments.
* The second half of `NoDeadlock` of `Chan`, which speaks of ENABLED; the first half, that locks are not waited for
  in a circle, is `ChanNoLockCycle`.
* `Linearizable` of `sync.Map`. Its monitor is closed under "some pending call takes effect" by a recursive operator, over which
  a proof would need induction. A proof would name one order instead; the difficulty is that the place of a call in it
  depends on what others do later (a load of a missing key that reads an old `dirty`).
* The Pool queues. The mapping to `Deque` joins the rings by recursion along the chain; `NothingRetained` and
  `NothingJustified` do not speak of that mapping, but need an invariant of the two-step clearing of slots in every ring, which has not been worked out.

The type invariants of the modules with theorems are proved and not
repeated in the runs; the safety halves of the refinements of `Semaphore` and `Lock`
are proved, the runs check them again together with the progress they promise. Facts that need
induction over a data structure, and recursive operators, are out of this prover's
reach; the modules with theorems use none.

## 6. What is assumed and left out

* Runtime locks are atomic; a stretch of code under one is a step unless it
  touches memory that others change without the lock.
* `goready` of a parked goroutine runs it once. A goroutine that is readied
  while it is on its way to park is parked first: `goparkunlock` gives the lock
  back only after the goroutine's state is set.
* Memory order is that of sequentially consistent atomics, also for `sema.go`'s.
* Counters that would need more goroutines than memory holds (2^29 mutex waiters,
  2^30 readers, 2^31 of a `WaitGroup`) are unbounded; only the tickets of `Cond` keep their width,
  because they wrap in normal use. A goroutine that stays between its ticket and the
  list while half of all tickets are drawn is excluded by `Timely`; the code would then
  take its notified ticket for a future one.
* Calls that end a program (unlock of an unlocked mutex, misuse of a `WaitGroup`)
  are not among the inputs; neither are nested read locks, an `f` that calls its
  own `Once` or does not end, and `runtime.Goexit` inside `f`; nor the overflow of the
  20-bit fields of an `fdMutex`.
* Descriptors are in pollable mode on an edge-triggered poller; writes are not partial; a
  `pollDesc` is reused at once and by one descriptor.
* A `Range` is not ended early and `sync.Map` holds no nil values. Its `CompareAndSwap` and `CompareAndDelete`
  compare values of comparable types.
* In `context`, values, `WithoutCancel` and `Cause` of foreign contexts are left out; a
  deadline later than the parent's is a `WithCancel`, as in the code.
