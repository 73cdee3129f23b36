------------------------------ MODULE RWMutex ------------------------------
(***************************************************************************)
(* sync.RWMutex (sync/rwmutex.go) on what its parts promise: rw.w is the   *)
(* abstract Lock that Mutex implements, and readerSem and writerSem are    *)
(* the abstract Semaphore that runtime/sema.go implements.  So a permit    *)
(* may be taken by any goroutine that waits for one, whenever it came.     *)
(*                                                                         *)
(* A goroutine holds rw at most once: read locks are not nested, and the   *)
(* goroutine that locks is the one that unlocks.                           *)
(***************************************************************************)
EXTENDS Integers, FiniteSets

CONSTANTS
  G,                  \* goroutines
  NoG,                \* "nobody"
  ReaderSem, WriterSem, NoAddr,
  rwmutexMaxReaders   \* the bias of readerCount while a writer is pending

ASSUME RWMutexAssumption ==
  /\ IsFiniteSet(G)
  /\ NoG \notin G
  /\ ReaderSem # WriterSem
  /\ NoAddr \notin {ReaderSem, WriterSem}
  /\ rwmutexMaxReaders \in Nat
  /\ Cardinality(G) < rwmutexMaxReaders

VARIABLES
  wHolder, wWants,    \* rw.w
  permits, waitsFor,  \* rw.readerSem and rw.writerSem
  readerCount,
  readerWait,
  pc,
  r                   \* the local r of Lock, and what is left of Unlock's loop

w == <<wHolder, wWants>>
sems == <<permits, waitsFor>>
vars == <<w, sems, readerCount, readerWait, pc, r>>

W == INSTANCE Lock WITH holder <- wHolder, wants <- wWants

Sem == INSTANCE Semaphore WITH
  Addr <- {ReaderSem, WriterSem}, count <- permits, wants <- waitsFor

RWPC == {"out", "rsem", "reading", "runlockslow", "wakewriter", "wlock",
         "announce", "drain", "wsem", "trywrite", "tryfailed", "writing",
         "wakereaders", "wunlock"}

Init ==
  /\ wHolder = NoG /\ wWants = {}
  /\ permits = [a \in {ReaderSem, WriterSem} |-> 0]
  /\ waitsFor = [g \in G |-> NoAddr]
  /\ readerCount = 0
  /\ readerWait = 0
  /\ pc = [g \in G |-> "out"]
  /\ r = [g \in G |-> 0]

Goto(g, from, to) == pc[g] = from /\ pc' = [pc EXCEPT ![g] = to]

-----------------------------------------------------------------------------
(* Readers.                                                                *)

\* RLock: count the reader; behind a pending writer it has to wait.
RLock(g) ==
  /\ readerCount' = readerCount + 1
  /\ \/ /\ readerCount' < 0
        /\ Sem!Want(g, ReaderSem)
        /\ Goto(g, "out", "rsem")
     \/ /\ readerCount' >= 0
        /\ Goto(g, "out", "reading")
        /\ UNCHANGED sems
  /\ UNCHANGED <<w, readerWait, r>>

RLockWoken(g) ==
  /\ Sem!Take(g, ReaderSem)
  /\ Goto(g, "rsem", "reading")
  /\ UNCHANGED <<w, readerCount, readerWait, r>>

\* Slip: TryRLock takes no notice of a pending writer.
TryRLockBarges(g) ==
  /\ readerCount' = readerCount + 1
  /\ Goto(g, "out", "reading")
  /\ UNCHANGED <<w, sems, readerWait, r>>

\* A TryRLock that succeeds; it fails only beside a writer.
TryRLock(g) ==
  /\ readerCount >= 0
  /\ readerCount' = readerCount + 1
  /\ Goto(g, "out", "reading")
  /\ UNCHANGED <<w, sems, readerWait, r>>

RUnlock(g) ==
  /\ readerCount' = readerCount - 1
  /\ Goto(g, "reading", IF readerCount' < 0 THEN "runlockslow" ELSE "out")
  /\ UNCHANGED <<w, sems, readerWait, r>>

\* Slip: wake the writer also before it has added its r.
RUnlockSlowEarly(g) ==
  /\ readerWait' = readerWait - 1
  /\ Goto(g, "runlockslow", IF readerWait' <= 0 THEN "wakewriter" ELSE "out")
  /\ UNCHANGED <<w, sems, readerCount, r>>

\* rUnlockSlow: the last reader the writer waits for wakes it.
RUnlockSlow(g) ==
  /\ readerWait' = readerWait - 1
  /\ Goto(g, "runlockslow", IF readerWait' = 0 THEN "wakewriter" ELSE "out")
  /\ UNCHANGED <<w, sems, readerCount, r>>

WakeWriter(g) ==
  /\ Goto(g, "wakewriter", "out")
  /\ Sem!Give(WriterSem)
  /\ UNCHANGED <<w, readerCount, readerWait, r>>

-----------------------------------------------------------------------------
(* Writers.                                                                *)

\* rw.w.Lock.
Lock(g) ==
  /\ \/ W!Request(g) /\ Goto(g, "out", "wlock")
     \/ W!AcquireAtOnce(g) /\ Goto(g, "out", "announce")
  /\ UNCHANGED <<sems, readerCount, readerWait, r>>

LockW(g) ==
  /\ W!Acquire(g)
  /\ Goto(g, "wlock", "announce")
  /\ UNCHANGED <<sems, readerCount, readerWait, r>>

\* Announce the writer to the readers; r of them are registered already.
LockAnnounce(g) ==
  /\ readerCount' = readerCount - rwmutexMaxReaders
  /\ r' = [r EXCEPT ![g] = readerCount]
  /\ Goto(g, "announce", IF readerCount = 0 THEN "writing" ELSE "drain")
  /\ UNCHANGED <<w, sems, readerWait>>

\* Slip: beside readers, withdraw the announcement and start again.
LockDrainBacksOff(g) ==
  /\ r' = [r EXCEPT ![g] = 0]
  /\ \/ /\ readerCount + rwmutexMaxReaders = 0
        /\ Goto(g, "drain", "writing")
        /\ UNCHANGED readerCount
     \/ /\ readerCount + rwmutexMaxReaders # 0
        /\ readerCount' = readerCount + rwmutexMaxReaders
        /\ Goto(g, "drain", "announce")
  /\ UNCHANGED <<w, sems, readerWait>>

\* Wait for those of the r that have not left since.
LockDrain(g) ==
  /\ readerWait' = readerWait + r[g]
  /\ r' = [r EXCEPT ![g] = 0]
  /\ \/ /\ readerWait' = 0
        /\ Goto(g, "drain", "writing")
        /\ UNCHANGED sems
     \/ /\ readerWait' # 0
        /\ Sem!Want(g, WriterSem)
        /\ Goto(g, "drain", "wsem")
  /\ UNCHANGED <<w, readerCount>>

LockWoken(g) ==
  /\ Sem!Take(g, WriterSem)
  /\ Goto(g, "wsem", "writing")
  /\ UNCHANGED <<w, readerCount, readerWait, r>>

\* TryLock whose rw.w.TryLock succeeds; one that fails there does nothing.
TryLock(g) ==
  /\ W!AcquireAtOnce(g)
  /\ Goto(g, "out", "trywrite")
  /\ UNCHANGED <<sems, readerCount, readerWait, r>>

\* Slip: announce the writer without looking at the readers.
TryLockAnnounceBlind(g) ==
  /\ readerCount' = readerCount - rwmutexMaxReaders
  /\ Goto(g, "trywrite", "writing")
  /\ UNCHANGED <<w, sems, readerWait, r>>

TryLockAnnounce(g) ==
  /\ \/ /\ readerCount = 0
        /\ readerCount' = 0 - rwmutexMaxReaders
        /\ Goto(g, "trywrite", "writing")
     \/ /\ readerCount # 0
        /\ Goto(g, "trywrite", "tryfailed")
        /\ UNCHANGED readerCount
  /\ UNCHANGED <<w, sems, readerWait, r>>

TryLockFail(g) ==
  /\ W!Release(g)
  /\ Goto(g, "tryfailed", "out")
  /\ UNCHANGED <<sems, readerCount, readerWait, r>>

\* Unlock: readers may enter from here on; r of them are waiting.
Unlock(g) ==
  /\ readerCount' = readerCount + rwmutexMaxReaders
  /\ r' = [r EXCEPT ![g] = readerCount']
  /\ Goto(g, "writing", IF readerCount' = 0 THEN "wunlock" ELSE "wakereaders")
  /\ UNCHANGED <<w, sems, readerWait>>

\* One round of the loop that wakes them.
WakeReader(g) ==
  /\ Sem!Give(ReaderSem)
  /\ r' = [r EXCEPT ![g] = @ - 1]
  /\ Goto(g, "wakereaders", IF r'[g] = 0 THEN "wunlock" ELSE "wakereaders")
  /\ UNCHANGED <<w, readerCount, readerWait>>

UnlockW(g) ==
  /\ W!Release(g)
  /\ Goto(g, "wunlock", "out")
  /\ UNCHANGED <<sems, readerCount, readerWait, r>>

-----------------------------------------------------------------------------
Step(g) ==
  \/ RUnlock(g) \/ RUnlockSlow(g) \/ WakeWriter(g)
  \/ LockAnnounce(g) \/ LockDrain(g)
  \/ TryLockAnnounce(g) \/ TryLockFail(g)
  \/ Unlock(g) \/ WakeReader(g) \/ UnlockW(g)

Call(g) == RLock(g) \/ TryRLock(g) \/ Lock(g) \/ TryLock(g)

Granted(g) == RLockWoken(g) \/ LockWoken(g) \/ LockW(g)

Next == \E g \in G : Step(g) \/ Call(g) \/ Granted(g)

Safety == Init /\ [][Next]_vars

(* Every goroutine inside an operation is scheduled and every holder       *)
(* unlocks; the semaphores and rw.w serve some waiter, as they promise.    *)
Spec ==
  /\ Safety
  /\ \A g \in G : WF_vars(Step(g))
  /\ WF_vars(\E g \in G : RLockWoken(g))
  /\ WF_vars(\E g \in G : LockWoken(g))
  /\ WF_vars(\E g \in G : LockW(g))

-----------------------------------------------------------------------------
In(here) == {g \in G : pc[g] \in here}

TypeOK ==
  /\ wHolder \in G \cup {NoG}
  /\ wWants \in SUBSET G
  /\ permits \in [{ReaderSem, WriterSem} -> Nat]
  /\ waitsFor \in [G -> {ReaderSem, WriterSem, NoAddr}]
  /\ readerCount \in Int
  /\ readerWait \in Int
  /\ pc \in [G -> RWPC]
  /\ r \in [G -> Nat]

(* A writer is alone: neither another writer nor a reader is inside.       *)
WriterExcludes ==
  \A g, h \in G : pc[g] = "writing" /\ pc[h] \in {"writing", "reading"} => g = h

Announced == In({"drain", "wsem", "writing"}) # {}

Registered == In({"rsem", "reading"})

(* readerCount is the number of readers inside or waiting, less            *)
(* rwmutexMaxReaders exactly while a writer is pending or inside: the      *)
(* "RUnlock of unlocked" and "Unlock of unlocked" errors cannot arise from *)
(* balanced calls.                                                         *)
ReaderCountExact ==
  readerCount = Cardinality(Registered)
                  - (IF Announced THEN rwmutexMaxReaders ELSE 0)

(* The readers a pending writer waits for: those inside, those on their    *)
(* way out, and the permits of readerSem that any reader may yet take.     *)
Admitted ==
  Cardinality(In({"reading", "runlockslow"})) + permits[ReaderSem]

(* A sleeping writer counts in readerWait the readers still admitted, and  *)
(* is woken when and only when there are none: exactly one wakeup is then  *)
(* in writerSem or on its way there, and none before.                      *)
WriterWakeup ==
  /\ \A g \in In({"wsem"}) : readerWait = Admitted
  /\ permits[WriterSem] + Cardinality(In({"wakewriter"}))
       = IF In({"wsem"}) # {} /\ Admitted = 0 THEN 1 ELSE 0

(* Unlock wakes every reader that came while it held or awaited the lock:  *)
(* without a pending writer, each waiting reader has a permit to take or   *)
(* one that Unlock's loop will release.                                    *)
NoReaderForgotten ==
  ~Announced =>
    Cardinality(In({"rsem"})) =
      permits[ReaderSem]
        + (IF wHolder # NoG /\ pc[wHolder] = "wakereaders" THEN r[wHolder] ELSE 0)

(* What the counters and permits say of the goroutines, between any two    *)
(* steps of any of them.                                                   *)
CountsExact == ReaderCountExact /\ WriterWakeup /\ NoReaderForgotten

(* syscall_hasWaitingReaders, on which the fork lock relies.               *)
HasWaitingReaders ==
  readerCount < 0 /\ readerCount + rwmutexMaxReaders > 0

(* Asked by the writer, hasWaitingReaders tells whether a reader waits.    *)
WaitingReadersSeen ==
  \A g \in In({"writing"}) : HasWaitingReaders <=> In({"rsem"}) # {}

(* Writers have priority: while a writer is pending no further reader is   *)
(* admitted, so the readers it has to wait for only become fewer.          *)
NoNewAdmissions == [][Announced /\ Announced' => Admitted' <= Admitted]_vars

(* A writer that has announced itself gets the lock, however many readers  *)
(* keep coming.                                                            *)
WriterGetsIn ==
  \A g \in G : pc[g] \in {"drain", "wsem"} ~> pc[g] = "writing"
=============================================================================
