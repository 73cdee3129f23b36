--------------------------- MODULE RWMutexProofs ---------------------------
(***************************************************************************)
(* Theorems about sync.RWMutex for any finite set of goroutines: a writer  *)
(* is alone, the counts in readerCount and readerWait are exact, and the   *)
(* wakeups of readers and writers match those that sleep.                  *)
(***************************************************************************)
EXTENDS RWMutex, FiniteSetTheorems, TLAPS

(* How many goroutines are at a control point.                             *)
Cnt(here) == Cardinality({g \in G : pc[g] = here})

AnnouncedPC == {"drain", "wsem", "writing"}

OwnerPC == AnnouncedPC \cup
  {"announce", "trywrite", "tryfailed", "wakereaders", "wunlock"}

Adm == Cnt("reading") + Cnt("runlockslow") + permits[ReaderSem]

(* The control points say who holds rw.w and who waits for what.           *)
CallInv ==
  \A g \in G :
    /\ wHolder = g <=> pc[g] \in OwnerPC
    /\ g \in wWants <=> pc[g] = "wlock"
    /\ waitsFor[g] = ReaderSem <=> pc[g] = "rsem"
    /\ waitsFor[g] = WriterSem <=> pc[g] = "wsem"
    /\ r[g] # 0 => pc[g] \in {"drain", "wakereaders"}
    /\ pc[g] = "wakereaders" => r[g] > 0

CountInv ==
  /\ readerCount \in {Cnt("rsem") + Cnt("reading"),
                      Cnt("rsem") + Cnt("reading") - rwmutexMaxReaders}
  /\ readerCount < 0 <=> \E g \in G : pc[g] \in AnnouncedPC

(* What holds while no writer is announced: the readers that wait are      *)
(* those that Unlock has released or is about to release.                  *)
OpenInv ==
  (\A g \in G : pc[g] \notin AnnouncedPC) =>
    /\ readerWait = 0
    /\ Cnt("runlockslow") = 0
    /\ Cnt("wakewriter") = 0
    /\ permits[WriterSem] = 0
    /\ \A g \in G : pc[g] = "wakereaders" => Cnt("rsem") = permits[ReaderSem] + r[g]
    /\ (\A g \in G : pc[g] # "wakereaders") => Cnt("rsem") = permits[ReaderSem]

(* What holds for the announced writer, from its subtraction to Unlock.    *)
WriterInv ==
  \A g \in G :
    /\ pc[g] \in AnnouncedPC => permits[ReaderSem] <= Cnt("rsem")
    /\ pc[g] \in {"drain", "writing"} =>
         Cnt("wakewriter") = 0 /\ permits[WriterSem] = 0
    /\ pc[g] = "drain" => readerWait <= 0 /\ readerWait + r[g] = Adm
    /\ pc[g] = "wsem" =>
         /\ readerWait = Adm
         /\ Adm = 0 => Cnt("wakewriter") + permits[WriterSem] = 1
         /\ Adm # 0 => Cnt("wakewriter") + permits[WriterSem] = 0
    /\ pc[g] = "writing" => readerWait = 0 /\ Adm = 0

RWInv == TypeOK /\ CallInv /\ CountInv /\ OpenInv /\ WriterInv
-----------------------------------------------------------------------------
(* Counting.                                                               *)

(* The counts are natural numbers, and zero only where nobody is.          *)
LEMMA CntNat ==
  ASSUME NEW p
  PROVE  /\ IsFiniteSet({g \in G : pc[g] = p})
         /\ Cnt(p) \in Nat
         /\ Cnt(p) = 0 <=> \A g \in G : pc[g] # p
<1>1. IsFiniteSet({g \in G : pc[g] = p})
  BY RWMutexAssumption, FS_Subset
<1>2. Cnt(p) \in Nat
  BY <1>1, FS_CardinalityType DEF Cnt
<1>3. Cnt(p) = 0 <=> {g \in G : pc[g] = p} = {}
  BY <1>1, FS_EmptySet DEF Cnt
<1> QED
  BY <1>1, <1>2, <1>3

(* Readers inside and waiting are different goroutines.                    *)
LEMMA CntTwo ==
  ASSUME NEW p, NEW q, p # q
  PROVE  /\ Cnt(p) + Cnt(q) = Cardinality({g \in G : pc[g] \in {p, q}})
         /\ Cnt(p) + Cnt(q) <= Cardinality(G)
<1> DEFINE P == {g \in G : pc[g] = p}
           Q == {g \in G : pc[g] = q}
<1>1. IsFiniteSet(P) /\ IsFiniteSet(Q)
  BY CntNat
<1>2. P \cap Q = {}
  OBVIOUS
<1>3. Cardinality(P \cup Q) = Cardinality(P) + Cardinality(Q) - Cardinality(P \cap Q)
  BY <1>1, FS_Union
<1>4. Cardinality(P \cap Q) = 0
  BY <1>2, FS_EmptySet
<1>5. Cardinality(P \cup Q) = Cardinality({g \in G : pc[g] \in {p, q}})
  <2>1. P \cup Q = {g \in G : pc[g] \in {p, q}}
    OBVIOUS
  <2> QED
    BY <2>1
<1>6. P \cup Q \subseteq G
  OBVIOUS
<1>7. Cardinality(P \cup Q) <= Cardinality(G)
  BY <1>6, RWMutexAssumption, FS_Subset
<1>8. Cnt(p) = Cardinality(P) /\ Cnt(q) = Cardinality(Q)
  BY DEF Cnt
<1>9. Cnt(p) \in Nat /\ Cnt(q) \in Nat
  BY CntNat
<1> HIDE DEF P, Q
<1>10. Cnt(p) + Cnt(q) = Cardinality(P \cup Q)
  BY <1>3, <1>4, <1>8, <1>9
<1> QED
  BY <1>5, <1>7, <1>10

(* A goroutine that moves is counted where it goes and no longer where it  *)
(* was.                                                                    *)
Moved(p, from, to) ==
  Cnt(p)' = Cnt(p) + (IF p = to THEN 1 ELSE 0) - (IF p = from THEN 1 ELSE 0)

(* The counts after a step of one goroutine.                               *)
LEMMA CntMove ==
  ASSUME TypeOK, NEW g \in G, NEW from, NEW to, from # to,
         Goto(g, from, to)
  PROVE  /\ Moved("rsem", from, to) /\ Moved("reading", from, to)
         /\ Moved("runlockslow", from, to) /\ Moved("wakewriter", from, to)
<1>1. pc[g] = from /\ \A h \in G : pc'[h] = IF h = g THEN to ELSE pc[h]
  BY DEF TypeOK, Goto
<1>2. ASSUME NEW p PROVE Moved(p, from, to)
  <2> DEFINE S == {h \in G : pc[h] = p}
  <2>1. IsFiniteSet(S) /\ Cardinality(S) \in Nat /\ Cnt(p) = Cardinality(S)
    BY CntNat DEF Cnt
  <2>2. Cnt(p)' = Cardinality({h \in G : pc'[h] = p})
    BY DEF Cnt
  <2>3. CASE p = to
    <3>1. {h \in G : pc'[h] = p} = S \cup {g} /\ g \notin S
      BY <1>1, <2>3
    <3>2. Cardinality(S \cup {g}) = Cardinality(S) + 1
      BY <2>1, <3>1, FS_AddElement
    <3>3. Cnt(p)' = Cardinality(S \cup {g})
      BY <2>2, <3>1
    <3> QED
      BY <2>1, <2>3, <3>2, <3>3 DEF Moved
  <2>4. CASE p = from
    <3>1. {h \in G : pc'[h] = p} = S \ {g} /\ g \in S
      BY <1>1, <2>4
    <3>2. Cardinality(S \ {g}) = Cardinality(S) - 1
      BY <2>1, <3>1, FS_RemoveElement
    <3>3. Cnt(p)' = Cardinality(S \ {g})
      BY <2>2, <3>1
    <3> QED
      BY <2>1, <2>4, <3>2, <3>3 DEF Moved
  <2>5. CASE p # to /\ p # from
    <3>1. {h \in G : pc'[h] = p} = S
      BY <1>1, <2>5
    <3> QED
      BY <2>1, <2>2, <2>5, <3>1 DEF Moved
  <2> QED
    BY <2>3, <2>4, <2>5
<1> QED
  BY <1>2

(* The counts the invariant is about are natural numbers.                  *)
LEMMA CntNats ==
  /\ Cnt("rsem") \in Nat /\ Cnt("reading") \in Nat
  /\ Cnt("runlockslow") \in Nat /\ Cnt("wakewriter") \in Nat
  BY CntNat

LEMMA CntStay ==
  ASSUME UNCHANGED pc PROVE \A p : Cnt(p)' = Cnt(p)
  BY DEF Cnt

(* The same of the next state.                                             *)
LEMMA CntNatsNext ==
  (/\ Cnt("rsem") \in Nat /\ Cnt("reading") \in Nat
   /\ Cnt("runlockslow") \in Nat /\ Cnt("wakewriter") \in Nat)'
<1>1. /\ Cnt("rsem") \in Nat /\ Cnt("reading") \in Nat
      /\ Cnt("runlockslow") \in Nat /\ Cnt("wakewriter") \in Nat
  BY CntNats
<1> QED
  BY <1>1, PTL

(* The sign of readerCount tells whether a writer is announced.            *)
LEMMA Sums ==
  /\ rwmutexMaxReaders \in Nat
  /\ Cnt("rsem") + Cnt("reading") < rwmutexMaxReaders
<1>1. Cnt("rsem") + Cnt("reading") <= Cardinality(G)
  BY CntTwo
<1>2. Cardinality(G) \in Nat
  BY RWMutexAssumption, FS_CardinalityType
<1>3. Cnt("rsem") \in Nat /\ Cnt("reading") \in Nat
  BY CntNat
<1> QED
  BY <1>1, <1>2, <1>3, RWMutexAssumption

(* The same of the next state.                                             *)
LEMMA SumsNext == (Cnt("rsem") + Cnt("reading") < rwmutexMaxReaders)'
<1>1. Cnt("rsem") + Cnt("reading") < rwmutexMaxReaders
  BY Sums
<1> QED
  BY <1>1, PTL

(* The zero RWMutex satisfies the invariant.                               *)
LEMMA RWInitInv == Init => RWInv
<1> SUFFICES ASSUME Init PROVE RWInv
  OBVIOUS
<1>1. TypeOK
  BY DEF Init, TypeOK, RWPC
<1>2. \A p : (\A g \in G : pc[g] # p) => Cnt(p) = 0
  BY CntNat
<1>3. /\ Cnt("rsem") = 0 /\ Cnt("reading") = 0 /\ Cnt("runlockslow") = 0
      /\ Cnt("wakewriter") = 0
  BY <1>2 DEF Init
<1>4. CallInv
  BY RWMutexAssumption DEF Init, CallInv, OwnerPC, AnnouncedPC
<1>5. CountInv
  BY <1>3 DEF Init, CountInv, AnnouncedPC
<1>6. OpenInv /\ WriterInv
  BY <1>3 DEF Init, OpenInv, WriterInv, AnnouncedPC
<1> QED
  BY <1>1, <1>4, <1>5, <1>6 DEF RWInv
-----------------------------------------------------------------------------
(* RLock preserves the invariant: behind a writer the reader waits, and is *)
(* not among those the writer counts.                                      *)
LEMMA RLockInv ==
  ASSUME RWInv, NEW g \in G, RLock(g)
  PROVE  RWInv'
<1>1. TypeOK'
  BY DEF RWInv, TypeOK, RLock, Goto, Sem!Want, w, sems, RWPC
<1>2. CASE readerCount' < 0
  <2>0. Goto(g, "out", "rsem")
    BY <1>2, RWMutexAssumption DEF RWInv, TypeOK, RLock
  <2>1. pc[g] = "out" /\ pc' = [pc EXCEPT ![g] = "rsem"]
    BY <2>0 DEF Goto
  <2>2. /\ Cnt("rsem")' = Cnt("rsem") + 1
        /\ UNCHANGED <<Cnt("reading"), Cnt("runlockslow"), Cnt("wakewriter")>>
    BY <2>0, CntMove, CntNats DEF RWInv, Moved
  <2>3. \E h \in G : pc[h] \in AnnouncedPC
    BY <1>2 DEF RWInv, CountInv, RLock
  <2>4. CallInv'
    BY <1>2, <2>1, RWMutexAssumption
    DEF RWInv, TypeOK, CallInv, RLock, Sem!Want, w, OwnerPC, AnnouncedPC
  <2>5. CountInv'
    BY <1>2, <2>1, <2>2, Sums, CntNats DEF RWInv, CountInv, RLock, AnnouncedPC
  <2>6. OpenInv'
    BY <2>1, <2>3 DEF RWInv, TypeOK, OpenInv, AnnouncedPC
  <2>7. WriterInv'
    BY <1>2, <2>1, <2>2, CntNats
    DEF RWInv, TypeOK, WriterInv, Adm, RLock, Sem!Want, AnnouncedPC
  <2> QED
    BY <1>1, <2>4, <2>5, <2>6, <2>7 DEF RWInv
<1>3. CASE readerCount' >= 0
  <2>0. Goto(g, "out", "reading")
    BY <1>3 DEF RWInv, TypeOK, RLock
  <2>1. /\ pc[g] = "out" /\ pc' = [pc EXCEPT ![g] = "reading"]
        /\ UNCHANGED <<w, sems, readerWait, r>>
    BY <1>3 DEF RWInv, TypeOK, RLock, Goto
  <2>2. /\ Cnt("reading")' = Cnt("reading") + 1
        /\ UNCHANGED <<Cnt("rsem"), Cnt("runlockslow"), Cnt("wakewriter")>>
    BY <2>0, CntMove, CntNats DEF RWInv, Moved
  <2>3. \A h \in G : pc[h] \notin AnnouncedPC
    BY <1>3, <2>2, Sums, SumsNext, CntNats DEF RWInv, CountInv, RLock
  <2>4. CallInv'
    BY <2>1 DEF RWInv, CallInv, w, sems, OwnerPC, AnnouncedPC
  <2>5. CountInv'
    BY <2>1, <2>2, <2>3, Sums, CntNats DEF RWInv, CountInv, RLock, AnnouncedPC
  <2>6. OpenInv'
    BY <2>1, <2>2, <2>3 DEF RWInv, OpenInv, sems
  <2>7. WriterInv'
    BY <2>1, <2>3 DEF RWInv, TypeOK, WriterInv, AnnouncedPC
  <2> QED
    BY <1>1, <2>4, <2>5, <2>6, <2>7 DEF RWInv
<1> QED
  BY <1>1, <1>2, <1>3 DEF TypeOK

(* A reader that takes its permit is admitted still, now inside.           *)
LEMMA RLockWokenInv ==
  ASSUME RWInv, NEW g \in G, RLockWoken(g)
  PROVE  RWInv'
<1> DEFINE to == "reading"
<1>1. /\ Goto(g, "rsem", to) /\ "rsem" # to
      /\ pc[g] = "rsem" /\ pc' = [pc EXCEPT ![g] = to]
  BY DEF RLockWoken, Goto
<1>2. TypeOK'
  BY <1>1 DEF RWInv, TypeOK, RLockWoken, Sem!Take, w, RWPC
<1>3. /\ Moved("rsem", "rsem", to) /\ Moved("reading", "rsem", to)
      /\ Moved("runlockslow", "rsem", to) /\ Moved("wakewriter", "rsem", to)
  BY <1>1, CntMove DEF RWInv
<1>4. CallInv'
  BY <1>1, RWMutexAssumption
  DEF RWInv, TypeOK, RLockWoken, Sem!Take, w, CallInv, OwnerPC, AnnouncedPC
<1>5. CountInv'
  BY <1>1, <1>3, CntNats, Sums
  DEF RWInv, RLockWoken, CountInv, Moved, AnnouncedPC
<1>6. OpenInv'
  BY <1>1, <1>3
  DEF RWInv, TypeOK, RLockWoken, Sem!Take, OpenInv, Moved, AnnouncedPC
<1>7. Adm \in Nat /\ Adm' \in Nat /\ Adm' = Adm
  BY <1>3, CntNats DEF RWInv, TypeOK, RLockWoken, Sem!Take, Adm, Moved
<1>8. WriterInv'
  BY <1>1, <1>3, <1>7, CntNats
  DEF RWInv, TypeOK, RLockWoken, Sem!Take, CallInv, OpenInv, WriterInv, Moved
<1> QED
  BY <1>2, <1>4, <1>5, <1>6, <1>8 DEF RWInv

(* TryRLock enters only where no writer is announced.                      *)
LEMMA TryRLockInv ==
  ASSUME RWInv, NEW g \in G, TryRLock(g)
  PROVE  RWInv'
<1> DEFINE to == "reading"
<1>1. /\ Goto(g, "out", to) /\ "out" # to
      /\ pc[g] = "out" /\ pc' = [pc EXCEPT ![g] = to]
  BY DEF TryRLock, Goto
<1>2. TypeOK'
  BY <1>1 DEF RWInv, TypeOK, TryRLock, w, sems, RWPC
<1>3. /\ Moved("rsem", "out", to) /\ Moved("reading", "out", to)
      /\ Moved("runlockslow", "out", to) /\ Moved("wakewriter", "out", to)
  BY <1>1, CntMove DEF RWInv
<1>4. CallInv'
  BY <1>1 DEF RWInv, TryRLock, w, sems, CallInv, OwnerPC, AnnouncedPC
<1>5. CountInv'
  BY <1>1, <1>3, CntNats, Sums
  DEF RWInv, TryRLock, CountInv, Moved, AnnouncedPC
<1>6. OpenInv'
  BY <1>1, <1>3, CntNats DEF RWInv, TryRLock, sems, CountInv, OpenInv, Moved
<1>7. WriterInv'
  BY <1>1 DEF RWInv, TryRLock, CountInv, WriterInv, AnnouncedPC
<1> QED
  BY <1>2, <1>4, <1>5, <1>6, <1>7 DEF RWInv

(* The last admitted reader, and only it, becomes the one that wakes the   *)
(* writer.                                                                 *)
LEMMA RUnlockSlowInv ==
  ASSUME RWInv, NEW g \in G, RUnlockSlow(g)
  PROVE  RWInv'
<1> DEFINE to == IF readerWait' = 0 THEN "wakewriter" ELSE "out"
<1>1. /\ Goto(g, "runlockslow", to) /\ "runlockslow" # to
      /\ pc[g] = "runlockslow" /\ pc' = [pc EXCEPT ![g] = to]
  BY DEF RUnlockSlow, Goto
<1>2. TypeOK'
  BY <1>1 DEF RWInv, TypeOK, RUnlockSlow, w, sems, RWPC
<1>3. /\ Moved("rsem", "runlockslow", to) /\ Moved("reading", "runlockslow", to)
      /\ Moved("runlockslow", "runlockslow", to) /\ Moved("wakewriter", "runlockslow", to)
  BY <1>1, CntMove DEF RWInv
<1>4. CallInv'
  BY <1>1 DEF RWInv, RUnlockSlow, w, sems, CallInv, OwnerPC, AnnouncedPC
<1>5. CountInv'
  BY <1>1, <1>3, CntNats DEF RWInv, RUnlockSlow, CountInv, Moved, AnnouncedPC
<1>6. OpenInv'
  BY <1>1, <1>3, CntNatsNext DEF RWInv, OpenInv, Moved, AnnouncedPC
<1>7. Adm \in Nat /\ Adm' \in Nat /\ Adm' = Adm - 1
  BY <1>2, <1>3, CntNats, CntNatsNext DEF TypeOK, RUnlockSlow, sems, Adm, Moved
<1>8. WriterInv'
  BY <1>1, <1>3, <1>7, CntNats
  DEF RWInv, TypeOK, RUnlockSlow, sems, OpenInv, WriterInv, Moved
<1> QED
  BY <1>2, <1>4, <1>5, <1>6, <1>8 DEF RWInv

(* The wakeup moves into the semaphore.                                    *)
LEMMA WakeWriterInv ==
  ASSUME RWInv, NEW g \in G, WakeWriter(g)
  PROVE  RWInv'
<1> DEFINE to == "out"
<1>1. /\ Goto(g, "wakewriter", to) /\ "wakewriter" # to
      /\ pc[g] = "wakewriter" /\ pc' = [pc EXCEPT ![g] = to]
  BY DEF WakeWriter, Goto
<1>2. TypeOK'
  BY <1>1 DEF RWInv, TypeOK, WakeWriter, Sem!Give, w, RWPC
<1>3. /\ Moved("rsem", "wakewriter", to) /\ Moved("reading", "wakewriter", to)
      /\ Moved("runlockslow", "wakewriter", to) /\ Moved("wakewriter", "wakewriter", to)
  BY <1>1, CntMove DEF RWInv
<1>4. CallInv'
  BY <1>1 DEF RWInv, WakeWriter, Sem!Give, w, CallInv, OwnerPC, AnnouncedPC
<1>5. CountInv'
  BY <1>1, <1>3, CntNats DEF RWInv, WakeWriter, CountInv, Moved, AnnouncedPC
<1>6. OpenInv'
  BY <1>1, <1>3, CntNatsNext DEF RWInv, OpenInv, Moved, AnnouncedPC
<1>7. Adm \in Nat /\ Adm' \in Nat /\ Adm' = Adm
  BY <1>2, <1>3, CntNats, RWMutexAssumption
  DEF TypeOK, WakeWriter, Sem!Give, Adm, Moved
<1>8. WriterInv'
  BY <1>1, <1>3, <1>7, CntNats, CntNatsNext, RWMutexAssumption
  DEF RWInv, TypeOK, WakeWriter, Sem!Give, OpenInv, WriterInv, Moved
<1> QED
  BY <1>2, <1>4, <1>5, <1>6, <1>8 DEF RWInv

(* rw.w given: the goroutine is its holder.                                *)
LEMMA LockWInv ==
  ASSUME RWInv, NEW g \in G, LockW(g)
  PROVE  RWInv'
<1> DEFINE to == "announce"
<1>1. /\ Goto(g, "wlock", to) /\ "wlock" # to
      /\ pc[g] = "wlock" /\ pc' = [pc EXCEPT ![g] = to]
  BY DEF LockW, Goto
<1>2. TypeOK'
  BY <1>1 DEF RWInv, TypeOK, LockW, W!Acquire, sems, RWPC
<1>3. /\ Moved("rsem", "wlock", to) /\ Moved("reading", "wlock", to)
      /\ Moved("runlockslow", "wlock", to) /\ Moved("wakewriter", "wlock", to)
  BY <1>1, CntMove DEF RWInv
<1>4. CallInv'
  BY <1>1, RWMutexAssumption
  DEF RWInv, TypeOK, LockW, W!Acquire, sems, CallInv, OwnerPC
<1>5. CountInv'
  BY <1>1, <1>3, CntNats DEF RWInv, LockW, CountInv, Moved, AnnouncedPC
<1>6. OpenInv'
  BY <1>1, <1>3, CntNats DEF RWInv, LockW, sems, OpenInv, Moved, AnnouncedPC
<1>7. WriterInv'
  BY <1>1, <1>3, CntNats
  DEF RWInv, TypeOK, LockW, sems, OpenInv, WriterInv, Adm, Moved
<1> QED
  BY <1>2, <1>4, <1>5, <1>6, <1>7 DEF RWInv

(* The permit of writerSem is there only when no reader is admitted.       *)
LEMMA LockWokenInv ==
  ASSUME RWInv, NEW g \in G, LockWoken(g)
  PROVE  RWInv'
<1> DEFINE to == "writing"
<1>1. /\ Goto(g, "wsem", to) /\ "wsem" # to
      /\ pc[g] = "wsem" /\ pc' = [pc EXCEPT ![g] = to]
  BY DEF LockWoken, Goto
<1>2. TypeOK'
  BY <1>1 DEF RWInv, TypeOK, LockWoken, Sem!Take, w, RWPC
<1>3. /\ Moved("rsem", "wsem", to) /\ Moved("reading", "wsem", to)
      /\ Moved("runlockslow", "wsem", to) /\ Moved("wakewriter", "wsem", to)
  BY <1>1, CntMove DEF RWInv
<1>4. CallInv'
  BY <1>1, RWMutexAssumption
  DEF RWInv, TypeOK, LockWoken, Sem!Take, w, CallInv, OwnerPC, AnnouncedPC
<1>5. CountInv'
  BY <1>1, <1>3, CntNats DEF RWInv, LockWoken, CountInv, Moved, AnnouncedPC
<1>6. OpenInv'
  BY <1>1 DEF OpenInv, AnnouncedPC
<1>7. WriterInv'
  BY <1>1, <1>3, CntNats, RWMutexAssumption
  DEF RWInv, TypeOK, LockWoken, Sem!Take, CallInv, WriterInv, Adm, Moved,
      AnnouncedPC, OwnerPC
<1> QED
  BY <1>2, <1>4, <1>5, <1>6, <1>7 DEF RWInv

(* rw.w taken by TryLock.                                                  *)
LEMMA TryLockInv ==
  ASSUME RWInv, NEW g \in G, TryLock(g)
  PROVE  RWInv'
<1> DEFINE to == "trywrite"
<1>1. /\ Goto(g, "out", to) /\ "out" # to
      /\ pc[g] = "out" /\ pc' = [pc EXCEPT ![g] = to]
  BY DEF TryLock, Goto
<1>2. TypeOK'
  BY <1>1 DEF RWInv, TypeOK, TryLock, W!AcquireAtOnce, sems, RWPC
<1>3. /\ Moved("rsem", "out", to) /\ Moved("reading", "out", to)
      /\ Moved("runlockslow", "out", to) /\ Moved("wakewriter", "out", to)
  BY <1>1, CntMove DEF RWInv
<1>4. CallInv'
  BY <1>1, RWMutexAssumption
  DEF RWInv, TypeOK, TryLock, W!AcquireAtOnce, sems, CallInv, OwnerPC
<1>5. CountInv'
  BY <1>1, <1>3, CntNats DEF RWInv, TryLock, CountInv, Moved, AnnouncedPC
<1>6. OpenInv'
  BY <1>1, <1>3, CntNats DEF RWInv, TryLock, sems, OpenInv, Moved, AnnouncedPC
<1>7. WriterInv'
  BY <1>1, <1>3, CntNats
  DEF RWInv, TypeOK, TryLock, sems, OpenInv, WriterInv, Adm, Moved
<1> QED
  BY <1>2, <1>4, <1>5, <1>6, <1>7 DEF RWInv

(* TryLock gives rw.w back.                                                *)
LEMMA TryLockFailInv ==
  ASSUME RWInv, NEW g \in G, TryLockFail(g)
  PROVE  RWInv'
<1> DEFINE to == "out"
<1>1. /\ Goto(g, "tryfailed", to) /\ "tryfailed" # to
      /\ pc[g] = "tryfailed" /\ pc' = [pc EXCEPT ![g] = to]
  BY DEF TryLockFail, Goto
<1>2. TypeOK'
  BY <1>1 DEF RWInv, TypeOK, TryLockFail, W!Release, sems, RWPC
<1>3. /\ Moved("rsem", "tryfailed", to) /\ Moved("reading", "tryfailed", to)
      /\ Moved("runlockslow", "tryfailed", to) /\ Moved("wakewriter", "tryfailed", to)
  BY <1>1, CntMove DEF RWInv
<1>4. CallInv'
  BY <1>1, RWMutexAssumption
  DEF RWInv, TypeOK, TryLockFail, W!Release, sems, CallInv, OwnerPC,
      AnnouncedPC
<1>5. CountInv'
  BY <1>1, <1>3, CntNats DEF RWInv, TryLockFail, CountInv, Moved, AnnouncedPC
<1>6. OpenInv'
  BY <1>1, <1>3, CntNats
  DEF RWInv, TryLockFail, sems, OpenInv, Moved, AnnouncedPC
<1>7. WriterInv'
  BY <1>1, <1>3, CntNats
  DEF RWInv, TypeOK, TryLockFail, sems, OpenInv, WriterInv, Adm, Moved
<1> QED
  BY <1>2, <1>4, <1>5, <1>6, <1>7 DEF RWInv

(* Unlock gives rw.w back when its loop is done.                           *)
LEMMA UnlockWInv ==
  ASSUME RWInv, NEW g \in G, UnlockW(g)
  PROVE  RWInv'
<1> DEFINE to == "out"
<1>1. /\ Goto(g, "wunlock", to) /\ "wunlock" # to
      /\ pc[g] = "wunlock" /\ pc' = [pc EXCEPT ![g] = to]
  BY DEF UnlockW, Goto
<1>2. TypeOK'
  BY <1>1 DEF RWInv, TypeOK, UnlockW, W!Release, sems, RWPC
<1>3. /\ Moved("rsem", "wunlock", to) /\ Moved("reading", "wunlock", to)
      /\ Moved("runlockslow", "wunlock", to) /\ Moved("wakewriter", "wunlock", to)
  BY <1>1, CntMove DEF RWInv
<1>4. CallInv'
  BY <1>1, RWMutexAssumption
  DEF RWInv, TypeOK, UnlockW, W!Release, sems, CallInv, OwnerPC, AnnouncedPC
<1>5. CountInv'
  BY <1>1, <1>3, CntNats DEF RWInv, UnlockW, CountInv, Moved, AnnouncedPC
<1>6. OpenInv'
  BY <1>1, <1>3, CntNats DEF RWInv, UnlockW, sems, OpenInv, Moved, AnnouncedPC
<1>7. WriterInv'
  BY <1>1, <1>3, CntNats
  DEF RWInv, TypeOK, UnlockW, sems, OpenInv, WriterInv, Adm, Moved
<1> QED
  BY <1>2, <1>4, <1>5, <1>6, <1>7 DEF RWInv

(* RUnlock moves a reader out, or to rUnlockSlow when a writer counts it.  *)
LEMMA RUnlockInv ==
  ASSUME RWInv, NEW g \in G, RUnlock(g)
  PROVE  RWInv'
<1> DEFINE to == IF readerCount' < 0 THEN "runlockslow" ELSE "out"
<1>1. /\ Goto(g, "reading", to) /\ "reading" # to
      /\ pc[g] = "reading" /\ pc' = [pc EXCEPT ![g] = to]
      /\ readerCount' = readerCount - 1
      /\ UNCHANGED <<w, sems, readerWait, r>>
  BY DEF RUnlock, Goto
<1>2. TypeOK'
  BY <1>1, RWMutexAssumption DEF RWInv, TypeOK, w, sems, RWPC
<1>3. /\ Moved("rsem", "reading", to) /\ Moved("reading", "reading", to)
      /\ Moved("runlockslow", "reading", to) /\ Moved("wakewriter", "reading", to)
  BY <1>1, CntMove DEF RWInv
<1>4. readerCount' < 0 <=> \E h \in G : pc[h] \in AnnouncedPC
  BY <1>1, <1>3, CntNats, CntNatsNext, Sums DEF RWInv, CountInv, Moved
<1>5. CallInv'
  BY <1>1 DEF RWInv, CallInv, w, sems, OwnerPC, AnnouncedPC
<1>6. CountInv'
  <2>1. \A h \in G : pc'[h] \in AnnouncedPC <=> pc[h] \in AnnouncedPC
    BY <1>1 DEF RWInv, TypeOK, AnnouncedPC
  <2>2. /\ Cnt("rsem")' + Cnt("reading")' = Cnt("rsem") + Cnt("reading") - 1
        /\ Cnt("rsem") + Cnt("reading") \in Nat
    BY <1>3, CntNats, CntNatsNext DEF Moved
  <2>3. readerCount' \in {Cnt("rsem")' + Cnt("reading")',
                         Cnt("rsem")' + Cnt("reading")' - rwmutexMaxReaders}
    BY <1>1, <2>2, Sums, CntNats, CntNatsNext DEF RWInv, CountInv
  <2>4. readerCount' < 0 <=> \E h \in G : pc'[h] \in AnnouncedPC
    BY <1>4, <2>1
  <2> QED
    BY <2>3, <2>4 DEF CountInv, AnnouncedPC
<1>7. CASE readerCount' < 0
  <2>1. /\ pc' = [pc EXCEPT ![g] = "runlockslow"]
        /\ Adm' = Adm /\ UNCHANGED <<Cnt("rsem"), Cnt("wakewriter")>>
    BY <1>1, <1>2, <1>3, <1>7, CntNats, CntNatsNext
    DEF RWInv, TypeOK, Adm, Moved, sems
  <2>2. OpenInv'
    BY <1>1, <1>4, <1>7, <2>1 DEF RWInv, TypeOK, OpenInv, AnnouncedPC
  <2>3. WriterInv'
    BY <1>1, <2>1 DEF RWInv, TypeOK, WriterInv, AnnouncedPC, sems
  <2> QED
    BY <1>2, <1>5, <1>6, <2>2, <2>3 DEF RWInv
<1>8. CASE ~(readerCount' < 0)
  <2>1. /\ pc' = [pc EXCEPT ![g] = "out"]
        /\ \A h \in G : pc[h] \notin AnnouncedPC
        /\ UNCHANGED <<Cnt("rsem"), Cnt("runlockslow"), Cnt("wakewriter")>>
    BY <1>1, <1>3, <1>4, <1>8, CntNats, CntNatsNext DEF Moved
  <2>2. OpenInv'
    BY <1>1, <2>1 DEF RWInv, TypeOK, OpenInv, AnnouncedPC, sems
  <2>3. WriterInv'
    BY <1>1, <2>1 DEF RWInv, TypeOK, WriterInv, AnnouncedPC
  <2> QED
    BY <1>2, <1>5, <1>6, <2>2, <2>3 DEF RWInv
<1> QED
  BY <1>7, <1>8

(* Without an announced writer, and outside Unlock's loop, readerCount     *)
(* counts the readers that have a permit or are inside.                    *)
LEMMA OwnerAlone ==
  ASSUME RWInv, NEW g \in G, pc[g] \in {"announce", "trywrite"}
  PROVE  /\ \A h \in G : pc[h] \notin AnnouncedPC /\ pc[h] # "wakereaders"
         /\ readerCount = Cnt("rsem") + Cnt("reading")
         /\ permits[ReaderSem] = Cnt("rsem") /\ permits[WriterSem] = 0
         /\ readerWait = 0 /\ Cnt("runlockslow") = 0 /\ Cnt("wakewriter") = 0
<1>1. \A h \in G : pc[h] \notin AnnouncedPC /\ pc[h] # "wakereaders"
  BY DEF RWInv, CallInv, OwnerPC, AnnouncedPC
<1>2. readerCount = Cnt("rsem") + Cnt("reading")
  BY <1>1, Sums, CntNats DEF RWInv, CountInv
<1> QED
  BY <1>1, <1>2 DEF RWInv, OpenInv

(* The writer's subtraction: its r counts the readers inside and the       *)
(* permits outstanding.                                                    *)
LEMMA LockAnnounceInv ==
  ASSUME RWInv, NEW g \in G, LockAnnounce(g)
  PROVE  RWInv'
<1> DEFINE to == IF readerCount = 0 THEN "writing" ELSE "drain"
<1>1. /\ Goto(g, "announce", to) /\ "announce" # to
      /\ pc[g] = "announce" /\ pc' = [pc EXCEPT ![g] = to]
      /\ readerCount' = readerCount - rwmutexMaxReaders
      /\ r' = [r EXCEPT ![g] = readerCount]
      /\ UNCHANGED <<w, sems, readerWait>>
  BY DEF LockAnnounce, Goto
<1>2. /\ \A h \in G : pc[h] \notin AnnouncedPC /\ pc[h] # "wakereaders"
      /\ readerCount = Cnt("rsem") + Cnt("reading") /\ readerCount \in Nat
      /\ permits[ReaderSem] = Cnt("rsem") /\ permits[WriterSem] = 0
      /\ readerWait = 0 /\ Cnt("runlockslow") = 0 /\ Cnt("wakewriter") = 0
  BY <1>1, OwnerAlone, CntNats
<1>3. UNCHANGED <<Cnt("rsem"), Cnt("reading"), Cnt("runlockslow"), Cnt("wakewriter")>>
  BY <1>1, CntMove, CntNats DEF RWInv, Moved
<1>4. TypeOK'
  BY <1>1, <1>2, RWMutexAssumption DEF RWInv, TypeOK, w, sems, RWPC
<1>5. CallInv'
  BY <1>1, <1>2, CntNats DEF RWInv, TypeOK, CallInv, w, sems, OwnerPC, AnnouncedPC
<1>6. pc'[g] \in AnnouncedPC
  BY <1>1 DEF RWInv, TypeOK, AnnouncedPC
<1>7. CountInv'
  BY <1>1, <1>2, <1>3, <1>6, CntNats, Sums DEF CountInv
<1>8. OpenInv'
  BY <1>6 DEF OpenInv
<1>9. WriterInv'
  BY <1>1, <1>2, <1>3, CntNats DEF RWInv, TypeOK, WriterInv, Adm, sems, AnnouncedPC
<1> QED
  BY <1>4, <1>5, <1>7, <1>8, <1>9 DEF RWInv

(* TryLock announces itself only when no reader is registered.             *)
LEMMA TryLockAnnounceInv ==
  ASSUME RWInv, NEW g \in G, TryLockAnnounce(g)
  PROVE  RWInv'
<1> DEFINE to == IF readerCount = 0 THEN "writing" ELSE "tryfailed"
<1>1. /\ Goto(g, "trywrite", to) /\ "trywrite" # to
      /\ pc[g] = "trywrite" /\ pc' = [pc EXCEPT ![g] = to]
      /\ readerCount' = IF readerCount = 0 THEN 0 - rwmutexMaxReaders ELSE readerCount
      /\ UNCHANGED <<w, sems, readerWait, r>>
  BY DEF TryLockAnnounce, Goto
<1>2. /\ \A h \in G : pc[h] \notin AnnouncedPC /\ pc[h] # "wakereaders"
      /\ readerCount = Cnt("rsem") + Cnt("reading") /\ readerCount \in Nat
      /\ permits[ReaderSem] = Cnt("rsem") /\ permits[WriterSem] = 0
      /\ readerWait = 0 /\ Cnt("runlockslow") = 0 /\ Cnt("wakewriter") = 0
  BY <1>1, OwnerAlone, CntNats
<1>3. UNCHANGED <<Cnt("rsem"), Cnt("reading"), Cnt("runlockslow"), Cnt("wakewriter")>>
  BY <1>1, CntMove, CntNats DEF RWInv, Moved
<1>4. TypeOK'
  BY <1>1, <1>2, RWMutexAssumption DEF RWInv, TypeOK, w, sems, RWPC
<1>5. CallInv'
  BY <1>1, <1>2 DEF RWInv, TypeOK, CallInv, w, sems, OwnerPC, AnnouncedPC
<1>6. CountInv'
  BY <1>1, <1>2, <1>3, CntNats, Sums DEF RWInv, TypeOK, CountInv, AnnouncedPC
<1>7. OpenInv'
  BY <1>1, <1>2, <1>3 DEF RWInv, TypeOK, OpenInv, sems, AnnouncedPC
<1>8. WriterInv'
  BY <1>1, <1>2, <1>3, CntNats DEF RWInv, TypeOK, WriterInv, Adm, sems, AnnouncedPC
<1> QED
  BY <1>4, <1>5, <1>6, <1>7, <1>8 DEF RWInv

(* The writer adds its r: readerWait now counts the admitted readers.      *)
LEMMA LockDrainInv ==
  ASSUME RWInv, NEW g \in G, LockDrain(g)
  PROVE  RWInv'
<1> DEFINE to == IF readerWait' = 0 THEN "writing" ELSE "wsem"
<1>1. /\ Goto(g, "drain", to) /\ "drain" # to
      /\ pc[g] = "drain" /\ pc' = [pc EXCEPT ![g] = to]
      /\ readerWait' = readerWait + r[g]
      /\ r' = [r EXCEPT ![g] = 0]
      /\ UNCHANGED <<w, permits, readerCount>>
      /\ waitsFor' = IF readerWait' = 0 THEN waitsFor
                     ELSE [waitsFor EXCEPT ![g] = WriterSem]
  BY DEF LockDrain, Goto, Sem!Want, sems
<1>2. /\ \A h \in G : pc[h] \in OwnerPC => h = g
      /\ permits[ReaderSem] <= Cnt("rsem") /\ permits[WriterSem] = 0
      /\ Cnt("wakewriter") = 0 /\ readerWait' = Adm /\ Adm \in Nat
  BY <1>1, CntNats DEF RWInv, TypeOK, CallInv, WriterInv, OwnerPC, AnnouncedPC, Adm
<1>3. /\ UNCHANGED <<Cnt("rsem"), Cnt("reading"), Cnt("runlockslow"), Cnt("wakewriter")>>
      /\ Adm' = Adm
  BY <1>1, CntMove, CntNats DEF RWInv, Moved, Adm
<1>4. TypeOK'
  BY <1>1, <1>2, RWMutexAssumption DEF RWInv, TypeOK, w, RWPC
<1>5. CallInv'
  BY <1>1, RWMutexAssumption DEF RWInv, TypeOK, CallInv, w, OwnerPC, AnnouncedPC
<1>6. pc'[g] \in AnnouncedPC /\ pc[g] \in AnnouncedPC
  BY <1>1 DEF RWInv, TypeOK, AnnouncedPC
<1>7. CountInv'
  BY <1>1, <1>3, <1>6 DEF RWInv, CountInv
<1>8. OpenInv'
  BY <1>6 DEF OpenInv
<1>9. WriterInv'
  BY <1>1, <1>2, <1>3 DEF RWInv, TypeOK, WriterInv, OwnerPC, AnnouncedPC
<1> QED
  BY <1>4, <1>5, <1>7, <1>8, <1>9 DEF RWInv

(* Unlock's r is the number of waiting readers without a permit: a writer  *)
(* writes only when no permit is outstanding.                              *)
LEMMA UnlockInv ==
  ASSUME RWInv, NEW g \in G, Unlock(g)
  PROVE  RWInv'
<1> DEFINE to == IF readerCount' = 0 THEN "wunlock" ELSE "wakereaders"
<1>1. /\ Goto(g, "writing", to) /\ "writing" # to
      /\ pc[g] = "writing" /\ pc' = [pc EXCEPT ![g] = to]
      /\ readerCount' = readerCount + rwmutexMaxReaders
      /\ r' = [r EXCEPT ![g] = readerCount']
      /\ UNCHANGED <<w, sems, readerWait>>
  BY DEF Unlock, Goto
<1>2. \A h \in G : pc[h] \in OwnerPC => h = g
  BY <1>1 DEF RWInv, CallInv, OwnerPC, AnnouncedPC
<1>3. /\ permits[WriterSem] = 0 /\ Cnt("wakewriter") = 0 /\ readerWait = 0
      /\ Cnt("reading") = 0 /\ Cnt("runlockslow") = 0 /\ permits[ReaderSem] = 0
  BY <1>1, CntNats DEF RWInv, TypeOK, WriterInv, Adm
<1>4. readerCount' = Cnt("rsem") /\ readerCount' \in Nat
  BY <1>1, <1>3, CntNats, Sums DEF RWInv, CountInv, AnnouncedPC
<1>5. UNCHANGED <<Cnt("rsem"), Cnt("reading"), Cnt("runlockslow"), Cnt("wakewriter")>>
  BY <1>1, CntMove, CntNats DEF RWInv, Moved
<1>6. TypeOK'
  BY <1>1, <1>4, RWMutexAssumption DEF RWInv, TypeOK, w, sems, RWPC
<1>7. CallInv'
  BY <1>1, <1>4 DEF RWInv, TypeOK, CallInv, w, sems, OwnerPC, AnnouncedPC
<1>8. \A h \in G : pc'[h] \notin AnnouncedPC
  BY <1>1, <1>2 DEF RWInv, TypeOK, OwnerPC, AnnouncedPC
<1>9. CountInv'
  BY <1>3, <1>4, <1>5, <1>8 DEF CountInv
<1>10. OpenInv'
  BY <1>1, <1>2, <1>3, <1>4, <1>5 DEF RWInv, TypeOK, OpenInv, OwnerPC, AnnouncedPC, sems
<1>11. WriterInv'
  BY <1>8 DEF WriterInv, AnnouncedPC
<1> QED
  BY <1>6, <1>7, <1>9, <1>10, <1>11 DEF RWInv

(* One round of Unlock's loop turns a reader without a permit into one     *)
(* that has one.                                                           *)
LEMMA WakeReaderInv ==
  ASSUME RWInv, NEW g \in G, WakeReader(g)
  PROVE  RWInv'
<1> DEFINE to == IF r'[g] = 0 THEN "wunlock" ELSE "wakereaders"
<1>1. /\ pc[g] = "wakereaders" /\ pc' = [pc EXCEPT ![g] = to]
      /\ permits' = [permits EXCEPT ![ReaderSem] = @ + 1]
      /\ r' = [r EXCEPT ![g] = @ - 1]
      /\ UNCHANGED <<w, waitsFor, readerCount, readerWait>>
  BY DEF WakeReader, Goto, Sem!Give
<1>2. /\ \A h \in G : pc[h] \in OwnerPC => h = g
      /\ r[g] > 0 /\ r[g] \in Nat /\ r'[g] = r[g] - 1
  BY <1>1 DEF RWInv, TypeOK, CallInv, OwnerPC, AnnouncedPC
<1>3. \A h \in G : pc[h] \notin AnnouncedPC /\ pc'[h] \notin AnnouncedPC
  BY <1>1, <1>2 DEF RWInv, TypeOK, OwnerPC, AnnouncedPC
<1>4. /\ readerWait = 0 /\ Cnt("runlockslow") = 0 /\ Cnt("wakewriter") = 0
      /\ permits[WriterSem] = 0 /\ Cnt("rsem") = permits[ReaderSem] + r[g]
  BY <1>1, <1>3 DEF RWInv, OpenInv
<1>5. UNCHANGED <<Cnt("rsem"), Cnt("reading"), Cnt("runlockslow"), Cnt("wakewriter")>>
  <2>1. CASE r'[g] = 0
    <3>1. Goto(g, "wakereaders", "wunlock")
      BY <1>1, <2>1 DEF Goto
    <3> QED
      BY <3>1, CntMove, CntNats DEF RWInv, Moved
  <2>2. CASE r'[g] # 0
    <3>1. pc' = pc
      BY <1>1, <2>2 DEF RWInv, TypeOK
    <3> QED
      BY <3>1, CntStay
  <2> QED
    BY <2>1, <2>2
<1>6. TypeOK'
  BY <1>1, <1>2, RWMutexAssumption DEF RWInv, TypeOK, w, RWPC
<1>7. CallInv'
  BY <1>1, <1>2 DEF RWInv, TypeOK, CallInv, w, OwnerPC, AnnouncedPC
<1>8. CountInv'
  BY <1>1, <1>3, <1>5 DEF RWInv, CountInv
<1>9. OpenInv'
  <2>1. permits'[WriterSem] = 0 /\ permits'[ReaderSem] = permits[ReaderSem] + 1
    BY <1>1, <1>4, RWMutexAssumption DEF RWInv, TypeOK
  <2>2. \A h \in G : pc'[h] = "wakereaders" => h = g
    BY <1>1, <1>2 DEF RWInv, TypeOK, OwnerPC
  <2>3. (\A h \in G : pc'[h] # "wakereaders") => r'[g] = 0
    BY <1>1 DEF RWInv, TypeOK
  <2>4. Cnt("rsem") = permits'[ReaderSem] + r'[g]
    BY <1>2, <1>4, <2>1 DEF RWInv, TypeOK
  <2> QED
    BY <1>1, <1>4, <1>5, <1>6, <2>1, <2>2, <2>3, <2>4 DEF OpenInv, TypeOK
<1>10. WriterInv'
  BY <1>3 DEF WriterInv, AnnouncedPC
<1> QED
  BY <1>6, <1>7, <1>8, <1>9, <1>10 DEF RWInv

(* rw.w.Lock moves a goroutine between points that are not counted.        *)
LEMMA LockInv ==
  ASSUME RWInv, NEW g \in G, Lock(g)
  PROVE  RWInv'
<1>1. PICK to \in {"wlock", "announce"} :
        /\ Goto(g, "out", to) /\ pc[g] = "out" /\ pc' = [pc EXCEPT ![g] = to]
        /\ to = "wlock" => W!Request(g)
        /\ to = "announce" => W!AcquireAtOnce(g)
  BY DEF Lock, Goto
<1>2. UNCHANGED <<sems, readerCount, readerWait, r>>
  BY DEF Lock
<1>3. UNCHANGED <<Cnt("rsem"), Cnt("reading"), Cnt("runlockslow"), Cnt("wakewriter")>>
  BY <1>1, CntMove, CntNats DEF RWInv, Moved
<1>4. TypeOK'
  BY <1>1, <1>2 DEF RWInv, TypeOK, W!Request, W!AcquireAtOnce, sems, RWPC
<1>5. CallInv'
  BY <1>1, <1>2, RWMutexAssumption
  DEF RWInv, TypeOK, CallInv, W!Request, W!AcquireAtOnce, sems, OwnerPC, AnnouncedPC
<1>6. CountInv' /\ OpenInv' /\ WriterInv'
  BY <1>1, <1>2, <1>3
  DEF RWInv, TypeOK, CountInv, OpenInv, WriterInv, Adm, sems, AnnouncedPC
<1> QED
  BY <1>4, <1>5, <1>6 DEF RWInv

-----------------------------------------------------------------------------
(* The inductive invariant holds of every behaviour of RWMutex.            *)
THEOREM RWMutexInvariant == Safety => []RWInv
<1>1. ASSUME RWInv, [Next]_vars PROVE RWInv'
  <2>1. CASE UNCHANGED vars
    <3>1. \A p : Cnt(p)' = Cnt(p)
      BY <2>1, CntStay DEF vars
    <3> QED
      BY <1>1, <2>1, <3>1
      DEF vars, w, sems, RWInv, TypeOK, CallInv, CountInv, OpenInv, WriterInv, Adm
  <2>2. CASE Next
    <3>1. PICK g \in G : Step(g) \/ Call(g) \/ Granted(g)
      BY <2>2 DEF Next
    <3>2. CASE Step(g)
      BY <1>1, <3>2, RUnlockInv, RUnlockSlowInv, WakeWriterInv, LockAnnounceInv,
         LockDrainInv, TryLockAnnounceInv, TryLockFailInv, UnlockInv,
         WakeReaderInv, UnlockWInv
      DEF Step
    <3>3. CASE Call(g)
      BY <1>1, <3>3, RLockInv, TryRLockInv, LockInv, TryLockInv DEF Call
    <3>4. CASE Granted(g)
      BY <1>1, <3>4, RLockWokenInv, LockWokenInv, LockWInv DEF Granted
    <3> QED
      BY <3>1, <3>2, <3>3, <3>4
  <2> QED
    BY <1>1, <2>1, <2>2
<1> QED
  BY <1>1, RWInitInv, PTL DEF Safety

(* Type correctness of RWMutex.                                            *)
THEOREM RWMutexTypeCorrect == Safety => []TypeOK
  BY RWMutexInvariant, PTL DEF RWInv

(* Two writers, or a writer and a reader, are never inside together.       *)
THEOREM RWMutexExcludes == Safety => []WriterExcludes
<1>1. RWInv => WriterExcludes
  <2> SUFFICES ASSUME RWInv, NEW g \in G, NEW h \in G, pc[g] = "writing",
                      pc[h] \in {"writing", "reading"}
               PROVE  g = h
    BY DEF WriterExcludes
  <2>1. CASE pc[h] = "writing"
    BY <2>1 DEF RWInv, CallInv, OwnerPC, AnnouncedPC
  <2>2. CASE pc[h] = "reading"
    <3>1. Cnt("reading") = 0
      BY CntNats DEF RWInv, TypeOK, WriterInv, Adm
    <3> QED
      BY <2>2, <3>1, CntNat
  <2> QED
    BY <2>1, <2>2
<1> QED
  BY <1>1, RWMutexInvariant, PTL

(* The sets of the properties, counted point by point.                     *)
LEMMA SetCounts ==
  /\ Cardinality(Registered) = Cnt("rsem") + Cnt("reading")
  /\ Admitted = Adm
  /\ Cardinality(In({"rsem"})) = Cnt("rsem")
  /\ Cardinality(In({"wakewriter"})) = Cnt("wakewriter")
<1>1. Cardinality(In({"rsem", "reading"})) = Cnt("rsem") + Cnt("reading")
  BY CntTwo DEF In
<1>2. Cardinality(In({"reading", "runlockslow"})) = Cnt("reading") + Cnt("runlockslow")
  BY CntTwo DEF In
<1>3. ASSUME NEW p PROVE Cardinality(In({p})) = Cnt(p)
  <2>1. In({p}) = {g \in G : pc[g] = p}
    BY DEF In
  <2> QED
    BY <2>1 DEF Cnt
<1> QED
  BY <1>1, <1>2, <1>3 DEF Registered, Admitted, Adm

(* readerCount is exact.                                                   *)
THEOREM RWMutexReaderCount == Safety => []ReaderCountExact
<1>1. RWInv => ReaderCountExact
  <2> SUFFICES ASSUME RWInv PROVE ReaderCountExact
    OBVIOUS
  <2>1. Announced <=> \E g \in G : pc[g] \in AnnouncedPC
    BY DEF Announced, In, AnnouncedPC
  <2> QED
    BY <2>1, SetCounts, Sums, CntNats DEF RWInv, CountInv, ReaderCountExact
<1> QED
  BY <1>1, RWMutexInvariant, PTL

(* A sleeping writer is woken when, and only when, its last reader leaves. *)
THEOREM RWMutexWriterWakeup == Safety => []WriterWakeup
<1>1. RWInv => WriterWakeup
  <2> SUFFICES ASSUME RWInv PROVE WriterWakeup
    OBVIOUS
  <2>1. \A g \in G : pc[g] = "wsem" => readerWait = Admitted
    BY SetCounts DEF RWInv, WriterInv
  <2>2. CASE \E g \in G : pc[g] = "wsem"
    <3>1. PICK g \in G : pc[g] = "wsem"
      BY <2>2
    <3>2. In({"wsem"}) # {}
      BY <3>1 DEF In
    <3>3. permits[WriterSem] \in Nat
      BY DEF RWInv, TypeOK
    <3> QED
      BY <2>1, <3>1, <3>2, <3>3, SetCounts, CntNats
      DEF RWInv, WriterInv, WriterWakeup, In
  <2>3. CASE \A g \in G : pc[g] # "wsem"
    <3>1. In({"wsem"}) = {}
      BY <2>3 DEF In
    <3>2. permits[WriterSem] = 0 /\ Cnt("wakewriter") = 0
      <4>1. CASE \E g \in G : pc[g] \in {"drain", "writing"}
        BY <4>1 DEF RWInv, WriterInv
      <4>2. CASE \A g \in G : pc[g] \notin {"drain", "writing"}
        BY <2>3, <4>2 DEF RWInv, OpenInv, AnnouncedPC
      <4> QED
        BY <4>1, <4>2
    <3> QED
      BY <3>1, <3>2, SetCounts DEF WriterWakeup
  <2> QED
    BY <2>2, <2>3
<1> QED
  BY <1>1, RWMutexInvariant, PTL

(* Unlock forgets no reader that waits.                                    *)
THEOREM RWMutexForgetsNoReader == Safety => []NoReaderForgotten
<1>1. RWInv => NoReaderForgotten
  <2> SUFFICES ASSUME RWInv, ~Announced
               PROVE  Cnt("rsem") = permits[ReaderSem]
                        + (IF wHolder # NoG /\ pc[wHolder] = "wakereaders"
                           THEN r[wHolder] ELSE 0)
    BY SetCounts DEF NoReaderForgotten
  <2>1. \A g \in G : pc[g] \notin AnnouncedPC
    BY DEF Announced, In, AnnouncedPC
  <2>2. permits[ReaderSem] \in Nat /\ wHolder \in G \cup {NoG}
    BY DEF RWInv, TypeOK
  <2>3. CASE wHolder # NoG /\ pc[wHolder] = "wakereaders"
    BY <2>1, <2>2, <2>3 DEF RWInv, OpenInv
  <2>4. CASE ~(wHolder # NoG /\ pc[wHolder] = "wakereaders")
    <3>1. \A g \in G : pc[g] # "wakereaders"
      BY <2>4, RWMutexAssumption DEF RWInv, CallInv, OwnerPC
    <3> QED
      BY <2>1, <2>2, <2>4, <3>1 DEF RWInv, OpenInv
  <2> QED
    BY <2>3, <2>4
<1> QED
  BY <1>1, RWMutexInvariant, PTL

(* Counters and permits agree with the goroutines' places in every state.  *)
THEOREM RWMutexCountsExact == Safety => []CountsExact
  BY RWMutexReaderCount, RWMutexWriterWakeup, RWMutexForgetsNoReader, PTL
  DEF CountsExact

(* hasWaitingReaders tells a writer inside whether readers wait.           *)
THEOREM RWMutexSeesWaitingReaders == Safety => []WaitingReadersSeen
<1>1. RWInv => WaitingReadersSeen
  <2> SUFFICES ASSUME RWInv, NEW g \in G, pc[g] = "writing"
               PROVE  HasWaitingReaders <=> In({"rsem"}) # {}
    BY DEF WaitingReadersSeen, In
  <2>1. Cnt("reading") = 0
    BY CntNats DEF RWInv, TypeOK, WriterInv, Adm
  <2>2. readerCount < 0 /\ readerCount = Cnt("rsem") - rwmutexMaxReaders
    BY <2>1, Sums, CntNats DEF RWInv, CountInv, AnnouncedPC
  <2>3. HasWaitingReaders <=> Cnt("rsem") # 0
    BY <2>2, Sums, CntNats DEF HasWaitingReaders
  <2>4. Cnt("rsem") = 0 <=> In({"rsem"}) = {}
    BY CntNat DEF In
  <2> QED
    BY <2>3, <2>4
<1> QED
  BY <1>1, RWMutexInvariant, PTL

(* No reader is admitted past a pending writer.                            *)
THEOREM RWMutexNoNewAdmissions == Safety => NoNewAdmissions
<1>1. ASSUME RWInv, RWInv', [Next]_vars, Announced, Announced'
      PROVE  Adm' <= Adm
  <2>1. /\ \E g \in G : pc[g] \in AnnouncedPC
        /\ readerCount < 0 /\ readerCount' < 0
    BY <1>1 DEF Announced, In, RWInv, CountInv, AnnouncedPC
  <2>2. \A g \in G : pc[g] # "wakereaders"
    BY <1>1, <2>1 DEF RWInv, CallInv, OwnerPC, AnnouncedPC
  <2>3. /\ permits[ReaderSem] \in Nat
        /\ \A x \in Nat : permits' = [permits EXCEPT ![ReaderSem] = x]
                            => permits'[ReaderSem] = x
    BY <1>1 DEF RWInv, TypeOK
  <2>4. CASE UNCHANGED vars
    <3>1. \A p : Cnt(p)' = Cnt(p)
      BY <2>4, CntStay DEF vars
    <3> QED
      BY <2>3, <2>4, <3>1, CntNats DEF vars, sems, Adm
  <2>5. ASSUME NEW g \in G, RUnlock(g) PROVE Adm' <= Adm
    <3>1. Goto(g, "reading", "runlockslow") /\ UNCHANGED permits
      BY <2>1, <2>5 DEF RUnlock, sems
    <3> QED
      BY <1>1, <2>3, <3>1, CntMove, CntNats DEF RWInv, Moved, Adm
  <2>6. ASSUME NEW g \in G, RUnlockSlow(g) PROVE Adm' <= Adm
    <3>1. PICK to \in {"wakewriter", "out"} : Goto(g, "runlockslow", to)
      BY <2>6 DEF RUnlockSlow
    <3> QED
      BY <1>1, <2>3, <2>6, <3>1, CntMove, CntNats
      DEF RWInv, Moved, Adm, RUnlockSlow, sems
  <2>7. ASSUME NEW g \in G, WakeWriter(g) PROVE Adm' <= Adm
    <3>1. Goto(g, "wakewriter", "out") /\ permits'[ReaderSem] = permits[ReaderSem]
      BY <1>1, <2>7, RWMutexAssumption DEF WakeWriter, Sem!Give, RWInv, TypeOK
    <3> QED
      BY <1>1, <2>3, <3>1, CntMove, CntNats DEF RWInv, Moved, Adm
  <2>8. ASSUME NEW g \in G, RLock(g) PROVE Adm' <= Adm
    <3>1. Goto(g, "out", "rsem") /\ UNCHANGED permits
      BY <1>1, <2>1, <2>8 DEF RLock, Sem!Want, RWInv, TypeOK
    <3> QED
      BY <1>1, <2>3, <3>1, CntMove, CntNats DEF RWInv, Moved, Adm
  <2>9. ASSUME NEW g \in G, RLockWoken(g) PROVE Adm' <= Adm
    <3>1. /\ Goto(g, "rsem", "reading") /\ permits[ReaderSem] > 0
          /\ permits'[ReaderSem] = permits[ReaderSem] - 1
      BY <1>1, <2>9 DEF RLockWoken, Sem!Take, RWInv, TypeOK
    <3> QED
      BY <1>1, <2>3, <3>1, CntMove, CntNats DEF RWInv, Moved, Adm
  <2>10. ASSUME NEW g \in G, LockWoken(g) PROVE Adm' <= Adm
    <3>1. Goto(g, "wsem", "writing") /\ permits'[ReaderSem] = permits[ReaderSem]
      BY <1>1, <2>10, RWMutexAssumption DEF LockWoken, Sem!Take, RWInv, TypeOK
    <3> QED
      BY <1>1, <2>3, <3>1, CntMove, CntNats DEF RWInv, Moved, Adm
  <2>11. ASSUME NEW g \in G,
                \/ Lock(g) \/ LockW(g) \/ LockAnnounce(g) \/ LockDrain(g)
                \/ TryLock(g) \/ TryLockAnnounce(g) \/ TryLockFail(g)
                \/ UnlockW(g)
         PROVE  Adm' <= Adm
    <3>1. UNCHANGED permits
      BY <2>11
      DEF Lock, LockW, LockAnnounce, LockDrain, TryLock, TryLockAnnounce,
          TryLockFail, UnlockW, sems, Sem!Want
    <3>2. PICK from \in RWPC, to \in RWPC :
            /\ Goto(g, from, to) /\ from # to
            /\ {from, to} \cap {"reading", "runlockslow"} = {}
      BY <2>11
      DEF Lock, LockW, LockAnnounce, LockDrain, TryLock, TryLockAnnounce,
          TryLockFail, UnlockW, RWPC
    <3>3. Moved("reading", from, to) /\ Moved("runlockslow", from, to)
      BY <1>1, <3>2, CntMove DEF RWInv
    <3>4. /\ "reading" # from /\ "reading" # to
          /\ "runlockslow" # from /\ "runlockslow" # to
      BY <3>2
    <3>5. UNCHANGED <<Cnt("reading"), Cnt("runlockslow")>>
      BY <3>3, <3>4, CntNats DEF Moved
    <3> QED
      BY <2>3, <3>1, <3>5, CntNats DEF Adm
  <2>12. ASSUME NEW g \in G, TryRLock(g) \/ Unlock(g) \/ WakeReader(g)
         PROVE  FALSE
    <3>1. CASE TryRLock(g)
      BY <2>1, <3>1, <1>1 DEF TryRLock, RWInv, TypeOK
    <3>2. CASE WakeReader(g)
      BY <2>2, <3>2 DEF WakeReader, Goto
    <3>3. CASE Unlock(g)
      <4>1. pc[g] = "writing" /\ readerCount' = readerCount + rwmutexMaxReaders
        BY <3>3 DEF Unlock, Goto
      <4> QED
        BY <1>1, <2>1, <4>1, Sums, CntNats DEF RWInv, TypeOK, CountInv
    <3> QED
      BY <2>12, <3>1, <3>2, <3>3
  <2> QED
    BY <1>1, <2>4, <2>5, <2>6, <2>7, <2>8, <2>9, <2>10, <2>11, <2>12
    DEF Next, Step, Call, Granted
<1>2. Admitted = Adm /\ Admitted' = Adm'
  <2>1. Admitted = Adm
    BY SetCounts
  <2>2. (Admitted = Adm)'
    BY <2>1, PTL
  <2> QED
    BY <2>1, <2>2
<1>3. RWInv /\ RWInv' /\ [Next]_vars
        => [Announced /\ Announced' => Admitted' <= Admitted]_vars
  BY <1>1, <1>2
<1> QED
  BY <1>3, RWMutexInvariant, PTL DEF Safety, NoNewAdmissions
=============================================================================
