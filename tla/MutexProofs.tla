---------------------------- MODULE MutexProofs ----------------------------
(***************************************************************************)
(* Theorems about the semaphores of runtime/sema.go under any sequence of  *)
(* calls by any finite set of goroutines on any set of addresses: sleeps   *)
(* and wakeups are paired, root.nwait is exact, and the semaphores         *)
(* implement the counting semaphores of module Semaphore.                  *)
(*                                                                         *)
(* Theorems about sync.Mutex for any finite set of goroutines: mutual      *)
(* exclusion, the consistency of the word that lockSlow's throws guard,    *)
(* and the uniqueness of the wakeup under way, on which both rest.  The    *)
(* lemmas of the first part say what the steps of Sema preserve, whoever   *)
(* calls them, so that the second can cite them.                           *)
(***************************************************************************)
EXTENDS Mutex, FiniteSetTheorems, TLAPS

-----------------------------------------------------------------------------
(* Semaphores.                                                             *)

(* A condition, counted.                                                   *)
One(b) == IF b THEN 1 ELSE 0

(* Two sets that differ at most in g differ by at most one in size.        *)
LEMMA SetMove ==
  ASSUME NEW S, NEW T, NEW g, IsFiniteSet(S), S \ {g} = T \ {g}
  PROVE  /\ Cardinality(S) \in Nat /\ Cardinality(T) \in Nat
         /\ Cardinality(T) = Cardinality(S) + One(g \in T) - One(g \in S)
<1>1. IsFiniteSet((S \ {g}) \cup {g})
  BY FS_RemoveElement, FS_AddElement
<1>2. IsFiniteSet(T)
  <2>1. T \subseteq (S \ {g}) \cup {g}
    OBVIOUS
  <2> QED
    BY <1>1, <2>1, FS_Subset
<1>3. /\ Cardinality(S \ {g}) = Cardinality(S) - One(g \in S)
      /\ Cardinality(T \ {g}) = Cardinality(T) - One(g \in T)
  BY <1>2, FS_RemoveElement, FS_CardinalityType DEF One
<1>4. Cardinality(S) \in Nat /\ Cardinality(T) \in Nat
  BY <1>2, FS_CardinalityType
<1>5. Cardinality(S) - One(g \in S) = Cardinality(T) - One(g \in T)
  BY <1>3
<1> QED
  BY <1>4, <1>5 DEF One

(* The inductive invariant: SleepersPaired, with the lists and the dequeued *)
(* waiters spelled out goroutine by goroutine, and what each control point  *)
(* says of the other variables.                                             *)
CallInv ==
  \A g \in G :
    /\ spc[g] # "idle" => scall[g].addr \in Addr
    /\ rootLock = g <=> spc[g] = "recheck"
    /\ sdeq[g] # NoG <=> spc[g] = "wake"
    /\ ticket[g] => spc[g] = "ready"

PairInv ==
  /\ \A g \in G : spc[g] = "parked" => g \in AllQueued \cup Dequeued
  /\ \A g \in G : sdeq[g] # NoG =>
       spc[sdeq[g]] = "parked" /\ scall[sdeq[g]].addr = scall[g].addr
  /\ \A g \in G, a \in Addr : \A i \in DOMAIN waitq[a] : waitq[a][i] # sdeq[g]
  /\ \A g, h \in G : sdeq[g] = sdeq[h] /\ sdeq[g] # NoG => g = h
  /\ \A a \in Addr : \A i \in DOMAIN waitq[a] :
       spc[waitq[a][i]] = "parked" /\ scall[waitq[a][i]].addr = a
  /\ \A a \in Addr : \A i, j \in DOMAIN waitq[a] :
       waitq[a][i] = waitq[a][j] => i = j

SemaInv == SemaTypeOK /\ CallInv /\ PairInv /\ NwaitExact

-----------------------------------------------------------------------------
(* What is queued is a goroutine.                                          *)
LEMMA QueueElements ==
  ASSUME SemaTypeOK, NEW a \in Addr, NEW i \in DOMAIN waitq[a]
  PROVE  waitq[a][i] \in G
  BY DEF SemaTypeOK

(* The pairing in the form the proofs use implies the one the runs check.  *)
LEMMA PairInvImpliesPaired == SemaInv => SleepersPaired
<1> SUFFICES ASSUME SemaInv PROVE SleepersPaired
  OBVIOUS
<1>1. ASSUME NEW g \in G
      PROVE  spc[g] = "parked" <=> g \in AllQueued \cup Dequeued
  BY DEF SemaInv, PairInv, AllQueued, Queued, Dequeued
<1>2. AllQueued \cap Dequeued = {}
  BY DEF SemaInv, PairInv, AllQueued, Queued, Dequeued
<1>3. \A a \in Addr :
        /\ \A g \in Queued(a) : scall[g].addr = a
        /\ \A i, j \in DOMAIN waitq[a] : waitq[a][i] = waitq[a][j] => i = j
  BY DEF SemaInv, PairInv, Queued
<1> QED
  BY <1>1, <1>2, <1>3 DEF SleepersPaired, SemaInv, PairInv

(* The goroutines that nwait counts are finitely many.                     *)
LEMMA WaitingFinite ==
  ASSUME SemaTypeOK
  PROVE  /\ Waiting \subseteq G
         /\ IsFiniteSet(Waiting)
         /\ Cardinality(Waiting) \in Nat
         /\ Cardinality(Waiting) = 0 => Waiting = {}
<1>1. Waiting \subseteq G
  BY QueueElements DEF Waiting, AllQueued, Queued
<1> QED
  BY <1>1, SemaAssumption, FS_Subset, FS_CardinalityType, FS_EmptySet

(* The zero semtable satisfies the invariant.                              *)
LEMMA SemaInitInv == SemaInit => SemaInv
<1> SUFFICES ASSUME SemaInit PROVE SemaInv
  OBVIOUS
<1>1. SemaTypeOK /\ CallInv /\ PairInv
  BY SemaAssumption
  DEF SemaInit, SemaTypeOK, CallInv, PairInv, NoCall, AllQueued, Queued,
      Dequeued, AcquirePC, ReleasePC
<1>2. Waiting = {}
  BY DEF SemaInit, Waiting, AllQueued, Queued
<1> QED
  BY <1>1, <1>2, FS_EmptySet DEF SemaInv, NwaitExact, SemaInit

(* A call of semacquire1 or semrelease1 preserves the invariant.           *)
LEMMA EnterInv ==
  ASSUME SemaInv, NEW g \in G, NEW a \in Addr, NEW flag \in BOOLEAN,
         NEW at \in {"acquire", "xadd"}, Enter(g, at, a, flag)
  PROVE  SemaInv'
<1> USE DEF SemaInv, Enter
<1>1. SemaTypeOK'
  BY DEF SemaTypeOK, AcquirePC, ReleasePC
<1>2. CallInv'
  BY DEF SemaTypeOK, CallInv
<1>3. PairInv'
  <2>1. \A h \in G : spc'[h] = "parked" <=> spc[h] = "parked"
    BY DEF SemaTypeOK
  <2>2. \A h \in G : spc[h] = "parked" \/ sdeq[h] # NoG => scall'[h] = scall[h]
    BY DEF SemaTypeOK, CallInv
  <2>3. \A b \in Addr : \A i \in DOMAIN waitq[b] : waitq[b][i] \in G
    BY QueueElements
  <2>4. UNCHANGED <<AllQueued, Dequeued>>
    BY DEF AllQueued, Queued, Dequeued
  <2> QED
    BY <2>1, <2>2, <2>3, <2>4 DEF PairInv, SemaTypeOK
<1>4. NwaitExact'
  <2>1. Waiting' = Waiting
    BY DEF Waiting, AllQueued, Queued, SemaTypeOK
  <2> QED
    BY <2>1 DEF NwaitExact
<1> QED
  BY <1>1, <1>2, <1>3, <1>4


-----------------------------------------------------------------------------
(* root.queue, at either end, adds g to the list, once, and nobody else;    *)
(* root.dequeue takes the first.                                           *)
LEMMA EnqueueElements ==
  ASSUME NEW q \in Seq(G), NEW g \in G,
         NEW e, e = <<g>> \o q \/ e = Append(q, g)
  PROVE  /\ e \in Seq(G)
         /\ \A i \in DOMAIN e : e[i] = g \/ \E k \in DOMAIN q : q[k] = e[i]
         /\ \A k \in DOMAIN q : \E i \in DOMAIN e : e[i] = q[k]
         /\ \E i \in DOMAIN e : e[i] = g
         /\ (/\ \A i \in DOMAIN q : q[i] # g
             /\ \A i, j \in DOMAIN q : q[i] = q[j] => i = j)
            => \A i, j \in DOMAIN e : e[i] = e[j] => i = j
<1>0. DOMAIN q = 1 .. Len(q) /\ Len(q) \in Nat
  OBVIOUS
<1>1. CASE e = <<g>> \o q
  <2>1. /\ e \in Seq(G) /\ Len(e) = Len(q) + 1 /\ DOMAIN e = 1 .. Len(e)
        /\ e[1] = g /\ \A i \in 1 .. Len(q) : e[i + 1] = q[i]
        /\ \A i \in 2 .. Len(e) : e[i] = q[i - 1]
    BY <1>1
  <2>2. /\ \A i \in DOMAIN e : e[i] = g \/ \E k \in DOMAIN q : q[k] = e[i]
        /\ \A k \in DOMAIN q : \E i \in DOMAIN e : e[i] = q[k]
        /\ \E i \in DOMAIN e : e[i] = g
    <3>1. ASSUME NEW i \in DOMAIN e
          PROVE  e[i] = g \/ \E k \in DOMAIN q : q[k] = e[i]
      <4>1. i = 1 \/ (i \in 2 .. Len(e) /\ i - 1 \in DOMAIN q)
        BY <1>0, <2>1
      <4> QED
        BY <2>1, <4>1
    <3>2. \A k \in DOMAIN q : k + 1 \in DOMAIN e /\ e[k + 1] = q[k]
      BY <1>0, <2>1
    <3>3. 1 \in DOMAIN e /\ e[1] = g
      BY <1>0, <2>1
    <3> QED
      BY <3>1, <3>2, <3>3
  <2>3. ASSUME \A i \in DOMAIN q : q[i] # g,
               \A i, j \in DOMAIN q : q[i] = q[j] => i = j,
               NEW i \in DOMAIN e, NEW j \in DOMAIN e, e[i] = e[j]
        PROVE  i = j
    <3>1. /\ i = 1 \/ (i \in 2 .. Len(e) /\ i - 1 \in DOMAIN q)
          /\ j = 1 \/ (j \in 2 .. Len(e) /\ j - 1 \in DOMAIN q)
      BY <1>0, <2>1
    <3> QED
      BY <1>0, <2>1, <2>3, <3>1
  <2> QED
    BY <2>1, <2>2, <2>3
<1>2. CASE e = Append(q, g)
  <2>1. /\ e \in Seq(G) /\ Len(e) = Len(q) + 1 /\ DOMAIN e = 1 .. Len(e)
        /\ e[Len(e)] = g /\ \A i \in 1 .. Len(q) : e[i] = q[i]
    BY <1>2
  <2>2. /\ \A i \in DOMAIN e : e[i] = g \/ \E k \in DOMAIN q : q[k] = e[i]
        /\ \A k \in DOMAIN q : \E i \in DOMAIN e : e[i] = q[k]
        /\ \E i \in DOMAIN e : e[i] = g
    <3>1. \A i \in DOMAIN e : i = Len(e) \/ (i \in DOMAIN q /\ e[i] = q[i])
      BY <1>0, <2>1
    <3>2. \A k \in DOMAIN q : k \in DOMAIN e /\ e[k] = q[k]
      BY <1>0, <2>1
    <3>3. Len(e) \in DOMAIN e /\ e[Len(e)] = g
      BY <1>0, <2>1
    <3> QED
      BY <3>1, <3>2, <3>3
  <2>3. ASSUME \A i \in DOMAIN q : q[i] # g,
               \A i, j \in DOMAIN q : q[i] = q[j] => i = j,
               NEW i \in DOMAIN e, NEW j \in DOMAIN e, e[i] = e[j]
        PROVE  i = j
    <3>1. (i = Len(e) \/ i \in DOMAIN q) /\ (j = Len(e) \/ j \in DOMAIN q)
      BY <1>0, <2>1
    <3> QED
      BY <1>0, <2>1, <2>3, <3>1
  <2> QED
    BY <2>1, <2>2, <2>3
<1> QED
  BY <1>1, <1>2

(* The list after a dequeue is the list before it, shifted by one.         *)
LEMMA TailIndices ==
  ASSUME NEW q \in Seq(G), q # <<>>
  PROVE  /\ Tail(q) \in Seq(G)
         /\ Len(Tail(q)) = Len(q) - 1
         /\ Len(q) \in Nat \ {0}
         /\ Head(q) = q[1]
         /\ \A i \in 1 .. Len(q) - 1 : Tail(q)[i] = q[i + 1]
  OBVIOUS

-----------------------------------------------------------------------------
(* One lemma for the steps that neither queue, dequeue nor ready anybody.  *)
LEMMA PairInvUnmoved ==
  ASSUME SemaInv, NEW g \in G,
         UNCHANGED <<waitq, sdeq>>,
         \A h \in G \ {g} : spc'[h] = spc[h] /\ scall'[h] = scall[h],
         spc[g] \notin {"parked", "wake"}, spc'[g] # "parked"
  PROVE  PairInv'
<1>1. \A b \in Addr : \A i \in DOMAIN waitq[b] : waitq[b][i] \in G
  BY QueueElements DEF SemaInv
<1>2. UNCHANGED <<AllQueued, Dequeued>>
  BY DEF AllQueued, Queued, Dequeued
<1>3. \A h \in G : sdeq[h] # NoG => sdeq[h] \in G
  BY DEF SemaInv, SemaTypeOK
<1>4. \A h \in G : spc[h] = "parked" \/ sdeq[h] # NoG => UNCHANGED <<spc[h], scall[h]>>
  BY DEF CallInv, SemaInv
<1>5. \A h \in G : spc'[h] = "parked" => spc[h] = "parked"
  OBVIOUS
<1> QED
  BY <1>1, <1>2, <1>3, <1>4, <1>5 DEF PairInv, SemaInv

(* A step that moves nobody in or out of the counted ones keeps nwait      *)
(* exact.                                                                  *)
LEMMA NwaitUnmoved ==
  ASSUME SemaInv, NEW g \in G,
         UNCHANGED <<waitq, nwait>>,
         \A h \in G \ {g} : spc'[h] = spc[h],
         spc[g] # "recheck", spc'[g] # "recheck"
  PROVE  NwaitExact'
<1>1. Waiting' = Waiting
  BY DEF Waiting, AllQueued, Queued
<1> QED
  BY <1>1 DEF NwaitExact, SemaInv

(* Typing of a return.                                                     *)
LEMMA ReturnTypes ==
  ASSUME SemaTypeOK, NEW g \in G, Return(g)
  PROVE  /\ spc' \in [G -> {"idle"} \cup AcquirePC \cup ReleasePC]
         /\ scall' \in [G -> [addr : Addr \cup {NoAddr}, flag : BOOLEAN]]
<1>1. NoCall \in [addr : Addr \cup {NoAddr}, flag : BOOLEAN]
  BY DEF NoCall
<1> QED
  BY <1>1 DEF SemaTypeOK, Return

(* Typing of a step to another point of the call.                          *)
LEMMA GotoTypes ==
  ASSUME SemaTypeOK, NEW g \in G, NEW at \in AcquirePC \cup ReleasePC,
         Goto(g, at)
  PROVE  /\ spc' \in [G -> {"idle"} \cup AcquirePC \cup ReleasePC]
         /\ scall' \in [G -> [addr : Addr \cup {NoAddr}, flag : BOOLEAN]]
  BY DEF SemaTypeOK, Goto

(* A permit is taken only from a word above zero.                          *)
LEMMA TakePermitTypes ==
  ASSUME SemaTypeOK, NEW a \in Addr, CanSemacquire(a), TakePermit(a)
  PROVE  sem' \in [Addr -> Nat]
  BY DEF SemaTypeOK, CanSemacquire, TakePermit

(* The first cansemacquire preserves the invariant.                        *)
LEMMA AcquireFastInv ==
  ASSUME SemaInv, NEW g \in G, AcquireFast(g) PROVE SemaInv'
<1> USE DEF SemaInv, AcquireFast
<1>0. scall[g].addr \in Addr
  BY DEF CallInv
<1>1. SemaTypeOK'
  BY <1>0, ReturnTypes, GotoTypes, TakePermitTypes
  DEF SemaTypeOK, AcquirePC
<1>2. CallInv'
  BY DEF SemaTypeOK, CallInv, Return, Goto
<1>3. PairInv'
  BY PairInvUnmoved DEF SemaTypeOK, Return, Goto
<1>4. NwaitExact'
  BY NwaitUnmoved DEF SemaTypeOK, Return, Goto
<1> QED
  BY <1>1, <1>2, <1>3, <1>4

(* nwait.Add(1) counts the goroutine that has just locked the root.        *)
LEMMA AcquireLockInv ==
  ASSUME SemaInv, NEW g \in G, AcquireLock(g) PROVE SemaInv'
<1> USE DEF SemaInv, AcquireLock, Goto
<1>1. SemaTypeOK'
  BY DEF SemaTypeOK, AcquirePC, ReleasePC
<1>2. CallInv'
  BY SemaAssumption DEF SemaTypeOK, CallInv
<1>3. PairInv'
  BY PairInvUnmoved DEF SemaTypeOK
<1>4. NwaitExact'
  <2>1. Waiting' = Waiting \cup {g}
    BY DEF Waiting, AllQueued, Queued, SemaTypeOK
  <2>2. g \notin Waiting
    BY DEF Waiting, AllQueued, Queued, PairInv
  <2> QED
    BY <2>1, <2>2, WaitingFinite, FS_AddElement DEF NwaitExact
<1> QED
  BY <1>1, <1>2, <1>3, <1>4

(* A readied waiter returns or goes round again, with its ticket used up.  *)
LEMMA AcquireWokenInv ==
  ASSUME SemaInv, NEW g \in G, AcquireWoken(g) PROVE SemaInv'
<1> USE DEF SemaInv, AcquireWoken
<1>0. scall[g].addr \in Addr
  BY DEF CallInv
<1>1. SemaTypeOK'
  BY <1>0, ReturnTypes, GotoTypes, TakePermitTypes
  DEF SemaTypeOK, AcquirePC
<1>2. CallInv'
  BY DEF SemaTypeOK, CallInv, Return, Goto
<1>3. PairInv'
  BY PairInvUnmoved DEF SemaTypeOK, Return, Goto
<1>4. NwaitExact'
  BY NwaitUnmoved DEF SemaTypeOK, Return, Goto
<1> QED
  BY <1>1, <1>2, <1>3, <1>4

(* The Xadd of a release preserves the invariant.                          *)
LEMMA ReleaseXaddInv ==
  ASSUME SemaInv, NEW g \in G, ReleaseXadd(g) PROVE SemaInv'
<1> USE DEF SemaInv, ReleaseXadd, Goto
<1>1. SemaTypeOK'
  BY DEF SemaTypeOK, CallInv, AcquirePC, ReleasePC
<1>2. CallInv'
  BY DEF SemaTypeOK, CallInv
<1>3. PairInv'
  BY PairInvUnmoved DEF SemaTypeOK
<1>4. NwaitExact'
  BY NwaitUnmoved DEF SemaTypeOK
<1> QED
  BY <1>1, <1>2, <1>3, <1>4

(* The check of nwait without the lock preserves the invariant.            *)
LEMMA ReleaseCheckInv ==
  ASSUME SemaInv, NEW g \in G, ReleaseCheck(g) PROVE SemaInv'
<1> USE DEF SemaInv, ReleaseCheck
<1>1. SemaTypeOK'
  BY ReturnTypes, GotoTypes DEF SemaTypeOK, ReleasePC
<1>2. CallInv'
  BY DEF SemaTypeOK, CallInv, Return, Goto
<1>3. PairInv'
  BY PairInvUnmoved DEF SemaTypeOK, Return, Goto
<1>4. NwaitExact'
  BY NwaitUnmoved DEF SemaTypeOK, Return, Goto
<1> QED
  BY <1>1, <1>2, <1>3, <1>4
-----------------------------------------------------------------------------
(* The steps that move a goroutine to a list, from a list to its releaser, *)
(* and from there to "ready".                                              *)
LEMMA AcquireRecheckInv ==
  ASSUME SemaInv, NEW g \in G, AcquireRecheck(g) PROVE SemaInv'
<1> DEFINE a == scall[g].addr
           q == waitq[a]
           e == Enqueue(q, g, scall[g].flag)
<1> USE DEF SemaInv
<1>0. /\ spc[g] = "recheck" /\ rootLock' = NoG /\ UNCHANGED <<ticket, sdeq>>
      /\ a \in Addr /\ scall[g].flag \in BOOLEAN /\ q \in Seq(G)
  BY DEF AcquireRecheck, CallInv, SemaTypeOK
<1>1. CASE CanSemacquire(a)
  <2>1. /\ TakePermit(a) /\ Return(g) /\ UNCHANGED waitq
        /\ nwait' = nwait - 1
    BY <1>1 DEF AcquireRecheck
  <2>2. g \in Waiting /\ g \notin AllQueued
    BY <1>0 DEF Waiting, AllQueued, Queued, PairInv
  <2>3. Waiting' = Waiting \ {g}
    BY <1>0, <2>1, <2>2
    DEF Waiting, AllQueued, Queued, SemaTypeOK, Return
  <2>4. NwaitExact' /\ nwait' \in Nat
    BY <2>1, <2>2, <2>3, WaitingFinite, FS_RemoveElement, FS_CardinalityType
    DEF NwaitExact
  <2>5. SemaTypeOK'
    BY <1>0, <1>1, <2>1, <2>4, ReturnTypes, TakePermitTypes DEF SemaTypeOK
  <2>6. CallInv'
    BY <1>0, <2>1, SemaAssumption DEF SemaTypeOK, CallInv, Return
  <2>7. PairInv'
    BY <1>0, <2>1, PairInvUnmoved DEF SemaTypeOK, Return
  <2> QED
    BY <2>4, <2>5, <2>6, <2>7
<1>2. CASE ~CanSemacquire(a)
  <2>1. /\ waitq' = [waitq EXCEPT ![a] = e]
        /\ Goto(g, "parked")
        /\ UNCHANGED <<sem, nwait>>
    BY <1>2 DEF AcquireRecheck
  <2>2. \A i \in DOMAIN q : q[i] # g
    BY <1>0 DEF PairInv
  <2>3. /\ e \in Seq(G)
        /\ \A i \in DOMAIN e : e[i] = g \/ \E k \in DOMAIN q : q[k] = e[i]
        /\ \A k \in DOMAIN q : \E i \in DOMAIN e : e[i] = q[k]
        /\ \E i \in DOMAIN e : e[i] = g
        /\ \A i, j \in DOMAIN e : e[i] = e[j] => i = j
    <3>1. \A i, j \in DOMAIN q : q[i] = q[j] => i = j
      BY <1>0 DEF PairInv
    <3>2. q \in Seq(G) /\ (e = <<g>> \o q \/ e = Append(q, g))
      BY <1>0 DEF Enqueue
    <3> HIDE DEF q, e
    <3>3. e \in Seq(G)
      BY <3>2, EnqueueElements
    <3>4. /\ \A i \in DOMAIN e : e[i] = g \/ \E k \in DOMAIN q : q[k] = e[i]
          /\ \A k \in DOMAIN q : \E i \in DOMAIN e : e[i] = q[k]
          /\ \E i \in DOMAIN e : e[i] = g
      BY <3>2, EnqueueElements
    <3>5. \A i, j \in DOMAIN e : e[i] = e[j] => i = j
      BY <2>2, <3>1, <3>2, EnqueueElements
    <3> QED
      BY <3>3, <3>4, <3>5
  <2>4. /\ waitq'[a] = e
        /\ \A b \in Addr \ {a} : waitq'[b] = waitq[b]
        /\ spc'[g] = "parked"
        /\ \A h \in G \ {g} : spc'[h] = spc[h]
        /\ scall' = scall
    BY <1>0, <2>1 DEF SemaTypeOK, Goto
  <2> HIDE DEF e
  <2>6. AllQueued' = AllQueued \cup {g}
    <3>1. \A h : h \in AllQueued' <=> \E b \in Addr : \E i \in DOMAIN waitq'[b] : waitq'[b][i] = h
      BY DEF AllQueued, Queued
    <3>2. \A h : h \in AllQueued <=> \E b \in Addr : \E i \in DOMAIN waitq[b] : waitq[b][i] = h
      BY DEF AllQueued, Queued
    <3>3. ASSUME NEW h \in AllQueued' PROVE h \in AllQueued \cup {g}
      <4>1. PICK b \in Addr : \E i \in DOMAIN waitq'[b] : waitq'[b][i] = h
        BY <3>1, <3>3
      <4>2. CASE b = a
        BY <1>0, <2>3, <2>4, <3>2, <4>1, <4>2
      <4>3. CASE b # a
        BY <2>4, <3>2, <4>1, <4>3
      <4> QED
        BY <4>2, <4>3
    <3>4. ASSUME NEW h \in AllQueued PROVE h \in AllQueued'
      <4>1. PICK b \in Addr : \E i \in DOMAIN waitq[b] : waitq[b][i] = h
        BY <3>2, <3>4
      <4>2. CASE b = a
        BY <1>0, <2>3, <2>4, <3>1, <4>1, <4>2
      <4>3. CASE b # a
        BY <2>4, <3>1, <4>1, <4>3
      <4> QED
        BY <4>2, <4>3
    <3>5. g \in AllQueued'
      BY <1>0, <2>3, <2>4, <3>1
    <3> QED
      BY <3>3, <3>4, <3>5
  <2>7. SemaTypeOK'
    <3>1. waitq' \in [Addr -> Seq(G)]
      BY <1>0, <2>1, <2>3 DEF SemaTypeOK
    <3> QED
      BY <1>0, <2>1, <3>1, GotoTypes DEF SemaTypeOK, AcquirePC
  <2>8. CallInv'
    BY <1>0, <2>4, SemaAssumption DEF SemaTypeOK, CallInv
  <2>9. NwaitExact'
    <3>1. Waiting' = Waiting
      BY <1>0, <2>4, <2>6 DEF Waiting
    <3> QED
      BY <2>1, <3>1 DEF NwaitExact
  <2>10. PairInv'
    <3>1. \A i \in DOMAIN e : e[i] = g \/ \E k \in DOMAIN q : e[i] = q[k]
      BY <2>3
    <3>2. \A h \in G : spc'[h] = "parked" <=> h = g \/ spc[h] = "parked"
      BY <2>4
    <3>3. \A h \in G : sdeq[h] # NoG => sdeq[h] \in G /\ sdeq[h] # g
      BY <1>0 DEF PairInv, SemaTypeOK
    <3>4. \A b \in Addr : \A i \in DOMAIN waitq[b] : waitq[b][i] \in G
      BY QueueElements
    <3>5. (\A h \in G : spc[h] = "parked" => h \in AllQueued \cup Dequeued)'
      BY <1>0, <2>6, <3>2 DEF PairInv, Dequeued
    <3>6. (\A h \in G : sdeq[h] # NoG =>
             spc[sdeq[h]] = "parked" /\ scall[sdeq[h]].addr = scall[h].addr)'
      BY <1>0, <2>4, <3>2, <3>3 DEF PairInv
    <3>7. (\A h \in G, b \in Addr : \A i \in DOMAIN waitq[b] : waitq[b][i] # sdeq[h])'
      <4>1. ASSUME NEW h \in G, NEW i \in DOMAIN e PROVE e[i] # sdeq[h]
        BY <1>0, <3>1, <3>3, SemaAssumption DEF PairInv
      <4> QED
        BY <1>0, <2>4, <4>1 DEF PairInv
    <3>8. (\A b \in Addr : \A i \in DOMAIN waitq[b] :
             spc[waitq[b][i]] = "parked" /\ scall[waitq[b][i]].addr = b)'
      <4>1. ASSUME NEW i \in DOMAIN e
            PROVE  spc'[e[i]] = "parked" /\ scall'[e[i]].addr = a
        BY <1>0, <2>4, <3>1, <3>2, <3>4 DEF PairInv
      <4> QED
        BY <1>0, <2>4, <3>2, <3>4, <4>1 DEF PairInv
    <3>9. (\A b \in Addr : \A i, j \in DOMAIN waitq[b] :
             waitq[b][i] = waitq[b][j] => i = j)'
      BY <1>0, <2>3, <2>4 DEF PairInv
    <3> QED
      BY <1>0, <3>5, <3>6, <3>7, <3>8, <3>9 DEF PairInv
  <2> QED
    BY <2>7, <2>8, <2>9, <2>10
<1> QED
  BY <1>1, <1>2

(* A dequeue moves one waiter from the list to the releaser and counts it  *)
(* out.                                                                    *)
LEMMA ReleaseDequeueInv ==
  ASSUME SemaInv, NEW g \in G, ReleaseDequeue(g) PROVE SemaInv'
<1> DEFINE a == scall[g].addr
           q == waitq[a]
           t == Tail(q)
           s == Head(q)
<1> USE DEF SemaInv
<1>0. /\ spc[g] = "dequeue" /\ rootLock = NoG
      /\ UNCHANGED <<sem, rootLock, ticket>>
      /\ a \in Addr /\ q \in Seq(G)
  BY DEF ReleaseDequeue, Dequeue, CallInv, SemaTypeOK
<1>1. CASE nwait = 0 \/ q = <<>>
  <2>1. Return(g) /\ UNCHANGED <<nwait, waitq, sdeq>>
    BY <1>1 DEF ReleaseDequeue, Dequeue
  <2>2. SemaTypeOK'
    BY <1>0, <2>1, ReturnTypes DEF SemaTypeOK
  <2>3. CallInv'
    BY <1>0, <2>1 DEF SemaTypeOK, CallInv, Return
  <2>4. PairInv'
    BY <1>0, <2>1, PairInvUnmoved DEF SemaTypeOK, Return
  <2>5. NwaitExact'
    BY <1>0, <2>1, NwaitUnmoved DEF SemaTypeOK, Return
  <2> QED
    BY <2>2, <2>3, <2>4, <2>5
<1>2. CASE nwait # 0 /\ q # <<>>
  <2>1. /\ sdeq' = [sdeq EXCEPT ![g] = s]
        /\ waitq' = [waitq EXCEPT ![a] = t]
        /\ nwait' = nwait - 1
        /\ Goto(g, "wake")
    BY <1>2 DEF ReleaseDequeue, Dequeue
  <2>2. /\ t \in Seq(G) /\ Len(t) = Len(q) - 1 /\ Len(q) \in Nat \ {0}
        /\ DOMAIN q = 1 .. Len(q) /\ DOMAIN t = 1 .. Len(q) - 1
        /\ s = q[1] /\ \A i \in DOMAIN t : t[i] = q[i + 1]
    BY <1>0, <1>2, TailIndices
  <2>3. /\ s \in G /\ spc[s] = "parked" /\ scall[s].addr = a
        /\ \A h \in G : sdeq[h] # s
        /\ \A b \in Addr \ {a} : \A i \in DOMAIN waitq[b] : waitq[b][i] # s
    BY <1>0, <2>2 DEF PairInv, SemaTypeOK
  <2>4. /\ waitq'[a] = t
        /\ \A b \in Addr \ {a} : waitq'[b] = waitq[b]
        /\ sdeq'[g] = s
        /\ \A h \in G \ {g} : sdeq'[h] = sdeq[h]
        /\ spc'[g] = "wake"
        /\ \A h \in G \ {g} : spc'[h] = spc[h]
        /\ scall' = scall
    BY <1>0, <2>1 DEF SemaTypeOK, Goto
  <2>5. \A i \in DOMAIN t : i + 1 \in DOMAIN q /\ i + 1 # 1 /\ t[i] = q[i + 1]
    BY <2>2
  <2>6. \A i, j \in DOMAIN q : q[i] = q[j] => i = j
    BY <1>0 DEF PairInv
  <2> HIDE DEF t, s
  <2>7. ASSUME NEW i \in DOMAIN t PROVE t[i] # s
    <3>1. i + 1 \in DOMAIN q /\ 1 \in DOMAIN q /\ i + 1 # 1
      BY <2>2, <2>5
    <3>2. q[i + 1] # q[1]
      BY <2>6, <3>1
    <3> QED
      BY <2>2, <3>2
  <2>8. \A i, j \in DOMAIN t : t[i] = t[j] => i = j
    BY <2>2, <2>5, <2>6, SMTT(30)
  <2>9. \A h : (\E i \in DOMAIN q : q[i] = h) <=> h = s \/ \E i \in DOMAIN t : t[i] = h
    <3>1. \A i \in DOMAIN q : i = 1 \/ (i - 1 \in DOMAIN t /\ t[i - 1] = q[i])
      BY <2>2, SMTT(30)
    <3>2. 1 \in DOMAIN q
      BY <2>2
    <3> QED
      BY <2>2, <2>5, <3>1, <3>2, ZenonT(40)
  <2>10. AllQueued' = AllQueued \ {s} /\ s \in AllQueued
    <3>1. \A h : h \in AllQueued' <=> \E b \in Addr : \E i \in DOMAIN waitq'[b] : waitq'[b][i] = h
      BY DEF AllQueued, Queued
    <3>2. \A h : h \in AllQueued <=> \E b \in Addr : \E i \in DOMAIN waitq[b] : waitq[b][i] = h
      BY DEF AllQueued, Queued
    <3>3. \A h : h \in AllQueued' <=> h \in AllQueued /\ h # s
      BY <1>0, <2>3, <2>4, <2>7, <2>9, <3>1, <3>2
    <3>4. s \in AllQueued
      BY <1>0, <2>9, <3>2
    <3> QED
      BY <3>3, <3>4
  <2>11. NwaitExact' /\ nwait' \in Nat
    <3>1. Waiting' = Waiting \ {s} /\ s \in Waiting
      BY <1>0, <2>3, <2>4, <2>10 DEF Waiting
    <3> QED
      BY <2>1, <3>1, WaitingFinite, FS_RemoveElement, FS_CardinalityType
      DEF NwaitExact
  <2>12. SemaTypeOK'
    <3>1. waitq' \in [Addr -> Seq(G)] /\ sdeq' \in [G -> G \cup {NoG}]
      BY <1>0, <2>1, <2>2, <2>3 DEF SemaTypeOK
    <3> QED
      BY <1>0, <2>1, <2>11, <3>1, GotoTypes DEF SemaTypeOK, ReleasePC
  <2>13. CallInv'
    BY <1>0, <2>3, <2>4, SemaAssumption DEF SemaTypeOK, CallInv
  <2>14. PairInv'
    <3>1. \A h \in G : spc'[h] = "parked" <=> spc[h] = "parked"
      BY <1>0, <2>4
    <3>2. \A i \in DOMAIN t : \E k \in DOMAIN q : t[i] = q[k]
      BY <2>5
    <3>3. \A b \in Addr : \A i \in DOMAIN waitq[b] : waitq[b][i] \in G
      BY QueueElements
    <3>4. \A h \in G : sdeq[h] # NoG => sdeq[h] \in G
      BY DEF SemaTypeOK
    <3>5. sdeq[g] = NoG
      BY <1>0 DEF CallInv
    <3>6. (\A h \in G : spc[h] = "parked" => h \in AllQueued \cup Dequeued)'
      <4>1. ASSUME NEW h \in G, spc[h] = "parked"
            PROVE  h \in AllQueued' \/ \E k \in G : sdeq'[k] = h
        <5>1. CASE h \in AllQueued
          BY <2>4, <2>10, <5>1
        <5>2. CASE \E k \in G : sdeq[k] = h
          BY <2>4, <3>5, <5>2, SemaAssumption
        <5> QED
          BY <4>1, <5>1, <5>2 DEF PairInv, Dequeued
      <4> QED
        BY <3>1, <4>1, SemaAssumption DEF Dequeued
    <3>7. (\A h \in G : sdeq[h] # NoG =>
             spc[sdeq[h]] = "parked" /\ scall[sdeq[h]].addr = scall[h].addr)'
      BY <2>3, <2>4, <3>1, <3>4 DEF PairInv
    <3>8. (\A h \in G, b \in Addr : \A i \in DOMAIN waitq[b] : waitq[b][i] # sdeq[h])'
      <4>1. ASSUME NEW h \in G, NEW i \in DOMAIN t PROVE t[i] # sdeq'[h]
        BY <1>0, <2>4, <2>7, <3>2 DEF PairInv
      <4> QED
        BY <1>0, <2>3, <2>4, <4>1 DEF PairInv
    <3>9. (\A h, k \in G : sdeq[h] = sdeq[k] /\ sdeq[h] # NoG => h = k)'
      BY <2>3, <2>4 DEF PairInv
    <3>10. (\A b \in Addr : \A i \in DOMAIN waitq[b] :
             spc[waitq[b][i]] = "parked" /\ scall[waitq[b][i]].addr = b)'
      <4>1. ASSUME NEW i \in DOMAIN t
            PROVE  spc'[t[i]] = "parked" /\ scall'[t[i]].addr = a
        BY <1>0, <2>4, <3>1, <3>2, <3>3 DEF PairInv
      <4> QED
        BY <1>0, <2>4, <3>1, <3>3, <4>1 DEF PairInv
    <3>11. (\A b \in Addr : \A i, j \in DOMAIN waitq[b] :
             waitq[b][i] = waitq[b][j] => i = j)'
      BY <1>0, <2>4, <2>8 DEF PairInv
    <3> QED
      BY <3>6, <3>7, <3>8, <3>9, <3>10, <3>11 DEF PairInv
  <2> QED
    BY <2>11, <2>12, <2>13, <2>14
<1> QED
  BY <1>1, <1>2

(* readyWithTime ends the sleep of the one waiter the releaser holds.      *)
LEMMA ReleaseWakeInv ==
  ASSUME SemaInv, NEW g \in G, ReleaseWake(g) PROVE SemaInv'
<1> DEFINE a == scall[g].addr
           s == sdeq[g]
<1> USE DEF SemaInv
<1>1. /\ spc[g] = "wake" /\ UNCHANGED <<rootLock, nwait, waitq>>
      /\ a \in Addr /\ s \in G /\ s # NoG /\ spc[s] = "parked" /\ s # g
  BY DEF ReleaseWake, CallInv, PairInv, SemaTypeOK
<1>2. /\ spc'[g] = "idle" /\ spc'[s] = "ready"
      /\ \A h \in G \ {g, s} : spc'[h] = spc[h]
      /\ \A h \in G \ {g} : scall'[h] = scall[h] /\ sdeq'[h] = sdeq[h]
      /\ sdeq'[g] = NoG
      /\ \A h \in G \ {s} : ticket'[h] = ticket[h]
  BY <1>1 DEF ReleaseWake, SemaTypeOK
<1>3. SemaTypeOK'
  <2>1. sem' \in [Addr -> Nat]
    BY <1>1, TakePermitTypes DEF ReleaseWake, SemaTypeOK
  <2>2. ticket' \in [G -> BOOLEAN]
    BY <1>1 DEF ReleaseWake, SemaTypeOK
  <2>3. spc' \in [G -> {"idle"} \cup AcquirePC \cup ReleasePC]
    BY <1>1 DEF ReleaseWake, SemaTypeOK, AcquirePC
  <2>4. scall' \in [G -> [addr : Addr \cup {NoAddr}, flag : BOOLEAN]]
    BY DEF ReleaseWake, SemaTypeOK, NoCall
  <2>5. sdeq' \in [G -> G \cup {NoG}]
    BY DEF ReleaseWake, SemaTypeOK
  <2> QED
    BY <1>1, <2>1, <2>2, <2>3, <2>4, <2>5 DEF SemaTypeOK
<1>4. CallInv'
  BY <1>1, <1>2 DEF CallInv
<1>5. \A b \in Addr : \A i \in DOMAIN waitq[b] : waitq[b][i] \in G \ {g, s}
  BY <1>1, QueueElements DEF PairInv
<1>6. PairInv'
  <2>1. AllQueued' = AllQueued
    BY <1>1 DEF AllQueued, Queued
  <2>2. \A h \in G : sdeq'[h] # NoG => sdeq[h] = sdeq'[h] /\ sdeq[h] \in G \ {g, s}
    BY <1>1, <1>2 DEF PairInv, SemaTypeOK
  <2>3. (\A h \in G : spc[h] = "parked" => h \in AllQueued \cup Dequeued)'
    <3>1. ASSUME NEW h \in G, spc'[h] = "parked"
          PROVE  h \in AllQueued \/ \E k \in G : sdeq'[k] = h
      <4>1. h \notin {g, s} /\ spc[h] = "parked"
        BY <1>2, <3>1
      <4>2. h \in AllQueued \/ \E k \in G \ {g} : sdeq[k] = h
        BY <4>1 DEF PairInv, Dequeued
      <4> QED
        BY <1>2, <4>2
    <3> QED
      BY <2>1, <3>1, SemaAssumption DEF Dequeued
  <2>4. (\A h \in G : sdeq[h] # NoG =>
             spc[sdeq[h]] = "parked" /\ scall[sdeq[h]].addr = scall[h].addr)'
    BY <1>2, <2>2 DEF PairInv
  <2>5. (\A h \in G, b \in Addr : \A i \in DOMAIN waitq[b] : waitq[b][i] # sdeq[h])'
    BY <1>1, <1>2, <1>5, SemaAssumption DEF PairInv
  <2>6. (\A h, k \in G : sdeq[h] = sdeq[k] /\ sdeq[h] # NoG => h = k)'
    BY <1>2, <2>2 DEF PairInv
  <2>7. (\A b \in Addr : \A i \in DOMAIN waitq[b] :
           spc[waitq[b][i]] = "parked" /\ scall[waitq[b][i]].addr = b)'
    BY <1>1, <1>2, <1>5 DEF PairInv
  <2>8. (\A b \in Addr : \A i, j \in DOMAIN waitq[b] :
           waitq[b][i] = waitq[b][j] => i = j)'
    BY <1>1 DEF PairInv
  <2> QED
    BY <2>3, <2>4, <2>5, <2>6, <2>7, <2>8 DEF PairInv
<1>7. NwaitExact'
  <2>1. Waiting' = Waiting
    BY <1>1, <1>2 DEF Waiting, AllQueued, Queued
  <2> QED
    BY <1>1, <2>1 DEF NwaitExact
<1> QED
  BY <1>3, <1>4, <1>6, <1>7

-----------------------------------------------------------------------------
(* Every step of semacquire1 and semrelease1 preserves the invariant.      *)
LEMMA SemaStepInv ==
  ASSUME SemaInv, NEW g \in G, SemaStep(g) PROVE SemaInv'
  BY AcquireFastInv, AcquireLockInv, AcquireRecheckInv, AcquireWokenInv,
     ReleaseXaddInv, ReleaseCheckInv, ReleaseDequeueInv, ReleaseWakeInv
  DEF SemaStep

(* A step that leaves the semaphores alone preserves it as well.           *)
LEMMA SemaUnchangedInv ==
  ASSUME SemaInv, UNCHANGED semaVars PROVE SemaInv'
  BY DEF semaVars, SemaInv, SemaTypeOK, CallInv, PairInv, NwaitExact, Waiting,
         AllQueued, Dequeued, Queued

-----------------------------------------------------------------------------
(* The inductive invariant of the semaphores holds whatever the goroutines *)
(* call.                                                                   *)
THEOREM SemaInvariant == SemaSafety => []SemaInv
<1>1. SemaInit => SemaInv
  BY SemaInitInv
<1>2. SemaInv /\ [SemaNext]_semaVars => SemaInv'
  <2> SUFFICES ASSUME SemaInv, [SemaNext]_semaVars PROVE SemaInv'
    OBVIOUS
  <2>1. ASSUME NEW g \in G, SemaCall(g) PROVE SemaInv'
    <3>1. PICK a \in Addr, flag \in BOOLEAN :
            SemacquireCall(g, a, flag) \/ SemreleaseCall(g, a, flag)
      BY <2>1 DEF SemaCall
    <3> QED
      BY <3>1, EnterInv DEF SemacquireCall, SemreleaseCall
  <2>2. ASSUME NEW g \in G, SemaStep(g) PROVE SemaInv'
    BY <2>2, SemaStepInv
  <2>3. CASE UNCHANGED semaVars
    BY <2>3, SemaUnchangedInv
  <2> QED
    BY <2>1, <2>2, <2>3 DEF SemaNext
<1> QED
  BY <1>1, <1>2, PTL DEF SemaSafety

(* The type invariant of semacquire1 and semrelease1: among others,        *)
(* root.nwait never falls below zero.                                      *)
THEOREM SemaTypeCorrect == SemaSafety => []SemaTypeOK
  BY SemaInvariant, PTL DEF SemaInv

(* Every parked goroutine is on the list of its address or in the hands of *)
(* one releaser, whatever the goroutines call.                             *)
THEOREM SemaSleepersPaired == SemaSafety => []SleepersPaired
  BY SemaInvariant, PairInvImpliesPaired, PTL

(* root.nwait counts exactly the goroutines that a releaser must not skip. *)
THEOREM SemaNwaitExact == SemaSafety => []NwaitExact
  BY SemaInvariant, PTL DEF SemaInv

(* Lists, releasers' hands and the count agree in every state.             *)
THEOREM SemaQueuesExact == SemaSafety => []QueuesExact
  BY SemaSleepersPaired, SemaNwaitExact, PTL DEF QueuesExact

-----------------------------------------------------------------------------
(* What a step does to the abstract waiters, given what it does to the     *)
(* three variables they are defined from.                                  *)
WantOf(g) == IF spc[g] \in AcquirePC /\ ~ticket[g] THEN scall[g].addr ELSE NoAddr

(* The refinement mapping, element by element.                             *)
LEMMA WantsOf ==
  /\ Wants = [g \in G |-> WantOf(g)]
  /\ Wants' = [g \in G |-> WantOf(g)']
  BY DEF Wants, WantOf

(* A step after which everybody wants what they wanted leaves the mapping  *)
(* alone.                                                                  *)
LEMMA WantsUnchanged ==
  ASSUME \A h \in G : WantOf(h)' = WantOf(h) PROVE Wants' = Wants
  BY WantsOf

(* A step that satisfies or withdraws one want is an EXCEPT of the         *)
(* mapping.                                                                *)
LEMMA WantsGiven ==
  ASSUME NEW g \in G, WantOf(g)' = NoAddr,
         \A h \in G \ {g} : WantOf(h)' = WantOf(h)
  PROVE  Wants' = [Wants EXCEPT ![g] = NoAddr]
  BY WantsOf

(* A step that takes a permit and ends a want is a Take of the abstract    *)
(* semaphore.                                                              *)
LEMMA TakesStep ==
  ASSUME NEW g \in G, NEW a \in Addr, WantOf(g) = a, WantOf(g)' = NoAddr,
         \A h \in G \ {g} : WantOf(h)' = WantOf(h),
         CanSemacquire(a), TakePermit(a)
  PROVE  Permits!Next
<1>1. Permits!Take(g, a)
  BY WantsOf, WantsGiven DEF Permits!Take, CanSemacquire, TakePermit
<1> QED
  BY <1>1 DEF Permits!Next, Permits!TakeSome

(* A step that changes no word and no want is invisible to the abstract    *)
(* semaphore.                                                              *)
LEMMA StuttersStep ==
  ASSUME UNCHANGED sem, \A h \in G : WantOf(h)' = WantOf(h)
  PROVE  UNCHANGED Permits!vars
  BY WantsUnchanged DEF Permits!vars

(* A step of semacquire1 or semrelease1 gives a permit, takes one for a    *)
(* goroutine that wants it, or is invisible.                               *)
LEMMA StepRefines ==
  ASSUME SemaInv, NEW g \in G, SemaStep(g)
  PROVE  [Permits!Next]_(Permits!vars)
<1> DEFINE a == scall[g].addr
<1> USE DEF SemaInv, SemaTypeOK
<1>0. /\ spc[g] # "idle" => a \in Addr
      /\ \A h \in G : ticket[h] => spc[h] = "ready"
      /\ spc[g] = "wake" => /\ sdeq[g] \in G \ {g} /\ spc[sdeq[g]] = "parked"
                            /\ sdeq[g] # NoG /\ scall[sdeq[g]].addr = a
  BY DEF CallInv, PairInv
<1>1. CASE AcquireFast(g)
  <2>1. CASE CanSemacquire(a) /\ TakePermit(a) /\ Return(g)
    BY <1>0, <1>1, <2>1, TakesStep DEF AcquireFast, Return, WantOf, AcquirePC
  <2>2. CASE Goto(g, "lockroot") /\ UNCHANGED sem
    BY <1>0, <1>1, <2>2, StuttersStep DEF AcquireFast, Goto, WantOf, AcquirePC
  <2> QED
    BY <1>1, <2>1, <2>2 DEF AcquireFast
<1>2. CASE AcquireLock(g)
  BY <1>2, StuttersStep DEF AcquireLock, Goto, WantOf, AcquirePC
<1>3. CASE AcquireRecheck(g)
  <2>1. CASE CanSemacquire(a) /\ TakePermit(a) /\ Return(g)
    BY <1>0, <1>3, <2>1, TakesStep DEF AcquireRecheck, Return, WantOf, AcquirePC
  <2>2. CASE Goto(g, "parked") /\ UNCHANGED sem
    BY <1>0, <1>3, <2>2, StuttersStep DEF AcquireRecheck, Goto, WantOf, AcquirePC
  <2> QED
    BY <1>3, <2>1, <2>2 DEF AcquireRecheck
<1>4. CASE AcquireWoken(g)
  <2>1. CASE ticket[g] /\ ticket' = [ticket EXCEPT ![g] = FALSE] /\ Return(g) /\ UNCHANGED sem
    BY <1>0, <1>4, <2>1, StuttersStep DEF AcquireWoken, Return, WantOf, AcquirePC
  <2>2. CASE ~ticket[g] /\ CanSemacquire(a) /\ TakePermit(a) /\ Return(g) /\ UNCHANGED ticket
    BY <1>0, <1>4, <2>2, TakesStep DEF AcquireWoken, Return, WantOf, AcquirePC
  <2>3. CASE Goto(g, "lockroot") /\ UNCHANGED <<sem, ticket>>
    BY <1>0, <1>4, <2>3, StuttersStep DEF AcquireWoken, Goto, WantOf, AcquirePC
  <2> QED
    BY <1>4, <2>1, <2>2, <2>3 DEF AcquireWoken
<1>5. CASE ReleaseXadd(g)
  <2>1. \A h \in G : WantOf(h)' = WantOf(h)
    BY <1>5 DEF ReleaseXadd, Goto, WantOf, AcquirePC
  <2>2. Permits!Give(a)
    BY <1>5, <2>1, WantsUnchanged DEF ReleaseXadd, Permits!Give
  <2> QED
    BY <1>0, <1>5, <2>2 DEF ReleaseXadd, Permits!Next
<1>6. CASE ReleaseCheck(g)
  <2>1. \A h \in G : WantOf(h)' = WantOf(h)
    BY <1>6 DEF ReleaseCheck, Goto, Return, WantOf, AcquirePC
  <2> QED
    BY <1>6, <2>1, StuttersStep DEF ReleaseCheck
<1>7. CASE ReleaseDequeue(g)
  <2>1. \A h \in G : WantOf(h)' = WantOf(h)
    BY <1>7 DEF ReleaseDequeue, Dequeue, Goto, Return, WantOf, AcquirePC
  <2> QED
    BY <1>7, <2>1, StuttersStep DEF ReleaseDequeue, Dequeue
<1>8. CASE ReleaseWake(g)
  <2>1. PICK s \in G :
          /\ s = sdeq[g] /\ s # g /\ spc[s] = "parked"
          /\ scall[s].addr = a /\ a \in Addr /\ ticket[s] = FALSE
    BY <1>0, <1>8 DEF ReleaseWake
  <2>2. /\ spc[g] = "wake" /\ spc'[g] = "idle" /\ spc'[s] = "ready"
        /\ \A h \in G \ {g, s} : spc'[h] = spc[h] /\ scall'[h] = scall[h]
        /\ scall'[s] = scall[s]
        /\ \A h \in G \ {s} : ticket'[h] = ticket[h]
    BY <1>8, <2>1 DEF ReleaseWake
  <2>3. \A h \in G \ {s} : WantOf(h)' = WantOf(h)
    BY <2>1, <2>2 DEF WantOf, AcquirePC
  <2>4. WantOf(s) = a
    BY <2>1 DEF WantOf, AcquirePC
  <2>5. CASE CanSemacquire(a) /\ TakePermit(a) /\ ticket' = [ticket EXCEPT ![s] = TRUE]
    <3>1. WantOf(s)' = NoAddr
      BY <2>1, <2>5 DEF WantOf
    <3> QED
      BY <2>1, <2>3, <2>4, <2>5, <3>1, TakesStep
  <2>6. CASE UNCHANGED <<sem, ticket>>
    <3>1. WantOf(s)' = WantOf(s)
      BY <2>1, <2>2, <2>6 DEF WantOf, AcquirePC
    <3> QED
      BY <2>1, <2>3, <2>6, <3>1, StuttersStep
  <2> QED
    BY <1>8, <2>1, <2>5, <2>6 DEF ReleaseWake
<1> QED
  BY <1>1, <1>2, <1>3, <1>4, <1>5, <1>6, <1>7, <1>8 DEF SemaStep

(* semacquire1 and semrelease1 implement counting semaphores: a permit is  *)
(* given only by a release and taken only by, or in the name of, a         *)
(* goroutine that waits for it.                                            *)
THEOREM SemaImplementsSemaphore == SemaSafety => ConservesPermits
<1>1. SemaInit => Permits!Init
  BY DEF SemaInit, Wants, AcquirePC, Permits!Init
<1>2. SemaInv /\ [SemaNext]_semaVars => [Permits!Next]_(Permits!vars)
  <2> SUFFICES ASSUME SemaInv, [SemaNext]_semaVars
               PROVE  [Permits!Next]_(Permits!vars)
    OBVIOUS
  <2>1. ASSUME NEW g \in G, SemaCall(g) PROVE [Permits!Next]_(Permits!vars)
    <3>1. PICK a \in Addr, flag \in BOOLEAN :
            SemacquireCall(g, a, flag) \/ SemreleaseCall(g, a, flag)
      BY <2>1 DEF SemaCall
    <3>2. ticket[g] = FALSE
      BY <3>1 DEF SemacquireCall, SemreleaseCall, Enter, SemaInv, CallInv, SemaTypeOK
    <3>3. CASE SemacquireCall(g, a, flag)
      <4>1. /\ WantOf(g) = NoAddr /\ WantOf(g)' = a
            /\ \A h \in G \ {g} : WantOf(h)' = WantOf(h)
        BY <3>2, <3>3
        DEF SemacquireCall, Enter, WantOf, AcquirePC, SemaInv, SemaTypeOK
      <4>2. Permits!Want(g, a)
        BY <3>3, <4>1, WantsOf DEF Permits!Want, SemacquireCall, Enter
      <4> QED
        BY <4>2 DEF Permits!Next
    <3>4. CASE SemreleaseCall(g, a, flag)
      <4>1. \A h \in G : WantOf(h)' = WantOf(h)
        BY <3>4 DEF SemreleaseCall, Enter, WantOf, AcquirePC, SemaInv, SemaTypeOK
      <4> QED
        BY <3>4, <4>1, StuttersStep DEF SemreleaseCall, Enter
    <3> QED
      BY <3>1, <3>3, <3>4
  <2>2. ASSUME NEW g \in G, SemaStep(g) PROVE [Permits!Next]_(Permits!vars)
    BY <2>2, StepRefines
  <2>3. CASE UNCHANGED semaVars
    BY <2>3 DEF semaVars, Permits!vars, Wants
  <2> QED
    BY <2>1, <2>2, <2>3 DEF SemaNext
<1> QED
  BY <1>1, <1>2, SemaInvariant, PTL
  DEF SemaSafety, ConservesPermits, Permits!Safety

-----------------------------------------------------------------------------
(* NoLostWakeup, address by address: it is inductive under SemaInv.        *)
Wakes(g, a) ==
  /\ scall[g].addr = a
  /\ \/ spc[g] \in {"check", "dequeue", "wake"}
     \/ spc[g] = "ready" /\ ~ticket[g]

Served(a) == waitq[a] # <<>> => sem[a] <= Cardinality(Wakers(a))

LEMMA WakersFinite ==
  ASSUME NEW a
  PROVE  IsFiniteSet(Wakers(a)) /\ Cardinality(Wakers(a)) \in Nat
         /\ IsFiniteSet(Wakers(a)') /\ Cardinality(Wakers(a)') \in Nat
<1>1. Wakers(a) \subseteq G /\ Wakers(a)' \subseteq G
  BY DEF Wakers
<1> QED
  BY <1>1, SemaAssumption, FS_Subset, FS_CardinalityType

(* If only g comes or goes, an address stays served when it gains no more  *)
(* permits than wakers.                                                    *)
LEMMA ServedMove ==
  ASSUME NEW a \in Addr, NEW g \in G, Served(a),
         sem[a] \in Nat, sem'[a] \in Nat,
         \A h \in G \ {g} : Wakes(h, a)' <=> Wakes(h, a),
         waitq[a] = <<>> => waitq'[a] = <<>>,
         \/ sem'[a] = sem[a] /\ (Wakes(g, a) => Wakes(g, a)')
         \/ sem'[a] = sem[a] - 1
         \/ sem'[a] = sem[a] + 1 /\ ~Wakes(g, a) /\ Wakes(g, a)'
  PROVE  Served(a)'
<1>1. Wakers(a) \ {g} = Wakers(a)' \ {g}
  BY DEF Wakers, Wakes
<1>2. /\ g \in Wakers(a) <=> Wakes(g, a)
      /\ g \in Wakers(a)' <=> Wakes(g, a)'
  BY DEF Wakers, Wakes
<1>3. Cardinality(Wakers(a)') =
        Cardinality(Wakers(a)) + One(Wakes(g, a)') - One(Wakes(g, a))
  BY <1>1, <1>2, WakersFinite, SetMove DEF One
<1> QED
  BY <1>3, WakersFinite DEF Served, One

(* The other goroutines keep their part when g goes on or returns.         *)
LEMMA OthersWake ==
  ASSUME SemaTypeOK, NEW g \in G, NEW at, Goto(g, at) \/ Return(g),
         \A h \in G \ {g} : ticket'[h] = ticket[h]
  PROVE  /\ \A h \in G \ {g}, a \in Addr : Wakes(h, a)' <=> Wakes(h, a)
         /\ Goto(g, at) => spc'[g] = at /\ scall'[g] = scall[g]
  BY DEF Goto, Return, Wakes, SemaTypeOK

(* Without permits, or without sleepers, nothing is owed.                  *)
LEMMA ServedIdle ==
  ASSUME NEW a \in Addr, sem'[a] = 0 \/ waitq'[a] = <<>>
  PROVE  Served(a)'
  BY WakersFinite DEF Served

(* A step of a call on one address does not concern the others.            *)
LEMMA ServedOther ==
  ASSUME SemaTypeOK, NEW b \in Addr, Served(b),
         sem'[b] = sem[b], waitq'[b] = waitq[b],
         \A h \in G : Wakes(h, b)' <=> Wakes(h, b)
  PROVE  Served(b)'
<1>1. Wakers(b)' = Wakers(b)
  BY DEF Wakers, Wakes
<1> QED
  BY <1>1 DEF Served

LEMMA WakeServes ==
  ASSUME SemaInv, SemaInv', NEW g \in G, ReleaseWake(g),
         NEW a \in Addr, a = scall[g].addr, Served(a)
  PROVE  Served(a)'
<1>1. PICK s \in G :
      /\ s = sdeq[g] /\ s # g
      /\ spc[g] = "wake" /\ spc[s] = "parked" /\ scall[s].addr = a /\ ~ticket[s]
  BY DEF ReleaseWake, SemaInv, SemaTypeOK, CallInv, PairInv
<1> DEFINE R == Wakers(a) \ {g}
<1>2. /\ spc'[g] = "idle" /\ scall'[g].addr # a /\ spc'[s] = "ready" /\ scall'[s] = scall[s]
      /\ \A h \in G \ {g, s} : spc'[h] = spc[h] /\ scall'[h] = scall[h]
      /\ \A h \in G \ {s} : ticket'[h] = ticket[h]
      /\ UNCHANGED waitq
  BY <1>1, SemaAssumption DEF ReleaseWake, NoCall, SemaInv, SemaTypeOK
<1>3. sem[a] \in Nat /\ sem'[a] \in Nat
  BY <1>1 DEF SemaInv, SemaTypeOK
<1>4. IsFiniteSet(R) /\ Cardinality(R) = Cardinality(Wakers(a)) - 1
      /\ Cardinality(R) \in Nat
  <2>1. g \in Wakers(a)
    BY <1>1 DEF Wakers
  <2> QED
    BY <2>1, WakersFinite, FS_RemoveElement, FS_CardinalityType
<1>5. R = Wakers(a)' \ {s}
  BY <1>1, <1>2 DEF Wakers
<1>6. s \notin R
  BY <1>1 DEF Wakers
<1>7. CASE sem'[a] = sem[a] - 1
  <2>1. R \subseteq Wakers(a)'
    BY <1>5
  <2>2. Cardinality(R) <= Cardinality(Wakers(a)')
    BY <2>1, WakersFinite, FS_Subset
  <2> QED
    BY <1>2, <1>3, <1>4, <1>7, <2>2, WakersFinite DEF Served
<1>8. CASE UNCHANGED <<sem, ticket>>
  <2>1. s \in Wakers(a)'
    BY <1>1, <1>2, <1>8 DEF Wakers
  <2>2. Wakers(a)' = R \cup {s}
    BY <1>5, <2>1
  <2>3. Cardinality(Wakers(a)') = Cardinality(R) + 1
    BY <1>4, <1>6, <2>2, FS_AddElement
  <2> QED
    BY <1>2, <1>3, <1>4, <1>8, <2>3, WakersFinite DEF Served
<1>9. sem'[a] = sem[a] - 1 \/ UNCHANGED <<sem, ticket>>
  BY <1>1 DEF ReleaseWake, TakePermit, SemaInv, SemaTypeOK
<1> QED
  BY <1>7, <1>8, <1>9

(* A goroutine that sleeps is counted.                                     *)
LEMMA QueuedCounts ==
  ASSUME SemaInv, NEW a \in Addr, waitq[a] # <<>>
  PROVE  nwait # 0
<1>1. waitq[a] \in Seq(G)
  BY DEF SemaInv, SemaTypeOK
<1>2. 1 \in DOMAIN waitq[a]
  BY <1>1, TailIndices
<1>3. waitq[a][1] \in Waiting
  BY <1>2 DEF Waiting, AllQueued, Queued
<1> QED
  BY <1>3, WaitingFinite DEF SemaInv, NwaitExact

(* The address of the call itself, step by step.                           *)
LEMMA StepServes ==
  ASSUME SemaInv, SemaInv', NEW g \in G, SemaStep(g),
         NEW a \in Addr, a = scall[g].addr, Served(a)
  PROVE  Served(a)'
<1>1. a \in Addr /\ a = scall[g].addr /\ a # NoAddr
  BY SemaAssumption
<1>2. sem[a] \in Nat /\ sem'[a] \in Nat
  BY DEF SemaInv, SemaTypeOK
<1>3. ASSUME ticket' = [ticket EXCEPT ![g] = FALSE] \/ UNCHANGED ticket, UNCHANGED waitq,
             Return(g), TakePermit(a)
      PROVE  Served(a)'
  <2>1. \A h \in G \ {g} : Wakes(h, a)' <=> Wakes(h, a)
    BY <1>3, OthersWake DEF SemaInv, SemaTypeOK
  <2>2. sem'[a] = sem[a] - 1
    BY <1>1, <1>3 DEF TakePermit, SemaInv, SemaTypeOK
  <2> QED
    BY <1>2, <1>3, <2>1, <2>2, ServedMove
<1>4. ASSUME NEW at, Goto(g, at), UNCHANGED ticket, sem'[a] = sem[a],
             waitq[a] = <<>> => waitq'[a] = <<>>,
             Wakes(g, a) => at \in {"dequeue", "wake"}
      PROVE  Served(a)'
  <2>1. \A h \in G \ {g} : Wakes(h, a)' <=> Wakes(h, a)
    BY <1>4, OthersWake DEF SemaInv
  <2>2. Wakes(g, a) => Wakes(g, a)'
    BY <1>1, <1>4, OthersWake DEF Wakes, SemaInv
  <2> QED
    BY <1>2, <1>4, <2>1, <2>2, ServedMove
<1>5. CASE AcquireFast(g)
  <2>1. CASE TakePermit(a) /\ Return(g)
    BY <1>3, <1>5, <2>1 DEF AcquireFast
  <2>2. CASE Goto(g, "lockroot") /\ UNCHANGED sem
    BY <1>4, <1>5, <2>2 DEF AcquireFast, Wakes
  <2> QED
    BY <1>1, <1>5, <2>1, <2>2 DEF AcquireFast
<1>6. CASE AcquireLock(g)
  BY <1>4, <1>6 DEF AcquireLock, Wakes
<1>7. CASE AcquireRecheck(g)
  <2>1. CASE CanSemacquire(a)
    BY <1>1, <1>3, <1>7, <2>1 DEF AcquireRecheck
  <2>2. CASE ~CanSemacquire(a)
    BY <1>1, <1>2, <1>7, <2>2, ServedIdle DEF AcquireRecheck, CanSemacquire
  <2> QED
    BY <2>1, <2>2
<1>8. CASE AcquireWoken(g)
  <2>1. CASE ticket[g]
    <3>1. /\ ticket' = [ticket EXCEPT ![g] = FALSE] /\ Return(g)
          /\ UNCHANGED <<sem, waitq>>
      BY <1>8, <2>1 DEF AcquireWoken
    <3>2. \A h \in G \ {g} : Wakes(h, a)' <=> Wakes(h, a)
      BY <3>1, OthersWake DEF SemaInv, SemaTypeOK
    <3>3. ~Wakes(g, a)
      BY <1>8, <2>1 DEF AcquireWoken, Wakes
    <3> QED
      BY <1>2, <3>1, <3>2, <3>3, ServedMove
  <2>2. CASE ~ticket[g] /\ CanSemacquire(a)
    BY <1>1, <1>3, <1>8, <2>2 DEF AcquireWoken
  <2>3. CASE ~ticket[g] /\ ~CanSemacquire(a)
    BY <1>1, <1>2, <1>8, <2>3, ServedIdle DEF AcquireWoken, CanSemacquire
  <2> QED
    BY <2>1, <2>2, <2>3
<1>9. CASE ReleaseXadd(g)
  <2>1. /\ Goto(g, "check") /\ UNCHANGED <<ticket, waitq>>
        /\ sem'[a] = sem[a] + 1 /\ ~Wakes(g, a)
    BY <1>1, <1>9 DEF ReleaseXadd, Wakes, SemaInv, SemaTypeOK
  <2>2. /\ \A h \in G \ {g} : Wakes(h, a)' <=> Wakes(h, a)
        /\ Wakes(g, a)'
    BY <1>1, <2>1, OthersWake DEF Wakes, SemaInv
  <2> QED
    BY <1>2, <2>1, <2>2, ServedMove
<1>10. CASE ReleaseCheck(g)
  <2>1. CASE nwait = 0
    BY <1>10, <2>1, QueuedCounts, ServedIdle DEF ReleaseCheck
  <2>2. CASE nwait # 0
    BY <1>4, <1>10, <2>2 DEF ReleaseCheck
  <2> QED
    BY <2>1, <2>2
<1>11. CASE ReleaseDequeue(g)
  <2>1. CASE waitq[a] = <<>>
    BY <1>1, <1>11, <2>1, ServedIdle DEF ReleaseDequeue, Dequeue
  <2>2. CASE waitq[a] # <<>>
    <3>1. Goto(g, "wake") /\ UNCHANGED <<sem, ticket>>
      BY <1>1, <1>11, <2>2, QueuedCounts DEF ReleaseDequeue, Dequeue
    <3> QED
      BY <1>4, <2>2, <3>1
  <2> QED
    BY <2>1, <2>2
<1>12. CASE ReleaseWake(g)
  BY <1>12, WakeServes
<1> QED
  BY <1>5, <1>6, <1>7, <1>8, <1>9, <1>10, <1>11, <1>12 DEF SemaStep

(* No permit lies beside a goroutine asleep on its address unless a        *)
(* releaser, or a goroutine already woken, is on its way to look at it.    *)
THEOREM SemaLosesNoWakeup == SemaSafety => []NoLostWakeup
<1>1. SemaInit => NoLostWakeup
  BY DEF SemaInit, NoLostWakeup
<1>2. SemaInv /\ SemaInv' /\ NoLostWakeup /\ [SemaNext]_semaVars => NoLostWakeup'
  <2> SUFFICES ASSUME SemaInv, SemaInv', NoLostWakeup, [SemaNext]_semaVars, NEW b \in Addr
               PROVE  Served(b)'
    BY DEF NoLostWakeup, Served
  <2>1. Served(b)
    BY DEF NoLostWakeup, Served
  <2>2. ASSUME NEW g \in G, SemaCall(g) PROVE Served(b)'
    <3>1. PICK at \in {"acquire", "xadd"}, a \in Addr, flag \in BOOLEAN : Enter(g, at, a, flag)
      BY <2>2 DEF SemaCall, SemacquireCall, SemreleaseCall
    <3> QED
      BY <2>1, <3>1, ServedOther DEF Enter, Wakes, SemaInv, SemaTypeOK
  <2>3. ASSUME NEW g \in G, SemaStep(g) PROVE Served(b)'
    <3>1. CASE scall[g].addr = b
      BY <2>1, <2>3, <3>1, StepServes
    <3>2. CASE scall[g].addr # b
      <4>1. sem'[b] = sem[b] /\ waitq'[b] = waitq[b]
        BY <2>3, <3>2
        DEF SemaStep, AcquireFast, AcquireLock, AcquireRecheck, AcquireWoken,
            ReleaseXadd, ReleaseCheck, ReleaseDequeue, Dequeue, ReleaseWake, TakePermit,
            SemaInv, SemaTypeOK
      <4>2. \A h \in G : Wakes(h, b)' <=> Wakes(h, b)
        <5>1. CASE ReleaseWake(g)
          BY <3>2, <5>1, SemaAssumption
          DEF ReleaseWake, NoCall, Wakes, SemaInv, SemaTypeOK, CallInv, PairInv
        <5>2. CASE ~ReleaseWake(g)
          BY <2>3, <3>2, <5>2, SemaAssumption
          DEF SemaStep, AcquireFast, AcquireLock, AcquireRecheck, AcquireWoken,
              ReleaseXadd, ReleaseCheck, ReleaseDequeue, Dequeue, Return, Goto, NoCall, Wakes,
              SemaInv, SemaTypeOK
        <5> QED
          BY <5>1, <5>2
      <4> QED
        BY <2>1, <4>1, <4>2, ServedOther DEF SemaInv
    <3> QED
      BY <3>1, <3>2
  <2>4. CASE UNCHANGED semaVars
    BY <2>1, <2>4, ServedOther DEF semaVars, Wakes, SemaInv
  <2> QED
    BY <2>2, <2>3, <2>4 DEF SemaNext
<1> QED
  BY <1>1, <1>2, SemaInvariant, PTL DEF SemaSafety

-----------------------------------------------------------------------------
(* Mutexes.                                                                *)

(* A goroutine calls the semaphore of this mutex only: from Lock, to sleep, *)
(* or on its way out of Unlock.                                             *)
CallsMatch ==
  \A g \in G :
    /\ spc[g] # "idle" => scall[g].addr = MutexSema
    /\ spc[g] \in AcquirePC => pc[g] = "woken"
    /\ spc[g] \in ReleasePC => pc[g] = "out"

(* lockSlow's locals are set only inside lockSlow, and a starving goroutine *)
(* that competes for the lock is an awoken one.                             *)
LocalsMatch ==
  \A g \in G :
    /\ awoke[g] \/ starving[g] => pc[g] \in {"loop", "woken", "take", "takeexit"}
    /\ pc[g] = "loop" /\ starving[g] => awoke[g]

(* What the carrier of the wakeup may rely on.                             *)
CarrierModes ==
  \A g \in G :
    /\ pc[g] = "loop" /\ awoke[g] => mutexWoken
    /\ pc[g] \in {"take", "takeexit"} => mutexStarving /\ ~mutexLocked
    /\ pc[g] = "take" => waiters > 1

MutexInv ==
  /\ TypeOK
  /\ SemaInv
  /\ CallsMatch
  /\ LocalsMatch
  /\ CarrierModes
  /\ MutualExclusion
  /\ SingleWakeup
  /\ StarvingHasWaiters

(* The throws of lockSlow need a word that contradicts the wakeup          *)
(* invariants.                                                             *)
LEMMA InvImpliesConsistent == MutexInv => NoInconsistentState
  BY DEF MutexInv, CarrierModes, SingleWakeup, StarvingHasWaiters,
         NoInconsistentState, Inconsistent, At, Carries, TypeOK

(* The zero Mutex satisfies the invariant.                                 *)
LEMMA MutexInitInv == Init => MutexInv
<1> SUFFICES ASSUME Init PROVE MutexInv
  OBVIOUS
<1>1. TypeOK /\ SemaInv
  BY SemaInitInv DEF Init, TypeOK, SemaInv, MutexPC
<1>2. CallsMatch /\ LocalsMatch /\ CarrierModes
  BY DEF Init, SemaInit, CallsMatch, LocalsMatch, CarrierModes, AcquirePC, ReleasePC
<1>3. MutualExclusion /\ SingleWakeup /\ StarvingHasWaiters
  BY MutexAssumption
  DEF Init, SemaInit, MutualExclusion, SingleWakeup, Carries, StarvingHasWaiters
<1> QED
  BY <1>1, <1>2, <1>3 DEF MutexInv

-----------------------------------------------------------------------------
(* Lock and TryLock preserve the invariant: they set the locked bit only   *)
(* where nobody holds the lock and no wakeup owns it.                      *)
LEMMA LockInv ==
  ASSUME MutexInv, NEW g \in G, Lock(g) \/ TryLock(g) PROVE MutexInv'
<1> USE DEF MutexInv
<1>1. /\ spc[g] = "idle" /\ pc[g] = "out" /\ ~awoke[g] /\ ~starving[g]
      /\ pc'[g] \in {"held", "loop"} /\ \A h \in G \ {g} : pc'[h] = pc[h]
      /\ pc'[g] = "held" => ~mutexLocked /\ mutexLocked' /\ ~mutexStarving
      /\ pc'[g] = "loop" => UNCHANGED mutexLocked
      /\ UNCHANGED <<semaVars, mutexWoken, mutexStarving, waiters, lockLocals>>
  BY DEF Lock, TryLock, At, To, Free, LocalsMatch, TypeOK
<1>2. TypeOK'
  <2>1. pc' \in [G -> MutexPC] /\ mutexLocked' \in BOOLEAN
    BY DEF Lock, TryLock, To, TypeOK, MutexPC
  <2> QED
    BY <1>1, <2>1, SemaUnchangedInv DEF TypeOK, SemaInv, lockLocals
<1>3. SemaInv'
  BY <1>1, SemaUnchangedInv
<1>4. CallsMatch' /\ LocalsMatch' /\ CarrierModes' /\ StarvingHasWaiters'
  BY <1>1 DEF CallsMatch, LocalsMatch, CarrierModes, StarvingHasWaiters,
              semaVars, lockLocals, AcquirePC, ReleasePC
<1>5. MutualExclusion'
  BY <1>1 DEF MutualExclusion
<1>6. SingleWakeup'
  <2>1. \A h \in G : Carries(h)' <=> Carries(h)
    BY <1>1 DEF Carries, semaVars, lockLocals
  <2> QED
    BY <1>1, <2>1 DEF SingleWakeup, semaVars
<1> QED
  BY <1>2, <1>3, <1>4, <1>5, <1>6

(* A spinner that sets mutexWoken becomes the one carrier of the wakeup.   *)
LEMMA LockSpinInv ==
  ASSUME MutexInv, NEW g \in G, LockSpin(g) PROVE MutexInv'
<1> USE DEF MutexInv
<1>1. /\ spc[g] = "idle" /\ pc[g] = "loop" /\ ~awoke[g] /\ awoke'[g]
      /\ mutexLocked /\ ~mutexStarving /\ ~mutexWoken /\ mutexWoken'
      /\ \A h \in G \ {g} : awoke'[h] = awoke[h]
      /\ UNCHANGED <<semaVars, mutexLocked, mutexStarving, waiters, pc, starving, waited>>
  BY DEF LockSpin, At, TypeOK
<1>2. TypeOK' /\ SemaInv'
  <2>1. awoke' \in [G -> BOOLEAN] /\ mutexWoken' \in BOOLEAN
    BY DEF LockSpin, TypeOK
  <2> QED
    BY <1>1, <2>1, SemaUnchangedInv DEF TypeOK, SemaInv
<1>3. CallsMatch' /\ LocalsMatch' /\ CarrierModes' /\ StarvingHasWaiters' /\ MutualExclusion'
  BY <1>1 DEF CallsMatch, LocalsMatch, CarrierModes, StarvingHasWaiters,
              MutualExclusion, semaVars
<1>4. SingleWakeup'
  <2>1. Carries(g)' /\ \A h \in G \ {g} : Carries(h)' <=> Carries(h)
    BY <1>1 DEF Carries, semaVars
  <2> QED
    BY <1>1, <2>1 DEF SingleWakeup, semaVars, SemaInv, SemaTypeOK
<1> QED
  BY <1>2, <1>3, <1>4

(* The swap that takes the lock clears mutexWoken exactly when the         *)
(* goroutine carried the wakeup.                                           *)
LEMMA LockCASInv ==
  ASSUME MutexInv, NEW g \in G, LockCAS(g) PROVE MutexInv'
<1> USE DEF MutexInv
<1>1. /\ spc[g] = "idle" /\ pc[g] = "loop" /\ pc'[g] = "held"
      /\ ~mutexLocked /\ mutexLocked' /\ ~mutexStarving
      /\ mutexWoken' = (mutexWoken /\ ~awoke[g])
      /\ ~awoke'[g] /\ ~starving'[g]
      /\ \A h \in G \ {g} : pc'[h] = pc[h] /\ awoke'[h] = awoke[h] /\ starving'[h] = starving[h]
      /\ UNCHANGED <<semaVars, mutexStarving, waiters>>
  BY DEF LockCAS, Acquired, At, To, TypeOK
<1>2. TypeOK' /\ SemaInv'
  <2>1. /\ mutexLocked' \in BOOLEAN /\ mutexWoken' \in BOOLEAN
        /\ pc' \in [G -> MutexPC] /\ awoke' \in [G -> BOOLEAN]
        /\ starving' \in [G -> BOOLEAN] /\ waited' \in [G -> BOOLEAN]
    BY DEF LockCAS, Acquired, To, TypeOK, MutexPC
  <2> QED
    BY <1>1, <2>1, SemaUnchangedInv DEF TypeOK, SemaInv
<1>3. \A h \in G : Carries(h) /\ awoke[g] => h = g
  BY <1>1 DEF SingleWakeup, Carries
<1>4. CallsMatch' /\ LocalsMatch' /\ StarvingHasWaiters' /\ MutualExclusion'
  BY <1>1 DEF CallsMatch, LocalsMatch, StarvingHasWaiters, MutualExclusion,
              semaVars, AcquirePC, ReleasePC
<1>5. CarrierModes'
  BY <1>1, <1>3 DEF CarrierModes, Carries
<1>6. SingleWakeup'
  <2>1. ~Carries(g)' /\ \A h \in G \ {g} : Carries(h)' <=> Carries(h)
    BY <1>1 DEF Carries, semaVars, CallsMatch, SemaInv, CallInv, AcquirePC
  <2>2. CASE awoke[g]
    BY <1>1, <1>3, <2>1, <2>2 DEF SingleWakeup, semaVars, Carries
  <2>3. CASE ~awoke[g]
    <3>1. ~Carries(g) /\ mutexWoken' = mutexWoken
      BY <1>1, <2>3 DEF Carries, SemaInv, CallInv, TypeOK
    <3>2. \A h \in G : Carries(h)' <=> Carries(h)
      BY <2>1, <3>1
    <3> QED
      BY <1>1, <3>1, <3>2 DEF SingleWakeup, semaVars
  <2> QED
    BY <2>2, <2>3
<1> QED
  BY <1>2, <1>4, <1>5, <1>6

(* The swap that adds a waiter may set mutexStarving, and then the lock is *)
(* held and the wakeup it carried is gone.                                 *)
LEMMA LockSleepInv ==
  ASSUME MutexInv, NEW g \in G, LockSleep(g) PROVE MutexInv'
<1> USE DEF MutexInv
<1>1. /\ spc[g] = "idle" /\ pc[g] = "loop" /\ pc'[g] = "woken"
      /\ spc'[g] = "acquire" /\ scall'[g].addr = MutexSema
      /\ mutexLocked \/ mutexStarving
      /\ mutexStarving' = (mutexStarving \/ (starving[g] /\ mutexLocked))
      /\ mutexWoken' = (mutexWoken /\ ~awoke[g])
      /\ waiters' = waiters + 1
      /\ \A h \in G \ {g} : pc'[h] = pc[h] /\ spc'[h] = spc[h] /\ scall'[h] = scall[h]
      /\ UNCHANGED <<mutexLocked, awoke, starving, sem, ticket>>
  BY DEF LockSleep, SemacquireCall, Enter, At, To, TypeOK, SemaTypeOK
<1>2. TypeOK' /\ SemaInv'
  <2>1. SemaInv'
    BY MutexAssumption, EnterInv DEF LockSleep, SemacquireCall, TypeOK
  <2>2. /\ waiters' \in Nat /\ mutexStarving' \in BOOLEAN /\ mutexWoken' \in BOOLEAN
        /\ pc' \in [G -> MutexPC] /\ waited' \in [G -> BOOLEAN]
    BY DEF LockSleep, To, TypeOK, MutexPC
  <2> QED
    BY <1>1, <2>1, <2>2 DEF TypeOK, SemaInv
<1>3. ~Carries(g)' /\ \A h \in G \ {g} : Carries(h)' <=> Carries(h)
  BY <1>1 DEF Carries, SemaInv, CallInv
<1>4. ASSUME awoke[g] PROVE SingleWakeup' /\ CarrierModes'
  <2>1. Carries(g) /\ mutexWoken /\ ~mutexStarving /\ mutexLocked /\ ~mutexWoken'
    BY <1>1, <1>4 DEF Carries, CarrierModes, SingleWakeup
  <2>2. \A h \in G : ~Carries(h)'
    BY <1>3, <2>1 DEF SingleWakeup
  <2>3. SingleWakeup'
    BY <1>1, <2>1, <2>2 DEF SingleWakeup
  <2>4. CarrierModes'
    <3>1. \A h \in G : ~(pc'[h] = "loop" /\ awoke'[h])
      BY <2>2 DEF Carries
    <3>2. \A h \in G : pc'[h] \notin {"take", "takeexit"}
      BY <1>1, <2>1 DEF CarrierModes
    <3> QED
      BY <3>1, <3>2 DEF CarrierModes
  <2> QED
    BY <2>3, <2>4
<1>5. ASSUME ~awoke[g] PROVE SingleWakeup' /\ CarrierModes'
  <2>1. ~Carries(g) /\ mutexWoken' = mutexWoken
    BY <1>1, <1>5 DEF Carries, SemaInv, CallInv, TypeOK
  <2>2. UNCHANGED mutexStarving
    BY <1>1, <1>5 DEF LocalsMatch, TypeOK
  <2>3. \A h \in G : Carries(h)' <=> Carries(h)
    BY <1>3, <2>1
  <2>4. SingleWakeup'
    BY <1>1, <2>1, <2>2, <2>3 DEF SingleWakeup
  <2>5. CarrierModes'
    BY <1>1, <1>2, <2>1, <2>2 DEF CarrierModes, TypeOK
  <2> QED
    BY <2>4, <2>5
<1>6. CallsMatch' /\ LocalsMatch' /\ MutualExclusion'
  BY <1>1 DEF CallsMatch, LocalsMatch, MutualExclusion, AcquirePC, ReleasePC
<1>7. StarvingHasWaiters'
  BY <1>1 DEF StarvingHasWaiters, TypeOK
<1> QED
  BY <1>2, <1>4, <1>5, <1>6, <1>7

(* Back from the semaphore a goroutine still carries the wakeup that       *)
(* brought it there.                                                       *)
LEMMA LockWokenInv ==
  ASSUME MutexInv, NEW g \in G, NEW late \in BOOLEAN, LockWoken(g, late)
  PROVE  MutexInv'
<1> USE DEF MutexInv
<1>1. /\ spc[g] = "idle" /\ pc[g] = "woken"
      /\ \A h \in G \ {g} : pc'[h] = pc[h] /\ awoke'[h] = awoke[h] /\ starving'[h] = starving[h]
      /\ UNCHANGED <<semaVars, mutexWord, waited>>
      /\ \/ /\ pc'[g] = "loop" /\ awoke'[g] /\ mutexWoken
         \/ /\ pc'[g] \in {"take", "takeexit"} /\ mutexStarving /\ ~mutexLocked
            /\ waiters # 0 /\ (pc'[g] = "take" => waiters # 1)
  BY DEF LockWoken, Inconsistent, At, To, TypeOK
<1>2. TypeOK' /\ SemaInv'
  <2>1. /\ pc' \in [G -> MutexPC] /\ awoke' \in [G -> BOOLEAN]
        /\ starving' \in [G -> BOOLEAN]
    BY DEF LockWoken, To, TypeOK, MutexPC
  <2> QED
    BY <1>1, <2>1, SemaUnchangedInv DEF TypeOK, SemaInv, mutexWord
<1>3. \A h \in G : Carries(h)' <=> Carries(h)
  BY <1>1 DEF Carries, semaVars
<1>4. SingleWakeup' /\ MutualExclusion' /\ StarvingHasWaiters'
  BY <1>1, <1>3 DEF SingleWakeup, MutualExclusion, StarvingHasWaiters, semaVars, mutexWord
<1>5. CallsMatch' /\ LocalsMatch'
  BY <1>1 DEF CallsMatch, LocalsMatch, semaVars, AcquirePC, ReleasePC
<1>6. CarrierModes'
  BY <1>1 DEF CarrierModes, mutexWord, TypeOK
<1> QED
  BY <1>2, <1>4, <1>5, <1>6

(* The goroutine that was handed the lock ends the wakeup, and leaves      *)
(* starvation mode when it is the last waiter.                             *)
LEMMA LockTakeInv ==
  ASSUME MutexInv, NEW g \in G, LockTake(g) PROVE MutexInv'
<1> USE DEF MutexInv
<1>1. /\ spc[g] = "idle" /\ pc[g] \in {"take", "takeexit"} /\ pc'[g] = "held"
      /\ mutexLocked' /\ waiters' = waiters - 1
      /\ mutexStarving' = (mutexStarving /\ pc[g] = "take")
      /\ ~awoke'[g] /\ ~starving'[g]
      /\ \A h \in G \ {g} : pc'[h] = pc[h] /\ awoke'[h] = awoke[h] /\ starving'[h] = starving[h]
      /\ UNCHANGED <<semaVars, mutexWoken>>
  BY DEF LockTake, Acquired, At, To, TypeOK
<1>2. mutexStarving /\ ~mutexLocked /\ ~mutexWoken /\ waiters > 0
  BY <1>1 DEF CarrierModes, SingleWakeup, StarvingHasWaiters
<1>3. TypeOK' /\ SemaInv'
  <2>1. /\ mutexLocked' \in BOOLEAN /\ mutexStarving' \in BOOLEAN /\ waiters' \in Nat
        /\ pc' \in [G -> MutexPC] /\ awoke' \in [G -> BOOLEAN]
        /\ starving' \in [G -> BOOLEAN] /\ waited' \in [G -> BOOLEAN]
    BY <1>2 DEF LockTake, Acquired, To, TypeOK, MutexPC
  <2> QED
    BY <1>1, <2>1, SemaUnchangedInv DEF TypeOK, SemaInv
<1>4. Carries(g) /\ \A h \in G \ {g} : ~Carries(h)
  BY <1>1 DEF SingleWakeup, Carries
<1>5. \A h \in G : ~Carries(h)'
  BY <1>1, <1>4 DEF Carries, semaVars, SemaInv, CallInv
<1>6. SingleWakeup'
  BY <1>1, <1>2, <1>4, <1>5 DEF SingleWakeup, semaVars
<1>7. CallsMatch' /\ LocalsMatch' /\ MutualExclusion'
  BY <1>1, <1>2 DEF CallsMatch, LocalsMatch, MutualExclusion, semaVars, AcquirePC, ReleasePC
<1>8. CarrierModes'
  <2>1. \A h \in G : pc'[h] \notin {"take", "takeexit"} /\ ~(pc'[h] = "loop" /\ awoke'[h])
    <3>1. \A h \in G : spc'[h] = "idle" \/ pc'[h] \notin {"take", "takeexit"}
      BY <1>1 DEF CallsMatch, semaVars, TypeOK, SemaTypeOK, AcquirePC, ReleasePC
    <3> QED
      BY <1>5, <3>1 DEF Carries
  <2> QED
    BY <2>1 DEF CarrierModes
<1>9. StarvingHasWaiters'
  BY <1>1 DEF CarrierModes, StarvingHasWaiters, TypeOK
<1> QED
  BY <1>3, <1>6, <1>7, <1>8, <1>9

-----------------------------------------------------------------------------
(* Unlock clears the locked bit, and in starvation mode begins the one     *)
(* wakeup.                                                                 *)
LEMMA UnlockInv ==
  ASSUME MutexInv, NEW g \in G, Unlock(g) PROVE MutexInv'
<1> USE DEF MutexInv
<1>1. /\ spc[g] = "idle" /\ pc[g] = "held" /\ pc'[g] \in {"out", "unlockslow"}
      /\ mutexLocked /\ ~mutexLocked'
      /\ \A h \in G \ {g} : pc'[h] = pc[h] /\ spc'[h] = spc[h] /\ scall'[h] = scall[h]
      /\ UNCHANGED <<mutexWoken, mutexStarving, waiters, lockLocals, sem, ticket>>
      /\ \/ /\ mutexStarving /\ spc'[g] = "xadd" /\ scall'[g].addr = MutexSema
            /\ pc'[g] = "out"
         \/ ~mutexStarving /\ UNCHANGED <<spc, scall>>
  BY DEF Unlock, SemreleaseCall, Enter, At, To, TypeOK, SemaTypeOK, semaVars, MutualExclusion
<1>2. TypeOK' /\ SemaInv'
  <2>1. SemaInv'
    BY MutexAssumption, EnterInv, SemaUnchangedInv DEF Unlock, SemreleaseCall
  <2>2. mutexLocked' \in BOOLEAN /\ pc' \in [G -> MutexPC]
    BY DEF Unlock, To, TypeOK, MutexPC
  <2> QED
    BY <1>1, <2>1, <2>2 DEF TypeOK, SemaInv, lockLocals
<1>3. CallsMatch' /\ LocalsMatch' /\ StarvingHasWaiters'
  BY <1>1 DEF CallsMatch, LocalsMatch, StarvingHasWaiters, lockLocals, AcquirePC, ReleasePC
<1>4. CarrierModes'
  BY <1>1 DEF CarrierModes, lockLocals
<1>5. MutualExclusion'
  BY <1>1 DEF MutualExclusion
<1>6. SingleWakeup'
  <2>1. ~Carries(g) /\ \A h \in G \ {g} : Carries(h)' <=> Carries(h)
    BY <1>1 DEF Carries, SemaInv, CallInv, lockLocals
  <2>2. CASE mutexStarving
    <3>1. ~mutexWoken /\ sem[MutexSema] # 1 /\ \A h \in G : ~Carries(h)
      BY <1>1, <2>2 DEF SingleWakeup
    <3>2. Carries(g)' /\ \A h \in G \ {g} : ~Carries(h)'
      BY <1>1, <2>1, <2>2, <3>1 DEF Carries
    <3> QED
      BY <1>1, <2>2, <3>1, <3>2 DEF SingleWakeup
  <2>3. CASE ~mutexStarving
    <3>1. \A h \in G : Carries(h)' <=> Carries(h)
      BY <1>1, <2>1, <2>3 DEF Carries, SemaInv, CallInv
    <3> QED
      BY <1>1, <2>3, <3>1 DEF SingleWakeup
  <2> QED
    BY <2>2, <2>3
<1> QED
  BY <1>2, <1>3, <1>4, <1>5, <1>6

(* unlockSlow begins a wakeup only when none is under way, and counts the  *)
(* waiter out.                                                             *)
LEMMA UnlockSlowInv ==
  ASSUME MutexInv, NEW g \in G, UnlockSlow(g) PROVE MutexInv'
<1> USE DEF MutexInv
<1>1. /\ spc[g] = "idle" /\ pc[g] = "unlockslow" /\ pc'[g] = "out"
      /\ \A h \in G \ {g} : pc'[h] = pc[h] /\ spc'[h] = spc[h] /\ scall'[h] = scall[h]
      /\ UNCHANGED <<mutexLocked, mutexStarving, lockLocals, sem, ticket>>
      /\ \/ UNCHANGED <<spc, scall, waiters, mutexWoken>>
         \/ /\ ~mutexLocked /\ ~mutexWoken /\ ~mutexStarving /\ waiters # 0
            /\ waiters' = waiters - 1 /\ mutexWoken'
            /\ spc'[g] = "xadd" /\ scall'[g].addr = MutexSema
  BY DEF UnlockSlow, Idle, SemreleaseCall, Enter, At, To, TypeOK, SemaTypeOK, semaVars
<1>2. TypeOK' /\ SemaInv'
  <2>1. SemaInv'
    BY MutexAssumption, EnterInv, SemaUnchangedInv DEF UnlockSlow, SemreleaseCall
  <2>2. waiters' \in Nat
    BY <1>1 DEF TypeOK
  <2>3. mutexWoken' \in BOOLEAN /\ pc' \in [G -> MutexPC]
    BY DEF UnlockSlow, To, TypeOK, MutexPC
  <2> QED
    BY <1>1, <2>1, <2>2, <2>3 DEF TypeOK, SemaInv, lockLocals
<1>3. CallsMatch' /\ LocalsMatch' /\ StarvingHasWaiters' /\ MutualExclusion'
  BY <1>1 DEF CallsMatch, LocalsMatch, StarvingHasWaiters, MutualExclusion,
              lockLocals, AcquirePC, ReleasePC
<1>4. CarrierModes'
  BY <1>1 DEF CarrierModes, lockLocals
<1>5. SingleWakeup'
  <2>1. ~Carries(g) /\ \A h \in G \ {g} : Carries(h)' <=> Carries(h)
    BY <1>1 DEF Carries, SemaInv, CallInv, lockLocals
  <2>2. CASE UNCHANGED <<spc, mutexWoken>>
    <3>1. \A h \in G : Carries(h)' <=> Carries(h)
      BY <1>1, <2>1, <2>2 DEF Carries, SemaInv, CallInv
    <3> QED
      BY <1>1, <2>2, <3>1 DEF SingleWakeup
  <2>3. CASE ~mutexLocked /\ ~mutexWoken /\ ~mutexStarving /\ mutexWoken' /\ spc'[g] = "xadd"
    <3>1. sem[MutexSema] # 1 /\ \A h \in G : ~Carries(h)
      BY <2>3 DEF SingleWakeup
    <3>2. Carries(g)' /\ \A h \in G \ {g} : ~Carries(h)'
      BY <2>1, <2>3, <3>1 DEF Carries
    <3> QED
      BY <1>1, <2>3, <3>1, <3>2 DEF SingleWakeup
  <2> QED
    BY <1>1, <2>2, <2>3
<1> QED
  BY <1>2, <1>3, <1>4, <1>5
-----------------------------------------------------------------------------
(* A step inside the semaphore moves the permit: from the releaser to the  *)
(* word, from there to the goroutine that takes it, or into a ticket.      *)
LEMMA SemaphoresInv ==
  ASSUME MutexInv, NEW g \in G, Semaphores(g) PROVE MutexInv'
<1> USE DEF MutexInv
<1>1. /\ SemaStep(g) /\ UNCHANGED <<mutexWord, pc, lockLocals>>
      /\ spc[g] # "idle" /\ scall[g].addr = MutexSema
  BY DEF Semaphores, SemaStep, AcquireFast, AcquireLock, AcquireRecheck,
         AcquireWoken, ReleaseXadd, ReleaseCheck, ReleaseDequeue, Dequeue, ReleaseWake,
         CallsMatch
<1>2. SemaInv'
  BY <1>1, SemaStepInv
<1>3. TypeOK' /\ LocalsMatch' /\ CarrierModes' /\ StarvingHasWaiters' /\ MutualExclusion'
  BY <1>1, <1>2
  DEF TypeOK, SemaInv, LocalsMatch, CarrierModes, StarvingHasWaiters,
      MutualExclusion, mutexWord, lockLocals
<1> DEFINE m == sem[MutexSema]
<1>4. CallsMatch'
  <2>1. CASE ReleaseWake(g)
    <3>1. /\ sdeq[g] \in G /\ spc[sdeq[g]] = "parked" /\ spc[g] = "wake"
      BY <2>1 DEF ReleaseWake, SemaInv, CallInv, PairInv, SemaTypeOK
    <3>2. \A h \in G : \/ UNCHANGED <<spc[h], scall[h]>> /\ h # g
                       \/ h = g /\ spc'[h] = "idle"
                       \/ h = sdeq[g] /\ h # g /\ spc'[h] = "ready" /\ scall'[h] = scall[h]
      BY <2>1, <3>1 DEF ReleaseWake, SemaInv, SemaTypeOK
    <3> QED
      BY <1>1, <3>1, <3>2 DEF CallsMatch, AcquirePC, ReleasePC
  <2>2. CASE ~ReleaseWake(g)
    <3>1. /\ \A h \in G \ {g} : UNCHANGED <<spc[h], scall[h]>>
          /\ \/ spc'[g] = "idle"
             \/ spc'[g] \in AcquirePC /\ spc[g] \in AcquirePC /\ scall'[g] = scall[g]
             \/ spc'[g] \in ReleasePC /\ spc[g] \in ReleasePC /\ scall'[g] = scall[g]
      BY <1>1, <2>2
      DEF SemaStep, AcquireFast, AcquireLock, AcquireRecheck, AcquireWoken,
          ReleaseXadd, ReleaseCheck, ReleaseDequeue, Dequeue, Return, Goto, SemaInv,
          SemaTypeOK, AcquirePC, ReleasePC
    <3> QED
      BY <1>1, <3>1 DEF CallsMatch, AcquirePC, ReleasePC
  <2> QED
    BY <2>1, <2>2
<1>5. m \in Nat /\ m <= 1
  BY MutexAssumption DEF SemaInv, SemaTypeOK, SingleWakeup
<1>6. ASSUME m = 1, m' = 0, NEW s \in G, ~Carries(s), Carries(s)',
             \A h \in G \ {s} : Carries(h)' => Carries(h)
      PROVE  SingleWakeup'
  <2>1. \A h \in G : ~Carries(h)
    BY <1>6 DEF SingleWakeup
  <2> QED
    BY <1>1, <1>6, <2>1 DEF SingleWakeup, mutexWord
<1>7. ASSUME m' = m, \A h \in G : Carries(h)' <=> Carries(h)
      PROVE  SingleWakeup'
  BY <1>1, <1>7 DEF SingleWakeup, mutexWord
<1>8. ASSUME NEW s \in G,
             \A h \in G \ {s} : /\ ticket'[h] = ticket[h]
                                /\ spc'[h] = "idle" <=> spc[h] = "idle"
                                /\ spc'[h] = "xadd" <=> spc[h] = "xadd"
      PROVE  \A h \in G \ {s} : Carries(h)' <=> Carries(h)
  BY <1>1, <1>8 DEF Carries, lockLocals
<1>9. SingleWakeup'
  <2>1. /\ spc[g] \in AcquirePC => pc[g] = "woken"
        /\ spc[g] \in ReleasePC => pc[g] = "out"
        /\ ticket[g] => spc[g] = "ready"
        /\ pc' = pc /\ awoke' = awoke
    BY <1>1 DEF CallsMatch, SemaInv, CallInv, lockLocals
  <2>2. ASSUME CanSemacquire(scall[g].addr), TakePermit(scall[g].addr), Return(g),
               UNCHANGED ticket, spc[g] \in AcquirePC, ~ticket[g]
        PROVE  SingleWakeup'
    <3>1. m = 1 /\ m' = 0
      BY <1>1, <1>5, <2>2, MutexAssumption
      DEF CanSemacquire, TakePermit, SemaInv, SemaTypeOK
    <3>2. ~Carries(g) /\ Carries(g)'
      BY <2>1, <2>2 DEF Carries, Return, AcquirePC, SemaInv, SemaTypeOK
    <3>3. \A h \in G \ {g} : Carries(h)' <=> Carries(h)
      BY <1>8, <2>2 DEF Return, SemaInv, SemaTypeOK
    <3> QED
      BY <1>6, <3>1, <3>2, <3>3
  <2>3. ASSUME UNCHANGED <<sem, ticket>>, NEW here \in AcquirePC \cup ReleasePC,
               here # "xadd", Goto(g, here), spc[g] # "xadd"
        PROVE  SingleWakeup'
    <3>1. Carries(g)' <=> Carries(g)
      BY <1>1, <2>1, <2>3
      DEF Carries, Goto, SemaInv, SemaTypeOK, AcquirePC, ReleasePC
    <3>2. \A h \in G \ {g} : Carries(h)' <=> Carries(h)
      BY <1>8, <2>3 DEF Goto, SemaInv, SemaTypeOK
    <3> QED
      BY <1>7, <2>3, <3>1, <3>2
  <2>4. ASSUME UNCHANGED <<sem, ticket>>, Return(g), spc[g] \in ReleasePC \ {"xadd"}
        PROVE  SingleWakeup'
    <3>1. ~Carries(g) /\ ~Carries(g)'
      BY <2>1, <2>4 DEF Carries, Return, SemaInv, SemaTypeOK, ReleasePC
    <3>2. \A h \in G \ {g} : Carries(h)' <=> Carries(h)
      BY <1>8, <2>4 DEF Return, SemaInv, SemaTypeOK
    <3> QED
      BY <1>7, <2>4, <3>1, <3>2
  <2>5. CASE AcquireFast(g)
    BY <2>1, <2>2, <2>3, <2>5 DEF AcquireFast, AcquirePC
  <2>6. CASE AcquireLock(g)
    BY <2>3, <2>6 DEF AcquireLock, AcquirePC
  <2>7. CASE AcquireRecheck(g)
    BY <2>1, <2>2, <2>3, <2>7 DEF AcquireRecheck, AcquirePC
  <2>8. CASE AcquireWoken(g)
    <3>1. CASE ticket[g] /\ ticket' = [ticket EXCEPT ![g] = FALSE] /\ Return(g) /\ UNCHANGED sem
      <4>1. Carries(g) /\ Carries(g)'
        BY <2>1, <2>8, <3>1
        DEF Carries, AcquireWoken, Return, AcquirePC, SemaInv, SemaTypeOK
      <4>2. \A h \in G \ {g} : Carries(h)' <=> Carries(h)
        BY <1>8, <3>1 DEF Return, SemaInv, SemaTypeOK
      <4> QED
        BY <1>7, <3>1, <4>1, <4>2
    <3>2. CASE ~ticket[g]
      BY <2>1, <2>2, <2>3, <2>8, <3>2 DEF AcquireWoken, AcquirePC
    <3> QED
      BY <2>8, <3>1, <3>2 DEF AcquireWoken
  <2>9. CASE ReleaseXadd(g)
    <3>1. Carries(g) /\ ~Carries(g)'
      BY <2>1, <2>9 DEF Carries, ReleaseXadd, Goto, ReleasePC, SemaInv, SemaTypeOK
    <3>2. \A h \in G \ {g} : Carries(h)' <=> Carries(h)
      BY <1>8, <2>9 DEF ReleaseXadd, Goto, SemaInv, SemaTypeOK
    <3>3. m = 0 /\ \A h \in G : ~Carries(h)'
      BY <1>5, <3>1, <3>2 DEF SingleWakeup
    <3>4. sem'[MutexSema] = 1
      BY <1>1, <2>9, <3>3, MutexAssumption DEF ReleaseXadd, SemaInv, SemaTypeOK
    <3> QED
      BY <1>1, <3>1, <3>3, <3>4 DEF SingleWakeup, mutexWord
  <2>10. CASE ReleaseCheck(g)
    BY <2>3, <2>4, <2>10 DEF ReleaseCheck, ReleasePC
  <2>11. CASE ReleaseDequeue(g)
    BY <2>3, <2>4, <2>11 DEF ReleaseDequeue, Dequeue, ReleasePC
  <2>12. CASE ReleaseWake(g)
    <3>1. PICK s \in G : /\ s = sdeq[g] /\ s # g /\ spc[s] = "parked" /\ spc[g] = "wake"
                         /\ pc[s] = "woken" /\ ~ticket[s]
      BY <2>12
      DEF ReleaseWake, SemaInv, CallInv, PairInv, SemaTypeOK, CallsMatch, AcquirePC
    <3>2. /\ spc'[g] = "idle" /\ spc'[s] = "ready"
          /\ \A h \in G \ {g, s} : spc'[h] = spc[h]
          /\ \A h \in G \ {s} : ticket'[h] = ticket[h]
      BY <2>12, <3>1 DEF ReleaseWake, SemaInv, SemaTypeOK
    <3>3. \A h \in G \ {g, s} : Carries(h)' <=> Carries(h)
      BY <2>1, <3>2 DEF Carries
    <3>4. ~Carries(g) /\ ~Carries(g)' /\ ~Carries(s)
      BY <2>1, <3>1, <3>2 DEF Carries, ReleasePC
    <3>5. CASE CanSemacquire(scall[g].addr) /\ TakePermit(scall[g].addr)
               /\ ticket' = [ticket EXCEPT ![s] = TRUE]
      <4>1. m = 1 /\ m' = 0
        BY <1>1, <1>5, <3>5, MutexAssumption
        DEF CanSemacquire, TakePermit, SemaInv, SemaTypeOK
      <4>2. Carries(s)'
        BY <3>5 DEF Carries, SemaInv, SemaTypeOK
      <4> QED
        BY <1>6, <3>3, <3>4, <4>1, <4>2
    <3>6. CASE UNCHANGED <<sem, ticket>>
      <4>1. ~Carries(s)'
        BY <2>1, <3>1, <3>2, <3>6 DEF Carries
      <4> QED
        BY <1>7, <3>3, <3>4, <3>6, <4>1
    <3> QED
      BY <2>12, <3>1, <3>5, <3>6 DEF ReleaseWake
  <2> QED
    BY <1>1, <2>5, <2>6, <2>7, <2>8, <2>9, <2>10, <2>11, <2>12 DEF SemaStep
<1> QED
  BY <1>2, <1>3, <1>4, <1>9

-----------------------------------------------------------------------------
(* The inductive invariant holds of every behaviour of Lock, TryLock and   *)
(* Unlock.                                                                 *)
THEOREM MutexInvariant == Safety => []MutexInv
<1>1. MutexInv /\ [Next]_vars => MutexInv'
  <2> SUFFICES ASSUME MutexInv, [Next]_vars PROVE MutexInv'
    OBVIOUS
  <2>1. ASSUME NEW g \in G, Step(g) \/ LockSpin(g) \/ Lock(g) \/ TryLock(g)
        PROVE  MutexInv'
    BY <2>1, LockInv, LockSpinInv, LockCASInv, LockSleepInv, LockWokenInv,
       LockTakeInv, UnlockInv, UnlockSlowInv, SemaphoresInv
    DEF Step
  <2>2. CASE UNCHANGED vars
    <3>1. SemaInv'
      BY <2>2, SemaUnchangedInv DEF vars, MutexInv
    <3> QED
      BY <2>2, <3>1
      DEF vars, semaVars, mutexWord, lockLocals, MutexInv, TypeOK, SemaInv,
          CallsMatch, LocalsMatch, CarrierModes, MutualExclusion, SingleWakeup,
          Carries, StarvingHasWaiters
  <2> QED
    BY <2>1, <2>2 DEF Next
<1> QED
  BY <1>1, MutexInitInv, PTL DEF Safety

(* The type invariant: among others, the count of waiters in the word      *)
(* never falls below zero.                                                 *)
THEOREM MutexTypeCorrect == Safety => []TypeOK
  BY MutexInvariant, PTL DEF MutexInv

(* Lock and TryLock never let two goroutines in, and mutexLocked is set    *)
(* exactly while one is.                                                   *)
THEOREM MutexExcludes == Safety => []MutualExclusion
  BY MutexInvariant, PTL DEF MutexInv

(* "sync: inconsistent mutex state" is never thrown.                       *)
THEOREM MutexConsistent == Safety => []NoInconsistentState
  BY MutexInvariant, InvImpliesConsistent, PTL

(* At most one wakeup is under way, exactly when the word says so.         *)
THEOREM MutexSingleWakeup == Safety => []SingleWakeup
  BY MutexInvariant, PTL DEF MutexInv

(* Starvation mode ends with the last waiter.                              *)
THEOREM MutexStarvingHasWaiters == Safety => []StarvingHasWaiters
  BY MutexInvariant, PTL DEF MutexInv

(* A spinner or a woken waiter has announced itself in lockSlow.           *)
Announced == \E g \in G : pc[g] = "loop" /\ awoke[g]

(* A step of g that only moves it changes Asleep by g at most.             *)
LEMMA AsleepMove ==
  ASSUME TypeOK, NEW g \in G, NEW there, To(g, there)
  PROVE  /\ Cardinality(Asleep) \in Nat /\ Cardinality(Asleep') \in Nat
         /\ Cardinality(Asleep') = Cardinality(Asleep)
              + One(there \in {"woken", "take", "takeexit"})
              - One(pc[g] \in {"woken", "take", "takeexit"})
<1>1. \A h \in G : pc'[h] = IF h = g THEN there ELSE pc[h]
  BY DEF TypeOK, To
<1>2. Asleep \ {g} = Asleep' \ {g}
  BY <1>1 DEF Asleep
<1>3. IsFiniteSet(Asleep)
  BY SemaAssumption, FS_Subset DEF Asleep
<1>4. /\ Cardinality(Asleep) \in Nat /\ Cardinality(Asleep') \in Nat
      /\ Cardinality(Asleep') =
           Cardinality(Asleep) + One(g \in Asleep') - One(g \in Asleep)
  BY <1>2, <1>3, SetMove
<1>5. /\ g \in Asleep <=> pc[g] \in {"woken", "take", "takeexit"}
      /\ g \in Asleep' <=> there \in {"woken", "take", "takeexit"}
  BY <1>1 DEF Asleep
<1> QED
  BY <1>4, <1>5 DEF One

(* WaitersExact in terms of the two.                                       *)
Counted == waiters + One(mutexWoken /\ ~Announced) = Cardinality(Asleep)

(* The steps that leave the queue, its count and the announcements alone.  *)
LEMMA CountedUnmoved ==
  ASSUME Counted, UNCHANGED <<waiters, mutexWoken>>,
         Announced' <=> Announced, Cardinality(Asleep') = Cardinality(Asleep)
  PROVE  Counted'
  BY DEF Counted, One

(* The count of waiters in the word is exact.  An Unlock counts its waiter *)
(* out when it sets mutexWoken; the waiter leaves the queue when it loads  *)
(* the word and announces itself, and SingleWakeup says that it is the one *)
(* that was counted out.                                                   *)
THEOREM MutexWaitersExact == Safety => []WaitersExact
<1>1. Init => Counted
  <2> SUFFICES ASSUME Init PROVE Counted
    OBVIOUS
  <2>1. Asleep = {}
    BY DEF Init, Asleep
  <2> QED
    BY <2>1, FS_EmptySet DEF Init, Counted, One
<1>2. MutexInv /\ Counted /\ [Next]_vars => Counted'
  <2> SUFFICES ASSUME MutexInv, Counted, [Next]_vars PROVE Counted'
    OBVIOUS
  <2>a. TypeOK /\ waiters \in Nat /\ mutexWoken \in BOOLEAN
    BY DEF MutexInv, TypeOK
  <2>1. ASSUME NEW g \in G, Lock(g) \/ TryLock(g) PROVE Counted'
    <3>1. /\ UNCHANGED <<waiters, mutexWoken, awoke>>
          /\ \E there \in {"held", "loop"} : To(g, there)
          /\ pc[g] = "out" /\ ~awoke[g]
      BY <2>1 DEF Lock, TryLock, At, lockLocals, MutexInv, LocalsMatch
    <3>2. Announced' <=> Announced
      BY <2>a, <3>1 DEF Announced, To, TypeOK
    <3>3. Cardinality(Asleep') = Cardinality(Asleep)
      BY <2>a, <3>1, AsleepMove DEF One
    <3> QED
      BY <3>1, <3>2, <3>3, CountedUnmoved
  <2>2. ASSUME NEW g \in G, LockSpin(g) PROVE Counted'
    <3>1. Announced' /\ ~mutexWoken /\ UNCHANGED <<waiters, pc>>
      BY <2>2, <2>a DEF LockSpin, Announced, At, TypeOK
    <3>2. Asleep' = Asleep
      BY <3>1 DEF Asleep
    <3> QED
      BY <3>1, <3>2 DEF Counted, One
  <2>3. ASSUME NEW g \in G, LockCAS(g) PROVE Counted'
    <3>1. /\ To(g, "held") /\ pc[g] = "loop" /\ UNCHANGED waiters
          /\ mutexWoken' = (mutexWoken /\ ~awoke[g])
          /\ awoke' = [awoke EXCEPT ![g] = FALSE]
      BY <2>3 DEF LockCAS, Acquired, At
    <3>2. Cardinality(Asleep') = Cardinality(Asleep)
      BY <2>a, <3>1, AsleepMove DEF One
    <3>3. CASE awoke[g]
      <4>1. Announced /\ ~mutexWoken'
        BY <3>1, <3>3 DEF Announced
      <4> QED
        BY <4>1, <3>1, <3>2 DEF Counted, One
    <3>4. CASE ~awoke[g]
      <4>1. (Announced' <=> Announced) /\ (mutexWoken' <=> mutexWoken)
        BY <2>a, <3>1, <3>4 DEF Announced, To, TypeOK
      <4> QED
        BY <4>1, <3>1, <3>2 DEF Counted, One
    <3> QED
      BY <3>3, <3>4
  <2>4. ASSUME NEW g \in G, LockSleep(g) PROVE Counted'
    <3>1. /\ To(g, "woken") /\ pc[g] = "loop" /\ waiters' = waiters + 1
          /\ mutexWoken' = (mutexWoken /\ ~awoke[g]) /\ UNCHANGED awoke
      BY <2>4 DEF LockSleep, At
    <3>2. /\ Cardinality(Asleep) \in Nat /\ Cardinality(Asleep') \in Nat
          /\ Cardinality(Asleep') = Cardinality(Asleep) + 1
      BY <2>a, <3>1, AsleepMove DEF One
    <3>3. CASE awoke[g]
      <4>1. Announced /\ ~mutexWoken'
        BY <3>1, <3>3 DEF Announced
      <4> QED
        BY <4>1, <3>1, <3>2, <2>a DEF Counted, One
    <3>4. CASE ~awoke[g]
      <4>1. (Announced' <=> Announced) /\ (mutexWoken' <=> mutexWoken)
        BY <2>a, <3>1, <3>4 DEF Announced, To, TypeOK
      <4> QED
        BY <4>1, <3>1, <3>2, <2>a DEF Counted, One
    <3> QED
      BY <3>3, <3>4
  <2>5. ASSUME NEW g \in G, NEW late \in BOOLEAN, LockWoken(g, late)
        PROVE  Counted'
    <3>1. /\ pc[g] = "woken" /\ Carries(g) /\ ~Inconsistent(g)
          /\ UNCHANGED <<waiters, mutexWoken, mutexStarving>>
      BY <2>5 DEF LockWoken, At, Carries, mutexWord
    <3>2. ~Announced
      <4> SUFFICES ASSUME NEW h \in G, pc[h] = "loop", awoke[h] PROVE FALSE
        BY DEF Announced
      <4>1. Carries(h)
        BY DEF Carries
      <4> QED
        BY <3>1, <4>1 DEF MutexInv, SingleWakeup
    <3>3. CASE ~mutexStarving
      <4>1. To(g, "loop") /\ awoke' = [awoke EXCEPT ![g] = TRUE] /\ mutexWoken
        BY <2>5, <3>3 DEF LockWoken, Inconsistent
      <4>2. Announced'
        BY <2>a, <4>1 DEF Announced, To, TypeOK
      <4>3. /\ Cardinality(Asleep) \in Nat /\ Cardinality(Asleep') \in Nat
            /\ Cardinality(Asleep') = Cardinality(Asleep) - 1
        BY <2>a, <4>1, <3>1, AsleepMove DEF One
      <4> QED
        BY <2>a, <3>1, <3>2, <4>1, <4>2, <4>3 DEF Counted, One
    <3>4. CASE mutexStarving
      <4>1. /\ \E there \in {"take", "takeexit"} : To(g, there)
            /\ UNCHANGED awoke
        BY <2>5, <3>4 DEF LockWoken
      <4>2. ~Announced'
        BY <2>a, <4>1, <3>2 DEF Announced, To, TypeOK
      <4>3. Cardinality(Asleep') = Cardinality(Asleep)
        BY <2>a, <4>1, <3>1, AsleepMove DEF One
      <4> QED
        BY <3>1, <3>2, <4>2, <4>3, CountedUnmoved
    <3> QED
      BY <3>3, <3>4
  <2>6. ASSUME NEW g \in G, LockTake(g) PROVE Counted'
    <3>1. /\ pc[g] \in {"take", "takeexit"} /\ To(g, "held")
          /\ waiters' = waiters - 1 /\ UNCHANGED mutexWoken
          /\ awoke' = [awoke EXCEPT ![g] = FALSE]
      BY <2>6 DEF LockTake, At, Acquired
    <3>2. Announced' <=> Announced
      BY <2>a, <3>1 DEF Announced, To, TypeOK
    <3>3. /\ Cardinality(Asleep) \in Nat /\ Cardinality(Asleep') \in Nat
          /\ Cardinality(Asleep') = Cardinality(Asleep) - 1
      BY <2>a, <3>1, AsleepMove DEF One
    <3> QED
      BY <2>a, <3>1, <3>2, <3>3 DEF Counted, One
  <2>7. ASSUME NEW g \in G, Unlock(g) PROVE Counted'
    <3>1. /\ pc[g] = "held" /\ UNCHANGED <<waiters, mutexWoken, awoke>>
          /\ \E there \in {"out", "unlockslow"} : To(g, there)
      BY <2>7 DEF Unlock, At, lockLocals
    <3>2. Announced' <=> Announced
      BY <2>a, <3>1 DEF Announced, To, TypeOK
    <3>3. Cardinality(Asleep') = Cardinality(Asleep)
      BY <2>a, <3>1, AsleepMove DEF One
    <3> QED
      BY <3>1, <3>2, <3>3, CountedUnmoved
  <2>8. ASSUME NEW g \in G, UnlockSlow(g) PROVE Counted'
    <3>1. pc[g] = "unlockslow" /\ To(g, "out") /\ UNCHANGED awoke
      BY <2>8 DEF UnlockSlow, At, lockLocals
    <3>2. Announced' <=> Announced
      BY <2>a, <3>1 DEF Announced, To, TypeOK
    <3>3. Cardinality(Asleep') = Cardinality(Asleep)
      BY <2>a, <3>1, AsleepMove DEF One
    <3>4. CASE Idle
      <4>1. UNCHANGED <<waiters, mutexWoken>>
        BY <2>8, <3>4 DEF UnlockSlow
      <4> QED
        BY <4>1, <3>2, <3>3, CountedUnmoved
    <3>5. CASE ~Idle
      <4>1. ~mutexWoken /\ mutexWoken' /\ waiters' = waiters - 1
        BY <2>8, <3>5 DEF UnlockSlow, Idle
      <4>2. ~Announced
        BY <4>1 DEF Announced, MutexInv, CarrierModes
      <4> QED
        BY <2>a, <4>1, <4>2, <3>2, <3>3 DEF Counted, One
    <3> QED
      BY <3>4, <3>5
  <2>9. ASSUME UNCHANGED <<mutexWord, pc, lockLocals>> PROVE Counted'
    BY <2>9 DEF mutexWord, lockLocals, Counted, One, Announced, Asleep
  <2>10. ASSUME NEW g \in G, Semaphores(g) PROVE Counted'
    BY <2>10, <2>9 DEF Semaphores
  <2>11. CASE UNCHANGED vars
    BY <2>11, <2>9 DEF vars
  <2> QED
    BY <2>1, <2>2, <2>3, <2>4, <2>5, <2>6, <2>7, <2>8, <2>10, <2>11 DEF Next, Step
<1>3. Counted => WaitersExact
  BY DEF Counted, WaitersExact, Announced, One
<1> QED
  BY <1>1, <1>2, <1>3, MutexInvariant, PTL DEF Safety

(* The word never contradicts itself or the queue.                         *)
THEOREM MutexWordConsistent == Safety => []WordConsistent
  BY MutexConsistent, MutexStarvingHasWaiters, MutexWaitersExact, PTL
  DEF WordConsistent

(* Nobody sleeps beside a free mutex that no goroutine is about to wake.   *)
THEOREM MutexForgetsNobody == Safety => []NoWaiterForgotten
<1>1. Init => NoWaiterForgotten
  BY DEF Init, NoWaiterForgotten
<1>2. MutexInv /\ NoWaiterForgotten /\ [Next]_vars => NoWaiterForgotten'
  <2> SUFFICES ASSUME MutexInv, NoWaiterForgotten, [Next]_vars
               PROVE  NoWaiterForgotten'
    OBVIOUS
  <2> USE DEF NoWaiterForgotten
  <2>1. ASSUME NEW g \in G, Lock(g) \/ TryLock(g) \/ LockSpin(g) \/ LockCAS(g) \/ LockTake(g)
        PROVE  NoWaiterForgotten'
    BY <2>1 DEF Lock, TryLock, LockSpin, LockCAS, LockTake, To, At, MutexInv, TypeOK
  <2>2. ASSUME NEW g \in G, LockSleep(g) PROVE NoWaiterForgotten'
    BY <2>2 DEF LockSleep
  <2>3. ASSUME NEW g \in G, NEW late \in BOOLEAN, LockWoken(g, late)
        PROVE  NoWaiterForgotten'
    BY <2>3 DEF LockWoken, mutexWord, To, At, MutexInv, TypeOK
  <2>4. ASSUME NEW g \in G, Unlock(g) PROVE NoWaiterForgotten'
    <3>1. CASE mutexStarving \/ (waiters = 0 /\ ~mutexWoken)
      BY <2>4, <3>1 DEF Unlock, MutexInv, TypeOK
    <3>2. CASE ~mutexStarving /\ ~(waiters = 0 /\ ~mutexWoken)
      <4>1. pc'[g] = "unlockslow"
        BY <2>4, <3>2 DEF Unlock, To, MutexInv, TypeOK
      <4> QED
        BY <4>1
    <3> QED
      BY <3>1, <3>2
  <2>5. ASSUME NEW g \in G, UnlockSlow(g) PROVE NoWaiterForgotten'
    <3>1. CASE Idle /\ UNCHANGED <<waiters, mutexWoken>>
      BY <2>5, <3>1 DEF UnlockSlow, Idle
    <3>2. CASE mutexWoken'
      BY <3>2
    <3> QED
      BY <2>5, <3>1, <3>2 DEF UnlockSlow
  <2>6. ASSUME NEW g \in G, Semaphores(g) PROVE NoWaiterForgotten'
    BY <2>6 DEF Semaphores, mutexWord
  <2>7. CASE UNCHANGED vars
    BY <2>7 DEF vars, mutexWord
  <2> QED
    BY <2>1, <2>2, <2>3, <2>4, <2>5, <2>6, <2>7 DEF Next, Step
<1> QED
  BY <1>1, <1>2, MutexInvariant, PTL DEF Safety

-----------------------------------------------------------------------------
(* The holder of the abstract lock, given who is at "held".                *)
LEMMA HolderIs ==
  ASSUME MutexInv
  PROVE  /\ \A g \in G : pc[g] = "held" => Holder = g
         /\ ~mutexLocked => Holder = NoG
         /\ mutexLocked => Holder \in G /\ pc[Holder] = "held"
  BY DEF MutexInv, MutualExclusion, Holder

(* The same of the next state.                                             *)
LEMMA HolderNext ==
  ASSUME MutexInv'
  PROVE  /\ \A g \in G : pc'[g] = "held" => Holder' = g
         /\ ~mutexLocked' => Holder' = NoG
  BY DEF MutexInv, MutualExclusion, Holder

(* Taking a free lock is an Acquire or an AcquireAtOnce of the abstract    *)
(* lock.                                                                   *)
LEMMA AcquiresStep ==
  ASSUME MutexInv, MutexInv', NEW g \in G, ~mutexLocked,
         pc[g] \in {"out", "loop", "take", "takeexit"}, pc'[g] = "held",
         \A h \in G \ {g} : pc'[h] = pc[h]
  PROVE  Abstract!Next
<1>1. Holder = NoG /\ Holder' = g
  BY HolderIs, HolderNext
<1>2. CASE pc[g] = "out"
  <2>1. g \notin Wanting /\ Wanting' = Wanting
    BY <1>2 DEF Wanting
  <2> QED
    BY <1>1, <2>1 DEF Abstract!Next, Abstract!AcquireAtOnce
<1>3. CASE pc[g] # "out"
  <2>1. g \in Wanting /\ Wanting' = Wanting \ {g}
    BY <1>3 DEF Wanting
  <2> QED
    BY <1>1, <2>1 DEF Abstract!Next, Abstract!AcquireSome, Abstract!Acquire
<1> QED
  BY <1>2, <1>3

(* A step that moves a goroutine between the waiting control points is     *)
(* invisible to the abstract lock.                                         *)
LEMMA InsideStep ==
  ASSUME MutexInv, MutexInv', UNCHANGED mutexLocked,
         NEW g \in G, pc[g] # "held", pc'[g] # "held",
         \A h \in G \ {g} : pc'[h] = pc[h],
         pc[g] \in {"loop", "woken", "take", "takeexit"}
           <=> pc'[g] \in {"loop", "woken", "take", "takeexit"}
  PROVE  UNCHANGED Abstract!vars
<1>1. Holder' = Holder
  BY HolderIs, HolderNext DEF MutexInv, MutualExclusion
<1>2. Wanting' = Wanting
  BY DEF Wanting
<1> QED
  BY <1>1, <1>2 DEF Abstract!vars

(* sync.Mutex implements the abstract lock: a goroutine gets the lock only *)
(* when nobody holds it, and keeps it until its own Unlock.                *)
THEOREM MutexImplementsLock == Safety => ImplementsSafely
<1>1. Init => Abstract!Init
  BY DEF Init, Abstract!Init, Holder, Wanting
<1>2. MutexInv /\ MutexInv' /\ [Next]_vars => [Abstract!Next]_(Abstract!vars)
  <2> SUFFICES ASSUME MutexInv, MutexInv', [Next]_vars
               PROVE  [Abstract!Next]_(Abstract!vars)
    OBVIOUS
  <2> USE DEF MutexInv, TypeOK
  <2>1. ASSUME NEW g \in G, Lock(g) PROVE [Abstract!Next]_(Abstract!vars)
    <3>1. /\ pc[g] = "out" /\ \A h \in G \ {g} : pc'[h] = pc[h]
          /\ \/ pc'[g] = "held" /\ ~mutexLocked
             \/ pc'[g] = "loop" /\ UNCHANGED mutexLocked
      BY <2>1 DEF Lock, At, To, Free
    <3>2. CASE pc'[g] = "held"
      BY <3>1, <3>2, AcquiresStep
    <3>3. CASE pc'[g] = "loop"
      <4>1. Holder' = Holder /\ Holder # g
        BY <3>1, <3>3, HolderIs, HolderNext, SemaAssumption DEF MutualExclusion
      <4>2. g \notin Wanting /\ Wanting' = Wanting \cup {g}
        BY <3>1, <3>3 DEF Wanting
      <4> QED
        BY <4>1, <4>2 DEF Abstract!Next, Abstract!Request
    <3> QED
      BY <3>1, <3>2, <3>3
  <2>2. ASSUME NEW g \in G, TryLock(g) \/ LockCAS(g) \/ LockTake(g)
        PROVE  [Abstract!Next]_(Abstract!vars)
    <3>1. /\ pc[g] \in {"out", "loop", "take", "takeexit"} /\ pc'[g] = "held"
          /\ \A h \in G \ {g} : pc'[h] = pc[h]
          /\ ~mutexLocked
      BY <2>2 DEF TryLock, LockCAS, LockTake, Acquired, At, To, CarrierModes
    <3> QED
      BY <3>1, AcquiresStep
  <2>3. ASSUME NEW g \in G,
               LockSpin(g) \/ LockSleep(g) \/ UnlockSlow(g) \/ Semaphores(g)
                 \/ \E late \in BOOLEAN : LockWoken(g, late)
        PROVE  [Abstract!Next]_(Abstract!vars)
    <3>1. CASE Semaphores(g)
      BY <3>1 DEF Semaphores, mutexWord, Abstract!vars, Holder, Wanting
    <3>2. CASE ~Semaphores(g)
      <4>1. /\ UNCHANGED mutexLocked /\ pc[g] # "held" /\ pc'[g] # "held"
            /\ \A h \in G \ {g} : pc'[h] = pc[h]
            /\ pc[g] \in {"loop", "woken", "take", "takeexit"}
                 <=> pc'[g] \in {"loop", "woken", "take", "takeexit"}
        BY <2>3, <3>2
        DEF LockSpin, LockSleep, UnlockSlow, LockWoken, At, To, mutexWord
      <4> QED
        BY <4>1, InsideStep
    <3> QED
      BY <3>1, <3>2
  <2>4. ASSUME NEW g \in G, Unlock(g) PROVE [Abstract!Next]_(Abstract!vars)
    <3>1. /\ pc[g] = "held" /\ pc'[g] \in {"out", "unlockslow"} /\ ~mutexLocked'
          /\ \A h \in G \ {g} : pc'[h] = pc[h]
      BY <2>4 DEF Unlock, At, To
    <3>2. Holder = g /\ Holder' = NoG /\ Wanting' = Wanting
      BY <3>1, HolderIs, HolderNext DEF Wanting
    <3> QED
      BY <3>2 DEF Abstract!Next, Abstract!Release
  <2>5. CASE UNCHANGED vars
    BY <2>5 DEF vars, mutexWord, Abstract!vars, Holder, Wanting
  <2> QED
    BY <2>1, <2>2, <2>3, <2>4, <2>5 DEF Next, Step
<1> QED
  BY <1>1, <1>2, MutexInvariant, PTL
  DEF Safety, ImplementsSafely, Abstract!Safety
=============================================================================
