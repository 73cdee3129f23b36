----------------------------- MODULE ChanProofs -----------------------------
(***************************************************************************)
(* Theorems about channels and select, for any channels, capacities and    *)
(* calls.  They rest on the invariant ChanInv, which says for every        *)
(* goroutine what its program counter means (CallInv), who has won a       *)
(* select (WonInv), that a wakeup under way belongs to one parked          *)
(* goroutine whose sudog is in no queue any more (WakeInv), whose sudogs   *)
(* the queues hold (QueueInv), that one that sleeps is in the queue of     *)
(* each of its cases (AsleepInv), which queues are empty (ExclusiveInv),   *)
(* and what a close has still to do (CloseInv).                            *)
(*                                                                         *)
(* A step changes the queues in one of four ways: it takes sudogs out,     *)
(* one of which it may win (Thins, Wins: a communication and a close); it  *)
(* adds those of a goroutine that parks; it removes those of a goroutine   *)
(* that a select has woken; or it leaves them alone.  There is one lemma   *)
(* for the waiting goroutines in each case (WinWaits and QuietWaits,       *)
(* ParkWaits, FinishWaits, ReadyWaits), and one for each action.           *)
(*                                                                         *)
(* The last part proves that every step is one of module Channel, or none  *)
(* (Refines).  What a communication does to the buffer is stated once in   *)
(* terms of the sequence it holds (PutHolds, GetHolds, ExchangeHolds), and *)
(* what it does to the results in OwnResult and OthersResult; a lemma per  *)
(* action puts the two together.                                           *)
(***************************************************************************)
EXTENDS ChanHistory, FiniteSetTheorems, TLAPS

InClose == {"closeRecv", "closeSend"}

(* A queue of the channels h: of senders, or of receivers.                 *)
QueueOf(h, c, send) == IF send THEN h[c].sendq ELSE h[c].recvq

(* Somebody has dequeued g and is about to make it ready.                  *)
Woke(g) == \E h \in G : \E n \in DOMAIN wake[h] : wake[h][n].sg.g = g

Sleeps(g) == pc[g] = "parked" /\ ~Woke(g)

Selects(g) == op[g].kind = "select"

(* Where a goroutine stands, and what it is doing.                         *)
Stands(g) ==
  /\ pc[g] = "out" <=> op[g] = None
  /\ pc[g] \in {"sellock", "relock"} => Selects(g)
  /\ pc[g] \in {"close"} \cup InClose => op[g].kind = "close"
  /\ pc[g] \in {"tryClosed", "tryFull", "tryEmpty", "tryEmptyAgain", "lock", "woken"}
       => op[g].kind = "chan"
  /\ pc[g] = "parked" => op[g].kind # "close"
  /\ wake[g] # <<>> => pc[g] \in {"ready"} \cup InClose
  /\ pc[g] = "ready" => wake[g] # <<>>
  /\ param[g] # None <=> pc[g] \in {"woken", "relock"}

CallInv == \A g \in G : Stands(g)

(* Who has won a select.                                                   *)
WonInv ==
  \A g \in G :
    /\ selectDone[g] => pc[g] \in {"parked", "relock"} /\ Selects(g)
    /\ pc[g] = "relock" => selectDone[g]
    /\ pc[g] = "parked" /\ Selects(g) => (selectDone[g] <=> Woke(g))

(* x is the sudog of a case, in no queue any more; a wakeup without        *)
(* success is a close.                                                     *)
Taken(w) ==
  /\ w.sg.case \in Cases(w.sg.g)
  /\ \A c \in C, s \in BOOLEAN : w.sg \notin ToSet(QueueOf(ch, c, s))
  /\ ~w.success => ch[ChanOf(w.sg.g, w.sg.case)].closed

WakeInv ==
  /\ \A h \in G : \A n \in DOMAIN wake[h] :
       pc[wake[h][n].sg.g] = "parked" /\ Taken(wake[h][n])
  /\ \A h, i \in G : \A n \in DOMAIN wake[h], m \in DOMAIN wake[i] :
       wake[h][n].sg.g = wake[i][m].sg.g => h = i /\ n = m
  /\ \A g \in G : param[g] # None => param[g].sg.g = g /\ Taken(param[g])

Distinct(q) == \A m, n \in DOMAIN q : q[m] = q[n] => m = n

(* x may stand in the queue of c for senders, or for receivers.            *)
Belongs(x, c, send) ==
  /\ x.case \in Cases(x.g) /\ ChanOf(x.g, x.case) = c /\ Sends(x.g, x.case) = send
  /\ \/ Sleeps(x.g)
     \/ pc[x.g] \in {"parked", "relock"} /\ Selects(x.g) /\ selectDone[x.g]

QueueInv ==
  \A c \in C, s \in BOOLEAN :
    /\ Distinct(QueueOf(ch, c, s))
    /\ \A x \in ToSet(QueueOf(ch, c, s)) : Belongs(x, c, s)

(* Who sleeps is queued for all its cases.                                 *)
AsleepInv ==
  \A g \in G : Sleeps(g) => \A i \in Cases(g) :
    [g |-> g, case |-> i] \in ToSet(QueueOf(ch, ChanOf(g, i), Sends(g, i)))

WaitInv == WonInv /\ WakeInv /\ QueueInv /\ AsleepInv

(* QueuesExclusive, locked or not, but for what a close is still to do.    *)
ExclusiveInv ==
  \A c \in C :
    /\ \A x \in ToSet(ch[c].recvq), y \in ToSet(ch[c].sendq) : Cap[c] = 0 /\ x.g = y.g
    /\ ch[c].qcount > 0 => ch[c].recvq = <<>>
    /\ ch[c].qcount < Cap[c] => ch[c].sendq = <<>>
    /\ ch[c].closed =>
         \/ ch[c].recvq = <<>> /\ ch[c].sendq = <<>>
         \/ \E g \in G : pc[g] \in InClose /\ ChanOf(g, 1) = c

CloseInv ==
  \A g \in G : pc[g] \in InClose =>
    /\ owner[ChanOf(g, 1)] = g /\ ch[ChanOf(g, 1)].closed
    /\ pc[g] = "closeSend" => ch[ChanOf(g, 1)].recvq = <<>>

ChanInv == TypeOK /\ CallInv /\ WaitInv /\ ExclusiveInv /\ CloseInv

-----------------------------------------------------------------------------
(* Sequences and sets of naturals.                                         *)

LEMMA Least ==
  ASSUME NEW S \in SUBSET Nat, S # {}
  PROVE  /\ Min(S) \in S
         /\ \A m \in S : Min(S) <= m
<1> DEFINE R == {ss \in Nat \X Nat : ss[1] < ss[2]}
<1>1. IsWellFoundedOn(R, Nat)
  BY NatLessThanWellFounded, Zenon DEF OpToRel
<1>2. PICK n \in S : \A m \in S : <<m, n>> \notin R
  <2> HIDE DEF R
  <2> QED
    BY <1>1, WFMin
<1>3. \A m \in S : n <= m
  <2> TAKE m \in S
  <2>1. m \in Nat /\ n \in Nat
    BY <1>2
  <2>2. ~(m < n)
    BY <1>2, <2>1
  <2> QED
    BY <2>1, <2>2
<1> QED
  BY <1>2, <1>3 DEF Min

(* The stay-marked elements of q, in order: Left loses and repeats none.   *)
LEMMA LeftFacts ==
  ASSUME NEW q \in Seq(Sudog), NEW stay \in SUBSET DOMAIN q
  PROVE  /\ Left(q, stay) \in Seq(Sudog)
         /\ ToSet(Left(q, stay)) = {q[n] : n \in stay}
         /\ Distinct(q) => Distinct(Left(q, stay))
<1> DEFINE upto(m) == {k \in stay : k <= m}
           N == Cardinality(stay)
           Nth(n) == CHOOSE m \in stay : Cardinality(upto(m)) = n
<1>1. stay \subseteq 1 .. Len(q) /\ Len(q) \in Nat /\ IsFiniteSet(stay) /\ N \in Nat
  <2>1. Len(q) \in Nat /\ stay \in SUBSET (1 .. Len(q))
    OBVIOUS
  <2>2. IsFiniteSet(1 .. Len(q))
    BY <2>1, FS_Interval
  <2>3. IsFiniteSet(stay)
    BY <2>1, <2>2, FS_Subset
  <2> QED
    BY <2>1, <2>3, FS_CardinalityType
<1>2. \A m : IsFiniteSet(upto(m)) /\ Cardinality(upto(m)) \in Nat
  <2> TAKE m
  <2>1. IsFiniteSet(upto(m))
    BY <1>1, FS_Subset
  <2> QED
    BY <2>1, FS_CardinalityType
<1>3. \A m \in stay : Cardinality(upto(m)) \in 1 .. N
  <2> TAKE m \in stay
  <2>1. m \in upto(m) /\ upto(m) \in SUBSET stay
    BY <1>1
  <2> HIDE DEF upto
  <2>2. Cardinality(upto(m)) # 0
    BY <2>1, <1>2, FS_EmptySet
  <2>3. Cardinality(upto(m)) <= N
    BY <2>1, <1>1, FS_Subset
  <2> QED
    BY <2>2, <2>3, <1>1, <1>2
<1>4. \A m, n \in stay : m < n => Cardinality(upto(m)) # Cardinality(upto(n))
  <2> SUFFICES ASSUME NEW m \in stay, NEW n \in stay, m < n
               PROVE  Cardinality(upto(m)) # Cardinality(upto(n))
    OBVIOUS
  <2>1. m \in Nat /\ n \in Nat
    BY <1>1
  <2>2. upto(m) \in SUBSET upto(n) /\ n \in upto(n) /\ n \notin upto(m)
    BY <1>1, <2>1
  <2> HIDE DEF upto
  <2> QED
    BY <1>2, <2>2, FS_Subset
<1>5. \A n \in 1 .. N : \E m \in stay : Cardinality(upto(m)) = n
  <2> SUFFICES ASSUME NEW n \in 1 .. N
               PROVE  \E m \in stay : Cardinality(upto(m)) = n
    OBVIOUS
  <2> DEFINE P == {j \in Nat : Cardinality(upto(j)) >= n}
             j == Min(P)
  <2>1. upto(Len(q)) = stay
    BY <1>1
  <2>2. Len(q) \in P
    <3>1. Cardinality(upto(Len(q))) = N /\ N >= n
      <4>1. Cardinality(upto(Len(q))) = N
        BY <2>1
      <4> HIDE DEF upto, N
      <4> QED
        BY <1>1, <4>1
    <3> HIDE DEF upto, N
    <3> QED
      BY <1>1, <3>1
  <2>3. j \in P /\ \A i \in P : j <= i
    <3>1. P \in SUBSET Nat /\ P # {}
      BY <2>2
    <3> HIDE DEF P
    <3> QED
      BY <3>1, Least
  <2>4. j # 0
    <3>1. upto(0) = {}
      BY <1>1
    <3> QED
      BY <3>1, <2>3, FS_EmptySet
  <2> HIDE DEF j
  <2>5. j - 1 \in Nat /\ j - 1 \notin P
    <3>1. j \in Nat /\ j - 1 \in Nat /\ ~(j <= j - 1)
      BY <2>3, <2>4
    <3> QED
      BY <3>1, <2>3
  <2>6. Cardinality(upto(j - 1)) < n
    <3> HIDE DEF upto
    <3> QED
      BY <2>5, <1>2
  <2>7. upto(j) = IF j \in stay THEN upto(j - 1) \cup {j} ELSE upto(j - 1)
    BY <1>1, <2>3
  <2>8. Cardinality(upto(j - 1) \cup {j}) = Cardinality(upto(j - 1)) + 1
    <3>1. j \notin upto(j - 1)
      BY <2>3
    <3> HIDE DEF upto
    <3> QED
      BY <3>1, <1>2, FS_AddElement
  <2> HIDE DEF upto
  <2>9. j \in stay /\ Cardinality(upto(j)) = n
    <3>1. Cardinality(upto(j)) >= n /\ n \in Nat /\ N \in Nat
      BY <2>3, <1>1
    <3>2. Cardinality(upto(j - 1)) \in Nat
      BY <1>2
    <3>3. CASE j \in stay
      <4>1. Cardinality(upto(j)) = Cardinality(upto(j - 1)) + 1
        BY <2>7, <2>8, <3>3
      <4> QED
        BY <4>1, <3>1, <3>2, <3>3, <2>6
    <3>4. CASE j \notin stay
      BY <2>7, <3>1, <3>2, <3>4, <2>6
    <3> QED
      BY <3>3, <3>4
  <2> QED
    BY <2>9
<1> HIDE DEF upto
<1>6. \A n \in 1 .. N : Nth(n) \in stay /\ Cardinality(upto(Nth(n))) = n
  BY <1>5
<1>7. \A m \in stay : Nth(Cardinality(upto(m))) = m
  <2> TAKE m \in stay
  <2> DEFINE k == Nth(Cardinality(upto(m)))
  <2>1. k \in stay /\ Cardinality(upto(k)) = Cardinality(upto(m))
    BY <1>3, <1>6
  <2> HIDE DEF k
  <2>2. k \in Nat /\ m \in Nat
    BY <2>1, <1>1
  <2>3. ~(k < m) /\ ~(m < k)
    BY <1>4, <2>1
  <2> QED
    BY <2>2, <2>3 DEF k
<1>8. Left(q, stay) = [n \in 1 .. N |-> q[Nth(n)]]
  BY DEF Left, upto
<1> HIDE DEF N, Nth
<1>9. Left(q, stay) \in Seq(Sudog)
  <2>1. \A n \in 1 .. N : q[Nth(n)] \in Sudog
    BY <1>6
  <2> QED
    BY <1>1, <1>8, <2>1
<1>10. ToSet(Left(q, stay)) = {q[n] : n \in stay}
  BY <1>3, <1>6, <1>7, <1>8 DEF ToSet
<1>11. Distinct(q) => Distinct(Left(q, stay))
  <2> SUFFICES ASSUME Distinct(q), NEW m \in 1 .. N, NEW n \in 1 .. N, q[Nth(m)] = q[Nth(n)]
               PROVE  m = n
    BY <1>8 DEF Distinct
  <2> QED
    BY <1>6 DEF Distinct
<1> QED
  BY <1>9, <1>10, <1>11

LEMMA SetToSeqFacts ==
  ASSUME NEW S \in SUBSET Sudog, IsFiniteSet(S)
  PROVE  SetToSeq(S) \in Seq(Sudog) /\ Distinct(SetToSeq(S)) /\ ToSet(SetToSeq(S)) = S
<1> DEFINE N == Cardinality(S)
           f == SetToSeq(S)
<1>1. N \in Nat /\ ExistsBijection(1 .. N, S)
  BY FS_CardinalityType
<1>2. PICK b \in [1 .. N -> S] : IsInjective(b)
  BY <1>1 DEF ExistsBijection, Bijection, Injection, IsInjective
<1>3. f \in [1 .. N -> S] /\ IsInjective(f)
  BY <1>2 DEF SetToSeq
<1> HIDE DEF f
<1>4. f \in Surjection(1 .. N, S)
  <2>1. f \in Injection(1 .. N, S)
    BY <1>3 DEF Injection, IsInjective
  <2>2. Cardinality(1 .. N) = Cardinality(S)
    BY <1>1, FS_Interval
  <2> QED
    BY <2>1, <2>2, FS_Injection
<1>5. f \in Seq(Sudog) /\ DOMAIN f = 1 .. N
  BY <1>1, <1>3
<1>6. ToSet(f) = S
  BY <1>3, <1>4 DEF Surjection, ToSet
<1> QED
  BY <1>3, <1>5, <1>6 DEF f, Distinct, IsInjective

LEMMA JoinFacts ==
  ASSUME NEW q \in Seq(Sudog), NEW r \in Seq(Sudog)
  PROVE  /\ q \o r \in Seq(Sudog)
         /\ ToSet(q \o r) = ToSet(q) \cup ToSet(r)
         /\ Distinct(q) /\ Distinct(r) /\ ToSet(q) \cap ToSet(r) = {} => Distinct(q \o r)
<1> DEFINE t == q \o r
<1>1. /\ t \in Seq(Sudog) /\ DOMAIN t = 1 .. Len(q) + Len(r)
      /\ \A n \in 1 .. Len(q) : t[n] = q[n]
      /\ \A n \in DOMAIN t : n > Len(q) => n - Len(q) \in 1 .. Len(r) /\ t[n] = r[n - Len(q)]
      /\ \A n \in 1 .. Len(r) : n + Len(q) \in DOMAIN t /\ t[n + Len(q)] = r[n]
  OBVIOUS
<1>2. DOMAIN q = 1 .. Len(q) /\ DOMAIN r = 1 .. Len(r) /\ Len(q) \in Nat /\ Len(r) \in Nat
  OBVIOUS
<1> HIDE DEF t
<1>3. ToSet(t) = ToSet(q) \cup ToSet(r)
  <2>1. \A x \in ToSet(t) : x \in ToSet(q) \cup ToSet(r)
    BY <1>1, <1>2 DEF ToSet
  <2>2. \A x \in ToSet(q) : x \in ToSet(t)
    BY <1>1, <1>2 DEF ToSet
  <2>3. \A x \in ToSet(r) : x \in ToSet(t)
    BY <1>1, <1>2 DEF ToSet
  <2> QED
    BY <2>1, <2>2, <2>3
<1>4. ASSUME Distinct(q), Distinct(r), ToSet(q) \cap ToSet(r) = {} PROVE Distinct(t)
  <2> SUFFICES ASSUME NEW m \in DOMAIN t, NEW n \in DOMAIN t, t[m] = t[n] PROVE m = n
    BY DEF Distinct
  <2>1. m \in Nat /\ n \in Nat
    BY <1>1, <1>2
  <2>2. CASE m <= Len(q) /\ n <= Len(q)
    <3>1. m \in DOMAIN q /\ n \in DOMAIN q /\ q[m] = q[n]
      BY <1>1, <1>2, <2>1, <2>2
    <3> QED
      BY <1>4, <3>1 DEF Distinct
  <2>3. CASE m > Len(q) /\ n > Len(q)
    <3>1. r[m - Len(q)] = r[n - Len(q)]
      BY <1>1, <2>3
    <3>2. m - Len(q) = n - Len(q)
      BY <1>1, <1>2, <1>4, <2>3, <3>1 DEF Distinct
    <3> QED
      BY <3>2, <2>1, <1>2
  <2>4. \A i, j \in DOMAIN t : i <= Len(q) /\ j > Len(q) => t[i] # t[j]
    <3> SUFFICES ASSUME NEW i \in DOMAIN t, NEW j \in DOMAIN t, i <= Len(q), j > Len(q)
                 PROVE  t[i] # t[j]
      OBVIOUS
    <3>1. i \in 1 .. Len(q) /\ t[i] = q[i]
      BY <1>1, <1>2
    <3>2. t[i] \in ToSet(q)
      BY <3>1, <1>2 DEF ToSet
    <3>3. t[j] \in ToSet(r)
      BY <1>1, <1>2 DEF ToSet
    <3> QED
      BY <1>4, <3>2, <3>3
  <2> QED
    BY <1>2, <2>1, <2>2, <2>3, <2>4
<1> QED
  BY <1>1, <1>3, <1>4 DEF t

(* A list of wakeups with one more at its head.                            *)
LEMMA PushFacts ==
  ASSUME NEW s \in Seq(Wakeup), NEW w \in Wakeup
  PROVE  /\ <<w>> \o s \in Seq(Wakeup) /\ <<w>> \o s # <<>>
         /\ DOMAIN (<<w>> \o s) = 1 .. Len(s) + 1 /\ (<<w>> \o s)[1] = w
         /\ \A n \in DOMAIN (<<w>> \o s) : n # 1 =>
              n - 1 \in DOMAIN s /\ (<<w>> \o s)[n] = s[n - 1]
         /\ \A n \in DOMAIN s : n + 1 \in DOMAIN (<<w>> \o s) /\ (<<w>> \o s)[n + 1] = s[n]
  OBVIOUS

LEMMA EmptyFacts ==
  /\ <<>> \in Seq(Sudog) /\ ToSet(<<>>) = {} /\ Distinct(<<>>)
  /\ \A q \in Seq(Sudog) : ToSet(q) = {} <=> q = <<>>
  /\ \A q \in Seq(Sudog) : ToSet(q) \subseteq Sudog
<1>1. <<>> \in Seq(Sudog) /\ DOMAIN <<>> = {}
  OBVIOUS
<1>2. ToSet(<<>>) = {} /\ Distinct(<<>>)
  BY <1>1 DEF ToSet, Distinct
<1>3. \A q \in Seq(Sudog) : ToSet(q) = {} => q = <<>>
  <2> SUFFICES ASSUME NEW q \in Seq(Sudog), ToSet(q) = {} PROVE q = <<>>
    OBVIOUS
  <2>1. Len(q) \in Nat /\ DOMAIN q = 1 .. Len(q)
    OBVIOUS
  <2>2. 1 \notin DOMAIN q
    BY DEF ToSet
  <2> QED
    BY <2>1, <2>2
<1>4. \A q \in Seq(Sudog) : ToSet(q) \subseteq Sudog
  BY DEF ToSet
<1> QED
  BY <1>1, <1>2, <1>3, <1>4

-----------------------------------------------------------------------------
(* waitq.dequeue.                                                          *)

LEMMA DequeuedFacts ==
  ASSUME NEW q \in Seq(Sudog)
  PROVE  /\ Waiting(q) =>
              /\ Dequeued(q) \in DOMAIN q /\ Free(q[Dequeued(q)])
              /\ \A n \in DOMAIN q : n < Dequeued(q) => ~Free(q[n])
         /\ ~Waiting(q) => \A n \in DOMAIN q : ~Free(q[n])
<1> DEFINE I == {n \in 1 .. Len(q) : Free(q[n])}
<1>1. Dequeued(q) = IF I # {} THEN Min(I) ELSE 0
  BY DEF Dequeued, SelectInSeq
<1>2. I \in SUBSET Nat /\ DOMAIN q = 1 .. Len(q) /\ Len(q) \in Nat
  OBVIOUS
<1>3. CASE I # {}
  <2>1. Dequeued(q) \in I /\ \A n \in I : Dequeued(q) <= n
    BY <1>1, <1>2, <1>3, Least
  <2>2. Waiting(q) /\ Dequeued(q) \in DOMAIN q /\ Free(q[Dequeued(q)])
    BY <2>1 DEF Waiting
  <2>3. ASSUME NEW n \in DOMAIN q, n < Dequeued(q) PROVE ~Free(q[n])
    BY <1>2, <2>1, <2>3
  <2> QED
    BY <2>2, <2>3
<1>4. CASE I = {}
  BY <1>1, <1>2, <1>4 DEF Waiting
<1> QED
  BY <1>3, <1>4

(* r is q without sudogs that nobody needs and those of W.                 *)
Sheds(q, r, W) ==
  /\ r \in Seq(Sudog) /\ Distinct(r) /\ ToSet(r) \subseteq ToSet(q)
  /\ \A x \in ToSet(q) \ W : Free(x) => x \in ToSet(r)

LEMMA AfterDequeueType ==
  ASSUME NEW q \in Seq(Sudog) PROVE AfterDequeue(q) \in Seq(Sudog)
<1>1. CASE Waiting(q)
  <2>1. Dequeued(q) \in 1 .. Len(q) /\ Len(q) \in Nat
    BY <1>1, DequeuedFacts
  <2>2. SubSeq(q, Dequeued(q) + 1, Len(q)) \in Seq(Sudog)
    BY <2>1
  <2> QED
    BY <1>1, <2>2 DEF AfterDequeue
<1> QED
  BY <1>1, EmptyFacts DEF AfterDequeue

LEMMA DequeueNone ==
  ASSUME NEW q \in Seq(Sudog), ~Waiting(q)
  PROVE  AfterDequeue(q) = <<>> /\ Sheds(q, <<>>, {})
<1>1. \A x \in ToSet(q) : ~Free(x)
  BY DequeuedFacts DEF ToSet
<1> QED
  BY <1>1, EmptyFacts DEF Sheds, AfterDequeue

LEMMA DequeueOne ==
  ASSUME NEW q \in Seq(Sudog), Distinct(q), Waiting(q)
  PROVE  LET x == q[Dequeued(q)] IN
         /\ x \in Sudog /\ x \in ToSet(q) /\ Free(x)
         /\ x \notin ToSet(AfterDequeue(q))
         /\ Sheds(q, AfterDequeue(q), {x})
<1> DEFINE d == Dequeued(q)
           r == AfterDequeue(q)
<1>1. d \in 1 .. Len(q) /\ Free(q[d]) /\ (\A n \in DOMAIN q : n < d => ~Free(q[n]))
  BY DequeuedFacts
<1>2. r = SubSeq(q, d + 1, Len(q))
  BY DEF AfterDequeue
<1> HIDE DEF d, r
<1>3. Len(q) \in Nat /\ d \in Nat /\ DOMAIN q = 1 .. Len(q)
  BY <1>1
<1>4. r \in Seq(Sudog) /\ DOMAIN r = 1 .. Len(q) - d
  BY <1>1, <1>2, <1>3
<1>5. \A n \in DOMAIN r : n + d \in DOMAIN q /\ n + d > d /\ r[n] = q[n + d]
  BY <1>1, <1>2, <1>3, <1>4
<1>6. \A n \in DOMAIN q : n > d => n - d \in DOMAIN r /\ r[n - d] = q[n]
  <2> SUFFICES ASSUME NEW n \in DOMAIN q, n > d PROVE n - d \in DOMAIN r /\ r[n - d] = q[n]
    OBVIOUS
  <2>1. n - d \in DOMAIN r /\ (n - d) + d = n
    BY <1>3, <1>4
  <2> QED
    BY <1>5, <2>1
<1>7. ToSet(r) \subseteq ToSet(q)
  BY <1>5 DEF ToSet
<1>8. Distinct(r)
  <2> SUFFICES ASSUME NEW m \in DOMAIN r, NEW n \in DOMAIN r, r[m] = r[n] PROVE m = n
    BY DEF Distinct
  <2>1. m + d = n + d
    BY <1>5 DEF Distinct
  <2> QED
    BY <2>1, <1>3, <1>4
<1>9. q[d] \notin ToSet(r)
  <2> SUFFICES ASSUME NEW n \in DOMAIN r, r[n] = q[d] PROVE FALSE
    BY DEF ToSet
  <2>1. n + d = d
    BY <1>1, <1>3, <1>5 DEF Distinct
  <2> QED
    BY <2>1, <1>3, <1>5
<1>10. \A x \in ToSet(q) \ {q[d]} : Free(x) => x \in ToSet(r)
  <2> SUFFICES ASSUME NEW n \in DOMAIN q, q[n] # q[d], Free(q[n]) PROVE q[n] \in ToSet(r)
    BY DEF ToSet
  <2>1. n \in Nat /\ ~(n < d) /\ n # d
    BY <1>1, <1>3
  <2>2. n > d
    BY <2>1, <1>3
  <2> QED
    BY <2>2, <1>6 DEF ToSet
<1>11. q[d] \in Sudog /\ q[d] \in ToSet(q)
  BY <1>1, <1>3 DEF ToSet
<1> QED
  BY <1>1, <1>4, <1>7, <1>8, <1>9, <1>10, <1>11 DEF Sheds, d, r

LEMMA ShedsNothing ==
  ASSUME NEW q \in Seq(Sudog), Distinct(q), NEW W
  PROVE  Sheds(q, q, W)
  BY DEF Sheds

-----------------------------------------------------------------------------
(* Channels.                                                               *)

(* The queues of a state are sequences without repetitions.                *)
LEMMA Queue ==
  ASSUME TypeOK, NEW c \in C, NEW s \in BOOLEAN
  PROVE  /\ QueueOf(ch, c, s) \in Seq(Sudog)
         /\ QueueInv => Distinct(QueueOf(ch, c, s))
  BY DEF TypeOK, Hchan, QueueOf, QueueInv

LEMMA CallFacts ==
  ASSUME TypeOK, NEW g \in G, NEW i \in Cases(g)
  PROVE  /\ op[g] \in Ops /\ i \in DOMAIN op[g].cases /\ i \in Nat \ {0}
         /\ ChanOf(g, i) \in C /\ Sends(g, i) \in BOOLEAN
         /\ op[g].cases[i].val \in Value
<1>1. op[g] \in Ops /\ i \in DOMAIN op[g].cases
  BY DEF TypeOK, Cases
<1> QED
  BY <1>1, OpsAssumption DEF ChanOf, Sends, Value

LEMMA StepIndex ==
  ASSUME NEW c \in C, Cap[c] # 0, NEW x \in 0 .. Cap[c] - 1
  PROVE  Step(x, c) \in 0 .. Cap[c] - 1
  BY ChanAssumption DEF Step

LEMMA PutFacts ==
  ASSUME NEW c \in C, NEW h \in Hchan(c), NEW v \in Value, h.qcount < Cap[c]
  PROVE  LET k == Put(h, c, v) IN
         /\ k \in Hchan(c) /\ k.qcount = h.qcount + 1
         /\ k.recvq = h.recvq /\ k.sendq = h.sendq /\ k.closed = h.closed
<1>1. h.qcount \in 0 .. Cap[c] /\ Cap[c] \in Nat /\ Cap[c] # 0
  BY ChanAssumption DEF Hchan
<1>2. h.sendx \in 0 .. Cap[c] - 1 /\ Step(h.sendx, c) \in 0 .. Cap[c] - 1
  BY <1>1, StepIndex DEF Hchan
<1>3. h.qcount + 1 \in 0 .. Cap[c]
  BY <1>1
<1> QED
  BY <1>1, <1>2, <1>3 DEF Put, Hchan

LEMMA GetFacts ==
  ASSUME NEW c \in C, NEW h \in Hchan(c), h.qcount > 0
  PROVE  LET k == Get(h, c) IN
         /\ k \in Hchan(c) /\ k.qcount = h.qcount - 1
         /\ k.recvq = h.recvq /\ k.sendq = h.sendq /\ k.closed = h.closed
<1>1. h.qcount \in 0 .. Cap[c] /\ Cap[c] \in Nat /\ Cap[c] # 0
  BY ChanAssumption DEF Hchan
<1>2. h.recvx \in 0 .. Cap[c] - 1 /\ Step(h.recvx, c) \in 0 .. Cap[c] - 1
  BY <1>1, StepIndex DEF Hchan
<1>3. h.qcount - 1 \in 0 .. Cap[c] /\ Zero \in Value
  BY <1>1 DEF Value
<1> QED
  BY <1>1, <1>2, <1>3 DEF Get, Hchan

LEMMA ExchangeFacts ==
  ASSUME NEW c \in C, NEW h \in Hchan(c), NEW v \in Value, Cap[c] # 0
  PROVE  LET k == Exchange(h, c, v) IN
         /\ k \in Hchan(c) /\ k.qcount = h.qcount
         /\ k.recvq = h.recvq /\ k.sendq = h.sendq /\ k.closed = h.closed
<1>1. Cap[c] \in Nat
  BY ChanAssumption
<1>2. h.recvx \in 0 .. Cap[c] - 1 /\ Step(h.recvx, c) \in 0 .. Cap[c] - 1
  BY <1>1, StepIndex DEF Hchan
<1> QED
  BY <1>1, <1>2 DEF Exchange, Hchan

(* What polling the cases I, in vain, has done to the queues: it has       *)
(* dropped whole queues in which nobody waits any more.                    *)
PolledFrom(h, g, I) ==
  /\ DOMAIN h = C
  /\ \A c \in C :
       /\ h[c] \in Hchan(c)
       /\ h[c].qcount = ch[c].qcount /\ h[c].closed = ch[c].closed
       /\ h[c].buf = ch[c].buf
       /\ \A s \in BOOLEAN :
            LET q == QueueOf(ch, c, s) IN
            /\ QueueOf(h, c, s) = q \/ (QueueOf(h, c, s) = <<>> /\ ~Waiting(q))
            /\ On(g, I, c, ~s) # {} => QueueOf(h, c, s) = <<>>

LEMMA PolledFacts ==
  ASSUME TypeOK, NEW g \in G, NEW I \in SUBSET Cases(g),
         \A i \in I : ~CanProceed(g, i)
  PROVE  PolledFrom(Polled(g, I), g, I)
<1> SUFFICES ASSUME NEW c \in C
             PROVE  LET h == Polled(g, I) IN
                    /\ h[c] \in Hchan(c)
                    /\ h[c].qcount = ch[c].qcount /\ h[c].closed = ch[c].closed
                    /\ h[c].buf = ch[c].buf
                    /\ \A s \in BOOLEAN :
                         LET q == QueueOf(ch, c, s) IN
                         /\ QueueOf(h, c, s) = q \/ (QueueOf(h, c, s) = <<>> /\ ~Waiting(q))
                         /\ On(g, I, c, ~s) # {} => QueueOf(h, c, s) = <<>>
  BY DEF PolledFrom, Polled
<1> DEFINE left(s) == IF On(g, I, c, ~s) = {} THEN QueueOf(ch, c, s) ELSE <<>>
<1>1. ch[c] \in Hchan(c)
  BY DEF TypeOK
<1>2. ASSUME NEW s \in BOOLEAN, On(g, I, c, ~s) # {}
      PROVE  ~Waiting(QueueOf(ch, c, s)) /\ AfterDequeue(QueueOf(ch, c, s)) = <<>>
  <2>1. PICK i \in I : ChanOf(g, i) = c /\ Sends(g, i) = ~s
    BY <1>2 DEF On
  <2>2. ~Waiting(QueueOf(ch, c, s))
    BY <2>1 DEF CanProceed, QueueOf
  <2> QED
    BY <2>2, Queue, DequeueNone
<1>3. \A s \in BOOLEAN : left(s) \in Seq(Sudog)
  BY Queue, EmptyFacts
<1>4. left(TRUE) = IF On(g, I, c, FALSE) = {} THEN ch[c].sendq ELSE AfterDequeue(ch[c].sendq)
  BY <1>2 DEF QueueOf
<1>5. left(FALSE) = IF On(g, I, c, TRUE) = {} THEN ch[c].recvq ELSE AfterDequeue(ch[c].recvq)
  BY <1>2 DEF QueueOf
<1> DEFINE h == Polled(g, I)
<1>6. h[c] = [ch[c] EXCEPT !.recvq = left(FALSE), !.sendq = left(TRUE)]
  BY <1>1, <1>4, <1>5 DEF Polled
<1> HIDE DEF left, h
<1>7. /\ h[c] \in Hchan(c) /\ h[c].recvq = left(FALSE) /\ h[c].sendq = left(TRUE)
      /\ h[c].qcount = ch[c].qcount /\ h[c].closed = ch[c].closed /\ h[c].buf = ch[c].buf
  <2>1. left(FALSE) \in Seq(Sudog) /\ left(TRUE) \in Seq(Sudog)
    BY <1>3
  <2> QED
    BY <1>1, <1>6, <2>1 DEF Hchan
<1>8. \A s \in BOOLEAN : QueueOf(h, c, s) = left(s)
  BY <1>7 DEF QueueOf
<1>9. \A s \in BOOLEAN :
        LET q == QueueOf(ch, c, s) IN
        /\ QueueOf(h, c, s) = q \/ (QueueOf(h, c, s) = <<>> /\ ~Waiting(q))
        /\ On(g, I, c, ~s) # {} => QueueOf(h, c, s) = <<>>
  <2> TAKE s \in BOOLEAN
  <2>1. CASE On(g, I, c, ~s) = {}
    BY <1>8, <2>1 DEF left
  <2>2. CASE On(g, I, c, ~s) # {}
    <3>1. ~Waiting(QueueOf(ch, c, s))
      BY <1>2, <2>2
    <3>2. QueueOf(h, c, s) = <<>>
      BY <1>8, <2>2 DEF left
    <3> QED
      BY <3>1, <3>2
  <2> QED
    BY <2>1, <2>2
<1> QED
  BY <1>7, <1>9 DEF h

(* The sudogs of g for one queue.                                          *)
LEMMA SudogsFacts ==
  ASSUME TypeOK, NEW g \in G, op[g] \in Ops, NEW c \in C, NEW s \in BOOLEAN
  PROVE  /\ Sudogs(g, c, s) \in Seq(Sudog) /\ Distinct(Sudogs(g, c, s))
         /\ ToSet(Sudogs(g, c, s)) = {[g |-> g, case |-> i] : i \in On(g, Cases(g), c, s)}
<1> DEFINE I == On(g, Cases(g), c, s)
           S == {[g |-> g, case |-> i] : i \in I}
<1>1. I \in SUBSET (1 .. Len(op[g].cases)) /\ Len(op[g].cases) \in Nat
  BY OpsAssumption, ChanAssumption DEF On, Cases
<1>2. IsFiniteSet(I) /\ I \subseteq Nat \ {0}
  <2>1. IsFiniteSet(1 .. Len(op[g].cases))
    BY <1>1, FS_Interval
  <2> HIDE DEF I
  <2>2. I \subseteq Nat \ {0}
    BY <1>1
  <2> QED
    BY <1>1, <2>1, <2>2, FS_Subset
<1>3. S \in SUBSET Sudog
  BY <1>2 DEF Sudog
<1>4. IsFiniteSet(S)
  <2> DEFINE f == [i \in I |-> [g |-> g, case |-> i]]
  <2>1. f \in Surjection(I, S)
    BY DEF Surjection
  <2> HIDE DEF I, S, f
  <2> QED
    BY <1>2, <2>1, FS_Surjection
<1>5. Sudogs(g, c, s) = SetToSeq(S)
  BY DEF Sudogs
<1> HIDE DEF S
<1>6. SetToSeq(S) \in Seq(Sudog) /\ Distinct(SetToSeq(S)) /\ ToSet(SetToSeq(S)) = S
  BY <1>3, <1>4, SetToSeqFacts
<1> QED
  BY <1>5, <1>6 DEF S

-----------------------------------------------------------------------------
(* What a communication does: to the queues, to the counts and the closed  *)
(* flags, and to the goroutine that it wins.                               *)
Thins(W) ==
  /\ DOMAIN ch' = C
  /\ \A c \in C : ch'[c] \in Hchan(c)
  /\ \A c \in C, s \in BOOLEAN : Sheds(QueueOf(ch, c, s), QueueOf(ch', c, s), W)

Counts ==
  \A c \in C :
    /\ ch'[c].closed = ch[c].closed
    /\ ch'[c].qcount > 0 => ch[c].qcount > 0 \/ ch'[c].recvq = <<>>
    /\ ch'[c].qcount < Cap[c] => ch[c].qcount < Cap[c] \/ ch'[c].sendq = <<>>

Wins(g, x, success) ==
  /\ x \in Sudog /\ Free(x)
  /\ selectDone' = [selectDone EXCEPT ![x.g] = Selects(x.g)]
  /\ wake' = [wake EXCEPT ![g] = <<[sg |-> x, success |-> success]>> \o @]
  /\ elem' \in [G -> Value]
  /\ \E c \in C, s \in BOOLEAN :
       /\ x \in ToSet(QueueOf(ch, c, s)) /\ x \notin ToSet(QueueOf(ch', c, s))
       /\ success \/ ch'[c].closed

Nobody == UNCHANGED <<selectDone, wake, elem>>

(* From the polled channels, the queue s of c changes to r.                *)
LEMMA ThinsOne ==
  ASSUME TypeOK, QueueInv, NEW h, NEW g, NEW I, PolledFrom(h, g, I), NEW W,
         NEW c \in C, NEW s \in BOOLEAN,
         DOMAIN ch' = C, \A d \in C \ {c} : ch'[d] = h[d], ch'[c] \in Hchan(c),
         QueueOf(ch', c, ~s) = QueueOf(h, c, ~s),
         Sheds(QueueOf(h, c, s), QueueOf(ch', c, s), W)
  PROVE  Thins(W)
<1>1. \A d \in C : ch'[d] \in Hchan(d)
  BY DEF PolledFrom
<1>2. ASSUME NEW d \in C, NEW t \in BOOLEAN PROVE Sheds(QueueOf(ch, d, t), QueueOf(h, d, t), W)
  <2>1. QueueOf(ch, d, t) \in Seq(Sudog) /\ Distinct(QueueOf(ch, d, t))
    BY Queue
  <2>2. CASE QueueOf(h, d, t) = QueueOf(ch, d, t)
    BY <2>1, <2>2, ShedsNothing
  <2>3. CASE QueueOf(h, d, t) = <<>> /\ ~Waiting(QueueOf(ch, d, t))
    BY <2>1, <2>3, DequeueNone DEF Sheds
  <2> QED
    BY <2>2, <2>3 DEF PolledFrom
<1>3. ASSUME NEW d \in C, NEW t \in BOOLEAN
      PROVE  Sheds(QueueOf(ch, d, t), QueueOf(ch', d, t), W)
  <2>1. CASE d = c /\ t = s
    BY <1>2, <2>1 DEF Sheds
  <2>2. CASE d = c /\ t = ~s
    BY <1>2, <2>2
  <2>3. CASE d # c
    BY <1>2, <2>3 DEF QueueOf
  <2> QED
    BY <2>1, <2>2, <2>3
<1> QED
  BY <1>1, <1>3 DEF Thins

(* A communication that takes the first one waiting in the queue s of c.   *)
LEMMA TakesOne ==
  ASSUME TypeOK, QueueInv, NEW h, NEW g, NEW I, PolledFrom(h, g, I),
         NEW c \in C, NEW s \in BOOLEAN, Waiting(QueueOf(h, c, s)),
         DOMAIN ch' = C, \A d \in C \ {c} : ch'[d] = h[d], ch'[c] \in Hchan(c),
         QueueOf(ch', c, ~s) = QueueOf(h, c, ~s),
         QueueOf(ch', c, s) = AfterDequeue(QueueOf(h, c, s)),
         ch'[c].qcount = ch[c].qcount, ch'[c].closed = ch[c].closed
  PROVE  LET x == QueueOf(h, c, s)[Dequeued(QueueOf(h, c, s))] IN
         /\ Thins({x}) /\ Counts /\ x \in Sudog /\ Free(x)
         /\ x \in ToSet(QueueOf(ch, c, s)) /\ x \notin ToSet(QueueOf(ch', c, s))
<1> DEFINE q == QueueOf(h, c, s)
           x == q[Dequeued(q)]
<1>1. q \in Seq(Sudog) /\ Distinct(q) /\ ToSet(q) \subseteq ToSet(QueueOf(ch, c, s))
  <2>1. q = QueueOf(ch, c, s) \/ q = <<>>
    BY DEF PolledFrom
  <2> QED
    BY <2>1, Queue, EmptyFacts
<1>2. /\ x \in Sudog /\ x \in ToSet(q) /\ Free(x) /\ x \notin ToSet(QueueOf(ch', c, s))
      /\ Sheds(q, QueueOf(ch', c, s), {x})
  BY <1>1, DequeueOne
<1> HIDE DEF x
<1>3. Thins({x})
  BY <1>2, ThinsOne
<1>4. Counts
  BY DEF Counts, PolledFrom
<1> QED
  BY <1>1, <1>2, <1>3, <1>4 DEF x

(* A communication that finds nobody waiting in the queue s of c.          *)
LEMMA TakesNone ==
  ASSUME TypeOK, QueueInv, NEW h, NEW g, NEW I, PolledFrom(h, g, I),
         NEW c \in C, NEW s \in BOOLEAN, ~Waiting(QueueOf(h, c, s)),
         DOMAIN ch' = C, \A d \in C \ {c} : ch'[d] = h[d], ch'[c] \in Hchan(c),
         QueueOf(ch', c, ~s) = QueueOf(h, c, ~s), QueueOf(ch', c, s) = <<>>
  PROVE  Thins({})
<1>1. QueueOf(h, c, s) \in Seq(Sudog)
  BY Queue, EmptyFacts DEF PolledFrom
<1>2. Sheds(QueueOf(h, c, s), QueueOf(ch', c, s), {})
  BY <1>1, DequeueNone
<1> QED
  BY <1>2, ThinsOne

(* ... or that leaves the queues alone.                                    *)
LEMMA TakesNothing ==
  ASSUME TypeOK, QueueInv, NEW h, NEW g, NEW I, PolledFrom(h, g, I), ch' = h
  PROVE  Thins({}) /\ Counts
<1>1. ASSUME NEW c \in C, NEW s \in BOOLEAN PROVE Sheds(QueueOf(ch, c, s), QueueOf(h, c, s), {})
  <2>1. QueueOf(ch, c, s) \in Seq(Sudog) /\ Distinct(QueueOf(ch, c, s))
    BY Queue
  <2>2. CASE QueueOf(h, c, s) = QueueOf(ch, c, s)
    BY <2>1, <2>2, ShedsNothing
  <2>3. CASE QueueOf(h, c, s) = <<>> /\ ~Waiting(QueueOf(ch, c, s))
    BY <2>1, <2>3, DequeueNone
  <2> QED
    BY <2>2, <2>3 DEF PolledFrom
<1> QED
  BY <1>1 DEF Thins, Counts, PolledFrom

Outcomes(g) ==
  \/ Thins({}) /\ Counts /\ Nobody
  \/ \E x \in Sudog : Thins({x}) /\ Counts /\ Wins(g, x, TRUE)

LEMMA SendDirectFacts ==
  ASSUME TypeOK, QueueInv, NEW g \in G, wake[g] = <<>>, NEW i \in Cases(g),
         NEW h, NEW I, PolledFrom(h, g, I), SendDirect(g, i, h)
  PROVE  Outcomes(g)
<1> DEFINE c == ChanOf(g, i)
           q == QueueOf(h, c, FALSE)
           x == q[Dequeued(q)]
<1>1. c \in C /\ op[g].cases[i].val \in Value
  BY CallFacts
<1>2. q = h[c].recvq /\ h[c] \in Hchan(c) /\ q \in Seq(Sudog) /\ DOMAIN h = C
  BY <1>1 DEF QueueOf, PolledFrom, Hchan
<1>3. ch' = [h EXCEPT ![c].recvq = AfterDequeue(q)] /\ Waiting(q)
  BY <1>2 DEF SendDirect
<1>4. AfterDequeue(q) \in Seq(Sudog)
  BY <1>2, AfterDequeueType
<1>5. /\ DOMAIN ch' = C /\ (\A d \in C \ {c} : ch'[d] = h[d])
      /\ ch'[c] = [h[c] EXCEPT !.recvq = AfterDequeue(q)]
  BY <1>1, <1>2, <1>3
<1> HIDE DEF c
<1>6. /\ ch'[c] \in Hchan(c) /\ QueueOf(ch', c, TRUE) = QueueOf(h, c, TRUE)
      /\ QueueOf(ch', c, FALSE) = AfterDequeue(q)
      /\ ch'[c].qcount = h[c].qcount /\ ch'[c].closed = h[c].closed
  BY <1>2, <1>4, <1>5 DEF Hchan, QueueOf
<1>7. h[c].qcount = ch[c].qcount /\ h[c].closed = ch[c].closed
  BY <1>1 DEF PolledFrom
<1>8. /\ Thins({x}) /\ Counts /\ x \in Sudog /\ Free(x)
      /\ x \in ToSet(QueueOf(ch, c, FALSE)) /\ x \notin ToSet(QueueOf(ch', c, FALSE))
  BY <1>1, <1>3, <1>5, <1>6, <1>7, TakesOne
<1>9. Wins(g, x, TRUE)
  <2>1. x = h[ChanOf(g, i)].recvq[Dequeued(h[ChanOf(g, i)].recvq)]
    BY <1>2 DEF c
  <2> HIDE DEF x
  <2>2. selectDone' = [selectDone EXCEPT ![x.g] = Selects(x.g)]
    BY <2>1 DEF SendDirect, Win, Selects
  <2>3. wake' = [wake EXCEPT ![g] = <<[sg |-> x, success |-> TRUE]>> \o @]
    <3>1. wake' = [wake EXCEPT ![g] = <<[sg |-> x, success |-> TRUE]>>]
      BY <2>1 DEF SendDirect
    <3>2. <<[sg |-> x, success |-> TRUE]>> \o wake[g] = <<[sg |-> x, success |-> TRUE]>>
      OBVIOUS
    <3> QED
      BY <3>1, <3>2
  <2>4. elem' \in [G -> Value]
    <3>1. elem' = [elem EXCEPT ![x.g] = op[g].cases[i].val]
      BY <2>1 DEF SendDirect
    <3> QED
      BY <3>1, <1>1 DEF TypeOK
  <2> QED
    BY <1>1, <1>8, <2>2, <2>3, <2>4 DEF Wins
<1> HIDE DEF x
<1> QED
  BY <1>8, <1>9 DEF Outcomes

LEMMA SendToBufFacts ==
  ASSUME TypeOK, QueueInv, NEW g \in G, NEW i \in Cases(g),
         NEW h, NEW I, PolledFrom(h, g, I), SendToBuf(g, i, h)
  PROVE  Outcomes(g)
<1> DEFINE c == ChanOf(g, i)
           q == QueueOf(h, c, FALSE)
           v == op[g].cases[i].val
           k == [h[c] EXCEPT !.recvq = AfterDequeue(@)]
<1>1. c \in C /\ v \in Value
  BY CallFacts
<1>2. q = h[c].recvq /\ h[c] \in Hchan(c) /\ q \in Seq(Sudog) /\ DOMAIN h = C
  BY <1>1 DEF QueueOf, PolledFrom, Hchan
<1>3. ch' = [h EXCEPT ![c] = Put(k, c, v)] /\ ~Waiting(q) /\ h[c].qcount < Cap[c] /\ Nobody
  <2>1. ch' = [h EXCEPT ![c] = Put(k, c, v)]
    BY DEF SendToBuf
  <2> QED
    BY <1>2, <2>1 DEF SendToBuf, Nobody
<1>4. AfterDequeue(q) = <<>>
  BY <1>2, <1>3, DequeueNone
<1> HIDE DEF c, v
<1>5. k \in Hchan(c) /\ k.recvq = <<>> /\ k.sendq = h[c].sendq /\ k.qcount = h[c].qcount
      /\ k.closed = h[c].closed
  BY <1>2, <1>4, EmptyFacts DEF Hchan
<1>6. DOMAIN ch' = C /\ (\A d \in C \ {c} : ch'[d] = h[d]) /\ ch'[c] = Put(k, c, v)
  BY <1>1, <1>2, <1>3
<1> HIDE DEF k
<1>7. /\ ch'[c] \in Hchan(c) /\ ch'[c].qcount = h[c].qcount + 1
      /\ ch'[c].recvq = <<>> /\ ch'[c].sendq = h[c].sendq /\ ch'[c].closed = h[c].closed
  BY <1>1, <1>3, <1>5, <1>6, PutFacts
<1>8. QueueOf(ch', c, TRUE) = QueueOf(h, c, TRUE) /\ QueueOf(ch', c, FALSE) = <<>>
  BY <1>7 DEF QueueOf
<1>9. Thins({})
  BY <1>1, <1>3, <1>6, <1>7, <1>8, TakesNone
<1>10. Counts
  <2>1. h[c].qcount \in Nat /\ Cap[c] \in Nat
    BY <1>1, <1>2, ChanAssumption DEF Hchan
  <2> QED
    BY <1>3, <1>6, <1>7, <2>1 DEF Counts, PolledFrom
<1> QED
  BY <1>3, <1>9, <1>10 DEF Outcomes

LEMMA RecvFromBufFacts ==
  ASSUME TypeOK, QueueInv, NEW g \in G, NEW i \in Cases(g),
         NEW h, NEW I, PolledFrom(h, g, I), RecvFromBuf(g, i, h)
  PROVE  Outcomes(g)
<1> DEFINE c == ChanOf(g, i)
           q == QueueOf(h, c, TRUE)
           k == [h[c] EXCEPT !.sendq = AfterDequeue(@)]
<1>1. c \in C
  BY CallFacts
<1>2. q = h[c].sendq /\ h[c] \in Hchan(c) /\ q \in Seq(Sudog) /\ DOMAIN h = C
  BY <1>1 DEF QueueOf, PolledFrom, Hchan
<1>3. ch' = [h EXCEPT ![c] = Get(k, c)] /\ ~Waiting(q) /\ h[c].qcount > 0 /\ Nobody
  <2>1. ch' = [h EXCEPT ![c] = Get(k, c)]
    BY DEF RecvFromBuf
  <2> QED
    BY <1>2, <2>1 DEF RecvFromBuf, Nobody
<1>4. AfterDequeue(q) = <<>>
  BY <1>2, <1>3, DequeueNone
<1> HIDE DEF c
<1>5. k \in Hchan(c) /\ k.sendq = <<>> /\ k.recvq = h[c].recvq /\ k.qcount = h[c].qcount
      /\ k.closed = h[c].closed
  BY <1>2, <1>4, EmptyFacts DEF Hchan
<1>6. DOMAIN ch' = C /\ (\A d \in C \ {c} : ch'[d] = h[d]) /\ ch'[c] = Get(k, c)
  BY <1>1, <1>2, <1>3
<1> HIDE DEF k
<1>7. /\ ch'[c] \in Hchan(c) /\ ch'[c].qcount = h[c].qcount - 1
      /\ ch'[c].sendq = <<>> /\ ch'[c].recvq = h[c].recvq /\ ch'[c].closed = h[c].closed
  BY <1>1, <1>3, <1>5, <1>6, GetFacts
<1>8. QueueOf(ch', c, FALSE) = QueueOf(h, c, FALSE) /\ QueueOf(ch', c, TRUE) = <<>>
  BY <1>7 DEF QueueOf
<1>9. Thins({})
  BY <1>1, <1>3, <1>6, <1>7, <1>8, TakesNone
<1>10. Counts
  <2>1. h[c].qcount \in Nat /\ Cap[c] \in Nat
    BY <1>1, <1>2, ChanAssumption DEF Hchan
  <2> QED
    BY <1>3, <1>6, <1>7, <2>1 DEF Counts, PolledFrom
<1> QED
  BY <1>3, <1>9, <1>10 DEF Outcomes

LEMMA RecvDirectFacts ==
  ASSUME TypeOK, QueueInv, NEW g \in G, wake[g] = <<>>, NEW i \in Cases(g),
         NEW h, NEW I, PolledFrom(h, g, I), RecvDirect(g, i, h)
  PROVE  Outcomes(g)
<1> DEFINE c == ChanOf(g, i)
           q == QueueOf(h, c, TRUE)
           x == q[Dequeued(q)]
           v == op[x.g].cases[x.case].val
           k == [h[c] EXCEPT !.sendq = AfterDequeue(@)]
<1>1. c \in C
  BY CallFacts
<1>2. q = h[c].sendq /\ h[c] \in Hchan(c) /\ q \in Seq(Sudog) /\ DOMAIN h = C
  BY <1>1 DEF QueueOf, PolledFrom, Hchan
<1>3. /\ ch' = [h EXCEPT ![c] = IF Cap[c] = 0 THEN k ELSE Exchange(k, c, v)]
      /\ Waiting(q)
  <2>1. x = h[c].sendq[Dequeued(h[c].sendq)] /\ Waiting(q)
    BY <1>2, ZenonT(40) DEF RecvDirect
  <2>2. ch' = [h EXCEPT ![c] = IF Cap[c] = 0 THEN k ELSE Exchange(k, c, v)]
    BY <2>1 DEF RecvDirect
  <2> QED
    BY <2>1, <2>2, ZenonT(40)
<1>4. AfterDequeue(q) \in Seq(Sudog)
  BY <1>2, AfterDequeueType
<1>5. x \in Sudog /\ x.g \in G /\ v \in Value
  <2>1. x \in Sudog /\ x \in ToSet(q)
    <3>1. Dequeued(q) \in DOMAIN q
      BY <1>2, <1>3, DequeuedFacts
    <3> HIDE DEF q
    <3> QED
      BY <1>2, <3>1 DEF ToSet
  <2>2. q = QueueOf(ch, c, TRUE)
    BY <1>1, <2>1, EmptyFacts DEF PolledFrom
  <2>3. x.g \in G /\ x.case \in Cases(x.g)
    BY <1>1, <2>1, <2>2 DEF Sudog, QueueInv, Belongs
  <2> HIDE DEF x
  <2>4. v \in Value
    BY <2>3, CallFacts
  <2> QED
    BY <2>1, <2>3, <2>4
<1> HIDE DEF c, v
<1>6. k \in Hchan(c) /\ k.sendq = AfterDequeue(q) /\ k.recvq = h[c].recvq
      /\ k.qcount = h[c].qcount /\ k.closed = h[c].closed
  BY <1>2, <1>4 DEF Hchan
<1>7. /\ DOMAIN ch' = C /\ (\A d \in C \ {c} : ch'[d] = h[d])
      /\ ch'[c] = IF Cap[c] = 0 THEN k ELSE Exchange(k, c, v)
  BY <1>1, <1>2, <1>3
<1> HIDE DEF k
<1>8. /\ ch'[c] \in Hchan(c) /\ ch'[c].qcount = h[c].qcount
      /\ ch'[c].sendq = AfterDequeue(q) /\ ch'[c].recvq = h[c].recvq
      /\ ch'[c].closed = h[c].closed
  <2>1. CASE Cap[c] = 0
    BY <1>6, <1>7, <2>1
  <2>2. CASE Cap[c] # 0
    <3>1. ch'[c] = Exchange(k, c, v)
      BY <1>7, <2>2
    <3> HIDE DEF q, x
    <3> QED
      BY <1>1, <1>5, <1>6, <2>2, <3>1, ExchangeFacts
  <2> QED
    BY <2>1, <2>2
<1>9. QueueOf(ch', c, FALSE) = QueueOf(h, c, FALSE) /\ QueueOf(ch', c, TRUE) = AfterDequeue(q)
  BY <1>8 DEF QueueOf
<1>10. h[c].qcount = ch[c].qcount /\ h[c].closed = ch[c].closed
  BY <1>1 DEF PolledFrom
<1>11. /\ Thins({x}) /\ Counts /\ x \in Sudog /\ Free(x)
       /\ x \in ToSet(QueueOf(ch, c, TRUE)) /\ x \notin ToSet(QueueOf(ch', c, TRUE))
  BY <1>1, <1>3, <1>7, <1>8, <1>9, <1>10, TakesOne, ZenonT(40)
<1>12. Wins(g, x, TRUE)
  <2>1. x = h[ChanOf(g, i)].sendq[Dequeued(h[ChanOf(g, i)].sendq)]
    BY <1>2, ZenonT(40) DEF c
  <2> HIDE DEF x
  <2>2. selectDone' = [selectDone EXCEPT ![x.g] = Selects(x.g)]
    BY <2>1 DEF RecvDirect, Win, Selects
  <2>3. wake' = [wake EXCEPT ![g] = <<[sg |-> x, success |-> TRUE]>> \o @]
    <3>1. wake' = [wake EXCEPT ![g] = <<[sg |-> x, success |-> TRUE]>>]
      BY <2>1, ZenonT(40) DEF RecvDirect
    <3>2. <<[sg |-> x, success |-> TRUE]>> \o wake[g] = <<[sg |-> x, success |-> TRUE]>>
      OBVIOUS
    <3> QED
      BY <3>1, <3>2
  <2>4. elem' \in [G -> Value]
    BY DEF RecvDirect, TypeOK
  <2> QED
    BY <1>1, <1>11, <2>2, <2>3, <2>4 DEF Wins
<1> HIDE DEF x
<1> QED
  BY <1>5, <1>11, <1>12 DEF Outcomes

LEMMA CommunicateFacts ==
  ASSUME TypeOK, QueueInv, NEW g \in G, wake[g] = <<>>, NEW i \in Cases(g),
         NEW h, NEW I, PolledFrom(h, g, I), Communicate(g, i, h)
  PROVE  Outcomes(g)
<1>1. CASE ch' = h /\ UNCHANGED <<selectDone, elem, wake>>
  BY <1>1, TakesNothing DEF Outcomes, Nobody
<1> QED
  BY <1>1, SendDirectFacts, SendToBufFacts, RecvDirectFacts, RecvFromBufFacts
  DEF Communicate, Send, RecvClosed

-----------------------------------------------------------------------------
(* Who waits, and for how long.                                            *)

(* In a queue, free means asleep.                                          *)
LEMMA FreeSleeps ==
  ASSUME TypeOK, WonInv, NEW x, x.g \in G
  PROVE  /\ Sleeps(x.g) => Free(x)
         /\ \A c, s : Belongs(x, c, s) /\ Free(x) => Sleeps(x.g)
  BY DEF TypeOK, WonInv, Sleeps, Free, Belongs, Selects

LEMMA QueuedFacts ==
  ASSUME TypeOK, QueueInv, NEW c \in C, NEW s \in BOOLEAN, NEW x \in ToSet(QueueOf(ch, c, s))
  PROVE  /\ x \in Sudog /\ x.g \in G /\ Belongs(x, c, s)
         /\ pc[x.g] \in {"parked", "relock"}
<1>1. x \in Sudog
  BY Queue, EmptyFacts
<1>2. Belongs(x, c, s)
  BY DEF QueueInv
<1> QED
  BY <1>1, <1>2 DEF Sudog, Belongs, Sleeps

LEMMA WakeupFacts ==
  ASSUME TypeOK, WakeInv, NEW h \in G, NEW n \in DOMAIN wake[h]
  PROVE  /\ wake[h][n] \in Wakeup /\ wake[h][n].sg \in Sudog /\ wake[h][n].sg.g \in G
         /\ pc[wake[h][n].sg.g] = "parked" /\ Taken(wake[h][n])
         /\ wake[h][n].sg.case \in Cases(wake[h][n].sg.g)
<1>1. wake[h][n] \in Wakeup
  BY DEF TypeOK
<1> QED
  BY <1>1 DEF Wakeup, Sudog, WakeInv, Taken

(* A step of a goroutine that neither starts nor ends to wait, and that    *)
(* wakes nobody.                                                           *)
LEMMA QuietWaits ==
  ASSUME TypeOK, WaitInv, NEW g \in G,
         {pc[g], pc'[g]} \cap {"parked", "relock"} = {}, param'[g] = None,
         \A h \in G \ {g} : pc'[h] = pc[h] /\ op'[h] = op[h] /\ param'[h] = param[h],
         UNCHANGED <<selectDone, wake>>, Thins({}),
         \A c \in C : ch[c].closed => ch'[c].closed
  PROVE  WaitInv'
<1> USE DEF WaitInv
<1>1. \A k \in G : Woke(k)' <=> Woke(k)
  BY DEF Woke
<1>2. \A k \in G : Sleeps(k)' <=> Sleeps(k)
  BY <1>1 DEF Sleeps
<1>3. \A k \in G \ {g} :
        /\ Cases(k)' = Cases(k) /\ Selects(k)' = Selects(k)
        /\ \A i : ChanOf(k, i)' = ChanOf(k, i) /\ Sends(k, i)' = Sends(k, i)
  BY DEF Cases, Selects, ChanOf, Sends
<1>4. \A c \in C, s \in BOOLEAN :
        ToSet(QueueOf(ch', c, s)) \subseteq ToSet(QueueOf(ch, c, s)) /\ Distinct(QueueOf(ch', c, s))
  BY DEF Thins, Sheds
<1>5. WonInv'
  BY <1>1, <1>3 DEF WonInv
<1>6. ASSUME NEW w \in Wakeup, w.sg.g # g, Taken(w)
      PROVE  Taken(w)'
  <2>1. w.sg.g \in G /\ w.sg.case \in Cases(w.sg.g)
    BY <1>6 DEF Wakeup, Sudog, Taken
  <2>2. ChanOf(w.sg.g, w.sg.case) \in C
    BY <2>1, CallFacts
  <2> QED
    BY <1>3, <1>4, <1>6, <2>1, <2>2 DEF Taken
<1>7. WakeInv'
  <2>1. \A h \in G : \A n \in DOMAIN wake[h] :
          pc'[wake[h][n].sg.g] = "parked" /\ Taken(wake[h][n])'
    <3> SUFFICES ASSUME NEW h \in G, NEW n \in DOMAIN wake[h]
                 PROVE  pc'[wake[h][n].sg.g] = "parked" /\ Taken(wake[h][n])'
      OBVIOUS
    <3>1. /\ wake[h][n] \in Wakeup /\ wake[h][n].sg.g \in G /\ Taken(wake[h][n])
          /\ pc[wake[h][n].sg.g] = "parked"
      BY WakeupFacts
    <3> DEFINE w == wake[h][n]
    <3>2. wake'[h][n] = w
      OBVIOUS
    <3> HIDE DEF w
    <3> QED
      BY <1>6, <3>1, <3>2 DEF w
  <2>2. \A k \in G : param'[k] # None => param'[k].sg.g = k /\ Taken(param[k])'
    <3> SUFFICES ASSUME NEW k \in G, param'[k] # None
                 PROVE  param'[k].sg.g = k /\ Taken(param[k])'
      OBVIOUS
    <3>1. k # g /\ param[k] # None /\ param'[k] = param[k]
      OBVIOUS
    <3>2. param[k] \in Wakeup /\ param[k].sg.g = k /\ Taken(param[k])
      BY <3>1 DEF TypeOK, WakeInv
    <3> QED
      BY <1>6, <3>1, <3>2
  <2> QED
    BY <2>1, <2>2 DEF WakeInv
<1>8. ASSUME NEW c \in C, NEW s \in BOOLEAN, NEW x \in ToSet(QueueOf(ch', c, s))
      PROVE  Belongs(x, c, s)'
  <2>1. x \in ToSet(QueueOf(ch, c, s))
    BY <1>4
  <2>2. x \in Sudog /\ x.g \in G \ {g} /\ Belongs(x, c, s)
    BY <2>1, QueuedFacts, ZenonT(40)
  <2> QED
    BY <1>2, <1>3, <2>2 DEF Belongs
<1>9. QueueInv'
  BY <1>4, <1>8 DEF QueueInv
<1>10. AsleepInv'
  <2>0. \A k \in G : Sleeps(k) => k # g
    BY DEF Sleeps
  <2> SUFFICES ASSUME NEW k \in G, Sleeps(k), NEW i \in Cases(k)
               PROVE  [g |-> k, case |-> i]
                        \in ToSet(QueueOf(ch', ChanOf(k, i), Sends(k, i)))
    BY <1>2, <1>3, <2>0 DEF AsleepInv
  <2> DEFINE x == [g |-> k, case |-> i]
  <2>1. x \in ToSet(QueueOf(ch, ChanOf(k, i), Sends(k, i)))
    BY DEF AsleepInv
  <2>2. Free(x)
    BY FreeSleeps
  <2>3. ChanOf(k, i) \in C /\ Sends(k, i) \in BOOLEAN
    BY CallFacts
  <2> HIDE DEF x
  <2> QED
    BY <2>1, <2>2, <2>3 DEF Thins, Sheds, x
<1> QED
  BY <1>5, <1>7, <1>9, <1>10

(* A step of g that takes x out of a queue: x.g has slept, and is woken.   *)
LEMMA WinWaits ==
  ASSUME TypeOK, WaitInv, CallInv, NEW g \in G, NEW x \in Sudog, NEW b \in BOOLEAN,
         {pc[g], pc'[g]} \cap {"parked", "relock"} = {},
         \A h \in G \ {g} : pc'[h] = pc[h],
         UNCHANGED <<op, param>>, Thins({x}), Wins(g, x, b),
         \A c \in C : ch[c].closed => ch'[c].closed
  PROVE  WaitInv'
<1> USE DEF WaitInv
<1> DEFINE k == x.g
           w == [sg |-> x, success |-> b]
<1>0. PICK c0 \in C, s0 \in BOOLEAN :
        /\ x \in ToSet(QueueOf(ch, c0, s0)) /\ x \notin ToSet(QueueOf(ch', c0, s0))
        /\ b \/ ch'[c0].closed
  BY DEF Wins
<1>1. k \in G /\ Belongs(x, c0, s0) /\ Sleeps(k) /\ k # g
  <2>1. k \in G /\ Belongs(x, c0, s0)
    BY <1>0, QueuedFacts
  <2>2. Sleeps(k)
    BY <2>1, FreeSleeps DEF Wins
  <2> QED
    BY <2>1, <2>2 DEF Sleeps
<1>2. w \in Wakeup /\ w.sg = x /\ w.success = b
  BY DEF Wakeup
<1>3. /\ wake' = [wake EXCEPT ![g] = <<w>> \o wake[g]]
      /\ selectDone' = [selectDone EXCEPT ![k] = Selects(k)]
  BY DEF Wins
<1> HIDE DEF w
<1>4. /\ DOMAIN wake'[g] = 1 .. Len(wake[g]) + 1 /\ wake'[g][1] = w
      /\ \A n \in DOMAIN wake'[g] : n # 1 => n - 1 \in DOMAIN wake[g] /\ wake'[g][n] = wake[g][n - 1]
      /\ \A n \in DOMAIN wake[g] : n + 1 \in DOMAIN wake'[g] /\ wake'[g][n + 1] = wake[g][n]
      /\ \A h \in G \ {g} : wake'[h] = wake[h]
      /\ Len(wake[g]) \in Nat
  <2>1. wake[g] \in Seq(Wakeup) /\ wake'[g] = <<w>> \o wake[g]
    BY <1>3 DEF TypeOK
  <2>2. \A h \in G \ {g} : wake'[h] = wake[h]
    BY <1>3 DEF TypeOK
  <2>3. Len(wake[g]) \in Nat
    BY <2>1
  <2> QED
    BY <1>2, <2>1, <2>2, <2>3, PushFacts
<1>5. \A j \in G : Woke(j)' <=> Woke(j) \/ j = k
  <2>1. ASSUME NEW j \in G, NEW h \in G, NEW n \in DOMAIN wake'[h], wake'[h][n].sg.g = j
        PROVE  Woke(j) \/ j = k
    <3>1. CASE h = g /\ n = 1
      BY <1>2, <1>4, <2>1, <3>1
    <3>2. CASE h = g /\ n # 1
      BY <1>4, <2>1, <3>2 DEF Woke
    <3>3. CASE h # g
      BY <1>4, <2>1, <3>3 DEF Woke
    <3> QED
      BY <3>1, <3>2, <3>3
  <2>2. ASSUME NEW j \in G, NEW h \in G, NEW n \in DOMAIN wake[h], wake[h][n].sg.g = j
        PROVE  Woke(j)'
    <3>1. CASE h = g
      BY <1>4, <2>2, <3>1 DEF Woke
    <3>2. CASE h # g
      BY <1>4, <2>2, <3>2 DEF Woke
    <3> QED
      BY <3>1, <3>2
  <2>3. Woke(k)'
    <3>1. 1 \in DOMAIN wake'[g] /\ wake'[g][1].sg.g = k
      BY <1>2, <1>4
    <3> QED
      BY <3>1 DEF Woke
  <2> QED
    BY <2>1, <2>2, <2>3 DEF Woke
<1>6. \A j \in G : Sleeps(j)' <=> Sleeps(j) /\ j # k
  BY <1>1, <1>5 DEF Sleeps
<1>7. \A j \in G :
        /\ Cases(j)' = Cases(j) /\ (Selects(j)' <=> Selects(j))
        /\ \A i : ChanOf(j, i)' = ChanOf(j, i) /\ Sends(j, i)' = Sends(j, i)
  BY DEF Cases, Selects, ChanOf, Sends
<1>8. \A c \in C, s \in BOOLEAN :
        ToSet(QueueOf(ch', c, s)) \subseteq ToSet(QueueOf(ch, c, s)) /\ Distinct(QueueOf(ch', c, s))
  BY DEF Thins, Sheds
<1> HIDE DEF k
<1>9. WonInv'
  <2> SUFFICES ASSUME NEW j \in G
               PROVE  /\ selectDone'[j] => pc'[j] \in {"parked", "relock"} /\ Selects(j)
                      /\ pc'[j] = "relock" => selectDone'[j]
                      /\ pc'[j] = "parked" /\ Selects(j) => (selectDone'[j] <=> Woke(j)')
    BY <1>7 DEF WonInv
  <2>1. CASE j = k
    <3>1. pc'[j] = "parked" /\ Woke(j)'
      BY <1>1, <1>5, <2>1 DEF Sleeps
    <3>2. selectDone'[j] <=> Selects(j)
      BY <1>1, <1>3, <2>1 DEF TypeOK
    <3> QED
      BY <3>1, <3>2
  <2>2. CASE j # k
    <3>1. selectDone'[j] = selectDone[j] /\ (Woke(j)' <=> Woke(j))
      BY <1>3, <1>5, <2>2 DEF TypeOK
    <3>2. CASE j = g
      BY <3>1, <3>2 DEF WonInv
    <3>3. CASE j # g
      BY <3>1, <3>3 DEF WonInv
    <3> QED
      BY <3>2, <3>3
  <2> QED
    BY <2>1, <2>2
<1>10. ASSUME NEW v \in Wakeup, Taken(v) PROVE Taken(v)'
  <2>1. v.sg.g \in G /\ v.sg.case \in Cases(v.sg.g)
    BY <1>10 DEF Wakeup, Sudog, Taken
  <2>2. ChanOf(v.sg.g, v.sg.case) \in C
    BY <2>1, CallFacts
  <2> QED
    BY <1>7, <1>8, <1>10, <2>1, <2>2 DEF Taken
<1>11. Taken(w)'
  <2>1. x.case \in Cases(x.g) /\ ChanOf(x.g, x.case) = c0 /\ Sends(x.g, x.case) = s0
    BY <1>1 DEF Belongs
  <2>2. ASSUME NEW c \in C, NEW s \in BOOLEAN PROVE x \notin ToSet(QueueOf(ch', c, s))
    <3> SUFFICES ASSUME x \in ToSet(QueueOf(ch', c, s)) PROVE FALSE
      OBVIOUS
    <3>1. Belongs(x, c, s)
      BY <1>8, QueuedFacts
    <3>2. c = c0 /\ s = s0
      BY <2>1, <3>1 DEF Belongs
    <3> QED
      BY <1>0, <3>2
  <2> QED
    BY <1>0, <1>1, <1>2, <1>7, <2>1, <2>2 DEF Taken, k
<1>12. WakeInv'
  <2>1. ASSUME NEW h \in G, NEW n \in DOMAIN wake'[h]
        PROVE  pc'[wake'[h][n].sg.g] = "parked" /\ Taken(wake[h][n])'
    <3>1. CASE h = g /\ n = 1
      <4>1. wake'[h][n] = w /\ w.sg.g = k
        BY <1>2, <1>4, <3>1 DEF k
      <4>2. pc'[k] = "parked"
        BY <1>1 DEF Sleeps
      <4> QED
        BY <1>11, <4>1, <4>2
    <3>2. CASE ~(h = g /\ n = 1)
      <4>1. PICK m \in DOMAIN wake[h] : wake'[h][n] = wake[h][m]
        BY <1>4, <3>2
      <4>2. /\ wake[h][m] \in Wakeup /\ wake[h][m].sg.g \in G /\ Taken(wake[h][m])
            /\ pc[wake[h][m].sg.g] = "parked"
        BY <4>1, WakeupFacts
      <4>3. pc'[wake[h][m].sg.g] = "parked"
        BY <4>2
      <4>4. PICK v \in Wakeup : wake'[h][n] = v /\ Taken(v)
        BY <4>1, <4>2
      <4>5. Taken(v)'
        BY <1>10, <4>4
      <4> QED
        BY <4>1, <4>3, <4>4, <4>5
    <3> QED
      BY <3>1, <3>2
  <2>2. ASSUME NEW h \in G, NEW i \in G, NEW n \in DOMAIN wake'[h], NEW m \in DOMAIN wake'[i],
               wake'[h][n].sg.g = wake'[i][m].sg.g
        PROVE  h = i /\ n = m
    <3> DEFINE old(j, l) == IF j = g THEN l - 1 ELSE l
    <3>1. \A j \in G : \A l \in DOMAIN wake'[j] :
            \/ j = g /\ l = 1 /\ wake'[j][l].sg.g = k
            \/ /\ ~(j = g /\ l = 1)
               /\ old(j, l) \in DOMAIN wake[j] /\ wake'[j][l] = wake[j][old(j, l)]
               /\ wake'[j][l].sg.g # k
      <4> SUFFICES ASSUME NEW j \in G, NEW l \in DOMAIN wake'[j], ~(j = g /\ l = 1)
                   PROVE  /\ old(j, l) \in DOMAIN wake[j] /\ wake'[j][l] = wake[j][old(j, l)]
                          /\ wake'[j][l].sg.g # k
        BY <1>2, <1>4 DEF k
      <4>1. old(j, l) \in DOMAIN wake[j] /\ wake'[j][l] = wake[j][old(j, l)]
        BY <1>4
      <4>2. ~Woke(k)
        BY <1>1 DEF Sleeps
      <4> QED
        BY <4>1, <4>2 DEF Woke
    <3>2. \A j \in G : \A l \in DOMAIN wake'[j] : l \in Nat
      <4> TAKE j \in G
      <4>1. CASE j = g
        BY <1>4, <4>1
      <4>2. CASE j # g
        <5>1. wake'[j] \in Seq(Wakeup)
          BY <1>4, <4>2 DEF TypeOK
        <5> QED
          BY <5>1
      <4> QED
        BY <4>1, <4>2
    <3>3. CASE h = g /\ n = 1
      BY <2>2, <3>1, <3>3
    <3>4. CASE i = g /\ m = 1
      BY <2>2, <3>1, <3>4
    <3>5. CASE ~(h = g /\ n = 1) /\ ~(i = g /\ m = 1)
      <4>1. /\ old(h, n) \in DOMAIN wake[h] /\ wake'[h][n] = wake[h][old(h, n)]
            /\ old(i, m) \in DOMAIN wake[i] /\ wake'[i][m] = wake[i][old(i, m)]
        BY <3>1, <3>5
      <4> HIDE DEF old
      <4>2. h = i /\ old(h, n) = old(i, m)
        BY <2>2, <4>1 DEF WakeInv
      <4> QED
        BY <3>2, <4>2 DEF old
    <3> QED
      BY <3>3, <3>4, <3>5
  <2>3. ASSUME NEW j \in G, param'[j] # None
        PROVE  param'[j].sg.g = j /\ Taken(param[j])'
    <3>1. param[j] \in Wakeup /\ param[j].sg.g = j /\ Taken(param[j])
      BY <2>3 DEF TypeOK, WakeInv
    <3> DEFINE v == param[j]
    <3>2. param'[j] = v /\ v \in Wakeup /\ Taken(v)
      BY <3>1
    <3> HIDE DEF v
    <3> QED
      BY <1>10, <3>1, <3>2
  <2> QED
    BY <2>1, <2>2, <2>3 DEF WakeInv
<1>13. ASSUME NEW c \in C, NEW s \in BOOLEAN, NEW y \in ToSet(QueueOf(ch', c, s))
       PROVE  Belongs(y, c, s)'
  <2>1. y \in ToSet(QueueOf(ch, c, s)) /\ y # x
    BY <1>8, <1>11, <1>2 DEF Taken
  <2>2. y \in Sudog /\ y.g \in G /\ Belongs(y, c, s) /\ pc[y.g] \in {"parked", "relock"}
    BY <2>1, QueuedFacts
  <2>3. y.g # g
    BY <2>2
  <2>4. CASE y.g = k
    <3>1. pc'[k] = "parked"
      BY <1>1 DEF Sleeps
    <3>2. Selects(k)
      <4>1. SUFFICES ASSUME ~Selects(k) PROVE FALSE
        OBVIOUS
      <4>2. op[k] \in Ops /\ Len(op[k].cases) = 1 /\ Cases(k) = {1}
        <5>1. x.case \in Cases(k)
          BY <1>1 DEF Belongs, k
        <5>2. op[k] \in Ops
          BY <1>1, <5>1, CallFacts
        <5>3. op[k].kind # "select"
          BY <4>1 DEF Selects
        <5>4. Len(op[k].cases) = 1 /\ DOMAIN op[k].cases = 1 .. 1 /\ op[k] # None
          BY <5>2, <5>3, OpsAssumption, ChanAssumption
        <5> QED
          BY <5>2, <5>4 DEF Cases
      <4>3. y.case = 1 /\ x.case = 1
        BY <1>1, <2>2, <2>4, <4>2 DEF Belongs, k
      <4> QED
        BY <2>1, <2>2, <2>4, <4>3 DEF Sudog, k
    <3>3. selectDone'[k]
      BY <1>1, <1>3, <3>2 DEF TypeOK
    <3> QED
      BY <1>7, <2>2, <2>4, <3>1, <3>2, <3>3 DEF Belongs
  <2>5. CASE y.g # k
    <3>1. selectDone'[y.g] = selectDone[y.g]
      BY <1>3, <2>2, <2>5 DEF TypeOK
    <3> QED
      BY <1>6, <1>7, <2>2, <2>3, <2>5, <3>1 DEF Belongs
  <2> QED
    BY <2>4, <2>5
<1>14. QueueInv'
  BY <1>8, <1>13 DEF QueueInv
<1>15. AsleepInv'
  <2> SUFFICES ASSUME NEW j \in G, Sleeps(j), j # k, NEW i \in Cases(j)
               PROVE  [g |-> j, case |-> i]
                        \in ToSet(QueueOf(ch', ChanOf(j, i), Sends(j, i)))
    BY <1>6, <1>7 DEF AsleepInv
  <2> DEFINE y == [g |-> j, case |-> i]
  <2>1. y \in ToSet(QueueOf(ch, ChanOf(j, i), Sends(j, i)))
    BY DEF AsleepInv
  <2>2. Free(y) /\ y # x
    BY FreeSleeps DEF k
  <2>3. ChanOf(j, i) \in C /\ Sends(j, i) \in BOOLEAN
    BY CallFacts
  <2> HIDE DEF y
  <2> QED
    BY <2>1, <2>2, <2>3 DEF Thins, Sheds, y
<1> QED
  BY <1>9, <1>12, <1>14, <1>15

(* The sudogs that g has for a queue.                                      *)
Mine(g, c, s) == {[g |-> g, case |-> i] : i \in On(g, Cases(g), c, s)}

(* A call that cannot proceed leaves a sudog in the queue of each case.    *)
LEMMA EnqueuedFacts ==
  ASSUME TypeOK, QueueInv, NEW g \in G, op[g] \in Ops, pc[g] \notin {"parked", "relock"},
         NEW h, PolledFrom(h, g, Cases(g)), ch' = Enqueued(g, h)
  PROVE  /\ DOMAIN ch' = C
         /\ \A c \in C :
              /\ ch'[c] \in Hchan(c)
              /\ ch'[c].qcount = ch[c].qcount /\ ch'[c].closed = ch[c].closed
         /\ \A c \in C, s \in BOOLEAN :
              /\ Distinct(QueueOf(ch', c, s))
              /\ ToSet(QueueOf(ch', c, s)) = ToSet(QueueOf(h, c, s)) \cup Mine(g, c, s)
              /\ ToSet(QueueOf(h, c, s)) \subseteq ToSet(QueueOf(ch, c, s))
              /\ \A x \in ToSet(QueueOf(ch, c, s)) : Free(x) => x \in ToSet(QueueOf(h, c, s))
<1> SUFFICES ASSUME NEW c \in C
             PROVE  /\ ch'[c] \in Hchan(c)
                    /\ ch'[c].qcount = ch[c].qcount /\ ch'[c].closed = ch[c].closed
                    /\ \A s \in BOOLEAN :
                         /\ Distinct(QueueOf(ch', c, s))
                         /\ ToSet(QueueOf(ch', c, s)) = ToSet(QueueOf(h, c, s)) \cup Mine(g, c, s)
                         /\ ToSet(QueueOf(h, c, s)) \subseteq ToSet(QueueOf(ch, c, s))
                         /\ \A x \in ToSet(QueueOf(ch, c, s)) :
                              Free(x) => x \in ToSet(QueueOf(h, c, s))
  BY DEF Enqueued
<1> DEFINE q(s) == QueueOf(h, c, s) \o Sudogs(g, c, s)
<1>1. ASSUME NEW s \in BOOLEAN
      PROVE  /\ QueueOf(h, c, s) \in Seq(Sudog) /\ Distinct(QueueOf(h, c, s))
             /\ ToSet(QueueOf(h, c, s)) \subseteq ToSet(QueueOf(ch, c, s))
             /\ \A x \in ToSet(QueueOf(ch, c, s)) : Free(x) => x \in ToSet(QueueOf(h, c, s))
  <2>1. QueueOf(ch, c, s) \in Seq(Sudog) /\ Distinct(QueueOf(ch, c, s))
    BY Queue
  <2>2. CASE QueueOf(h, c, s) = QueueOf(ch, c, s)
    BY <2>1, <2>2
  <2>3. CASE QueueOf(h, c, s) = <<>> /\ ~Waiting(QueueOf(ch, c, s))
    BY <2>1, <2>3, DequeueNone, EmptyFacts DEF Sheds
  <2> QED
    BY <2>2, <2>3 DEF PolledFrom
<1>2. ASSUME NEW s \in BOOLEAN
      PROVE  /\ q(s) \in Seq(Sudog) /\ Distinct(q(s))
             /\ ToSet(q(s)) = ToSet(QueueOf(h, c, s)) \cup Mine(g, c, s)
  <2>1. /\ Sudogs(g, c, s) \in Seq(Sudog) /\ Distinct(Sudogs(g, c, s))
        /\ ToSet(Sudogs(g, c, s)) = Mine(g, c, s)
    BY SudogsFacts DEF Mine
  <2>2. ToSet(QueueOf(h, c, s)) \cap Mine(g, c, s) = {}
    <3> SUFFICES ASSUME NEW x \in ToSet(QueueOf(h, c, s)), x \in Mine(g, c, s) PROVE FALSE
      OBVIOUS
    <3>1. pc[x.g] \in {"parked", "relock"}
      BY <1>1, QueuedFacts
    <3>2. x.g = g
      BY DEF Mine
    <3> QED
      BY <3>1, <3>2
  <2> QED
    BY <1>1, <2>1, <2>2, JoinFacts
<1>3. h[c] \in Hchan(c) /\ h[c].qcount = ch[c].qcount /\ h[c].closed = ch[c].closed
  BY DEF PolledFrom
<1>4. ch'[c] = [h[c] EXCEPT !.recvq = q(FALSE), !.sendq = q(TRUE)]
  BY <1>3 DEF Enqueued, QueueOf, Hchan
<1> HIDE DEF q
<1>5. q(FALSE) \in Seq(Sudog) /\ q(TRUE) \in Seq(Sudog)
  BY <1>2
<1>6. /\ ch'[c] \in Hchan(c) /\ ch'[c].recvq = q(FALSE) /\ ch'[c].sendq = q(TRUE)
      /\ ch'[c].qcount = ch[c].qcount /\ ch'[c].closed = ch[c].closed
  BY <1>3, <1>4, <1>5 DEF Hchan
<1>7. \A s \in BOOLEAN : QueueOf(ch', c, s) = q(s)
  BY <1>6 DEF QueueOf
<1> QED
  BY <1>1, <1>2, <1>6, <1>7, SMTT(30)

(* A goroutine that goes to sleep.                                         *)
LEMMA ParkWaits ==
  ASSUME TypeOK, WaitInv, NEW g \in G, op[g] \in Ops, pc[g] \notin {"parked", "relock"},
         NEW h, PolledFrom(h, g, Cases(g)), ch' = Enqueued(g, h),
         pc' = [pc EXCEPT ![g] = "parked"], param[g] = None,
         UNCHANGED <<op, selectDone, wake, param>>
  PROVE  WaitInv'
<1> USE DEF WaitInv
<1>1. \A k \in G : Woke(k)' <=> Woke(k)
  BY DEF Woke
<1>2. ~Woke(g) /\ ~selectDone[g]
  <2>1. ~Woke(g)
    BY DEF Woke, WakeInv
  <2> QED
    BY <2>1 DEF WonInv
<1>3. \A k \in G : Sleeps(k)' <=> Sleeps(k) \/ k = g
  BY <1>1, <1>2 DEF Sleeps, TypeOK
<1>4. \A k \in G :
        /\ Cases(k)' = Cases(k) /\ Selects(k)' = Selects(k)
        /\ \A i : ChanOf(k, i)' = ChanOf(k, i) /\ Sends(k, i)' = Sends(k, i)
  BY DEF Cases, Selects, ChanOf, Sends
<1>5. \A c \in C, s \in BOOLEAN :
        /\ Distinct(QueueOf(ch', c, s))
        /\ ToSet(QueueOf(ch', c, s)) \subseteq ToSet(QueueOf(ch, c, s)) \cup Mine(g, c, s)
        /\ Mine(g, c, s) \subseteq ToSet(QueueOf(ch', c, s))
        /\ \A x \in ToSet(QueueOf(ch, c, s)) : Free(x) => x \in ToSet(QueueOf(ch', c, s))
  BY EnqueuedFacts
<1>6. \A c \in C : ch'[c].closed = ch[c].closed
  BY EnqueuedFacts
<1>7. WonInv'
  BY <1>1, <1>2, <1>4 DEF WonInv, TypeOK
<1>8. ASSUME NEW w \in Wakeup, w.sg.g # g, Taken(w)
      PROVE  Taken(w)'
  <2>1. w.sg.g \in G /\ w.sg.case \in Cases(w.sg.g)
    BY <1>8 DEF Wakeup, Sudog, Taken
  <2>2. ChanOf(w.sg.g, w.sg.case) \in C
    BY <2>1, CallFacts
  <2>3. \A c \in C, s \in BOOLEAN : w.sg \notin Mine(g, c, s)
    BY <1>8 DEF Mine
  <2> QED
    BY <1>4, <1>5, <1>6, <1>8, <2>1, <2>2, <2>3 DEF Taken
<1>9. WakeInv'
  <2>1. ASSUME NEW k \in G, NEW n \in DOMAIN wake[k]
        PROVE  pc'[wake[k][n].sg.g] = "parked" /\ Taken(wake[k][n])'
    <3>1. /\ wake[k][n] \in Wakeup /\ wake[k][n].sg.g \in G /\ Taken(wake[k][n])
          /\ pc[wake[k][n].sg.g] = "parked"
      BY WakeupFacts
    <3>2. PICK v \in Wakeup : wake[k][n] = v /\ Taken(v)
      BY <3>1
    <3>3. v.sg.g # g
      BY <3>1, <3>2
    <3>4. Taken(v)'
      BY <1>8, <3>2, <3>3
    <3> QED
      BY <3>1, <3>2, <3>4
  <2>2. ASSUME NEW k \in G, param'[k] # None
        PROVE  param'[k].sg.g = k /\ Taken(param[k])'
    <3>1. param[k] \in Wakeup /\ param[k].sg.g = k /\ Taken(param[k]) /\ k # g
      BY <2>2 DEF TypeOK, WakeInv
    <3>2. PICK v \in Wakeup : param[k] = v /\ Taken(v)
      BY <3>1
    <3>3. Taken(v)'
      BY <1>8, <3>1, <3>2
    <3> QED
      BY <3>1, <3>2, <3>3
  <2> QED
    BY <2>1, <2>2 DEF WakeInv
<1>10. ASSUME NEW c \in C, NEW s \in BOOLEAN, NEW x \in ToSet(QueueOf(ch', c, s))
       PROVE  Belongs(x, c, s)'
  <2>1. CASE x \in Mine(g, c, s)
    <3>1. x.g = g /\ x.case \in Cases(g) /\ ChanOf(g, x.case) = c /\ Sends(g, x.case) = s
      BY <2>1 DEF Mine, On
    <3> QED
      BY <1>3, <1>4, <3>1 DEF Belongs
  <2>2. CASE x \in ToSet(QueueOf(ch, c, s))
    <3>1. x \in Sudog /\ x.g \in G /\ Belongs(x, c, s)
      BY <2>2, QueuedFacts
    <3>2. pc[x.g] \in {"parked", "relock"}
      BY <2>2, QueuedFacts
    <3>3. pc'[x.g] = pc[x.g]
      BY <3>1, <3>2 DEF TypeOK
    <3> QED
      BY <1>3, <1>4, <3>1, <3>3 DEF Belongs
  <2> QED
    BY <1>5, <2>1, <2>2
<1>11. QueueInv'
  BY <1>5, <1>10 DEF QueueInv
<1>12. AsleepInv'
  <2> SUFFICES ASSUME NEW k \in G, Sleeps(k) \/ k = g, NEW i \in Cases(k)
               PROVE  [g |-> k, case |-> i]
                        \in ToSet(QueueOf(ch', ChanOf(k, i), Sends(k, i)))
    BY <1>3, <1>4 DEF AsleepInv
  <2> DEFINE x == [g |-> k, case |-> i]
  <2>1. ChanOf(k, i) \in C /\ Sends(k, i) \in BOOLEAN
    BY CallFacts
  <2>2. CASE k = g
    <3>1. x \in Mine(g, ChanOf(k, i), Sends(k, i))
      BY <2>2 DEF Mine, On
    <3> QED
      BY <1>5, <2>1, <3>1
  <2>3. CASE Sleeps(k)
    <3>1. x \in ToSet(QueueOf(ch, ChanOf(k, i), Sends(k, i)))
      BY <2>3 DEF AsleepInv
    <3>2. Free(x)
      BY <2>3, FreeSleeps, SMTT(30)
    <3> HIDE DEF x
    <3> QED
      BY <1>5, <2>1, <3>1, <3>2 DEF x
  <2> QED
    BY <2>2, <2>3
<1> QED
  BY <1>7, <1>9, <1>11, <1>12

(* goready hands a wakeup to its goroutine.                                *)
LEMMA ReadyFacts ==
  ASSUME TypeOK, CallInv, WaitInv, NEW g \in G, Ready(g)
  PROVE  \E w \in Wakeup :
           /\ w.sg.g \in G /\ w.sg.g # g /\ pc[w.sg.g] = "parked" /\ pc[g] = "ready"
           /\ w.success \in BOOLEAN /\ Taken(w) /\ Woke(w.sg.g)
           /\ wake[g] # <<>> /\ 1 \in DOMAIN wake[g] /\ wake[g][1] = w
           /\ wake' = [wake EXCEPT ![g] = Tail(@)]
           /\ param' = [param EXCEPT ![w.sg.g] = w]
           /\ pc' = [pc EXCEPT ![w.sg.g] = IF Selects(w.sg.g) THEN "relock" ELSE "woken",
                               ![g] = IF Len(wake[g]) = 1 THEN "done" ELSE "ready"]
           /\ toLock' = [toLock EXCEPT ![w.sg.g] =
                IF Selects(w.sg.g) THEN Chans(op[w.sg.g]) ELSE {}]
           /\ UNCHANGED <<ch, owner, op, selectDone, elem, result>>
<1>1. pc[g] = "ready" /\ wake[g] # <<>> /\ wake[g] \in Seq(Wakeup)
  BY DEF Ready, CallInv, Stands, TypeOK
<1>2. 1 \in DOMAIN wake[g] /\ Head(wake[g]) = wake[g][1]
  BY <1>1
<1>3. PICK w : w = wake[g][1]
  OBVIOUS
<1>4. /\ w \in Wakeup /\ w.sg.g \in G /\ pc[w.sg.g] = "parked" /\ Taken(w) /\ Woke(w.sg.g)
      /\ w.success \in BOOLEAN
  <2>1. w \in Wakeup /\ w.sg.g \in G /\ pc[w.sg.g] = "parked" /\ Taken(w)
    BY <1>2, <1>3, WakeupFacts DEF WaitInv
  <2>2. Woke(w.sg.g)
    BY <1>2, <1>3 DEF Woke
  <2> QED
    BY <2>1, <2>2 DEF Wakeup
<1>5. w = Head(wake[g])
  BY <1>2, <1>3
<1> QED
  BY <1>1, <1>2, <1>3, <1>4, <1>5 DEF Ready, Selects

LEMMA ReadyWaits ==
  ASSUME TypeOK, CallInv, WaitInv, NEW g \in G, Ready(g)
  PROVE  WaitInv'
<1> USE DEF WaitInv
<1>1. PICK w \in Wakeup :
        /\ w.sg.g \in G /\ w.sg.g # g /\ pc[w.sg.g] = "parked" /\ pc[g] = "ready"
        /\ Taken(w) /\ Woke(w.sg.g)
        /\ wake[g] # <<>> /\ 1 \in DOMAIN wake[g] /\ wake[g][1] = w
        /\ wake' = [wake EXCEPT ![g] = Tail(@)]
        /\ param' = [param EXCEPT ![w.sg.g] = w]
        /\ pc' = [pc EXCEPT ![w.sg.g] = IF Selects(w.sg.g) THEN "relock" ELSE "woken",
                            ![g] = IF Len(wake[g]) = 1 THEN "done" ELSE "ready"]
        /\ UNCHANGED <<ch, op, selectDone>>
  BY ReadyFacts, Zenon
<1>2. PICK r \in G : r = w.sg.g
  BY <1>1
<1>3. /\ pc[r] = "parked" /\ r # g /\ pc'[r] = (IF Selects(r) THEN "relock" ELSE "woken")
      /\ pc'[g] \notin {"parked", "relock"} /\ pc[g] = "ready"
      /\ (\A k \in G \ {g, r} : pc'[k] = pc[k])
      /\ param'[r] = w /\ (\A k \in G \ {r} : param'[k] = param[k])
  BY <1>1, <1>2 DEF TypeOK
<1>4. /\ \A n \in DOMAIN wake'[g] : n + 1 \in DOMAIN wake[g] /\ wake'[g][n] = wake[g][n + 1]
      /\ \A n \in DOMAIN wake[g] : n # 1 => n - 1 \in DOMAIN wake'[g] /\ wake'[g][n - 1] = wake[g][n]
      /\ \A k \in G \ {g} : wake'[k] = wake[k]
      /\ DOMAIN wake[g] \subseteq Nat /\ DOMAIN wake'[g] \subseteq Nat \ {0}
  <2>1. wake[g] \in Seq(Wakeup) /\ wake[g] # <<>>
    BY <1>1 DEF TypeOK
  <2>2. wake'[g] = Tail(wake[g]) /\ \A k \in G \ {g} : wake'[k] = wake[k]
    BY <1>1 DEF TypeOK
  <2>3. Len(wake[g]) \in Nat \ {0} /\ DOMAIN wake[g] = 1 .. Len(wake[g])
    BY <2>1
  <2>4. /\ DOMAIN wake'[g] = 1 .. Len(wake[g]) - 1
        /\ \A n \in 1 .. Len(wake[g]) - 1 : wake'[g][n] = wake[g][n + 1]
    BY <2>1, <2>2
  <2>5. ASSUME NEW n \in DOMAIN wake[g], n # 1
        PROVE  n - 1 \in DOMAIN wake'[g] /\ wake'[g][n - 1] = wake[g][n]
    <3>1. n - 1 \in 1 .. Len(wake[g]) - 1 /\ (n - 1) + 1 = n
      BY <2>3, <2>5
    <3> QED
      BY <2>4, <3>1
  <2> QED
    BY <2>2, <2>3, <2>4, <2>5
<1>5. \A k \in G : Woke(k)' <=> Woke(k) /\ k # r
  <2>1. ASSUME NEW h \in G, NEW n \in DOMAIN wake'[h]
        PROVE  \E m \in DOMAIN wake[h] : wake'[h][n] = wake[h][m] /\ ~(h = g /\ m = 1)
    <3>1. CASE h = g
      BY <1>4, <3>1
    <3>2. CASE h # g
      BY <1>4, <3>2
    <3> QED
      BY <3>1, <3>2
  <2>2. ASSUME NEW h \in G, NEW m \in DOMAIN wake[h], ~(h = g /\ m = 1)
        PROVE  wake[h][m].sg.g # r
    BY <1>1, <1>2, <2>2 DEF WakeInv
  <2>3. ASSUME NEW h \in G, NEW m \in DOMAIN wake[h], wake[h][m].sg.g # r
        PROVE  \E n \in DOMAIN wake'[h] : wake'[h][n] = wake[h][m]
    <3>1. CASE h = g
      <4>1. m # 1
        BY <1>1, <1>2, <2>3, <3>1
      <4> QED
        BY <1>4, <3>1, <4>1
    <3>2. CASE h # g
      BY <1>4, <3>2
    <3> QED
      BY <3>1, <3>2
  <2>4. ASSUME NEW k \in G, Woke(k)' PROVE Woke(k) /\ k # r
    <3>1. PICK h \in G : \E n \in DOMAIN wake'[h] : wake'[h][n].sg.g = k
      BY <2>4 DEF Woke
    <3>2. PICK n \in DOMAIN wake'[h] : wake'[h][n].sg.g = k
      BY <3>1
    <3>3. PICK m \in DOMAIN wake[h] : wake'[h][n] = wake[h][m] /\ ~(h = g /\ m = 1)
      BY <2>1
    <3> QED
      BY <2>2, <3>2, <3>3 DEF Woke
  <2>5. ASSUME NEW k \in G, Woke(k), k # r PROVE Woke(k)'
    <3>1. PICK h \in G : \E m \in DOMAIN wake[h] : wake[h][m].sg.g = k
      BY <2>5 DEF Woke
    <3>2. PICK m \in DOMAIN wake[h] : wake[h][m].sg.g = k
      BY <3>1
    <3>3. PICK n \in DOMAIN wake'[h] : wake'[h][n] = wake[h][m]
      BY <2>3, <2>5, <3>2
    <3> QED
      BY <3>2, <3>3 DEF Woke
  <2> QED
    BY <2>4, <2>5
<1>6. \A k \in G : Sleeps(k)' <=> Sleeps(k)
  <2> TAKE k \in G
  <2>1. CASE k = r
    <3>1. Woke(r)
      BY <1>1, <1>2
    <3>2. pc'[r] # "parked"
      BY <1>3
    <3> QED
      BY <2>1, <3>1, <3>2 DEF Sleeps
  <2>2. CASE k = g
    BY <1>3, <2>2 DEF Sleeps
  <2>3. CASE k # r /\ k # g
    BY <1>3, <1>5, <2>3 DEF Sleeps
  <2> QED
    BY <2>1, <2>2, <2>3
<1>7. \A k \in G :
        /\ Cases(k)' = Cases(k) /\ Selects(k)' = Selects(k)
        /\ \A i : ChanOf(k, i)' = ChanOf(k, i) /\ Sends(k, i)' = Sends(k, i)
  BY <1>1 DEF Cases, Selects, ChanOf, Sends
<1>8. WonInv'
  <2> SUFFICES ASSUME NEW j \in G
               PROVE  /\ selectDone[j] => pc'[j] \in {"parked", "relock"} /\ Selects(j)
                      /\ pc'[j] = "relock" => selectDone[j]
                      /\ pc'[j] = "parked" /\ Selects(j) => (selectDone[j] <=> Woke(j)')
    BY <1>1, <1>7 DEF WonInv
  <2>1. CASE j = r
    <3>1. Selects(r) <=> selectDone[r]
      BY <1>1, <1>2 DEF WonInv
    <3>2. ~Woke(r)'
      BY <1>5
    <3> QED
      BY <1>3, <2>1, <3>1, <3>2
  <2>2. CASE j = g
    BY <1>3, <2>2 DEF WonInv
  <2>3. CASE j # r /\ j # g
    BY <1>3, <1>5, <2>3 DEF WonInv
  <2> QED
    BY <2>1, <2>2, <2>3
<1>9. \A v : Taken(v) /\ v.sg.g \in G => Taken(v)'
  BY <1>1, <1>7 DEF Taken
<1>10. ASSUME NEW h \in G, NEW n \in DOMAIN wake'[h]
       PROVE  pc'[wake'[h][n].sg.g] = "parked" /\ Taken(wake[h][n])'
  <2>1. PICK m \in DOMAIN wake[h] : wake'[h][n] = wake[h][m] /\ ~(h = g /\ m = 1)
    <3>1. CASE h = g
      BY <1>4, <3>1
    <3>2. CASE h # g
      BY <1>4, <3>2
    <3> QED
      BY <3>1, <3>2
  <2>2. PICK v \in Wakeup : v = wake[h][m] /\ v.sg.g \in G /\ pc[v.sg.g] = "parked" /\ Taken(v)
    BY WakeupFacts
  <2>3. v.sg.g # r
    BY <1>1, <1>2, <2>1, <2>2 DEF WakeInv
  <2>4. pc'[v.sg.g] = "parked"
    BY <1>3, <2>2, <2>3
  <2>5. Taken(v)'
    BY <1>9, <2>2
  <2> QED
    BY <2>1, <2>2, <2>4, <2>5
<1>11. ASSUME NEW h \in G, NEW i \in G, NEW n \in DOMAIN wake'[h], NEW m \in DOMAIN wake'[i],
              wake'[h][n].sg.g = wake'[i][m].sg.g
       PROVE  h = i /\ n = m
  <2> DEFINE old(j, l) == IF j = g THEN l + 1 ELSE l
  <2>1. \A j \in G : \A l \in DOMAIN wake'[j] :
          old(j, l) \in DOMAIN wake[j] /\ wake'[j][l] = wake[j][old(j, l)] /\ l \in Nat
    <3> TAKE j \in G
    <3>1. CASE j = g
      BY <1>4, <3>1
    <3>2. CASE j # g
      <4>1. wake'[j] \in Seq(Wakeup)
        BY <1>4, <3>2 DEF TypeOK
      <4> QED
        BY <1>4, <3>2, <4>1
    <3> QED
      BY <3>1, <3>2
  <2> HIDE DEF old
  <2>2. h = i /\ old(h, n) = old(i, m)
    BY <1>11, <2>1 DEF WakeInv
  <2> QED
    BY <2>1, <2>2 DEF old
<1>12. ASSUME NEW j \in G, param'[j] # None
       PROVE  param'[j].sg.g = j /\ Taken(param[j])'
  <2>1. PICK v : v = param'[j]
    OBVIOUS
  <2>2. v.sg.g = j /\ Taken(v)
    BY <1>1, <1>2, <1>3, <1>12, <2>1 DEF WakeInv
  <2>3. Taken(v)'
    BY <1>9, <2>2
  <2> QED
    BY <2>1, <2>2, <2>3
<1>13. WakeInv'
  BY <1>10, <1>11, <1>12 DEF WakeInv
<1>14. QueueInv'
  <2> SUFFICES ASSUME NEW c \in C, NEW s \in BOOLEAN, NEW x \in ToSet(QueueOf(ch, c, s))
               PROVE  Belongs(x, c, s)'
    BY <1>1 DEF QueueInv
  <2>1. x \in Sudog /\ x.g \in G /\ Belongs(x, c, s) /\ pc[x.g] \in {"parked", "relock"}
    BY QueuedFacts
  <2>2. CASE x.g = r
    BY <1>1, <1>2, <1>3, <1>7, <2>1, <2>2, ZenonT(40) DEF Belongs, Sleeps
  <2>3. CASE x.g # r
    <3>1. pc'[x.g] = pc[x.g]
      BY <1>3, <2>1, <2>3
    <3> QED
      BY <1>1, <1>6, <1>7, <2>1, <3>1 DEF Belongs
  <2> QED
    BY <2>2, <2>3
<1>15. AsleepInv'
  BY <1>1, <1>6, <1>7 DEF AsleepInv
<1> QED
  BY <1>8, <1>13, <1>14, <1>15

(* Pass 3 of selectgo.                                                     *)
LEMMA FinishFacts ==
  ASSUME TypeOK, CallInv, WaitInv, NEW g \in G, SelectFinish(g)
  PROVE  /\ DOMAIN ch' = C
         /\ \A c \in C :
              /\ ch'[c] \in Hchan(c)
              /\ ch'[c].qcount = ch[c].qcount /\ ch'[c].closed = ch[c].closed
         /\ \A c \in C, s \in BOOLEAN :
              /\ Distinct(QueueOf(ch', c, s))
              /\ ToSet(QueueOf(ch', c, s)) = {x \in ToSet(QueueOf(ch, c, s)) : x.g # g}
<1> DEFINE Stay(q) == {n \in DOMAIN q : q[n].g # g \/ q[n] = param[g].sg}
<1>1. ch' = [c \in C |-> [ch[c] EXCEPT !.recvq = Left(@, Stay(@)), !.sendq = Left(@, Stay(@))]]
  BY DEF SelectFinish
<1>2. \A c \in C, s \in BOOLEAN : param[g].sg \notin ToSet(QueueOf(ch, c, s))
  BY DEF SelectFinish, Goto, CallInv, Stands, WaitInv, WakeInv, Taken
<1>3. ASSUME NEW c \in C, NEW s \in BOOLEAN
      PROVE  LET q == QueueOf(ch, c, s) IN
             /\ Left(q, Stay(q)) \in Seq(Sudog) /\ Distinct(Left(q, Stay(q)))
             /\ ToSet(Left(q, Stay(q))) = {x \in ToSet(q) : x.g # g}
  <2> DEFINE q == QueueOf(ch, c, s)
  <2>1. q \in Seq(Sudog) /\ Distinct(q)
    BY Queue DEF WaitInv
  <2>2. Stay(q) \in SUBSET DOMAIN q
    OBVIOUS
  <2>3. {q[n] : n \in Stay(q)} = {x \in ToSet(q) : x.g # g}
    BY <1>2 DEF ToSet
  <2> HIDE DEF Stay, q
  <2>4. /\ Left(q, Stay(q)) \in Seq(Sudog) /\ Distinct(Left(q, Stay(q)))
        /\ ToSet(Left(q, Stay(q))) = {x \in ToSet(q) : x.g # g}
    BY <2>1, <2>2, <2>3, LeftFacts, SMTT(30)
  <2> QED
    BY <2>4 DEF q
<1> HIDE DEF Stay
<1> SUFFICES ASSUME NEW c \in C
             PROVE  /\ ch'[c] \in Hchan(c)
                    /\ ch'[c].qcount = ch[c].qcount /\ ch'[c].closed = ch[c].closed
                    /\ \A s \in BOOLEAN :
                         /\ Distinct(QueueOf(ch', c, s))
                         /\ ToSet(QueueOf(ch', c, s)) = {x \in ToSet(QueueOf(ch, c, s)) : x.g # g}
  BY <1>1
<1> DEFINE q(s) == Left(QueueOf(ch, c, s), Stay(QueueOf(ch, c, s)))
<1>4. ch[c] \in Hchan(c)
  BY DEF TypeOK
<1>5. ch'[c] = [ch[c] EXCEPT !.recvq = q(FALSE), !.sendq = q(TRUE)]
  BY <1>1, <1>4 DEF QueueOf, Hchan
<1>6. q(FALSE) \in Seq(Sudog) /\ q(TRUE) \in Seq(Sudog)
  BY <1>3
<1>7. \A s \in BOOLEAN : Distinct(q(s)) /\ ToSet(q(s)) = {x \in ToSet(QueueOf(ch, c, s)) : x.g # g}
  BY <1>3
<1> HIDE DEF q
<1>8. /\ ch'[c] \in Hchan(c) /\ ch'[c].recvq = q(FALSE) /\ ch'[c].sendq = q(TRUE)
      /\ ch'[c].qcount = ch[c].qcount /\ ch'[c].closed = ch[c].closed
  BY <1>4, <1>5, <1>6 DEF Hchan
<1>9. \A s \in BOOLEAN : QueueOf(ch', c, s) = q(s)
  BY <1>8 DEF QueueOf
<1> QED
  BY <1>7, <1>8, <1>9

LEMMA FinishWaits ==
  ASSUME TypeOK, CallInv, WaitInv, NEW g \in G, SelectFinish(g)
  PROVE  WaitInv'
<1> USE DEF WaitInv
<1>1. /\ pc[g] = "relock" /\ pc' = [pc EXCEPT ![g] = "done"]
      /\ selectDone' = [selectDone EXCEPT ![g] = FALSE]
      /\ param' = [param EXCEPT ![g] = None]
      /\ UNCHANGED <<op, wake>>
  BY DEF SelectFinish, Goto
<1>2. \A k \in G : Woke(k)' <=> Woke(k)
  BY <1>1 DEF Woke
<1>3. \A k \in G : Sleeps(k)' <=> Sleeps(k)
  BY <1>1, <1>2 DEF Sleeps, TypeOK
<1>4. \A k \in G :
        /\ Cases(k)' = Cases(k) /\ Selects(k)' = Selects(k)
        /\ \A i : ChanOf(k, i)' = ChanOf(k, i) /\ Sends(k, i)' = Sends(k, i)
  BY <1>1 DEF Cases, Selects, ChanOf, Sends
<1>5. \A c \in C, s \in BOOLEAN :
        /\ Distinct(QueueOf(ch', c, s))
        /\ ToSet(QueueOf(ch', c, s)) = {x \in ToSet(QueueOf(ch, c, s)) : x.g # g}
  BY FinishFacts
<1>6. \A c \in C : ch'[c].closed = ch[c].closed
  BY FinishFacts
<1>7. WonInv'
  BY <1>1, <1>2, <1>4 DEF WonInv, TypeOK
<1>8. ASSUME NEW w \in Wakeup, Taken(w)
      PROVE  Taken(w)'
  <2>1. w.sg.g \in G /\ w.sg.case \in Cases(w.sg.g)
    BY <1>8 DEF Wakeup, Sudog, Taken
  <2>2. ChanOf(w.sg.g, w.sg.case) \in C
    BY <2>1, CallFacts
  <2> QED
    BY <1>4, <1>5, <1>6, <1>8, <2>1, <2>2 DEF Taken
<1>9. WakeInv'
  <2>1. ASSUME NEW k \in G, NEW n \in DOMAIN wake[k]
        PROVE  pc'[wake[k][n].sg.g] = "parked" /\ Taken(wake[k][n])'
    <3>1. /\ wake[k][n] \in Wakeup /\ wake[k][n].sg.g \in G /\ Taken(wake[k][n])
          /\ pc[wake[k][n].sg.g] = "parked"
      BY WakeupFacts
    <3>2. PICK v \in Wakeup : wake[k][n] = v /\ Taken(v)
      BY <3>1
    <3>3. v.sg.g # g
      BY <1>1, <3>1, <3>2
    <3>4. Taken(v)'
      BY <1>8, <3>2
    <3> QED
      BY <1>1, <3>1, <3>2, <3>3, <3>4 DEF TypeOK
  <2>2. ASSUME NEW k \in G, param'[k] # None
        PROVE  param'[k].sg.g = k /\ Taken(param[k])'
    <3>1. k # g /\ param'[k] = param[k] /\ param[k] # None
      BY <1>1, <2>2 DEF TypeOK
    <3>2. param[k] \in Wakeup /\ param[k].sg.g = k /\ Taken(param[k])
      BY <3>1 DEF TypeOK, WakeInv
    <3>3. PICK v \in Wakeup : param[k] = v /\ Taken(v)
      BY <3>2
    <3>4. Taken(v)'
      BY <1>8, <3>3
    <3> QED
      BY <3>1, <3>2, <3>3, <3>4
  <2> QED
    BY <1>1, <2>1, <2>2 DEF WakeInv
<1>10. ASSUME NEW c \in C, NEW s \in BOOLEAN, NEW x \in ToSet(QueueOf(ch', c, s))
       PROVE  Belongs(x, c, s)'
  <2>1. x \in ToSet(QueueOf(ch, c, s)) /\ x.g # g
    BY <1>5
  <2>2. x \in Sudog /\ x.g \in G /\ Belongs(x, c, s)
    BY <2>1, QueuedFacts
  <2>3. pc'[x.g] = pc[x.g] /\ selectDone'[x.g] = selectDone[x.g]
    BY <1>1, <2>1, <2>2 DEF TypeOK
  <2> QED
    BY <1>3, <1>4, <2>2, <2>3 DEF Belongs
<1>11. QueueInv'
  BY <1>5, <1>10 DEF QueueInv
<1>12. AsleepInv'
  <2>0. ~Sleeps(g)
    BY <1>1 DEF Sleeps
  <2> SUFFICES ASSUME NEW k \in G, Sleeps(k), NEW i \in Cases(k)
               PROVE  [g |-> k, case |-> i]
                        \in ToSet(QueueOf(ch', ChanOf(k, i), Sends(k, i)))
    BY <1>3, <1>4 DEF AsleepInv
  <2>1. [g |-> k, case |-> i] \in ToSet(QueueOf(ch, ChanOf(k, i), Sends(k, i)))
    BY DEF AsleepInv
  <2>2. ChanOf(k, i) \in C /\ Sends(k, i) \in BOOLEAN /\ k # g
    BY <2>0, CallFacts
  <2> QED
    BY <1>5, <2>1, <2>2
<1> QED
  BY <1>7, <1>9, <1>11, <1>12

-----------------------------------------------------------------------------
(* Which queues are empty.                                                 *)

LEMMA EmptyQueues ==
  ASSUME NEW c \in C, NEW h, h[c] \in Hchan(c)
  PROVE  /\ QueueOf(h, c, TRUE) = h[c].sendq /\ QueueOf(h, c, FALSE) = h[c].recvq
         /\ h[c].recvq = <<>> <=> ToSet(h[c].recvq) = {}
         /\ h[c].sendq = <<>> <=> ToSet(h[c].sendq) = {}
         /\ h[c].qcount \in Nat /\ h[c].qcount <= Cap[c] /\ h[c].closed \in BOOLEAN
<1>1. h[c].recvq \in Seq(Sudog) /\ h[c].sendq \in Seq(Sudog)
  BY DEF Hchan
<1>2. h[c].qcount \in 0 .. Cap[c] /\ Cap[c] \in Nat /\ h[c].closed \in BOOLEAN
  BY ChanAssumption DEF Hchan
<1>3. QueueOf(h, c, TRUE) = h[c].sendq /\ QueueOf(h, c, FALSE) = h[c].recvq
  BY DEF QueueOf
<1>4. \A q \in Seq(Sudog) : q = <<>> <=> ToSet(q) = {}
  BY EmptyFacts
<1>5. h[c].qcount \in Nat /\ h[c].qcount <= Cap[c]
  BY <1>2
<1> QED
  BY <1>1, <1>2, <1>3, <1>4, <1>5

(* Queues only shrink, and the goroutines that close go on.                *)
LEMMA ShrinkExclusive ==
  ASSUME TypeOK, ExclusiveInv, DOMAIN ch' = C, \A c \in C : ch'[c] \in Hchan(c),
         \A c \in C, s \in BOOLEAN :
           ToSet(QueueOf(ch', c, s)) \subseteq ToSet(QueueOf(ch, c, s)),
         Counts,
         \A h \in G : pc[h] \in InClose => pc'[h] \in InClose /\ op'[h] = op[h]
  PROVE  ExclusiveInv'
<1> SUFFICES ASSUME NEW c \in C
             PROVE
    /\ \A x \in ToSet(ch'[c].recvq), y \in ToSet(ch'[c].sendq) : Cap[c] = 0 /\ x.g = y.g
    /\ ch'[c].qcount > 0 => ch'[c].recvq = <<>>
    /\ ch'[c].qcount < Cap[c] => ch'[c].sendq = <<>>
    /\ ch'[c].closed =>
         \/ ch'[c].recvq = <<>> /\ ch'[c].sendq = <<>>
         \/ \E g \in G : pc'[g] \in InClose /\ ChanOf(g, 1)' = c
  BY DEF ExclusiveInv
<1>1. ch[c] \in Hchan(c) /\ ch'[c] \in Hchan(c)
  BY DEF TypeOK
<1>2. /\ ToSet(ch'[c].recvq) \subseteq ToSet(ch[c].recvq)
      /\ ToSet(ch'[c].sendq) \subseteq ToSet(ch[c].sendq)
  BY DEF QueueOf
<1>3. /\ ch[c].recvq = <<>> => ch'[c].recvq = <<>>
      /\ ch[c].sendq = <<>> => ch'[c].sendq = <<>>
  BY <1>1, <1>2, EmptyFacts DEF Hchan
<1>4. \A g \in G : pc[g] \in InClose /\ ChanOf(g, 1) = c => pc'[g] \in InClose /\ ChanOf(g, 1)' = c
  BY DEF ChanOf
<1>5. \A x \in ToSet(ch'[c].recvq), y \in ToSet(ch'[c].sendq) : Cap[c] = 0 /\ x.g = y.g
  BY <1>2 DEF ExclusiveInv
<1>6. /\ ch'[c].qcount > 0 => ch'[c].recvq = <<>>
      /\ ch'[c].qcount < Cap[c] => ch'[c].sendq = <<>>
  BY <1>3 DEF ExclusiveInv, Counts
<1>7. ch'[c].closed =>
         \/ ch'[c].recvq = <<>> /\ ch'[c].sendq = <<>>
         \/ \E g \in G : pc'[g] \in InClose /\ ChanOf(g, 1)' = c
  BY <1>3, <1>4 DEF ExclusiveInv, Counts
<1> QED
  BY <1>5, <1>6, <1>7

(* A goroutine that cannot proceed joins empty queues.                     *)
LEMMA ParkExclusive ==
  ASSUME TypeOK, QueueInv, ExclusiveInv, NEW g \in G, op[g] \in Ops,
         pc[g] \notin {"parked", "relock"} \cup InClose,
         NEW h, PolledFrom(h, g, Cases(g)), ch' = Enqueued(g, h),
         \A i \in Cases(g) : ~CanProceed(g, i),
         \A k \in G \ {g} : pc'[k] = pc[k], op' = op
  PROVE  /\ ExclusiveInv'
         /\ \A c \in C : ch[c].closed /\ ch[c].recvq = <<>> => ch'[c].recvq = <<>>
<1> SUFFICES ASSUME NEW c \in C
             PROVE
    /\ \A x \in ToSet(ch'[c].recvq), y \in ToSet(ch'[c].sendq) : Cap[c] = 0 /\ x.g = y.g
    /\ ch'[c].qcount > 0 => ch'[c].recvq = <<>>
    /\ ch'[c].qcount < Cap[c] => ch'[c].sendq = <<>>
    /\ ch'[c].closed =>
         \/ ch'[c].recvq = <<>> /\ ch'[c].sendq = <<>>
         \/ \E k \in G : pc'[k] \in InClose /\ ChanOf(k, 1)' = c
    /\ ch[c].closed /\ ch[c].recvq = <<>> => ch'[c].recvq = <<>>
  BY DEF ExclusiveInv
<1>1. /\ ch[c] \in Hchan(c) /\ ch'[c] \in Hchan(c) /\ h[c] \in Hchan(c)
      /\ ch'[c].qcount = ch[c].qcount /\ ch'[c].closed = ch[c].closed
  BY EnqueuedFacts DEF TypeOK, PolledFrom
<1>2. /\ ToSet(ch'[c].recvq) = ToSet(h[c].recvq) \cup Mine(g, c, FALSE)
      /\ ToSet(ch'[c].sendq) = ToSet(h[c].sendq) \cup Mine(g, c, TRUE)
      /\ ToSet(h[c].recvq) \subseteq ToSet(ch[c].recvq)
      /\ ToSet(h[c].sendq) \subseteq ToSet(ch[c].sendq)
  <2>1. \A s \in BOOLEAN :
          /\ ToSet(QueueOf(ch', c, s)) = ToSet(QueueOf(h, c, s)) \cup Mine(g, c, s)
          /\ ToSet(QueueOf(h, c, s)) \subseteq ToSet(QueueOf(ch, c, s))
    BY EnqueuedFacts
  <2> QED
    BY <2>1 DEF QueueOf
<1>3. /\ ch[c].qcount \in Nat /\ Cap[c] \in Nat /\ ch[c].qcount <= Cap[c]
      /\ ch[c].recvq = <<>> => ToSet(h[c].recvq) = {}
      /\ ch[c].sendq = <<>> => ToSet(h[c].sendq) = {}
      /\ ToSet(ch'[c].recvq) = {} => ch'[c].recvq = <<>>
      /\ ToSet(ch'[c].sendq) = {} => ch'[c].sendq = <<>>
  BY <1>1, <1>2, EmptyQueues, EmptyFacts, ChanAssumption
<1>4. Mine(g, c, FALSE) # {} =>
        ToSet(h[c].sendq) = {} /\ ~ch[c].closed /\ ch[c].qcount = 0
  <2> SUFFICES ASSUME NEW i \in On(g, Cases(g), c, FALSE)
               PROVE  ToSet(h[c].sendq) = {} /\ ~ch[c].closed /\ ch[c].qcount = 0
    BY DEF Mine
  <2>1. i \in Cases(g) /\ ChanOf(g, i) = c /\ Sends(g, i) = FALSE
    BY DEF On
  <2>2. ~ch[c].closed /\ ~(ch[c].qcount > 0)
    BY <2>1 DEF CanProceed
  <2>3. QueueOf(h, c, TRUE) = <<>>
    BY DEF PolledFrom
  <2> QED
    BY <1>3, <2>2, <2>3, EmptyFacts DEF QueueOf
<1>5. Mine(g, c, TRUE) # {} =>
        ToSet(h[c].recvq) = {} /\ ~ch[c].closed /\ ch[c].qcount = Cap[c]
  <2> SUFFICES ASSUME NEW i \in On(g, Cases(g), c, TRUE)
               PROVE  ToSet(h[c].recvq) = {} /\ ~ch[c].closed /\ ch[c].qcount = Cap[c]
    BY DEF Mine
  <2>1. i \in Cases(g) /\ ChanOf(g, i) = c /\ Sends(g, i) = TRUE
    BY DEF On
  <2>2. ~ch[c].closed /\ ~(ch[c].qcount < Cap[c])
    BY <2>1 DEF CanProceed
  <2>3. QueueOf(h, c, FALSE) = <<>>
    BY DEF PolledFrom
  <2> QED
    BY <1>3, <2>2, <2>3, EmptyFacts DEF QueueOf
<1>6. \A s \in BOOLEAN : \A x \in Mine(g, c, s) : x.g = g
  BY DEF Mine
<1>7. ASSUME NEW x \in ToSet(ch'[c].recvq), NEW y \in ToSet(ch'[c].sendq)
      PROVE  Cap[c] = 0 /\ x.g = y.g
  <2>1. CASE x \in Mine(g, c, FALSE)
    BY <1>2, <1>4, <1>5, <1>6, <2>1
  <2>2. CASE y \in Mine(g, c, TRUE)
    BY <1>2, <1>4, <1>5, <1>6, <2>2
  <2>3. CASE x \in ToSet(h[c].recvq) /\ y \in ToSet(h[c].sendq)
    BY <1>2, <2>3 DEF ExclusiveInv
  <2> QED
    BY <1>2, <2>1, <2>2, <2>3
<1>8. ch'[c].qcount > 0 => ch'[c].recvq = <<>>
  <2> SUFFICES ASSUME ch[c].qcount > 0 PROVE ch'[c].recvq = <<>>
    BY <1>1
  <2>1. ch[c].recvq = <<>>
    BY DEF ExclusiveInv
  <2>2. Mine(g, c, FALSE) = {}
    <3>1. ch[c].qcount # 0
      BY <1>3
    <3> QED
      BY <1>4, <3>1
  <2> QED
    BY <1>2, <1>3, <2>1, <2>2
<1>9. ch'[c].qcount < Cap[c] => ch'[c].sendq = <<>>
  <2> SUFFICES ASSUME ch[c].qcount < Cap[c] PROVE ch'[c].sendq = <<>>
    BY <1>1
  <2>1. ch[c].sendq = <<>>
    BY DEF ExclusiveInv
  <2>2. Mine(g, c, TRUE) = {}
    <3>1. ch[c].qcount # Cap[c]
      BY <1>3
    <3> QED
      BY <1>5, <3>1
  <2> QED
    BY <1>2, <1>3, <2>1, <2>2
<1>10. ch[c].closed => /\ ch[c].recvq = <<>> => ch'[c].recvq = <<>>
                       /\ ch[c].sendq = <<>> => ch'[c].sendq = <<>>
  BY <1>2, <1>3, <1>4, <1>5
<1>11. \A k \in G : pc[k] \in InClose => pc'[k] \in InClose /\ ChanOf(k, 1)' = ChanOf(k, 1)
  BY DEF ChanOf
<1>12. ch'[c].closed =>
         \/ ch'[c].recvq = <<>> /\ ch'[c].sendq = <<>>
         \/ \E k \in G : pc'[k] \in InClose /\ ChanOf(k, 1)' = c
  BY <1>1, <1>10, <1>11, ZenonT(40) DEF ExclusiveInv
<1> QED
  BY <1>7, <1>8, <1>9, <1>10, <1>12

-----------------------------------------------------------------------------
(* Every step preserves ChanInv.                                           *)

LEMMA InitInv == Init => ChanInv
<1> SUFFICES ASSUME Init PROVE ChanInv
  OBVIOUS
<1>1. \A c \in C, s \in BOOLEAN : QueueOf(ch, c, s) = <<>>
  BY DEF Init, QueueOf
<1>2. \A c \in C : ch[c] \in Hchan(c)
  <2> TAKE c \in C
  <2>1. Cap[c] \in Nat /\ Zero \in Value
    BY ChanAssumption DEF Value
  <2> QED
    BY <2>1, EmptyFacts DEF Init, Hchan
<1>3. TypeOK
  BY <1>2 DEF Init, TypeOK, ChanPC, Value
<1>4. CallInv
  BY ChanAssumption DEF Init, CallInv, Stands, InClose
<1>5. WaitInv
  <2>1. \A g \in G : ~Sleeps(g) /\ DOMAIN wake[g] = {}
    BY DEF Init, Sleeps
  <2> QED
    BY <1>1, <2>1, EmptyFacts
    DEF Init, WaitInv, WonInv, WakeInv, QueueInv, AsleepInv
<1>6. ExclusiveInv
  BY EmptyFacts DEF Init, ExclusiveInv
<1>7. CloseInv
  BY DEF Init, CloseInv, InClose
<1> QED
  BY <1>3, <1>4, <1>5, <1>6, <1>7 DEF ChanInv

(* What a step of g keeps that takes sudogs out of queues, whoever it wins *)
(* thereby.                                                                *)
LEMMA ThinInv ==
  ASSUME ChanInv, NEW g \in G, {pc[g], pc'[g]} \cap {"parked", "relock"} = {},
         pc' \in [G -> ChanPC], \A h \in G \ {g} : pc'[h] = pc[h], param[g] = None,
         UNCHANGED <<op, toLock, param>>, owner' \in [C -> G \cup {None}],
         \A c \in C : owner[c] # g => owner'[c] = owner[c], Counts,
         \/ Thins({}) /\ Nobody
         \/ \E x \in Sudog, b \in BOOLEAN : Thins({x}) /\ Wins(g, x, b)
  PROVE  /\ TypeOK' /\ WaitInv'
         /\ \A k \in G \ {g} : Stands(k)'
         /\ wake'[g] = wake[g] \/ wake'[g] # <<>>
         /\ \A c \in C, s \in BOOLEAN : QueueOf(ch, c, s) = <<>> => QueueOf(ch', c, s) = <<>>
         /\ (pc[g] \in InClose => pc'[g] \in InClose) => ExclusiveInv'
         /\ \A k \in G \ {g} : pc'[k] \in InClose =>
              /\ owner'[ChanOf(k, 1)] = k /\ ch'[ChanOf(k, 1)].closed
              /\ pc'[k] = "closeSend" => ch'[ChanOf(k, 1)].recvq = <<>>
<1> USE DEF ChanInv
<1>1. \A c \in C : ch[c].closed => ch'[c].closed
  BY DEF Counts
<1>2. WaitInv'
  <2>1. CASE Thins({}) /\ Nobody
    BY <1>1, <2>1, QuietWaits DEF Nobody
  <2>2. ASSUME NEW x \in Sudog, NEW b \in BOOLEAN, Thins({x}), Wins(g, x, b) PROVE WaitInv'
    BY <1>1, <2>2, WinWaits
  <2> QED
    BY <2>1, <2>2
<1>3. /\ DOMAIN ch' = C
      /\ \A c \in C : ch'[c] \in Hchan(c)
      /\ \A c \in C, s \in BOOLEAN :
           ToSet(QueueOf(ch', c, s)) \subseteq ToSet(QueueOf(ch, c, s))
  BY DEF Thins, Sheds
<1>4. (pc[g] \in InClose => pc'[g] \in InClose) => ExclusiveInv'
  BY <1>3, ShrinkExclusive
<1>5. /\ selectDone' \in [G -> BOOLEAN] /\ wake' \in [G -> Seq(Wakeup)]
      /\ elem' \in [G -> Value] /\ \A h \in G \ {g} : wake'[h] = wake[h]
      /\ wake'[g] = wake[g] \/ wake'[g] # <<>>
  <2>1. CASE Nobody
    BY <2>1 DEF Nobody, TypeOK
  <2>2. ASSUME NEW x \in Sudog, NEW b \in BOOLEAN, Wins(g, x, b)
        PROVE  /\ selectDone' \in [G -> BOOLEAN] /\ wake' \in [G -> Seq(Wakeup)]
               /\ elem' \in [G -> Value] /\ \A h \in G \ {g} : wake'[h] = wake[h]
               /\ wake'[g] # <<>>
    <3>1. [sg |-> x, success |-> b] \in Wakeup
      BY DEF Wakeup
    <3>2. /\ <<[sg |-> x, success |-> b]>> \o wake[g] \in Seq(Wakeup)
          /\ <<[sg |-> x, success |-> b]>> \o wake[g] # <<>>
      BY <3>1, PushFacts DEF TypeOK
    <3>3. Selects(x.g) \in BOOLEAN
      BY DEF Selects
    <3> QED
      BY <2>2, <3>2, <3>3, ZenonT(40) DEF Wins, TypeOK
  <2> QED
    BY <2>1, <2>2
<1>6. TypeOK'
  BY <1>3, <1>5 DEF TypeOK
<1>7. ASSUME NEW k \in G \ {g} PROVE Stands(k)'
  BY <1>5 DEF CallInv, Stands, Selects
<1>8. ASSUME NEW c \in C, NEW s \in BOOLEAN, QueueOf(ch, c, s) = <<>>
      PROVE  QueueOf(ch', c, s) = <<>>
  BY <1>3, <1>8, EmptyFacts DEF QueueOf, Hchan
<1>9. ASSUME NEW k \in G \ {g}, pc'[k] \in InClose
      PROVE  /\ owner'[ChanOf(k, 1)] = k /\ ch'[ChanOf(k, 1)].closed
             /\ pc'[k] = "closeSend" => ch'[ChanOf(k, 1)].recvq = <<>>
  <2>1. pc[k] \in InClose
    BY <1>9
  <2>2. ChanOf(k, 1) \in C
    <3>1. op[k] \in Ops
      BY <2>1 DEF CallInv, Stands, InClose, TypeOK
    <3> QED
      BY <3>1, OpsAssumption DEF ChanOf
  <2>3. ch[ChanOf(k, 1)].recvq = <<>> => ch'[ChanOf(k, 1)].recvq = <<>>
    BY <1>8, <2>2 DEF QueueOf
  <2> QED
    BY <1>1, <1>9, <2>1, <2>2, <2>3 DEF CloseInv
<1> QED
  BY <1>2, <1>4, <1>5, <1>6, <1>7, <1>8, <1>9

(* The body of a call, under the locks it needs.                           *)
LEMMA AttemptInv ==
  ASSUME ChanInv, NEW g \in G, pc[g] \in {"lock", "sellock"},
         Proceed(g) \/ GiveUp(g), UNCHANGED <<op, toLock, param>>,
         owner' \in [C -> G \cup {None}],
         \A c \in C : owner[c] # g => owner'[c] = owner[c]
  PROVE  ChanInv'
<1> USE DEF ChanInv
<1>1. op[g] \in Ops /\ wake[g] = <<>> /\ param[g] = None /\ QueueInv
  BY DEF TypeOK, CallInv, Stands, WaitInv, InClose
<1>2. /\ \A h \in G \ {g} : pc'[h] = pc[h]
      /\ pc' \in [G -> ChanPC]
      /\ pc[g] \notin {"parked", "relock"} \cup InClose
  BY DEF Proceed, GiveUp, TypeOK, ChanPC, InClose
<1>3. ASSUME ~(op[g].block /\ GiveUp(g))
      PROVE  Outcomes(g) /\ pc'[g] = IF wake'[g] = <<>> THEN "done" ELSE "ready"
  <2>1. CASE Proceed(g)
    <3> DEFINE Able == {i \in Cases(g) : CanProceed(g, i)}
    <3>1. PICK i \in Able : \E I \in SUBSET (Cases(g) \ Able) : Communicate(g, i, Polled(g, I))
      BY <2>1 DEF Proceed
    <3>2. PICK I \in SUBSET (Cases(g) \ Able) : Communicate(g, i, Polled(g, I))
      BY <3>1
    <3>3. PolledFrom(Polled(g, I), g, I)
      BY PolledFacts
    <3>4. Outcomes(g)
      BY <1>1, <3>1, <3>2, <3>3, CommunicateFacts
    <3> QED
      BY <2>1, <3>4 DEF Proceed, TypeOK
  <2>2. CASE GiveUp(g)
    <3>1. PolledFrom(Polled(g, Cases(g)), g, Cases(g))
      BY <2>2, PolledFacts DEF GiveUp
    <3>2. ch' = Polled(g, Cases(g)) /\ Nobody /\ pc'[g] = "done"
      BY <1>3, <2>2 DEF GiveUp, Nobody, TypeOK
    <3> QED
      BY <1>1, <3>1, <3>2, TakesNothing DEF Outcomes, Nobody
  <2> QED
    BY <2>1, <2>2
<1>4. ASSUME op[g].block, GiveUp(g)
      PROVE  /\ PolledFrom(Polled(g, Cases(g)), g, Cases(g))
             /\ ch' = Enqueued(g, Polled(g, Cases(g)))
             /\ pc' = [pc EXCEPT ![g] = "parked"]
             /\ \A i \in Cases(g) : ~CanProceed(g, i)
             /\ Nobody
  BY <1>4, PolledFacts DEF GiveUp, Nobody
<1>5. CASE op[g].block /\ GiveUp(g)
  <2> DEFINE h == Polled(g, Cases(g))
  <2>1. /\ PolledFrom(h, g, Cases(g)) /\ ch' = Enqueued(g, h) /\ Nobody
        /\ pc' = [pc EXCEPT ![g] = "parked"]
        /\ \A i \in Cases(g) : ~CanProceed(g, i)
    BY <1>4, <1>5
  <2> HIDE DEF h
  <2>2. WaitInv'
    BY <1>1, <1>2, <2>1, ParkWaits DEF Nobody
  <2>3. /\ ExclusiveInv'
        /\ \A c \in C : ch[c].closed /\ ch[c].recvq = <<>> => ch'[c].recvq = <<>>
    BY <1>1, <1>2, <2>1, ParkExclusive
  <2>4. DOMAIN ch' = C /\ \A c \in C : ch'[c] \in Hchan(c) /\ ch'[c].closed = ch[c].closed
    BY <1>1, <1>2, <2>1, EnqueuedFacts
  <2>5. TypeOK'
    BY <1>2, <2>1, <2>4 DEF TypeOK, Nobody
  <2>6. CallInv'
    <3>1. Stands(g)'
      BY <1>1, <1>2, <2>1 DEF CallInv, Stands, Selects, TypeOK, Nobody, InClose
    <3>2. ASSUME NEW k \in G \ {g} PROVE Stands(k)'
      BY <1>2, <2>1 DEF CallInv, Stands, Selects, Nobody
    <3> QED
      BY <3>1, <3>2 DEF CallInv
  <2>7. CloseInv'
    <3> SUFFICES ASSUME NEW k \in G, pc'[k] \in InClose
                 PROVE  /\ owner'[ChanOf(k, 1)] = k /\ ch'[ChanOf(k, 1)].closed
                        /\ pc'[k] = "closeSend" => ch'[ChanOf(k, 1)].recvq = <<>>
      BY DEF CloseInv, ChanOf
    <3>1. k # g /\ pc'[k] = pc[k]
      BY <1>2, <2>1 DEF InClose, TypeOK
    <3>2. op[k] \in Ops /\ ChanOf(k, 1) \in C
      <4>1. op[k] \in Ops
        BY <3>1 DEF CallInv, Stands, InClose, TypeOK
      <4> QED
        BY <4>1, OpsAssumption DEF ChanOf
    <3> QED
      BY <2>3, <2>4, <3>1, <3>2 DEF CloseInv
  <2> QED
    BY <2>2, <2>3, <2>5, <2>6, <2>7
<1>6. CASE ~(op[g].block /\ GiveUp(g))
  <2>1. Outcomes(g) /\ pc'[g] = IF wake'[g] = <<>> THEN "done" ELSE "ready"
    BY <1>3, <1>6
  <2>2. {pc[g], pc'[g]} \cap {"parked", "relock"} = {}
    BY <1>2, <2>1
  <2>3. /\ Counts
        /\ \/ Thins({}) /\ Nobody
           \/ \E x \in Sudog, b \in BOOLEAN : Thins({x}) /\ Wins(g, x, b)
    BY <2>1 DEF Outcomes
  <2>4. /\ TypeOK' /\ WaitInv' /\ ExclusiveInv'
        /\ \A k \in G \ {g} : Stands(k)'
        /\ \A k \in G \ {g} : pc'[k] \in InClose =>
             /\ owner'[ChanOf(k, 1)] = k /\ ch'[ChanOf(k, 1)].closed
             /\ pc'[k] = "closeSend" => ch'[ChanOf(k, 1)].recvq = <<>>
    BY <1>1, <1>2, <2>2, <2>3, ThinInv
  <2>5. Stands(g)'
    BY <1>1, <1>2, <2>1 DEF CallInv, Stands, Selects, TypeOK, InClose
  <2>6. CloseInv'
    BY <2>1, <2>4 DEF CloseInv, InClose, ChanOf
  <2> QED
    BY <2>4, <2>5, <2>6 DEF CallInv
<1> QED
  BY <1>5, <1>6

LEMMA ChanSendInv == ASSUME ChanInv, NEW g \in G, ChanSend(g) PROVE ChanInv'
  BY AttemptInv DEF ChanSend, ChanInv, TypeOK

LEMMA ChanRecvInv == ASSUME ChanInv, NEW g \in G, ChanRecv(g) PROVE ChanInv'
  BY AttemptInv DEF ChanRecv, ChanInv, TypeOK

LEMMA SelectPollInv == ASSUME ChanInv, NEW g \in G, SelectPoll(g) PROVE ChanInv'
<1>1. owner' \in [C -> G \cup {None}] /\ \A c \in C : owner[c] # g => owner'[c] = owner[c]
  BY DEF SelectPoll, SelUnlock, ChanInv, TypeOK
<1> QED
  BY <1>1, AttemptInv DEF SelectPoll

(* A step on no queue.                                                     *)
LEMMA QuietInv ==
  ASSUME ChanInv, NEW g \in G, UNCHANGED <<ch, owner, selectDone, wake>>,
         {pc[g], pc'[g]} \cap ({"parked", "relock"} \cup InClose) = {},
         \A h \in G \ {g} : pc'[h] = pc[h] /\ op'[h] = op[h] /\ param'[h] = param[h],
         param'[g] = None, TypeOK', Stands(g)'
  PROVE  ChanInv'
<1> USE DEF ChanInv
<1>1. Thins({}) /\ Counts
  <2>1. \A c \in C, s \in BOOLEAN : Sheds(QueueOf(ch, c, s), QueueOf(ch', c, s), {})
    BY Queue, ShedsNothing DEF WaitInv
  <2> QED
    BY <2>1 DEF Thins, Counts, TypeOK
<1>2. WaitInv'
  BY <1>1, QuietWaits
<1>3. ExclusiveInv'
  BY <1>1, ShrinkExclusive DEF Thins, Sheds
<1>4. CallInv'
  BY DEF CallInv, Stands, Selects
<1>5. CloseInv'
  BY DEF CloseInv, ChanOf
<1> QED
  BY <1>2, <1>3, <1>4, <1>5

LEMMA WokenInv == ASSUME ChanInv, NEW g \in G, Woken(g) PROVE ChanInv'
<1> USE DEF ChanInv
<1>1. /\ pc[g] = "woken" /\ pc' = [pc EXCEPT ![g] = "done"]
      /\ param' = [param EXCEPT ![g] = None]
      /\ UNCHANGED <<ch, owner, op, toLock, selectDone, wake, elem>>
  BY DEF Woken, Goto
<1>2. TypeOK'
  BY <1>1 DEF TypeOK, ChanPC
<1>3. Stands(g)'
  BY <1>1 DEF CallInv, Stands, TypeOK, Selects, InClose
<1> QED
  BY <1>1, <1>2, <1>3, QuietInv DEF TypeOK, InClose

(* The fast paths and the steps between them.                              *)
LEMMA TryInv ==
  ASSUME ChanInv, NEW g \in G,
         pc[g] \in {"tryClosed", "tryFull", "tryEmpty", "tryEmptyAgain"},
         NEW to \in {"tryClosed", "tryFull", "tryEmptyAgain", "lock", "done"},
         pc' = [pc EXCEPT ![g] = to], UNCHANGED others
  PROVE  ChanInv'
<1> USE DEF ChanInv
<1>1. UNCHANGED <<ch, owner, op, toLock, selectDone, wake, param, elem>>
  BY DEF others
<1>2. TypeOK'
  BY <1>1 DEF TypeOK, ChanPC
<1>3. Stands(g)'
  BY <1>1 DEF CallInv, Stands, TypeOK, Selects, InClose
<1>4. param'[g] = None
  BY <1>1 DEF CallInv, Stands
<1> QED
  BY <1>1, <1>2, <1>3, <1>4, QuietInv, ZenonT(40) DEF TypeOK, InClose

LEMMA FastInv ==
  ASSUME ChanInv, NEW g \in G,
         SendTryClosed(g) \/ SendTryFull(g) \/ RecvTryEmpty(g)
           \/ RecvTryClosed(g) \/ RecvTryEmptyAgain(g)
  PROVE  ChanInv'
<1>1. PICK to \in {"tryClosed", "tryFull", "tryEmptyAgain", "lock", "done"} :
        /\ pc[g] \in {"tryClosed", "tryFull", "tryEmpty", "tryEmptyAgain"}
        /\ pc' = [pc EXCEPT ![g] = to]
  BY DEF SendTryClosed, SendTryFull, RecvTryEmpty, RecvTryClosed, RecvTryEmptyAgain, Fast, Goto
<1>2. UNCHANGED others
  BY DEF SendTryClosed, SendTryFull, RecvTryEmpty, RecvTryClosed, RecvTryEmptyAgain
<1> QED
  BY <1>1, <1>2, TryInv

LEMMA SelLockInv == ASSUME ChanInv, NEW g \in G, SelLock(g) PROVE ChanInv'
<1> USE DEF ChanInv
<1>1. PICK c \in C :
        /\ owner[c] = None /\ owner' = [owner EXCEPT ![c] = g]
        /\ toLock' = [toLock EXCEPT ![g] = @ \ {c}]
        /\ UNCHANGED <<ch, pc, op, selectDone, wake, param, elem>>
  BY DEF SelLock
<1>2. TypeOK'
  BY <1>1 DEF TypeOK
<1>3. CallInv'
  BY <1>1 DEF CallInv, Stands, Selects
<1>4. WaitInv'
  <2>1. \A k \in G :
          /\ (Woke(k)' <=> Woke(k)) /\ (Sleeps(k)' <=> Sleeps(k))
          /\ Cases(k)' = Cases(k) /\ (Selects(k)' <=> Selects(k))
          /\ \A i : ChanOf(k, i)' = ChanOf(k, i) /\ Sends(k, i)' = Sends(k, i)
    BY <1>1 DEF Sleeps, Woke, Selects, Cases, ChanOf, Sends
  <2>2. WonInv'
    BY <1>1, <2>1 DEF WaitInv, WonInv
  <2>3. QueueInv'
    <3>1. ASSUME NEW c1 \in C, NEW s \in BOOLEAN, NEW x \in ToSet(QueueOf(ch, c1, s))
          PROVE  Belongs(x, c1, s)'
      <4>1. x.g \in G /\ Belongs(x, c1, s)
        BY QueuedFacts DEF WaitInv
      <4> QED
        BY <1>1, <2>1, <4>1 DEF Belongs
    <3> QED
      BY <1>1, <3>1 DEF WaitInv, QueueInv
  <2>4. \A w : Taken(w) /\ w.sg.g \in G => Taken(w)'
    BY <1>1, <2>1 DEF Taken
  <2>5. WakeInv'
    <3>1. ASSUME NEW h \in G, NEW n \in DOMAIN wake[h]
          PROVE  pc[wake[h][n].sg.g] = "parked" /\ Taken(wake[h][n])'
      <4>1. PICK w : w = wake[h][n]
        OBVIOUS
      <4>2. w.sg.g \in G /\ Taken(w) /\ pc[w.sg.g] = "parked"
        BY <4>1, WakeupFacts DEF WaitInv
      <4>3. Taken(w)'
        BY <2>4, <4>2
      <4> QED
        BY <1>1, <4>1, <4>2, <4>3
    <3>2. ASSUME NEW k \in G, param[k] # None
          PROVE  param[k].sg.g = k /\ Taken(param[k])'
      <4>1. PICK w : w = param[k]
        OBVIOUS
      <4>2. w.sg.g = k /\ Taken(w)
        BY <3>2, <4>1 DEF WaitInv, WakeInv
      <4>3. Taken(w)'
        BY <2>4, <4>2
      <4> QED
        BY <1>1, <4>1, <4>2, <4>3
    <3> QED
      BY <1>1, <3>1, <3>2 DEF WaitInv, WakeInv
  <2>6. AsleepInv'
    BY <1>1, <2>1 DEF WaitInv, AsleepInv
  <2> QED
    BY <2>2, <2>3, <2>5, <2>6 DEF WaitInv
<1>5. ExclusiveInv'
  BY <1>1 DEF ExclusiveInv, ChanOf
<1>6. CloseInv'
  BY <1>1, ChanAssumption DEF CloseInv, ChanOf, TypeOK
<1> QED
  BY <1>2, <1>3, <1>4, <1>5, <1>6

LEMMA CallStepInv == ASSUME ChanInv, NEW g \in G, NEW o \in Ops, Call(g, o) PROVE ChanInv'
<1> USE DEF ChanInv
<1>1. /\ pc[g] = "out" /\ pc' = [pc EXCEPT ![g] = Start(o)]
      /\ op' = [op EXCEPT ![g] = o]
      /\ toLock' = [toLock EXCEPT ![g] = IF o.kind = "select" THEN Chans(o) ELSE {}]
      /\ UNCHANGED <<ch, owner, selectDone, wake, param, elem>>
  BY DEF Call, Goto
<1>2. /\ Start(o) \in {"close", "sellock", "lock", "tryClosed", "tryEmpty"}
      /\ Start(o) = "sellock" => o.kind = "select"
      /\ Start(o) = "close" => o.kind = "close"
      /\ Start(o) \in {"lock", "tryClosed", "tryEmpty"} => o.kind = "chan"
      /\ o # None
  BY OpsAssumption, ChanAssumption DEF Start
<1>3. Chans(o) \subseteq C
  BY OpsAssumption DEF Chans
<1>4. TypeOK'
  BY <1>1, <1>2, <1>3 DEF TypeOK, ChanPC
<1>5. wake[g] = <<>> /\ param[g] = None
  BY <1>1 DEF CallInv, Stands, InClose
<1>6. Stands(g)'
  BY <1>1, <1>2, <1>5 DEF Stands, TypeOK, Selects, InClose
<1>7. /\ \A h \in G \ {g} : pc'[h] = pc[h] /\ op'[h] = op[h] /\ param'[h] = param[h]
      /\ UNCHANGED <<ch, owner, selectDone, wake>> /\ param'[g] = None
      /\ pc'[g] = Start(o)
  BY <1>1, <1>5 DEF TypeOK
<1>8. {pc[g], pc'[g]} \cap ({"parked", "relock"} \cup InClose) = {}
  BY <1>1, <1>2, <1>7 DEF InClose
<1> QED
  BY <1>4, <1>6, <1>7, <1>8, QuietInv

LEMMA ReturnInv == ASSUME ChanInv, NEW g \in G, Return(g) PROVE ChanInv'
<1> USE DEF ChanInv
<1>1. /\ pc[g] = "done" /\ pc' = [pc EXCEPT ![g] = "out"]
      /\ op' = [op EXCEPT ![g] = None] /\ elem' = [elem EXCEPT ![g] = Zero]
      /\ UNCHANGED <<ch, owner, toLock, selectDone, wake, param>>
  BY DEF Return, Goto
<1>2. TypeOK'
  BY <1>1 DEF TypeOK, ChanPC, Value
<1>3. wake[g] = <<>> /\ param[g] = None
  BY <1>1 DEF CallInv, Stands, InClose
<1>4. Stands(g)'
  BY <1>1, <1>3 DEF Stands, TypeOK, Selects, InClose
<1>5. /\ \A h \in G \ {g} : pc'[h] = pc[h] /\ op'[h] = op[h] /\ param'[h] = param[h]
      /\ UNCHANGED <<ch, owner, selectDone, wake>> /\ param'[g] = None
      /\ {pc[g], pc'[g]} \cap ({"parked", "relock"} \cup InClose) = {}
  BY <1>1, <1>3 DEF TypeOK, InClose
<1> QED
  BY <1>2, <1>4, <1>5, QuietInv

LEMMA ReadyInv == ASSUME ChanInv, NEW g \in G, Ready(g) PROVE ChanInv'
<1> USE DEF ChanInv
<1>1. PICK w \in Wakeup :
        /\ w.sg.g \in G /\ w.sg.g # g /\ pc[w.sg.g] = "parked" /\ pc[g] = "ready"
        /\ w.success \in BOOLEAN /\ Taken(w) /\ Woke(w.sg.g)
        /\ wake[g] # <<>> /\ 1 \in DOMAIN wake[g] /\ wake[g][1] = w
        /\ wake' = [wake EXCEPT ![g] = Tail(@)]
        /\ param' = [param EXCEPT ![w.sg.g] = w]
        /\ pc' = [pc EXCEPT ![w.sg.g] = IF Selects(w.sg.g) THEN "relock" ELSE "woken",
                            ![g] = IF Len(wake[g]) = 1 THEN "done" ELSE "ready"]
        /\ toLock' = [toLock EXCEPT ![w.sg.g] =
             IF Selects(w.sg.g) THEN Chans(op[w.sg.g]) ELSE {}]
        /\ UNCHANGED <<ch, owner, op, selectDone, elem, result>>
  BY ReadyFacts
<1>2. PICK r \in G : r = w.sg.g
  BY <1>1
<1>3. /\ pc' \in [G -> ChanPC] /\ r # g /\ pc[r] = "parked" /\ pc[g] = "ready"
      /\ pc'[r] = (IF Selects(r) THEN "relock" ELSE "woken")
      /\ pc'[g] = (IF Len(wake[g]) = 1 THEN "done" ELSE "ready")
      /\ \A k \in G \ {g, r} : pc'[k] = pc[k]
      /\ param'[r] = w /\ \A k \in G \ {r} : param'[k] = param[k]
  BY <1>1, <1>2 DEF TypeOK, ChanPC
<1>4. op[r] \in Ops /\ Chans(op[r]) \subseteq C /\ w # None
  <2>1. op[r] \in Ops
    BY <1>3 DEF CallInv, Stands, TypeOK
  <2>2. w # None
    BY ChanAssumption
  <2> QED
    BY <2>1, <2>2, OpsAssumption DEF Chans
<1>5. wake' \in [G -> Seq(Wakeup)]
  BY <1>1 DEF TypeOK
<1>6. /\ toLock' \in [G -> SUBSET C] /\ param' \in [G -> Wakeup \cup {None}]
      /\ UNCHANGED <<ch, owner, op, selectDone, elem>>
  BY <1>1, <1>2, <1>4 DEF TypeOK
<1>7. TypeOK'
  BY <1>3, <1>5, <1>6 DEF TypeOK
<1>8. WaitInv'
  BY ReadyWaits
<1>9. CallInv'
  <2>1. Stands(g)'
    <3>1. wake[g] \in Seq(Wakeup) /\ wake[g] # <<>> /\ wake'[g] = Tail(wake[g])
      BY <1>1 DEF TypeOK
    <3>2. Len(wake[g]) \in Nat /\ Len(wake'[g]) = Len(wake[g]) - 1 /\ wake'[g] \in Seq(Wakeup)
      BY <3>1
    <3>3. Len(wake[g]) # 1 => Len(wake'[g]) # 0
      BY <3>2
    <3>4. Len(wake[g]) # 1 => wake'[g] # <<>>
      BY <3>3
    <3>5. Len(wake[g]) = 1 => wake'[g] = <<>>
      BY <3>2
    <3>6. Stands(g)
      BY DEF CallInv
    <3> QED
      BY <1>3, <1>6, <3>4, <3>5, <3>6 DEF Stands, Selects, InClose
  <2>2. Stands(r)'
    <3>1. Stands(r) /\ (~Selects(r) => op[r].kind = "chan")
      BY <1>3, <1>4, OpsAssumption DEF CallInv, Stands, Selects
    <3>2. wake'[r] = wake[r] /\ op'[r] = op[r] /\ op[r] # None
      BY <1>1, <1>3, <1>4, <1>6, ChanAssumption DEF TypeOK
    <3> QED
      BY <1>3, <1>4, <3>1, <3>2 DEF Stands, Selects, InClose
  <2>3. ASSUME NEW k \in G \ {g, r} PROVE Stands(k)'
    <3>1. wake'[k] = wake[k] /\ op'[k] = op[k] /\ param'[k] = param[k] /\ pc'[k] = pc[k]
      BY <1>1, <1>3, <1>6 DEF TypeOK
    <3> QED
      BY <3>1 DEF CallInv, Stands, Selects
  <2> QED
    BY <2>1, <2>2, <2>3 DEF CallInv
<1>10. \A k \in G : pc'[k] \in InClose <=> pc[k] \in InClose
  BY <1>3 DEF InClose
<1>11. \A k \in G : pc'[k] = "closeSend" => pc[k] = "closeSend"
  BY <1>3
<1>12. ExclusiveInv'
  BY <1>6, <1>10 DEF ExclusiveInv, ChanOf
<1>13. CloseInv'
  BY <1>6, <1>10, <1>11 DEF CloseInv, ChanOf
<1> QED
  BY <1>7, <1>8, <1>9, <1>12, <1>13

LEMMA SelectFinishInv == ASSUME ChanInv, NEW g \in G, SelectFinish(g) PROVE ChanInv'
<1> USE DEF ChanInv
<1>1. /\ pc[g] = "relock" /\ pc' = [pc EXCEPT ![g] = "done"]
      /\ selectDone' = [selectDone EXCEPT ![g] = FALSE]
      /\ param' = [param EXCEPT ![g] = None]
      /\ owner' = [c \in C |-> IF owner[c] = g THEN None ELSE owner[c]]
      /\ UNCHANGED <<op, toLock, wake, elem>>
  BY DEF SelectFinish, Goto, SelUnlock
<1>2. /\ DOMAIN ch' = C
      /\ \A c \in C :
           /\ ch'[c] \in Hchan(c)
           /\ ch'[c].qcount = ch[c].qcount /\ ch'[c].closed = ch[c].closed
      /\ \A c \in C, s \in BOOLEAN :
           ToSet(QueueOf(ch', c, s)) \subseteq ToSet(QueueOf(ch, c, s))
  BY FinishFacts
<1>3. TypeOK'
  BY <1>1, <1>2 DEF TypeOK, ChanPC
<1>4. WaitInv'
  BY FinishWaits
<1>5. \A k \in G \ {g} : pc'[k] = pc[k] /\ param'[k] = param[k]
  BY <1>1 DEF TypeOK
<1>6. pc'[g] = "done" /\ param'[g] = None
  BY <1>1 DEF TypeOK
<1>7. CallInv'
  <2>1. Stands(g)'
    BY <1>1, <1>6 DEF CallInv, Stands, Selects, InClose
  <2>2. ASSUME NEW k \in G \ {g} PROVE Stands(k)'
    BY <1>1, <1>5 DEF CallInv, Stands, Selects
  <2> QED
    BY <2>1, <2>2 DEF CallInv
<1>8. Counts
  BY <1>2 DEF Counts
<1>9. \A k \in G : pc[k] \in InClose => pc'[k] \in InClose /\ op'[k] = op[k]
  BY <1>1, <1>5 DEF InClose
<1>10. ExclusiveInv'
  BY <1>2, <1>8, <1>9, ShrinkExclusive
<1>11. CloseInv'
  <2> SUFFICES ASSUME NEW k \in G, pc'[k] \in InClose
               PROVE  /\ owner'[ChanOf(k, 1)] = k /\ ch'[ChanOf(k, 1)].closed
                      /\ pc'[k] = "closeSend" => ch'[ChanOf(k, 1)].recvq = <<>>
    BY <1>1 DEF CloseInv, ChanOf
  <2>1. k # g /\ pc'[k] = pc[k]
    BY <1>5, <1>6 DEF InClose
  <2>2. ChanOf(k, 1) \in C
    <3>1. op[k] \in Ops
      BY <2>1 DEF CallInv, Stands, InClose, TypeOK
    <3> QED
      BY <3>1, OpsAssumption DEF ChanOf
  <2>3. ch[ChanOf(k, 1)].recvq = <<>> => ch'[ChanOf(k, 1)].recvq = <<>>
    BY <1>2, <2>2, EmptyFacts DEF QueueOf, Hchan, TypeOK
  <2> QED
    BY <1>1, <1>2, <2>1, <2>2, <2>3 DEF CloseInv
<1> QED
  BY <1>3, <1>4, <1>7, <1>10, <1>11

(* A close holds the lock of its channel, so it is the only one.           *)
LEMMA CloseMarkInv == ASSUME ChanInv, NEW g \in G, CloseMark(g) PROVE ChanInv'
<1> USE DEF ChanInv
<1> DEFINE c == ChanOf(g, 1)
           q == IF ch[c].closed THEN "done" ELSE "closeRecv"
<1>1. /\ pc[g] = "close" /\ owner[c] = None
      /\ pc' = [pc EXCEPT ![g] = q]
      /\ ch' = [ch EXCEPT ![c].closed = TRUE]
      /\ owner' = [owner EXCEPT ![c] = IF ch[c].closed THEN None ELSE g]
      /\ UNCHANGED <<op, toLock, selectDone, wake, param, elem>>
  BY DEF CloseMark, Goto
<1>2. op[g] \in Ops /\ c \in C /\ wake[g] = <<>> /\ param[g] = None
  <2>1. op[g] \in Ops /\ wake[g] = <<>> /\ param[g] = None
    BY <1>1 DEF CallInv, Stands, InClose, TypeOK
  <2> QED
    BY <2>1, OpsAssumption DEF ChanOf
<1>3. pc'[g] = q /\ (\A k \in G \ {g} : pc'[k] = pc[k])
  BY <1>1 DEF TypeOK
<1>4. /\ DOMAIN ch' = C /\ ch'[c] = [ch[c] EXCEPT !.closed = TRUE]
      /\ \A d \in C \ {c} : ch'[d] = ch[d]
  BY <1>1, <1>2 DEF TypeOK
<1>5. /\ ch'[c] \in Hchan(c) /\ ch'[c].closed
      /\ \A d \in C :
           /\ ch'[d].recvq = ch[d].recvq /\ ch'[d].sendq = ch[d].sendq
           /\ ch'[d].qcount = ch[d].qcount
  <2>1. ch[c] \in Hchan(c) /\ ch[c] = [ch[c] EXCEPT !.closed = ch[c].closed]
    BY <1>2 DEF TypeOK, Hchan
  <2>2. /\ ch'[c] \in Hchan(c) /\ ch'[c].closed
        /\ ch'[c].recvq = ch[c].recvq /\ ch'[c].sendq = ch[c].sendq
        /\ ch'[c].qcount = ch[c].qcount
    BY <1>4, <2>1 DEF Hchan
  <2> QED
    BY <1>4, <2>2
<1>6. /\ owner' \in [C -> G \cup {None}]
      /\ owner'[c] = IF ch[c].closed THEN None ELSE g
      /\ \A d \in C \ {c} : owner'[d] = owner[d]
  BY <1>1, <1>2 DEF TypeOK
<1> HIDE DEF c
<1>7. TypeOK'
  BY <1>1, <1>4, <1>5, <1>6 DEF TypeOK, ChanPC
<1>8. WaitInv'
  <2>1. \A d \in C, s \in BOOLEAN : Sheds(QueueOf(ch, d, s), QueueOf(ch', d, s), {})
    <3> TAKE d \in C, s \in BOOLEAN
    <3>1. QueueOf(ch', d, s) = QueueOf(ch, d, s)
      BY <1>5 DEF QueueOf
    <3> QED
      BY <3>1, Queue, ShedsNothing DEF WaitInv
  <2>2. Thins({})
    BY <1>4, <1>5, <2>1 DEF Thins, TypeOK
  <2>3. \A d \in C : ch[d].closed => ch'[d].closed
    BY <1>4, <1>5
  <2> QED
    BY <1>1, <1>2, <1>3, <2>2, <2>3, QuietWaits
<1>9. CallInv'
  BY <1>1, <1>2, <1>3 DEF CallInv, Stands, Selects, InClose
<1>10. \A k \in G : pc[k] \in InClose => k # g /\ ChanOf(k, 1) \in C /\ ChanOf(k, 1) # c
  <2> SUFFICES ASSUME NEW k \in G, pc[k] \in InClose
               PROVE  k # g /\ ChanOf(k, 1) \in C /\ ChanOf(k, 1) # c
    OBVIOUS
  <2>1. op[k] \in Ops
    BY DEF CallInv, Stands, InClose, TypeOK
  <2>2. owner[ChanOf(k, 1)] = k /\ k # None
    BY ChanAssumption DEF CloseInv
  <2> QED
    BY <1>1, <2>1, <2>2, OpsAssumption DEF ChanOf, InClose
<1>11. ExclusiveInv'
  <2> SUFFICES ASSUME NEW d \in C, ch'[d].closed
               PROVE  \/ ch'[d].recvq = <<>> /\ ch'[d].sendq = <<>>
                      \/ \E k \in G : pc'[k] \in InClose /\ ChanOf(k, 1) = d
    BY <1>1, <1>5 DEF ExclusiveInv, ChanOf
  <2>1. CASE d = c /\ ~ch[c].closed
    BY <1>3, <2>1 DEF InClose, c
  <2>2. CASE ch[d].closed
    BY <1>3, <1>5, <1>10, <2>2 DEF ExclusiveInv
  <2> QED
    BY <1>4, <2>1, <2>2
<1>12. CloseInv'
  <2> SUFFICES ASSUME NEW k \in G, pc'[k] \in InClose
               PROVE  /\ owner'[ChanOf(k, 1)] = k /\ ch'[ChanOf(k, 1)].closed
                      /\ pc'[k] = "closeSend" => ch'[ChanOf(k, 1)].recvq = <<>>
    BY <1>1 DEF CloseInv, ChanOf
  <2>1. CASE k = g
    BY <1>3, <1>5, <1>6, <2>1 DEF InClose, c
  <2>2. CASE k # g
    BY <1>3, <1>4, <1>6, <1>10, <2>2 DEF CloseInv
  <2> QED
    BY <2>1, <2>2
<1> QED
  BY <1>7, <1>8, <1>9, <1>11, <1>12

(* A close that goes through the queue s of its channel.                   *)
Collects(g, s) ==
  LET c == ChanOf(g, 1)
      q == QueueOf(ch, c, s) IN
  /\ DOMAIN ch' = C /\ \A d \in C \ {c} : ch'[d] = ch[d]
  /\ ch'[c] \in Hchan(c)
  /\ QueueOf(ch', c, s) = AfterDequeue(q) /\ QueueOf(ch', c, ~s) = QueueOf(ch, c, ~s)
  /\ ch'[c].qcount = ch[c].qcount /\ ch'[c].closed = ch[c].closed
  /\ IF Waiting(q) THEN Release(g, q[Dequeued(q)]) ELSE Nobody

LEMMA CloserFacts ==
  ASSUME ChanInv, NEW g \in G, pc[g] \in InClose
  PROVE  /\ op[g] \in Ops /\ ChanOf(g, 1) \in C /\ param[g] = None
         /\ owner[ChanOf(g, 1)] = g /\ ch[ChanOf(g, 1)].closed
<1> USE DEF ChanInv
<1>1. op[g] \in Ops /\ param[g] = None
  BY DEF CallInv, Stands, InClose, TypeOK
<1>2. ChanOf(g, 1) \in C
  BY <1>1, OpsAssumption DEF ChanOf
<1> QED
  BY <1>1, <1>2 DEF CloseInv

LEMMA CollectFacts ==
  ASSUME ChanInv, NEW g \in G, pc[g] \in InClose, NEW s \in BOOLEAN, Collects(g, s)
  PROVE  /\ Counts
         /\ \/ Thins({}) /\ Nobody
            \/ \E x \in Sudog, b \in BOOLEAN : Thins({x}) /\ Wins(g, x, b)
         /\ ~Waiting(QueueOf(ch, ChanOf(g, 1), s)) => QueueOf(ch', ChanOf(g, 1), s) = <<>>
<1> USE DEF ChanInv
<1> DEFINE c == ChanOf(g, 1)
           q == QueueOf(ch, c, s)
           x == q[Dequeued(q)]
<1>1. c \in C /\ ch[c].closed /\ QueueInv
  BY CloserFacts DEF WaitInv
<1>2. PolledFrom(ch, g, {})
  BY <1>1 DEF PolledFrom, TypeOK, On
<1>3. CASE Waiting(q)
  <2>1. /\ Thins({x}) /\ Counts /\ x \in Sudog /\ Free(x)
        /\ x \in ToSet(QueueOf(ch, c, s)) /\ x \notin ToSet(QueueOf(ch', c, s))
    BY <1>1, <1>2, <1>3, TakesOne DEF Collects
  <2>2. Release(g, x) /\ ch'[c].closed
    BY <1>1, <1>3 DEF Collects
  <2> HIDE DEF x, q, c
  <2>3. elem' \in [G -> Value]
    BY <2>2 DEF Release, TypeOK, Value
  <2>4. Wins(g, x, FALSE)
    BY <1>1, <2>1, <2>2, <2>3 DEF Wins, Release, Win, Selects
  <2> QED
    BY <1>3, <2>1, <2>4 DEF q, c
<1>4. CASE ~Waiting(q)
  <2>1. q \in Seq(Sudog)
    BY <1>1, Queue
  <2>2. QueueOf(ch', c, s) = <<>>
    BY <1>4, <2>1, DequeueNone DEF Collects
  <2>3. Thins({})
    BY <1>1, <1>2, <1>4, <2>2, TakesNone DEF Collects
  <2>4. Counts
    BY <1>1 DEF Collects, Counts
  <2> QED
    BY <1>4, <2>2, <2>3, <2>4 DEF Collects
<1> QED
  BY <1>3, <1>4

LEMMA CloseRecvInv == ASSUME ChanInv, NEW g \in G, CloseRecv(g) PROVE ChanInv'
<1> USE DEF ChanInv
<1> DEFINE c == ChanOf(g, 1)
           q == QueueOf(ch, c, FALSE)
<1>1. /\ pc[g] = "closeRecv" /\ UNCHANGED <<owner, op, toLock, param>>
      /\ ch' = [ch EXCEPT ![c].recvq = AfterDequeue(q)]
      /\ IF Waiting(q)
         THEN Release(g, q[Dequeued(q)]) /\ UNCHANGED pc
         ELSE pc' = [pc EXCEPT ![g] = "closeSend"] /\ Nobody
  BY DEF CloseRecv, Goto, QueueOf, Nobody
<1>2. /\ c \in C /\ pc[g] \in InClose /\ param[g] = None
      /\ op[g] \in Ops /\ owner[c] = g /\ ch[c].closed
  BY <1>1, CloserFacts DEF InClose
<1>3. /\ DOMAIN ch' = C /\ ch'[c] = [ch[c] EXCEPT !.recvq = AfterDequeue(q)]
      /\ \A d \in C \ {c} : ch'[d] = ch[d]
  BY <1>1, <1>2 DEF TypeOK
<1>4. ch[c] \in Hchan(c) /\ AfterDequeue(q) \in Seq(Sudog)
  BY <1>2, Queue, AfterDequeueType DEF TypeOK
<1> HIDE DEF c, q
<1>5. /\ ch'[c] \in Hchan(c) /\ ch'[c].recvq = AfterDequeue(q)
      /\ ch'[c].sendq = ch[c].sendq
      /\ ch'[c].qcount = ch[c].qcount /\ ch'[c].closed = ch[c].closed
  BY <1>3, <1>4 DEF Hchan
<1>6. Collects(g, FALSE)
  BY <1>1, <1>3, <1>5 DEF Collects, QueueOf, c, q
<1>7. /\ Counts
      /\ \/ Thins({}) /\ Nobody
         \/ \E x \in Sudog, b \in BOOLEAN : Thins({x}) /\ Wins(g, x, b)
      /\ ~Waiting(q) => ch'[c].recvq = <<>>
  BY <1>2, <1>6, CollectFacts DEF QueueOf, c, q
<1>8. /\ pc' \in [G -> ChanPC] /\ \A k \in G \ {g} : pc'[k] = pc[k]
      /\ pc'[g] = IF Waiting(q) THEN "closeRecv" ELSE "closeSend"
  BY <1>1 DEF TypeOK, ChanPC
<1>9. pc'[g] \in InClose /\ {pc[g], pc'[g]} \cap {"parked", "relock"} = {}
  BY <1>1, <1>8 DEF InClose
<1>10. owner' \in [C -> G \cup {None}]
  BY <1>1 DEF TypeOK
<1>11. /\ TypeOK' /\ WaitInv' /\ ExclusiveInv'
       /\ \A k \in G \ {g} : Stands(k)'
       /\ \A k \in G \ {g} : pc'[k] \in InClose =>
            /\ owner'[ChanOf(k, 1)] = k /\ ch'[ChanOf(k, 1)].closed
            /\ pc'[k] = "closeSend" => ch'[ChanOf(k, 1)].recvq = <<>>
  BY <1>1, <1>2, <1>7, <1>8, <1>9, <1>10, ThinInv
<1>12. Stands(g)'
  BY <1>1, <1>2, <1>9 DEF CallInv, Stands, Selects, InClose
<1>13. owner'[c] = g /\ ch'[c].closed /\ (pc'[g] = "closeSend" => ch'[c].recvq = <<>>)
  BY <1>1, <1>2, <1>5, <1>7, <1>8
<1>14. CloseInv'
  BY <1>1, <1>11, <1>13 DEF CloseInv, ChanOf, c
<1> QED
  BY <1>11, <1>12, <1>14 DEF CallInv

\* Its last step has emptied both queues.
LEMMA CloseSendInv == ASSUME ChanInv, NEW g \in G, CloseSend(g) PROVE ChanInv'
<1> USE DEF ChanInv
<1> DEFINE c == ChanOf(g, 1)
           q == QueueOf(ch, c, TRUE)
<1>1. /\ pc[g] = "closeSend" /\ UNCHANGED <<op, toLock, param>>
      /\ ch' = [ch EXCEPT ![c].sendq = AfterDequeue(q)]
      /\ IF Waiting(q)
         THEN Release(g, q[Dequeued(q)]) /\ UNCHANGED <<pc, owner>>
         ELSE /\ pc' = [pc EXCEPT ![g] = IF wake[g] = <<>> THEN "done" ELSE "ready"]
              /\ owner' = [owner EXCEPT ![c] = None]
              /\ Nobody
  BY DEF CloseSend, Goto, QueueOf, Nobody
<1>2. /\ c \in C /\ pc[g] \in InClose /\ param[g] = None
      /\ op[g] \in Ops /\ owner[c] = g /\ ch[c].closed /\ ch[c].recvq = <<>>
  BY <1>1, CloserFacts DEF InClose, CloseInv
<1>3. /\ DOMAIN ch' = C /\ ch'[c] = [ch[c] EXCEPT !.sendq = AfterDequeue(q)]
      /\ \A d \in C \ {c} : ch'[d] = ch[d]
  BY <1>1, <1>2 DEF TypeOK
<1>4. ch[c] \in Hchan(c) /\ AfterDequeue(q) \in Seq(Sudog)
  BY <1>2, Queue, AfterDequeueType DEF TypeOK
<1> HIDE DEF c, q
<1>5. /\ ch'[c] \in Hchan(c) /\ ch'[c].sendq = AfterDequeue(q)
      /\ ch'[c].recvq = ch[c].recvq
      /\ ch'[c].qcount = ch[c].qcount /\ ch'[c].closed = ch[c].closed
  BY <1>3, <1>4 DEF Hchan
<1>6. Collects(g, TRUE)
  BY <1>1, <1>3, <1>5 DEF Collects, QueueOf, c, q
<1>7. /\ Counts
      /\ \/ Thins({}) /\ Nobody
         \/ \E x \in Sudog, b \in BOOLEAN : Thins({x}) /\ Wins(g, x, b)
      /\ ~Waiting(q) => ch'[c].sendq = <<>>
  BY <1>2, <1>6, CollectFacts DEF QueueOf, c, q
<1>8. /\ pc' \in [G -> ChanPC] /\ \A k \in G \ {g} : pc'[k] = pc[k]
      /\ pc'[g] = IF Waiting(q) THEN "closeSend" ELSE IF wake[g] = <<>> THEN "done" ELSE "ready"
  BY <1>1 DEF TypeOK, ChanPC
<1>9. {pc[g], pc'[g]} \cap {"parked", "relock"} = {}
  BY <1>1, <1>8
<1>10. owner' \in [C -> G \cup {None}] /\ \A d \in C : owner[d] # g => owner'[d] = owner[d]
  BY <1>1, <1>2 DEF TypeOK
<1>11. /\ TypeOK' /\ WaitInv'
       /\ \A k \in G \ {g} : Stands(k)'
       /\ (pc[g] \in InClose => pc'[g] \in InClose) => ExclusiveInv'
       /\ \A k \in G \ {g} : pc'[k] \in InClose =>
            /\ owner'[ChanOf(k, 1)] = k /\ ch'[ChanOf(k, 1)].closed
            /\ pc'[k] = "closeSend" => ch'[ChanOf(k, 1)].recvq = <<>>
       /\ \A d \in C, s \in BOOLEAN : QueueOf(ch, d, s) = <<>> => QueueOf(ch', d, s) = <<>>
  BY <1>1, <1>2, <1>7, <1>8, <1>9, <1>10, ThinInv
<1>12. CASE Waiting(q)
  <2>1. pc'[g] = "closeSend" /\ owner'[c] = g /\ ch'[c].closed /\ ch'[c].recvq = <<>>
    BY <1>1, <1>2, <1>5, <1>8, <1>12
  <2>2. Stands(g)'
    BY <1>1, <1>2, <2>1 DEF CallInv, Stands, Selects, InClose
  <2>3. CloseInv'
    <3>1. c' = c /\ \A k \in G : ChanOf(k, 1)' = ChanOf(k, 1)
      BY <1>1 DEF ChanOf, c
    <3> QED
      BY <1>11, <2>1, <3>1 DEF CloseInv, c
  <2>4. ExclusiveInv'
    BY <1>11, <2>1 DEF InClose
  <2> QED
    BY <1>11, <2>2, <2>3, <2>4 DEF CallInv
<1>13. CASE ~Waiting(q)
  <2>1. /\ pc'[g] = IF wake[g] = <<>> THEN "done" ELSE "ready"
        /\ wake' = wake /\ ch'[c].recvq = <<>> /\ ch'[c].sendq = <<>>
    BY <1>1, <1>2, <1>5, <1>7, <1>8, <1>13 DEF Nobody
  <2>2. Stands(g)'
    BY <1>1, <1>2, <2>1 DEF CallInv, Stands, Selects, InClose
  <2>3. CloseInv'
    <3>1. pc'[g] \notin InClose
      BY <2>1 DEF InClose
    <3>2. \A k \in G \ {g} : ChanOf(k, 1)' = ChanOf(k, 1)
      BY <1>1 DEF ChanOf
    <3> QED
      BY <1>11, <3>1, <3>2 DEF CloseInv
  <2>4. ExclusiveInv'
    <3> SUFFICES ASSUME NEW d \in C
                 PROVE
          /\ \A x \in ToSet(ch'[d].recvq), y \in ToSet(ch'[d].sendq) : Cap[d] = 0 /\ x.g = y.g
          /\ ch'[d].qcount > 0 => ch'[d].recvq = <<>>
          /\ ch'[d].qcount < Cap[d] => ch'[d].sendq = <<>>
          /\ ch'[d].closed =>
               \/ ch'[d].recvq = <<>> /\ ch'[d].sendq = <<>>
               \/ \E k \in G : pc'[k] \in InClose /\ ChanOf(k, 1)' = d
      BY DEF ExclusiveInv
    <3>1. CASE d = c
      BY <2>1, <3>1, EmptyFacts
    <3>2. CASE d # c
      <4>1. ch'[d] = ch[d]
        BY <1>3, <3>2
      <4>2. \A k \in G : pc[k] \in InClose /\ ChanOf(k, 1) = d => pc'[k] \in InClose /\ ChanOf(k, 1)' = d
        BY <1>1, <1>8, <3>2 DEF ChanOf, c
      <4> QED
        BY <4>1, <4>2 DEF ExclusiveInv
    <3> QED
      BY <3>1, <3>2
  <2> QED
    BY <1>11, <2>2, <2>3, <2>4 DEF CallInv
<1> QED
  BY <1>12, <1>13

LEMMA StepInv == ChanInv /\ [Next]_vars => ChanInv'
<1> SUFFICES ASSUME ChanInv, [Next]_vars PROVE ChanInv'
  OBVIOUS
<1>1. CASE UNCHANGED vars
  <2>1. UNCHANGED <<ch, owner, pc, op, toLock, selectDone, wake, param, elem>>
    BY <1>1 DEF vars
  <2>2. /\ \A k \in G : Woke(k)' <=> Woke(k)
        /\ \A k \in G : Sleeps(k)' <=> Sleeps(k)
    BY <2>1 DEF Woke, Sleeps
  <2>3. /\ \A c \in C, s \in BOOLEAN : QueueOf(ch, c, s)' = QueueOf(ch, c, s)
        /\ \A k : Cases(k)' = Cases(k) /\ (Selects(k)' <=> Selects(k))
        /\ \A k, i : ChanOf(k, i)' = ChanOf(k, i) /\ Sends(k, i)' = Sends(k, i)
    BY <2>1 DEF QueueOf, Cases, Selects, ChanOf, Sends
  <2>4. TypeOK' /\ CallInv' /\ ExclusiveInv' /\ CloseInv'
    BY <2>1, <2>3 DEF ChanInv, TypeOK, CallInv, Stands, ExclusiveInv, CloseInv
  <2>5. WaitInv'
    <3>1. WonInv' /\ AsleepInv'
      BY <2>1, <2>2, <2>3 DEF ChanInv, WaitInv, WonInv, AsleepInv
    <3>2. \A w : Taken(w) => Taken(w)'
      BY <2>1, <2>3 DEF Taken
    <3>3. WakeInv'
      BY <2>1, <3>2 DEF ChanInv, WaitInv, WakeInv
    <3>4. ASSUME NEW c \in C, NEW s \in BOOLEAN, NEW x \in ToSet(QueueOf(ch, c, s))
          PROVE  Belongs(x, c, s)'
      <4>1. x.g \in G /\ Belongs(x, c, s)
        BY QueuedFacts DEF ChanInv, WaitInv
      <4> QED
        BY <2>1, <2>2, <2>3, <4>1 DEF Belongs
    <3>5. QueueInv'
      BY <2>1, <2>3, <3>4 DEF ChanInv, WaitInv, QueueInv
    <3> QED
      BY <3>1, <3>3, <3>5 DEF WaitInv
  <2> QED
    BY <2>4, <2>5 DEF ChanInv
<1>2. ASSUME NEW g \in G, Continue(g) PROVE ChanInv'
  <2>1. CASE ChanSend(g)
    BY <2>1, ChanSendInv
  <2>2. CASE ChanRecv(g)
    BY <2>2, ChanRecvInv
  <2>3. CASE Woken(g)
    BY <2>3, WokenInv
  <2>4. CASE SendTryClosed(g) \/ SendTryFull(g) \/ RecvTryEmpty(g)
               \/ RecvTryClosed(g) \/ RecvTryEmptyAgain(g)
    BY <2>4, FastInv
  <2>5. CASE SelLock(g)
    BY <2>5, SelLockInv
  <2>6. CASE SelectPoll(g)
    BY <2>6, SelectPollInv
  <2>7. CASE SelectFinish(g)
    BY <2>7, SelectFinishInv
  <2>8. CASE CloseMark(g)
    BY <2>8, CloseMarkInv
  <2>9. CASE CloseRecv(g)
    BY <2>9, CloseRecvInv
  <2>10. CASE CloseSend(g)
    BY <2>10, CloseSendInv
  <2>11. CASE Ready(g)
    BY <2>11, ReadyInv
  <2>12. CASE Return(g)
    BY <2>12, ReturnInv
  <2> QED
    BY <1>2, <2>1, <2>2, <2>3, <2>4, <2>5, <2>6, <2>7, <2>8, <2>9, <2>10, <2>11, <2>12
    DEF Continue
<1>3. ASSUME NEW g \in G, NEW o \in Ops, Call(g, o) PROVE ChanInv'
  BY <1>3, CallStepInv
<1> QED
  BY <1>1, <1>2, <1>3 DEF Next

-----------------------------------------------------------------------------
(* The theorems.                                                           *)

(* Whatever the channels, their capacities and the calls, ChanInv holds    *)
(* after every step.                                                       *)
THEOREM ChanInvariant == Spec => []ChanInv
<1> QED
  BY InitInv, StepInv, PTL DEF Spec

(* The variables keep their types: qcount stays within the capacity, the   *)
(* indexes within the buffer, and a queue holds sudogs of goroutines.      *)
THEOREM ChanTypeCorrect == Spec => []TypeOK
<1>1. ChanInv => TypeOK
  BY DEF ChanInv
<1> QED
  BY <1>1, ChanInvariant, PTL

(* The comment at the head of chan.go: when nobody holds the lock of a     *)
(* channel, its receivers and senders do not wait at once, unless one      *)
(* select waits as both; nobody waits to receive what is buffered, or to   *)
(* send into a buffer with room, or on a closed channel.                   *)
THEOREM ChanQueuesExclusive == Spec => []QueuesExclusive
<1>1. ChanInv => QueuesExclusive
  <2> SUFFICES ASSUME ChanInv, NEW c \in C, owner[c] = None
               PROVE
        /\ \/ ch[c].recvq = <<>> \/ ch[c].sendq = <<>>
           \/ Cap[c] = 0 /\ OneGoroutine(ch[c].recvq \o ch[c].sendq)
        /\ ch[c].qcount > 0 => ch[c].recvq = <<>>
        /\ ch[c].qcount < Cap[c] => ch[c].sendq = <<>>
        /\ ch[c].closed => ch[c].recvq = <<>> /\ ch[c].sendq = <<>>
    BY DEF QueuesExclusive
  <2> DEFINE q == ch[c].recvq
             r == ch[c].sendq
  <2>1. /\ \A x \in ToSet(q), y \in ToSet(r) : Cap[c] = 0 /\ x.g = y.g
        /\ ch[c].qcount > 0 => q = <<>>
        /\ ch[c].qcount < Cap[c] => r = <<>>
    BY DEF ChanInv, ExclusiveInv
  <2>2. ch[c].closed => q = <<>> /\ r = <<>>
    <3>1. \A g \in G : pc[g] \in InClose => ChanOf(g, 1) # c
      BY ChanAssumption DEF ChanInv, CloseInv
    <3> QED
      BY <3>1 DEF ChanInv, ExclusiveInv
  <2>3. q \in Seq(Sudog) /\ r \in Seq(Sudog)
    BY DEF ChanInv, TypeOK, Hchan
  <2> HIDE DEF q, r
  <2>4. ASSUME q # <<>>, r # <<>> PROVE Cap[c] = 0 /\ OneGoroutine(q \o r)
    <3>1. ToSet(q) # {} /\ ToSet(r) # {} /\ ToSet(q \o r) = ToSet(q) \cup ToSet(r)
      BY <2>3, <2>4, EmptyFacts, JoinFacts
    <3>2. PICK x \in ToSet(q), y \in ToSet(r) : TRUE
      BY <3>1
    <3>3. \A s \in ToSet(q) : s.g = y.g
      BY <2>1
    <3>4. \A s \in ToSet(r) : s.g = x.g
      BY <2>1
    <3> QED
      BY <2>1, <3>1, <3>2, <3>3, <3>4 DEF OneGoroutine
  <2> QED
    BY <2>1, <2>2, <2>4 DEF q, r
<1> QED
  BY <1>1, ChanInvariant, PTL

LEMMA WakeupsForFacts ==
  ASSUME ChanInv, NEW g \in G
  PROVE  /\ Woke(g) => pc[g] = "parked" /\ Cardinality(WakeupsFor(g)) = 1
         /\ ~Woke(g) => WakeupsFor(g) = {}
<1> USE DEF ChanInv, WaitInv
<1>1. \A h \in G : \A n : <<h, n>> \in WakeupsFor(g) <=> n \in DOMAIN wake[h] /\ wake[h][n].sg.g = g
  BY DEF WakeupsFor
<1>2. \A p \in WakeupsFor(g) : \E h \in G : \E n \in DOMAIN wake[h] : p = <<h, n>>
  BY DEF WakeupsFor
<1>3. CASE Woke(g)
  <2>1. PICK h \in G : \E n \in DOMAIN wake[h] : wake[h][n].sg.g = g
    BY <1>3 DEF Woke
  <2>2. PICK n \in DOMAIN wake[h] : wake[h][n].sg.g = g
    BY <2>1
  <2>3. ASSUME NEW p \in WakeupsFor(g) PROVE p = <<h, n>>
    <3>1. PICK i \in G : \E m \in DOMAIN wake[i] : p = <<i, m>>
      BY <1>2
    <3>2. PICK m \in DOMAIN wake[i] : p = <<i, m>>
      BY <3>1
    <3>3. wake[i][m].sg.g = g
      BY <1>1, <3>2
    <3>4. i = h /\ m = n
      BY <2>2, <3>3 DEF WakeInv
    <3> QED
      BY <3>2, <3>4
  <2>4. WakeupsFor(g) = {<<h, n>>}
    BY <1>1, <2>2, <2>3
  <2>5. Cardinality(WakeupsFor(g)) = 1
    BY <2>4, FS_Singleton
  <2>6. pc[g] = "parked"
    BY <2>2, WakeupFacts
  <2> QED
    BY <1>3, <2>5, <2>6
<1>4. CASE ~Woke(g)
  BY <1>1, <1>2, <1>4 DEF Woke
<1> QED
  BY <1>3, <1>4

(* A goroutine that sleeps is in the queue of each of its cases, once, and *)
(* nobody has won its select; or exactly one wakeup of it is under way.    *)
(* Nobody else is woken, no sudog outlives its call in a queue, and a      *)
(* wakeup without success means that the channel is closed, as chansend    *)
(* has it when it throws "spurious wakeup".                                *)
THEOREM ChanWokenOnce == Spec => []WokenOnce
<1>1. ChanInv => WokenOnce
  <2> SUFFICES ASSUME ChanInv PROVE WokenOnce
    OBVIOUS
  <2> USE DEF ChanInv, WaitInv
  <2>1. ASSUME NEW g \in G
        PROVE  IF pc[g] = "parked"
               THEN \/ WakeupsFor(g) = {} /\ ~selectDone[g] /\ QueuedFor(g) = Cases(g)
                    \/ /\ Cardinality(WakeupsFor(g)) = 1
                       /\ op[g].kind = "select" => selectDone[g]
               ELSE WakeupsFor(g) = {}
    <3>1. CASE Woke(g)
      BY <3>1, WakeupsForFacts DEF WonInv, Selects
    <3>2. CASE Sleeps(g)
      <4>1. WakeupsFor(g) = {} /\ ~selectDone[g]
        BY <3>2, WakeupsForFacts DEF WonInv, Sleeps
      <4>2. ASSUME NEW i \in Cases(g) PROVE i \in QueuedFor(g)
        <5> DEFINE c == ChanOf(g, i)
                   x == [g |-> g, case |-> i]
        <5>1. x \in ToSet(QueueOf(ch, c, Sends(g, i)))
          BY <3>2 DEF AsleepInv
        <5>2. c \in C
          BY CallFacts, <3>2 DEF Sleeps, CallInv, Stands
        <5>3. ch[c].sendq \in Seq(Sudog) /\ ch[c].recvq \in Seq(Sudog)
          BY <5>2 DEF TypeOK, Hchan
        <5> HIDE DEF x, c
        <5>4. Contains(IF Sends(g, i) THEN ch[c].sendq ELSE ch[c].recvq, x)
          BY <5>1, <5>3 DEF Contains, ToSet, QueueOf
        <5> QED
          BY <5>4 DEF QueuedFor, x, c
      <4>3. QueuedFor(g) = Cases(g)
        BY <4>2 DEF QueuedFor
      <4> QED
        BY <3>2, <4>1, <4>3 DEF Sleeps
    <3>3. CASE pc[g] # "parked" /\ ~Woke(g)
      BY <3>3, WakeupsForFacts
    <3> QED
      BY <3>1, <3>2, <3>3 DEF Sleeps
  <2>2. ASSUME NEW q \in Queues, NEW n \in DOMAIN q
        PROVE  /\ pc[q[n].g] \in {"parked", "relock"} /\ q[n].case \in Cases(q[n].g)
               /\ \A m \in DOMAIN q : q[m] = q[n] => m = n
    <3>1. PICK c \in C, s \in BOOLEAN : q = QueueOf(ch, c, s)
      <4>1. PICK c \in C : q = ch[c].recvq \/ q = ch[c].sendq
        BY DEF Queues
      <4>2. q = QueueOf(ch, c, FALSE) \/ q = QueueOf(ch, c, TRUE)
        BY <4>1 DEF QueueOf
      <4> QED
        BY <4>2
    <3>2. q[n] \in ToSet(q)
      BY DEF ToSet
    <3> QED
      BY <3>1, <3>2, QueuedFacts DEF QueueInv, Distinct, Belongs
  <2>3. ASSUME NEW g \in G, param[g] # None, ~param[g].success
        PROVE  ch[ChanOf(g, param[g].sg.case)].closed
    BY <2>3 DEF WakeInv, Taken
  <2> QED
    BY <2>1, <2>2, <2>3 DEF WokenOnce
<1> QED
  BY <1>1, ChanInvariant, PTL

-----------------------------------------------------------------------------
(* The order of the locks.  A goroutine that takes locks in a select holds *)
(* only some that come before those it is still to take; and one that      *)
(* closes holds one lock and takes no other.                               *)

OrderInv ==
  \A g \in G :
    /\ toLock[g] # {} => pc[g] \in {"sellock", "relock"}
    /\ \A c \in C : owner[c] = g =>
         /\ pc[g] \in {"sellock", "relock"} \cup InClose
         /\ pc[g] \in InClose => c = ChanOf(g, 1)
         /\ \A d \in toLock[g] : Key[c] < Key[d]

\* A finite set of numbers has a greatest one.
LEMMA Greatest ==
  ASSUME NEW S \in SUBSET Nat, IsFiniteSet(S), S # {}
  PROVE  \E n \in S : \A m \in S : m <= n
<1> DEFINE Topped(T) == \E n \in T : \A m \in T : m <= n
           Bad == {T \in SUBSET Nat : IsFiniteSet(T) /\ T # {} /\ ~Topped(T)}
           Sizes == {Cardinality(T) : T \in Bad}
<1> SUFFICES ASSUME Bad # {} PROVE FALSE
  OBVIOUS
<1>1. Sizes \in SUBSET Nat /\ Sizes # {}
  BY FS_CardinalityType
<1>2. PICK T \in Bad : \A U \in Bad : Cardinality(T) <= Cardinality(U)
  <2> HIDE DEF Bad
  <2>1. Min(Sizes) \in Sizes /\ \A m \in Sizes : Min(Sizes) <= m
    BY <1>1, Least
  <2>2. PICK T \in Bad : Min(Sizes) = Cardinality(T)
    BY <2>1
  <2> QED
    BY <2>1, <2>2
<1>3. PICK x \in T : TRUE
  OBVIOUS
<1> DEFINE R == T \ {x}
<1>4. /\ T \in SUBSET Nat /\ IsFiniteSet(R) /\ Cardinality(R) = Cardinality(T) - 1
      /\ Cardinality(T) \in Nat /\ x \in Nat
  BY <1>2, <1>3, FS_RemoveElement, FS_CardinalityType
<1>5. R \notin Bad
  <2> HIDE DEF Bad, R
  <2>1. ~(Cardinality(T) <= Cardinality(R))
    BY <1>4
  <2> QED
    BY <1>2, <2>1
<1>6. Topped(T)
  <2>1. CASE R = {}
    <3>1. \A m \in T : m = x
      BY <2>1
    <3> QED
      BY <1>3, <1>4, <3>1
  <2>2. CASE R # {}
    <3>1. PICK n \in R : \A m \in R : m <= n
      BY <1>4, <1>5, <2>2
    <3>2. n \in Nat /\ n \in T /\ R \subseteq Nat
      BY <1>4
    <3>3. CASE x <= n
      BY <1>4, <3>1, <3>2, <3>3
    <3>4. CASE n <= x
      <4>1. \A m \in R : m <= x
        BY <1>4, <3>1, <3>2, <3>4
      <4>2. \A m \in T : m <= x
        BY <1>4, <4>1
      <4> QED
        BY <1>3, <4>2
    <3> QED
      BY <1>4, <3>2, <3>3, <3>4
  <2> QED
    BY <2>1, <2>2
<1> QED
  BY <1>2, <1>6

\* One who still has locks to take has one to take next.
LEMMA NextLockFacts ==
  ASSUME TypeOK, NEW g \in G, toLock[g] # {}
  PROVE  \E c \in C : NextLock(g, c)
<1> DEFINE K == {Key[c] : c \in toLock[g]}
<1>1. toLock[g] \subseteq C /\ K \in SUBSET Nat /\ K # {}
  BY ChanAssumption DEF TypeOK
<1>2. PICK c \in toLock[g] : Key[c] = Min(K)
  BY <1>1, Least
<1>3. \A d \in toLock[g] : Key[c] <= Key[d]
  BY <1>1, <1>2, Least
<1> QED
  BY <1>1, <1>3 DEF NextLock

\* A step that takes and releases no lock.
LEMMA OrderKept ==
  ASSUME TypeOK, OrderInv, NEW g \in G, UNCHANGED <<owner, toLock>>,
         \A k \in G \ {g} : pc'[k] = pc[k] /\ op'[k] = op[k],
         \/ pc[g] \notin {"sellock", "relock"} \cup InClose
         \/ {pc[g], pc'[g]} \subseteq InClose /\ op'[g] = op[g]
  PROVE  OrderInv'
<1> SUFFICES ASSUME NEW k \in G
             PROVE
      /\ toLock'[k] # {} => pc'[k] \in {"sellock", "relock"}
      /\ \A c \in C : owner'[c] = k =>
           /\ pc'[k] \in {"sellock", "relock"} \cup InClose
           /\ pc'[k] \in InClose => c = ChanOf(k, 1)'
           /\ \A d \in toLock'[k] : Key[c] < Key[d]
  BY DEF OrderInv
<1>1. CASE k # g
  BY <1>1 DEF OrderInv, ChanOf
<1>2. CASE k = g
  BY <1>2 DEF OrderInv, ChanOf, InClose
<1> QED
  BY <1>1, <1>2

\* The last step of a select or of a close, with the locks it held.
LEMMA OrderReleased ==
  ASSUME TypeOK, OrderInv, NEW g \in G, toLock[g] = {}, UNCHANGED <<toLock, op>>,
         \A c \in C : owner'[c] = IF owner[c] = g THEN None ELSE owner[c],
         \A k \in G \ {g} : pc'[k] = pc[k]
  PROVE  OrderInv'
<1> SUFFICES ASSUME NEW k \in G
             PROVE
      /\ toLock'[k] # {} => pc'[k] \in {"sellock", "relock"}
      /\ \A c \in C : owner'[c] = k =>
           /\ pc'[k] \in {"sellock", "relock"} \cup InClose
           /\ pc'[k] \in InClose => c = ChanOf(k, 1)'
           /\ \A d \in toLock'[k] : Key[c] < Key[d]
  BY DEF OrderInv
<1>1. CASE k # g
  BY <1>1, ChanAssumption DEF OrderInv, ChanOf
<1>2. CASE k = g
  <2>1. \A c \in C : owner'[c] # g
    BY ChanAssumption
  <2> QED
    BY <1>2, <2>1
<1> QED
  BY <1>1, <1>2

LEMMA SelLockOrder == ASSUME TypeOK, OrderInv, NEW g \in G, SelLock(g) PROVE OrderInv'
<1>1. /\ pc[g] \in {"sellock", "relock"} /\ UNCHANGED <<pc, op>>
      /\ \E c \in C :
           /\ NextLock(g, c) /\ owner[c] = None
           /\ owner' = [owner EXCEPT ![c] = g]
           /\ toLock' = [toLock EXCEPT ![g] = @ \ {c}]
  BY DEF SelLock
<1>2. PICK c \in C :
        /\ c \in toLock[g] /\ (\A d \in toLock[g] : Key[c] <= Key[d]) /\ owner[c] = None
        /\ owner'[c] = g /\ \A d \in C \ {c} : owner'[d] = owner[d]
        /\ toLock'[g] = toLock[g] \ {c} /\ \A k \in G \ {g} : toLock'[k] = toLock[k]
  BY <1>1 DEF NextLock, TypeOK
<1>3. \A d \in toLock'[g] : Key[c] < Key[d]
  <2> SUFFICES ASSUME NEW d \in toLock[g] \ {c} PROVE Key[c] < Key[d]
    BY <1>2
  <2>1. Key[c] \in Nat /\ Key[d] \in Nat /\ Key[c] <= Key[d] /\ Key[c] # Key[d]
    BY <1>2, ChanAssumption DEF TypeOK
  <2> QED
    BY <2>1
<1> SUFFICES ASSUME NEW k \in G
             PROVE
      /\ toLock'[k] # {} => pc'[k] \in {"sellock", "relock"}
      /\ \A d \in C : owner'[d] = k =>
           /\ pc'[k] \in {"sellock", "relock"} \cup InClose
           /\ pc'[k] \in InClose => d = ChanOf(k, 1)'
           /\ \A e \in toLock'[k] : Key[d] < Key[e]
  BY DEF OrderInv
<1>4. CASE k = g
  BY <1>1, <1>2, <1>3, <1>4 DEF OrderInv, InClose
<1>5. CASE k # g
  BY <1>1, <1>2, <1>5 DEF OrderInv, ChanOf
<1> QED
  BY <1>4, <1>5

LEMMA CallOrder ==
  ASSUME ChanInv, OrderInv, NEW g \in G, NEW o \in Ops, Call(g, o)
  PROVE  OrderInv'
<1>1. /\ pc[g] = "out" /\ pc'[g] = Start(o)
      /\ toLock'[g] = IF o.kind = "select" THEN Chans(o) ELSE {}
      /\ \A k \in G \ {g} : pc'[k] = pc[k] /\ op'[k] = op[k] /\ toLock'[k] = toLock[k]
      /\ UNCHANGED owner
  BY DEF Call, Goto, ChanInv, TypeOK
<1>2. o.kind = "select" => pc'[g] = "sellock"
  BY <1>1 DEF Start
<1>3. \A c \in C : owner'[c] # g
  BY <1>1 DEF OrderInv, InClose
<1> QED
  BY <1>1, <1>2, <1>3 DEF OrderInv, ChanOf

LEMMA CloseMarkOrder == ASSUME ChanInv, OrderInv, NEW g \in G, CloseMark(g) PROVE OrderInv'
<1> DEFINE c == ChanOf(g, 1)
<1>1. /\ pc[g] = "close" /\ owner[c] = None
      /\ pc'[g] = IF ch[c].closed THEN "done" ELSE "closeRecv"
      /\ \A k \in G \ {g} : pc'[k] = pc[k]
      /\ owner' = [owner EXCEPT ![c] = IF ch[c].closed THEN None ELSE g]
      /\ UNCHANGED <<op, toLock>>
  BY DEF CloseMark, Goto, ChanInv, TypeOK
<1>2. toLock[g] = {} /\ \A d \in C : owner[d] # g
  BY <1>1 DEF OrderInv, InClose
<1>3. \A d \in C : owner'[d] = owner[d] \/ (d = c /\ owner'[d] = g /\ pc'[g] = "closeRecv")
  BY <1>1 DEF ChanInv, TypeOK
<1>4. \A k \in G : ChanOf(k, 1)' = ChanOf(k, 1)
  BY <1>1 DEF ChanOf
<1> HIDE DEF c
<1> SUFFICES ASSUME NEW k \in G
             PROVE
      /\ toLock'[k] # {} => pc'[k] \in {"sellock", "relock"}
      /\ \A d \in C : owner'[d] = k =>
           /\ pc'[k] \in {"sellock", "relock"} \cup InClose
           /\ pc'[k] \in InClose => d = ChanOf(k, 1)
           /\ \A e \in toLock'[k] : Key[d] < Key[e]
  BY <1>4 DEF OrderInv
<1>5. CASE k = g
  BY <1>1, <1>2, <1>3, <1>5 DEF InClose, c
<1>6. CASE k # g
  BY <1>1, <1>3, <1>6 DEF OrderInv
<1> QED
  BY <1>5, <1>6

LEMMA CloseOrder ==
  ASSUME ChanInv, OrderInv, NEW g \in G, CloseRecv(g) \/ CloseSend(g)
  PROVE  OrderInv'
<1>1. /\ pc[g] \in InClose /\ UNCHANGED <<op, toLock>>
      /\ \A k \in G \ {g} : pc'[k] = pc[k]
  BY DEF CloseRecv, CloseSend, Goto, InClose, ChanInv, TypeOK
<1>2. toLock[g] = {} /\ \A d \in C : owner[d] = g => d = ChanOf(g, 1)
  BY <1>1 DEF OrderInv, InClose
<1>3. CASE UNCHANGED owner /\ pc'[g] \in InClose
  BY <1>1, <1>3, OrderKept DEF ChanInv
<1>4. CASE owner' = [owner EXCEPT ![ChanOf(g, 1)] = None]
  <2>1. \A d \in C : owner'[d] = IF owner[d] = g THEN None ELSE owner[d]
    BY <1>1, <1>2, <1>4, CloserFacts DEF ChanInv, TypeOK
  <2> QED
    BY <1>1, <1>2, <2>1, OrderReleased DEF ChanInv
<1> QED
  BY <1>1, <1>3, <1>4 DEF CloseRecv, CloseSend, Goto, InClose, ChanInv, TypeOK

LEMMA ReadyOrder == ASSUME ChanInv, OrderInv, NEW g \in G, Ready(g) PROVE OrderInv'
<1>1. PICK w \in Wakeup :
        /\ w.sg.g \in G /\ w.sg.g # g /\ pc[w.sg.g] = "parked" /\ pc[g] = "ready"
        /\ pc' = [pc EXCEPT ![w.sg.g] = IF Selects(w.sg.g) THEN "relock" ELSE "woken",
                            ![g] = IF Len(wake[g]) = 1 THEN "done" ELSE "ready"]
        /\ toLock' = [toLock EXCEPT ![w.sg.g] =
             IF Selects(w.sg.g) THEN Chans(op[w.sg.g]) ELSE {}]
        /\ UNCHANGED <<owner, op>>
  BY ReadyFacts DEF ChanInv
<1>2. PICK r \in G : r = w.sg.g
  BY <1>1
<1>3. /\ pc'[r] = IF Selects(r) THEN "relock" ELSE "woken"
      /\ toLock'[r] = IF Selects(r) THEN Chans(op[r]) ELSE {}
      /\ \A k \in G \ {r} : toLock'[k] = toLock[k]
      /\ \A k \in G \ {g, r} : pc'[k] = pc[k]
      /\ pc[g] = "ready" /\ pc[r] = "parked" /\ r # g
  BY <1>1, <1>2 DEF ChanInv, TypeOK
<1>4. toLock[g] = {} /\ \A c \in C : owner'[c] # g /\ owner'[c] # r
  BY <1>1, <1>3 DEF OrderInv, InClose
<1>5. \A k \in G : ChanOf(k, 1)' = ChanOf(k, 1)
  BY <1>1 DEF ChanOf
<1> SUFFICES ASSUME NEW k \in G
             PROVE
      /\ toLock'[k] # {} => pc'[k] \in {"sellock", "relock"}
      /\ \A d \in C : owner'[d] = k =>
           /\ pc'[k] \in {"sellock", "relock"} \cup InClose
           /\ pc'[k] \in InClose => d = ChanOf(k, 1)
           /\ \A e \in toLock'[k] : Key[d] < Key[e]
  BY <1>5 DEF OrderInv
<1>6. CASE k \in {g, r}
  BY <1>3, <1>4, <1>6
<1>7. CASE k \notin {g, r}
  BY <1>1, <1>3, <1>7 DEF OrderInv
<1> QED
  BY <1>6, <1>7

LEMMA OrderStep == ChanInv /\ OrderInv /\ [Next]_vars => OrderInv'
<1> SUFFICES ASSUME ChanInv, OrderInv, [Next]_vars PROVE OrderInv'
  OBVIOUS
<1> USE DEF ChanInv
<1>1. CASE UNCHANGED vars
  BY <1>1 DEF vars, OrderInv, ChanOf
<1>2. ASSUME NEW g \in G, Continue(g) PROVE OrderInv'
  <2>1. CASE \/ ChanSend(g) \/ ChanRecv(g) \/ Woken(g) \/ SendTryClosed(g)
             \/ SendTryFull(g) \/ RecvTryEmpty(g) \/ RecvTryClosed(g)
             \/ RecvTryEmptyAgain(g) \/ Return(g)
    <3>1. /\ pc[g] \in {"lock", "woken", "tryClosed", "tryFull", "tryEmpty",
                        "tryEmptyAgain", "done"}
          /\ UNCHANGED <<owner, toLock>>
      BY <2>1
      DEF ChanSend, ChanRecv, Woken, SendTryClosed, SendTryFull, RecvTryEmpty,
          RecvTryClosed, RecvTryEmptyAgain, Return, Fast, Goto, others
    <3>2. \A k \in G \ {g} : pc'[k] = pc[k] /\ op'[k] = op[k]
      BY <2>1
      DEF ChanSend, ChanRecv, Proceed, GiveUp, Woken, SendTryClosed, SendTryFull,
          RecvTryEmpty, RecvTryClosed, RecvTryEmptyAgain, Return, Fast, Goto,
          others, TypeOK
    <3> QED
      BY <3>1, <3>2, OrderKept DEF InClose
  <2>2. CASE SelLock(g)
    BY <2>2, SelLockOrder
  <2>3. CASE SelectPoll(g) \/ SelectFinish(g)
    <3>1. /\ toLock[g] = {} /\ UNCHANGED <<toLock, op>>
          /\ \A c \in C : owner'[c] = IF owner[c] = g THEN None ELSE owner[c]
      BY <2>3 DEF SelectPoll, SelectFinish, SelUnlock
    <3>2. \A k \in G \ {g} : pc'[k] = pc[k]
      BY <2>3 DEF SelectPoll, SelectFinish, Proceed, GiveUp, Goto, TypeOK
    <3> QED
      BY <3>1, <3>2, OrderReleased, SMTT(30)
  <2>4. CASE CloseMark(g)
    BY <2>4, CloseMarkOrder
  <2>5. CASE CloseRecv(g) \/ CloseSend(g)
    BY <2>5, CloseOrder
  <2>6. CASE Ready(g)
    BY <2>6, ReadyOrder
  <2> QED
    BY <1>2, <2>1, <2>2, <2>3, <2>4, <2>5, <2>6 DEF Continue
<1>3. ASSUME NEW g \in G, NEW o \in Ops, Call(g, o) PROVE OrderInv'
  BY <1>3, CallOrder
<1> QED
  BY <1>1, <1>2, <1>3 DEF Next

(* selectgo sorts its cases by the addresses of their channels: so however *)
(* many goroutines are taking or holding locks, they do not wait for each  *)
(* other in a circle.  Of any of them, the one that holds the lock with    *)
(* the greatest key takes its last or waits for none of the others.        *)
THEOREM ChanNoLockCycle == Spec => []NoLockCycle
<1>1. Init => OrderInv
  BY ChanAssumption DEF Init, OrderInv
<1>2. ChanInv /\ OrderInv => NoLockCycle
  <2> SUFFICES ASSUME ChanInv, OrderInv, NEW H \in (SUBSET G) \ {{}},
                      \A g \in H : toLock[g] # {}
               PROVE  \E g \in H : \E c \in C : NextLock(g, c) /\ owner[c] \notin H
    BY DEF NoLockCycle
  <2> DEFINE Held == {c \in C : owner[c] \in H}
             K == {Key[c] : c \in Held}
  <2>1. \A g \in H : g \in G /\ \E c \in C : NextLock(g, c)
    BY NextLockFacts DEF ChanInv
  <2>2. CASE Held = {}
    BY <2>1, <2>2
  <2>3. CASE Held # {}
    <3>1. IsFiniteSet(K)
      <4>1. IsFiniteSet(Held)
        BY ChanAssumption, FS_Subset
      <4>2. [c \in Held |-> Key[c]] \in Surjection(Held, K)
        BY DEF Surjection
      <4> QED
        BY <4>1, <4>2, FS_Surjection
    <3>2. K \in SUBSET Nat /\ K # {}
      BY <2>3, ChanAssumption
    <3>3. PICK c \in Held : \A d \in Held : Key[d] <= Key[c]
      BY <3>1, <3>2, Greatest
    <3>4. PICK g \in H : owner[c] = g
      BY <3>3
    <3>5. PICK d \in C : NextLock(g, d)
      BY <2>1
    <3>6. Key[c] < Key[d] /\ Key[c] \in Nat /\ Key[d] \in Nat
      BY <3>3, <3>4, <3>5, ChanAssumption DEF OrderInv, NextLock
    <3>7. d \notin Held
      BY <3>3, <3>6
    <3> QED
      BY <3>5, <3>7
  <2> QED
    BY <2>2, <2>3
<1> QED
  BY <1>1, <1>2, OrderStep, ChanInvariant, PTL DEF Spec

-----------------------------------------------------------------------------
(* chan.go and select.go implement module Channel.  The refinement rests   *)
(* on three more invariants: a call has a result of its own from the step  *)
(* that fixes it to its return (ResultInv), a ring buffer's two indexes    *)
(* are as far apart as it holds values (RingInv), and a select holds the   *)
(* locks that it no longer has to take (LockInv).                          *)

Tries == {"tryClosed", "tryFull", "tryEmpty", "tryEmptyAgain"}

(* What a goroutine's place says of its result; and a call that tries the  *)
(* fast paths does not block.                                              *)
Fits(g) ==
  /\ result[g] # None <=> pc[g] \in {"ready", "done"} \cup InClose
  /\ pc[g] \in Tries => ~op[g].block
  /\ pc[g] \in {"tryEmpty", "tryEmptyAgain"} => ~Sends(g, 1)
  /\ pc[g] = "tryEmptyAgain" => ch[ChanOf(g, 1)].closed

ResultInv == result \in [G -> Results \cup {None}] /\ \A g \in G : Fits(g)

(* Where the n-th value lies.                                              *)
Slot(h, c, n) ==
  IF h.recvx + n - 1 < Cap[c] THEN h.recvx + n - 1 ELSE h.recvx + n - 1 - Cap[c]

(* The next one goes to sendx.                                             *)
InOrder(h, c) == Cap[c] # 0 => h.sendx = Slot(h, c, h.qcount + 1)

RingInv == \A c \in C : InOrder(ch[c], c)

(* A select holds the locks that it has taken.                             *)
Locks(g) ==
  pc[g] \in {"sellock", "relock"} =>
    \A c \in Chans(op[g]) : c \in toLock[g] \/ owner[c] = g

LockInv == \A g \in G : Locks(g)

RefInv == ChanInv /\ ResultInv /\ RingInv /\ LockInv

-----------------------------------------------------------------------------
(* The ring buffer.                                                        *)

Holds(h, c) == [n \in 1 .. h.qcount |-> h.buf[(h.recvx + n - 1) % Cap[c]]]

LEMMA ModFacts ==
  ASSUME NEW K \in Nat \ {0}, NEW x \in Nat, x < K + K
  PROVE  x % K = IF x < K THEN x ELSE x - K
  OBVIOUS

LEMMA SameSeq ==
  ASSUME NEW V, NEW s \in Seq(V), NEW t \in Seq(V), Len(s) = Len(t),
         \A n \in 1 .. Len(s) : s[n] = t[n]
  PROVE  s = t
<1>1. s = [n \in 1 .. Len(s) |-> s[n]] /\ t = [n \in 1 .. Len(s) |-> t[n]]
  OBVIOUS
<1> QED
  BY <1>1

LEMMA AppendFacts ==
  ASSUME NEW V, NEW s \in Seq(V), NEW v \in V
  PROVE  /\ Append(s, v) \in Seq(V) /\ Len(Append(s, v)) = Len(s) + 1
         /\ \A n \in 1 .. Len(s) : Append(s, v)[n] = s[n]
         /\ Append(s, v)[Len(s) + 1] = v
  OBVIOUS

LEMMA TailFacts ==
  ASSUME NEW V, NEW s \in Seq(V), s # <<>>
  PROVE  /\ Tail(s) \in Seq(V) /\ Len(Tail(s)) = Len(s) - 1
         /\ Head(s) = s[1]
         /\ \A n \in 1 .. Len(s) - 1 : Tail(s)[n] = s[n + 1]
  OBVIOUS

LEMMA HoldsFacts ==
  ASSUME NEW c \in C, NEW h \in Hchan(c)
  PROVE  /\ Holds(h, c) \in Seq(Value) /\ Len(Holds(h, c)) = h.qcount
         /\ \A n \in 1 .. h.qcount : Holds(h, c)[n] = h.buf[Slot(h, c, n)]
<1>1. h.qcount \in 0 .. Cap[c] /\ Cap[c] \in Nat /\ h.buf \in [0 .. Cap[c] - 1 -> Value]
  BY ChanAssumption DEF Hchan
<1>2. h.recvx \in Nat /\ (Cap[c] # 0 => h.recvx \in 0 .. Cap[c] - 1)
  BY <1>1 DEF Hchan
<1>3. ASSUME NEW n \in 1 .. h.qcount
      PROVE  /\ (h.recvx + n - 1) % Cap[c] = Slot(h, c, n)
             /\ Slot(h, c, n) \in 0 .. Cap[c] - 1
  <2>1. Cap[c] \in Nat \ {0} /\ h.recvx \in 0 .. Cap[c] - 1 /\ n \in 1 .. Cap[c]
    BY <1>1, <1>2
  <2>2. h.recvx + n - 1 \in Nat /\ h.recvx + n - 1 < Cap[c] + Cap[c]
    BY <2>1
  <2>3. (h.recvx + n - 1) % Cap[c] = Slot(h, c, n)
    BY <2>1, <2>2, ModFacts DEF Slot
  <2>4. Slot(h, c, n) \in 0 .. Cap[c] - 1
    BY <2>1, <2>2 DEF Slot
  <2> QED
    BY <2>3, <2>4
<1>4. Holds(h, c) = [n \in 1 .. h.qcount |-> h.buf[Slot(h, c, n)]]
  BY <1>3 DEF Holds
<1>5. \A n \in 1 .. h.qcount : h.buf[Slot(h, c, n)] \in Value
  BY <1>1, <1>3
<1>6. Holds(h, c) \in Seq(Value) /\ Len(Holds(h, c)) = h.qcount
  BY <1>1, <1>4, <1>5
<1> QED
  BY <1>4, <1>6

(* The three ways in which a buffer changes.                               *)
LEMMA PutHolds ==
  ASSUME NEW c \in C, NEW h \in Hchan(c), NEW v \in Value, h.qcount < Cap[c],
         InOrder(h, c)
  PROVE  /\ InOrder(Put(h, c, v), c)
         /\ Holds(Put(h, c, v), c) = Append(Holds(h, c), v)
<1> DEFINE k == Put(h, c, v)
           K == Cap[c]
           r == h.recvx
           q == h.qcount
           at(n) == Slot(h, c, n)
<1>1. K \in Nat \ {0} /\ q \in 0 .. K - 1 /\ r \in 0 .. K - 1 /\ h.sendx \in 0 .. K - 1
      /\ h.buf \in [0 .. K - 1 -> Value]
  BY ChanAssumption DEF Hchan
<1>2. h.sendx = IF r + q < K THEN r + q ELSE r + q - K
  BY <1>1 DEF InOrder, Slot
<1>3. /\ k.recvx = r /\ k.qcount = q + 1 /\ k \in Hchan(c)
      /\ k.sendx = (IF h.sendx + 1 = K THEN 0 ELSE h.sendx + 1)
      /\ k.buf = [h.buf EXCEPT ![h.sendx] = v]
  <2>1. k \in Hchan(c)
    BY PutFacts
  <2> QED
    BY <2>1 DEF Put, Step, Hchan
<1>4. \A n : at(n) = IF r + n - 1 < K THEN r + n - 1 ELSE r + n - 1 - K
  BY DEF Slot
<1>5. \A n : Slot(k, c, n) = IF k.recvx + n - 1 < K THEN k.recvx + n - 1
                                                     ELSE k.recvx + n - 1 - K
  BY DEF Slot
<1> HIDE DEF k, K, r, q
<1>6. InOrder(k, c)
  <2>1. k.sendx = IF k.recvx + k.qcount < K THEN k.recvx + k.qcount
                                            ELSE k.recvx + k.qcount - K
    BY <1>1, <1>2, <1>3
  <2> QED
    BY <1>1, <1>3, <2>1, <1>4, <1>5 DEF InOrder, K
<1>7. /\ Holds(h, c) \in Seq(Value) /\ Len(Holds(h, c)) = q
      /\ \A n \in 1 .. q : Holds(h, c)[n] = h.buf[at(n)]
  BY HoldsFacts DEF K, r, q
<1>8. /\ Holds(k, c) \in Seq(Value) /\ Len(Holds(k, c)) = q + 1
      /\ \A n \in 1 .. q + 1 : Holds(k, c)[n] = k.buf[at(n)]
  <2>1. /\ Holds(k, c) \in Seq(Value) /\ Len(Holds(k, c)) = k.qcount
        /\ \A n \in 1 .. k.qcount : Holds(k, c)[n] =
             k.buf[Slot(k, c, n)]
    BY <1>3, HoldsFacts
  <2>2. \A n \in 1 .. q + 1 : at(n) = Slot(k, c, n)
    BY <1>3, <1>4, <1>5
  <2> QED
    BY <1>3, <2>1, <2>2
<1>9. ASSUME NEW n \in 1 .. q PROVE k.buf[at(n)] = h.buf[at(n)]
  <2>1. at(n) \in 0 .. K - 1 /\ at(n) # h.sendx
    BY <1>1, <1>2, <1>4, <1>5
  <2> HIDE DEF at
  <2> QED
    BY <1>1, <1>3, <2>1
<1>10. k.buf[at(q + 1)] = v
  <2>1. at(q + 1) = h.sendx
    BY <1>1, <1>2, <1>4, <1>5
  <2> HIDE DEF at
  <2> QED
    BY <1>1, <1>3, <2>1
<1> HIDE DEF at
<1>11. Holds(k, c) = Append(Holds(h, c), v)
  <2>1. /\ Append(Holds(h, c), v) \in Seq(Value) /\ Len(Append(Holds(h, c), v)) = q + 1
        /\ \A n \in 1 .. q : Append(Holds(h, c), v)[n] = Holds(h, c)[n]
        /\ Append(Holds(h, c), v)[q + 1] = v
    BY <1>7, AppendFacts
  <2>2. ASSUME NEW n \in 1 .. q + 1 PROVE Holds(k, c)[n] = Append(Holds(h, c), v)[n]
    <3>1. CASE n \in 1 .. q
      BY <3>1, <2>1, <1>7, <1>8, <1>9
    <3>2. CASE n = q + 1
      BY <3>2, <2>1, <1>8, <1>10
    <3>3. n \in 1 .. q \/ n = q + 1
      BY <1>1
    <3> QED
      BY <3>1, <3>2, <3>3
  <2> QED
    BY <1>8, <2>1, <2>2, SameSeq
<1> QED
  BY <1>6, <1>11 DEF k

LEMMA GetHolds ==
  ASSUME NEW c \in C, NEW h \in Hchan(c), h.qcount > 0, InOrder(h, c)
  PROVE  /\ InOrder(Get(h, c), c)
         /\ Holds(h, c) # <<>> /\ Head(Holds(h, c)) = h.buf[h.recvx]
         /\ Holds(Get(h, c), c) = Tail(Holds(h, c))
<1> DEFINE k == Get(h, c)
           K == Cap[c]
           r == h.recvx
           q == h.qcount
           at(n) == Slot(h, c, n)
<1>1. K \in Nat \ {0} /\ q \in 1 .. K /\ r \in 0 .. K - 1 /\ h.sendx \in 0 .. K - 1
      /\ h.buf \in [0 .. K - 1 -> Value]
  BY ChanAssumption DEF Hchan
<1>2. h.sendx = IF r + q < K THEN r + q ELSE r + q - K
  BY <1>1 DEF InOrder, Slot
<1>3. /\ k.recvx = (IF r + 1 = K THEN 0 ELSE r + 1) /\ k.qcount = q - 1
      /\ k \in Hchan(c) /\ k.sendx = h.sendx
      /\ k.buf = [h.buf EXCEPT ![r] = Zero]
  <2>1. k \in Hchan(c)
    BY GetFacts
  <2> QED
    BY <2>1 DEF Get, Step, Hchan
<1>4. \A n : at(n) = IF r + n - 1 < K THEN r + n - 1 ELSE r + n - 1 - K
  BY DEF Slot
<1>5. \A n : Slot(k, c, n) = IF k.recvx + n - 1 < K THEN k.recvx + n - 1
                                                     ELSE k.recvx + n - 1 - K
  BY DEF Slot
<1> HIDE DEF k, K, r, q
<1>6. InOrder(k, c)
  BY <1>1, <1>2, <1>3, <1>4, <1>5 DEF InOrder, K
<1>7. /\ Holds(h, c) \in Seq(Value) /\ Len(Holds(h, c)) = q
      /\ \A n \in 1 .. q : Holds(h, c)[n] = h.buf[at(n)]
  BY HoldsFacts DEF K, r, q
<1>8. /\ Holds(k, c) \in Seq(Value) /\ Len(Holds(k, c)) = q - 1
      /\ \A n \in 1 .. q - 1 : Holds(k, c)[n] = k.buf[at(n + 1)]
  <2>1. /\ Holds(k, c) \in Seq(Value) /\ Len(Holds(k, c)) = k.qcount
        /\ \A n \in 1 .. k.qcount : Holds(k, c)[n] =
             k.buf[Slot(k, c, n)]
    BY <1>3, HoldsFacts
  <2>2. \A n \in 1 .. q - 1 : at(n + 1) = Slot(k, c, n)
    BY <1>1, <1>3, <1>4, <1>5
  <2> QED
    BY <1>3, <2>1, <2>2 DEF K
<1>9. ASSUME NEW n \in 1 .. q - 1 PROVE k.buf[at(n + 1)] = h.buf[at(n + 1)]
  <2>1. at(n + 1) \in 0 .. K - 1 /\ at(n + 1) # r
    BY <1>1, <1>4, <1>5
  <2> HIDE DEF at
  <2> QED
    BY <1>1, <1>3, <2>1
<1>10. at(1) = r
  BY <1>1, <1>4, <1>5
<1> HIDE DEF at
<1>11. Holds(h, c) # <<>>
  BY <1>1, <1>7
<1>12. /\ Tail(Holds(h, c)) \in Seq(Value) /\ Len(Tail(Holds(h, c))) = q - 1
       /\ Head(Holds(h, c)) = Holds(h, c)[1]
       /\ \A n \in 1 .. q - 1 : Tail(Holds(h, c))[n] = Holds(h, c)[n + 1]
  BY <1>7, <1>11, TailFacts
<1>13. Head(Holds(h, c)) = h.buf[r]
  BY <1>1, <1>7, <1>10, <1>12
<1>14. Holds(k, c) = Tail(Holds(h, c))
  <2>1. ASSUME NEW n \in 1 .. q - 1 PROVE Holds(k, c)[n] = Tail(Holds(h, c))[n]
    <3>1. n + 1 \in 1 .. q
      BY <1>1
    <3> QED
      BY <3>1, <1>7, <1>8, <1>9, <1>12
  <2> QED
    BY <1>8, <1>12, <2>1, SameSeq
<1> QED
  BY <1>6, <1>11, <1>13, <1>14 DEF k, r

LEMMA ExchangeHolds ==
  ASSUME NEW c \in C, NEW h \in Hchan(c), NEW v \in Value, Cap[c] # 0,
         h.qcount = Cap[c], InOrder(h, c)
  PROVE  LET s == Append(Holds(h, c), v) IN
         /\ InOrder(Exchange(h, c, v), c)
         /\ Head(s) = h.buf[h.recvx]
         /\ Holds(Exchange(h, c, v), c) = Tail(s)
<1> DEFINE k == Exchange(h, c, v)
           K == Cap[c]
           r == h.recvx
           at(n) == Slot(h, c, n)
           s == Append(Holds(h, c), v)
<1>1. K \in Nat \ {0} /\ h.qcount = K /\ r \in 0 .. K - 1
      /\ h.buf \in [0 .. K - 1 -> Value]
  BY ChanAssumption DEF Hchan
<1>2. /\ k.recvx = (IF r + 1 = K THEN 0 ELSE r + 1) /\ k.qcount = K
      /\ k \in Hchan(c) /\ k.sendx = k.recvx
      /\ k.buf = [h.buf EXCEPT ![r] = v]
  <2>1. k \in Hchan(c)
    BY ExchangeFacts
  <2> QED
    BY <2>1 DEF Exchange, Step, Hchan
<1>3. \A n : at(n) = IF r + n - 1 < K THEN r + n - 1 ELSE r + n - 1 - K
  BY DEF Slot
<1>4. \A n : Slot(k, c, n) = IF k.recvx + n - 1 < K THEN k.recvx + n - 1
                                                     ELSE k.recvx + n - 1 - K
  BY DEF Slot
<1> HIDE DEF k, K, r
<1>5. InOrder(k, c)
  BY <1>1, <1>2, <1>3, <1>4 DEF InOrder, K
<1>6. /\ Holds(h, c) \in Seq(Value) /\ Len(Holds(h, c)) = K
      /\ \A n \in 1 .. K : Holds(h, c)[n] = h.buf[at(n)]
  BY <1>1, HoldsFacts DEF K, r
<1>7. /\ Holds(k, c) \in Seq(Value) /\ Len(Holds(k, c)) = K
      /\ \A n \in 1 .. K - 1 : Holds(k, c)[n] = k.buf[at(n + 1)]
      /\ Holds(k, c)[K] = k.buf[r]
  <2>1. /\ Holds(k, c) \in Seq(Value) /\ Len(Holds(k, c)) = k.qcount
        /\ \A n \in 1 .. k.qcount : Holds(k, c)[n] =
             k.buf[Slot(k, c, n)]
    BY <1>2, HoldsFacts
  <2>2. \A n \in 1 .. K - 1 : at(n + 1) = Slot(k, c, n)
    BY <1>1, <1>2, <1>3, <1>4
  <2>3. r = Slot(k, c, K)
    BY <1>1, <1>2, <1>3, <1>4
  <2>4. \A n \in 1 .. K - 1 : n \in 1 .. k.qcount
    BY <1>1, <1>2
  <2>5. K \in 1 .. k.qcount
    BY <1>1, <1>2
  <2> HIDE DEF at
  <2> QED
    BY <1>2, <2>1, <2>2, <2>3, <2>4, <2>5
<1>8. ASSUME NEW n \in 1 .. K - 1 PROVE k.buf[at(n + 1)] = h.buf[at(n + 1)]
  <2>1. at(n + 1) \in 0 .. K - 1 /\ at(n + 1) # r
    BY <1>1, <1>3, <1>4
  <2> HIDE DEF at
  <2> QED
    BY <1>1, <1>2, <2>1
<1>9. at(1) = r
  BY <1>1, <1>3, <1>4
<1> HIDE DEF at
<1>10. /\ s \in Seq(Value) /\ Len(s) = K + 1 /\ s[K + 1] = v
      /\ \A n \in 1 .. K : s[n] = Holds(h, c)[n]
  BY <1>6, AppendFacts
<1> HIDE DEF s
<1>11. s # <<>>
  BY <1>1, <1>10
<1>12. /\ Tail(s) \in Seq(Value) /\ Len(Tail(s)) = K /\ Head(s) = s[1]
       /\ \A n \in 1 .. K : Tail(s)[n] = s[n + 1]
  <2>1. /\ Tail(s) \in Seq(Value) /\ Len(Tail(s)) = Len(s) - 1 /\ Head(s) = s[1]
        /\ \A n \in 1 .. Len(s) - 1 : Tail(s)[n] = s[n + 1]
    BY <1>10, <1>11, TailFacts
  <2> QED
    BY <2>1, <1>1, <1>10
<1>13. Head(s) = h.buf[r]
  BY <1>1, <1>6, <1>9, <1>10, <1>12
<1>14. Holds(k, c) = Tail(s)
  <2>1. ASSUME NEW n \in 1 .. K PROVE Holds(k, c)[n] = Tail(s)[n]
    <3>1. CASE n = K
      BY <3>1, <1>1, <1>2, <1>7, <1>10, <1>12
    <3>2. CASE n # K
      <4>1. n \in 1 .. K - 1 /\ n + 1 \in 1 .. K
        BY <3>2, <1>1
      <4> QED
        BY <4>1, <1>6, <1>7, <1>8, <1>10, <1>12
    <3> QED
      BY <3>1, <3>2
  <2> QED
    BY <1>7, <1>12, <2>1, SameSeq
<1> QED
  BY <1>5, <1>13, <1>14 DEF k, r, s

-----------------------------------------------------------------------------
(* The abstract state.                                                     *)

Queued == [c \in C |-> Contents(c)]
Closed == [c \in C |-> ch[c].closed]
Got == [g \in G |-> ResultOf(g)]

SameRing(h, k) ==
  h.buf = k.buf /\ h.sendx = k.sendx /\ h.recvx = k.recvx /\ h.qcount = k.qcount

LEMMA QueuedSet ==
  ASSUME NEW c \in C, NEW s, \A d \in C \ {c} : SameRing(ch'[d], ch[d]),
         Holds(ch'[c], c) = s
  PROVE  Queued' = [Queued EXCEPT ![c] = s]
<1>1. \A d \in C : Contents(d) = Holds(ch[d], d) /\ Contents(d)' = Holds(ch'[d], d)
  BY DEF Contents, Holds
<1>2. \A d \in C \ {c} : Holds(ch'[d], d) = Holds(ch[d], d)
  BY DEF Holds, SameRing
<1> QED
  BY <1>1, <1>2 DEF Queued

LEMMA QueuedKept ==
  ASSUME \A d \in C : SameRing(ch'[d], ch[d])
  PROVE  Queued' = Queued
<1>1. \A d \in C : Contents(d)' = Contents(d)
  BY DEF Contents, SameRing
<1> QED
  BY <1>1 DEF Queued

LEMMA QueuedNone ==
  ASSUME NEW c \in C, ch[c].qcount = 0
  PROVE  Queued[c] = <<>>
  BY DEF Queued, Contents

LEMMA RingSet ==
  ASSUME RingInv, NEW c \in C, \A d \in C \ {c} : SameRing(ch'[d], ch[d]),
         InOrder(ch'[c], c)
  PROVE  RingInv'
<1>1. \A d \in C \ {c} : InOrder(ch'[d], d)
  BY DEF RingInv, InOrder, SameRing, Slot
<1> QED
  BY <1>1 DEF RingInv

LEMMA RingKept ==
  ASSUME RingInv, \A d \in C : SameRing(ch'[d], ch[d])
  PROVE  RingInv'
  BY DEF RingInv, InOrder, SameRing, Slot

(* The wakeups under way of a goroutine: at most one.                      *)
LEMMA WakeupsFacts ==
  ASSUME TypeOK, WakeInv, NEW g \in G
  PROVE  /\ \A w : w \in Wakeups(g) <=>
              \/ \E h \in G : \E n \in DOMAIN wake[h] : wake[h][n] = w /\ w.sg.g = g
              \/ param[g] # None /\ w = param[g]
         /\ \A w \in Wakeups(g) : w \in Wakeup /\ w.sg.g = g
<1>1. \A h \in G : wake[h] \in Seq(Wakeup)
  BY DEF TypeOK
<1>2. \A h \in G : \A n \in DOMAIN wake[h] : wake[h][n] \in Wakeup /\ wake[h][n] # None
  BY <1>1, ChanAssumption
<1>3. param[g] # None => param[g] \in Wakeup /\ param[g].sg.g = g
  BY DEF TypeOK, WakeInv
<1>4. \A w : w \in UNION {ToSet(wake[h]) : h \in G} <=>
             \E h \in G : \E n \in DOMAIN wake[h] : wake[h][n] = w
  BY DEF ToSet
<1>5. \A w : w \in Wakeups(g) <=>
        /\ \/ \E h \in G : \E n \in DOMAIN wake[h] : wake[h][n] = w
           \/ w = param[g]
        /\ w # None /\ w.sg.g = g
  BY <1>4 DEF Wakeups
<1> QED
  BY <1>2, <1>3, <1>5

LEMMA Unwoken ==
  ASSUME TypeOK, CallInv, WakeInv, NEW g \in G,
         pc[g] \notin {"woken", "relock"}, pc[g] = "parked" => ~Woke(g)
  PROVE  Wakeups(g) = {} /\ ResultOf(g) = result[g]
<1>1. param[g] = None
  BY DEF CallInv, Stands
<1>2. \A h \in G : \A n \in DOMAIN wake[h] : wake[h][n].sg.g # g
  BY DEF WakeInv, Woke
<1>3. Wakeups(g) = {}
  BY <1>1, <1>2, WakeupsFacts
<1> QED
  BY <1>3 DEF ResultOf

(* The goroutine goes on with what its waker has told it.                  *)
LEMMA WokenResult ==
  ASSUME TypeOK, CallInv, WakeInv, NEW g \in G, pc[g] \in {"woken", "relock"}
  PROVE  ResultOf(g) = Outcome(param[g]) /\ param[g] \in Wakeup /\ param[g].sg.g = g
<1>1. param[g] # None
  BY DEF CallInv, Stands
<1>2. \A h \in G : \A n \in DOMAIN wake[h] : wake[h][n].sg.g # g
  BY DEF WakeInv
<1>3. Wakeups(g) = {param[g]}
  BY <1>1, <1>2, WakeupsFacts
<1>4. param[g] \in Wakeup /\ param[g].sg.g = g
  BY <1>3, WakeupsFacts
<1> QED
  BY <1>3, <1>4 DEF ResultOf

LEMMA ResultSame ==
  ASSUME NEW g \in G, Wakeups(g)' = Wakeups(g),
         Wakeups(g) = {} => result'[g] = result[g],
         Wakeups(g) # {} => elem'[g] = elem[g] /\ op'[g] = op[g]
  PROVE  ResultOf(g)' = ResultOf(g)
<1>1. CASE Wakeups(g) = {}
  BY <1>1 DEF ResultOf
<1>2. CASE Wakeups(g) # {}
  <2>1. PICK w \in Wakeups(g) : w = CHOOSE x \in Wakeups(g) : TRUE
    BY <1>2
  <2>2. ResultOf(g) = Outcome(w) /\ ResultOf(g)' = Outcome(w)'
    BY <1>2, <2>1 DEF ResultOf
  <2>3. w.sg.g = g
    BY <2>1 DEF Wakeups
  <2> QED
    BY <1>2, <2>2, <2>3 DEF Outcome, Sends
<1> QED
  BY <1>1, <1>2

LEMMA GotSet ==
  ASSUME NEW g \in G, NEW r, ResultOf(g)' = r,
         \A k \in G \ {g} : ResultOf(k)' = ResultOf(k)
  PROVE  Got' = [Got EXCEPT ![g] = r]
  BY DEF Got

(* One goroutine's own result is set.                                      *)
LEMMA OwnResult ==
  ASSUME TypeOK, CallInv, WakeInv, ResultInv, NEW g \in G, NEW r,
         pc[g] \notin {"parked", "woken", "relock"},
         UNCHANGED <<wake, param, op>>, \A k \in G \ {g} : elem'[k] = elem[k],
         Done(g, r)
  PROVE  Got' = [Got EXCEPT ![g] = r]
<1>1. \A k \in G : Wakeups(k)' = Wakeups(k)
  BY DEF Wakeups
<1>2. Wakeups(g) = {}
  BY Unwoken
<1>3. result'[g] = r /\ \A k \in G \ {g} : result'[k] = result[k]
  BY DEF ResultInv, Done
<1>4. ResultOf(g)' = r
  BY <1>1, <1>2, <1>3 DEF ResultOf
<1>5. ASSUME NEW k \in G \ {g} PROVE ResultOf(k)' = ResultOf(k)
  BY <1>1, <1>3, ResultSame
<1> QED
  BY <1>4, <1>5, GotSet

(* A goroutine dequeues another, whose result is thereby settled.          *)
Pushes(g, w) ==
  wake'[g] = <<w>> \o wake[g] /\ \A h \in G \ {g} : wake'[h] = wake[h]

LEMMA WinWakeups ==
  ASSUME TypeOK, WakeInv, NEW g \in G, NEW w \in Wakeup,
         Pushes(g, w),
         UNCHANGED param, NEW k \in G
  PROVE  Wakeups(k)' = IF w.sg.g = k THEN Wakeups(k) \cup {w} ELSE Wakeups(k)
<1>1. wake[g] \in Seq(Wakeup)
  BY DEF TypeOK
<1>2. ToSet(wake'[g]) = ToSet(wake[g]) \cup {w}
  <2> DEFINE s == <<w>> \o wake[g]
  <2>1. /\ DOMAIN s = 1 .. Len(wake[g]) + 1 /\ s[1] = w
        /\ \A n \in DOMAIN s : n # 1 => n - 1 \in DOMAIN wake[g] /\ s[n] = wake[g][n - 1]
        /\ \A n \in DOMAIN wake[g] : n + 1 \in DOMAIN s /\ s[n + 1] = wake[g][n]
    BY <1>1, PushFacts
  <2>2. 1 \in DOMAIN s
    BY <2>1, <1>1
  <2> HIDE DEF s
  <2>3. \A x \in ToSet(s) : x \in ToSet(wake[g]) \cup {w}
    BY <2>1 DEF ToSet
  <2>4. \A x \in ToSet(wake[g]) \cup {w} : x \in ToSet(s)
    BY <2>1, <2>2 DEF ToSet
  <2> QED
    BY <2>3, <2>4 DEF s, Pushes
<1>3. UNION {ToSet(wake'[h]) : h \in G} = (UNION {ToSet(wake[h]) : h \in G}) \cup {w}
  BY <1>2 DEF Pushes
<1>4. w # None
  BY ChanAssumption
<1> QED
  BY <1>3, <1>4 DEF Wakeups

LEMMA OthersResult ==
  ASSUME TypeOK, CallInv, WakeInv, ResultInv, NEW g \in G, NEW w \in Wakeup, NEW r,
         NEW x \in G \ {g}, w.sg.g = x,
         Sleeps(x), pc[g] \notin {"parked", "woken", "relock"},
         Pushes(g, w),
         UNCHANGED <<param, op>>,
         \A k \in G \ {x} : elem'[k] = elem[k],
         Done(g, r)
  PROVE  /\ Wakeups(x)' = {w}
         /\ Got' = [Got EXCEPT ![g] = r, ![x] = ResultOf(x)']
<1>1. \A k \in G : Wakeups(k)' = IF x = k THEN Wakeups(k) \cup {w} ELSE Wakeups(k)
  BY WinWakeups
<1>2. Wakeups(g) = {} /\ Wakeups(x) = {}
  BY Unwoken DEF Sleeps
<1>3. result'[g] = r /\ \A k \in G \ {g} : result'[k] = result[k]
  BY DEF ResultInv, Done
<1>4. ResultOf(g)' = r
  BY <1>1, <1>2, <1>3 DEF ResultOf
<1>5. Wakeups(x)' = {w}
  BY <1>1, <1>2
<1>6. ASSUME NEW k \in G \ {g, x} PROVE ResultOf(k)' = ResultOf(k)
  BY <1>1, <1>3, ResultSame
<1> QED
  BY <1>4, <1>5, <1>6 DEF Got

LEMMA IsCommunication ==
  ASSUME NEW g \in G, NEW i \in Cases(g), Abstract!Communicate(g, i, ChanOf(g, i))
  PROVE  Abstract!Next
<1>1. i \in Abstract!Cases(g)
  BY DEF Cases, Abstract!Cases
<1> QED
  BY <1>1 DEF Abstract!Next, ChanOf

LEMMA IsClose ==
  ASSUME NEW g \in G, NEW i \in Cases(g), Abstract!Close(g, ChanOf(g, i))
  PROVE  Abstract!Next
<1>1. i \in Abstract!Cases(g)
  BY DEF Cases, Abstract!Cases
<1> QED
  BY <1>1 DEF Abstract!Next, ChanOf

LEMMA Offering ==
  ASSUME NEW g \in G, NEW i \in Cases(g), op[g].kind # "close", ResultOf(g) = None
  PROVE  /\ i \in Abstract!Cases(g)
         /\ \A s \in BOOLEAN :
              Sends(g, i) = s => Abstract!Offers(g, i, ChanOf(g, i), s)
  BY DEF Cases, Abstract!Cases, Abstract!Offers, ChanOf, Sends

-----------------------------------------------------------------------------
(* A communication, under the locks.                                       *)
LEMMA FirstWaiting ==
  ASSUME ChanInv, ResultInv, NEW c \in C, NEW s \in BOOLEAN,
         Waiting(QueueOf(ch, c, s))
  PROVE  LET x == QueueOf(ch, c, s)[Dequeued(QueueOf(ch, c, s))] IN
         /\ QueueOf(ch, c, s) # <<>>
         /\ x \in Sudog /\ x.g \in G /\ Sleeps(x.g) /\ op[x.g] \in Ops
         /\ x.case \in Cases(x.g) /\ ChanOf(x.g, x.case) = c /\ Sends(x.g, x.case) = s
         /\ Abstract!Offers(x.g, x.case, c, s)
         /\ \A g \in G : pc[g] # "parked" => x.g \in G \ {g}
<1> DEFINE q == QueueOf(ch, c, s)
           x == q[Dequeued(q)]
<1>1. q \in Seq(Sudog) /\ Distinct(q)
  BY Queue DEF ChanInv, WaitInv
<1>2. x \in Sudog /\ x \in ToSet(q) /\ Free(x)
  BY <1>1, DequeueOne
<1>3. q # <<>>
  BY <1>2, EmptyFacts
<1> HIDE DEF x
<1>4. x.g \in G /\ Belongs(x, c, s)
  BY <1>2 DEF Sudog, ChanInv, WaitInv, QueueInv
<1>5. Sleeps(x.g)
  BY <1>2, <1>4 DEF Belongs, Free, Selects
<1>6. op[x.g] \in Ops /\ op[x.g].kind # "close" /\ result[x.g] = None
  BY <1>4, <1>5 DEF Sleeps, ChanInv, CallInv, Stands, TypeOK, ResultInv, Fits, InClose
<1>7. ResultOf(x.g) = None
  BY <1>4, <1>5, <1>6, Unwoken DEF Sleeps, ChanInv, WaitInv
<1>8. Abstract!Offers(x.g, x.case, c, s)
  BY <1>4, <1>6, <1>7, Offering DEF Belongs
<1>9. \A g \in G : pc[g] # "parked" => x.g \in G \ {g}
  BY <1>4, <1>5 DEF Sleeps
<1> QED
  BY <1>2, <1>3, <1>4, <1>5, <1>6, <1>8, <1>9 DEF Belongs, x

LEMMA PolledWaiting ==
  ASSUME NEW h, NEW g, NEW I, PolledFrom(h, g, I), NEW c \in C, NEW s \in BOOLEAN,
         Waiting(QueueOf(h, c, s))
  PROVE  QueueOf(h, c, s) = QueueOf(ch, c, s)
<1>1. DOMAIN (<<>>) = {} /\ <<>> \in Seq(Sudog)
  OBVIOUS
<1>2. ~Waiting(<<>>)
  BY <1>1, DequeuedFacts
<1> QED
  BY <1>2 DEF PolledFrom

Settles(g) == \E r \in Results : Done(g, r)

(* What the lemmas below assume of g, which polls its cases.               *)
Attempts(g, i, h, I) ==
  /\ RefInv
  /\ pc[g] \in {"lock", "sellock"} /\ i \in Cases(g)
  /\ owner[ChanOf(g, i)] \in {None, g}
  /\ PolledFrom(h, g, I) /\ \A d \in C : SameRing(h[d], ch[d])
  /\ UNCHANGED <<op, param>>

LEMMA AttemptFacts ==
  ASSUME NEW g \in G, NEW i, NEW h, NEW I, Attempts(g, i, h, I)
  PROVE  LET c == ChanOf(g, i) IN
         /\ c \in C /\ Sends(g, i) \in BOOLEAN /\ op[g].cases[i].val \in Value
         /\ op[g] \in Ops /\ i \in Nat \ {0}
         /\ h[c] \in Hchan(c) /\ DOMAIN h = C /\ wake[g] = <<>>
         /\ h[c].recvq \in Seq(Sudog) /\ h[c].sendq \in Seq(Sudog)
         /\ h[c].closed = ch[c].closed /\ h[c].qcount = ch[c].qcount
         /\ ResultOf(g) = None
         /\ Sends(g, i) => Abstract!Offers(g, i, c, TRUE)
         /\ ~Sends(g, i) => Abstract!Offers(g, i, c, FALSE)
         /\ pc[g] \notin {"parked", "woken", "relock"}
         /\ ch[c].closed => ch[c].recvq = <<>> /\ ch[c].sendq = <<>>
<1> USE DEF Attempts, RefInv, ChanInv, WaitInv
<1>1. /\ op[g] \in Ops /\ i \in DOMAIN op[g].cases /\ i \in Nat \ {0}
      /\ ChanOf(g, i) \in C /\ Sends(g, i) \in BOOLEAN
      /\ op[g].cases[i].val \in Value
  BY CallFacts
<1>2. wake[g] = <<>> /\ op[g].kind # "close"
  BY <1>1, OpsAssumption DEF CallInv, Stands, InClose, Selects
<1>3. ResultOf(g) = None
  <2>1. result[g] = None
    BY DEF ResultInv, Fits, InClose
  <2> QED
    BY <2>1, Unwoken
<1>4. /\ Sends(g, i) => Abstract!Offers(g, i, ChanOf(g, i), TRUE)
      /\ ~Sends(g, i) => Abstract!Offers(g, i, ChanOf(g, i), FALSE)
  BY <1>1, <1>2, <1>3, Offering
<1>5. LET c == ChanOf(g, i) IN
      /\ h[c] \in Hchan(c) /\ DOMAIN h = C
      /\ h[c].closed = ch[c].closed /\ h[c].qcount = ch[c].qcount
  BY <1>1 DEF PolledFrom
<1>6. LET c == ChanOf(g, i) IN h[c].recvq \in Seq(Sudog) /\ h[c].sendq \in Seq(Sudog)
  BY <1>5 DEF Hchan
<1>7. ~\E k \in G : pc[k] \in InClose /\ ChanOf(k, 1) = ChanOf(g, i)
  BY ChanAssumption DEF CloseInv, InClose
<1>8. LET c == ChanOf(g, i) IN ch[c].closed => ch[c].recvq = <<>> /\ ch[c].sendq = <<>>
  BY <1>1, <1>7 DEF ExclusiveInv
<1> QED
  BY <1>1, <1>2, <1>3, <1>4, <1>5, <1>6, <1>8

LEMMA SendDirectRef ==
  ASSUME NEW g \in G, NEW i, NEW h, NEW I, Attempts(g, i, h, I), Sends(g, i),
         ~h[ChanOf(g, i)].closed, SendDirect(g, i, h)
  PROVE  RingInv' /\ Settles(g) /\ Abstract!Next
<1> DEFINE c == ChanOf(g, i)
           q == QueueOf(h, c, FALSE)
           v == op[g].cases[i].val
<1>1. PICK x, w : x = q[Dequeued(q)] /\ w = [sg |-> x, success |-> TRUE]
  OBVIOUS
<1>2. /\ c \in C /\ v \in Value /\ i \in Nat \ {0} /\ h[c] \in Hchan(c) /\ DOMAIN h = C
      /\ wake[g] = <<>> /\ ~ch[c].closed /\ Abstract!Offers(g, i, c, TRUE)
      /\ pc[g] \notin {"parked", "woken", "relock"} /\ q = h[c].recvq
  BY AttemptFacts DEF QueueOf
<1>3. /\ Waiting(q) /\ ch' = [h EXCEPT ![c].recvq = AfterDequeue(q)]
      /\ elem' = [elem EXCEPT ![x.g] = v]
      /\ wake' = [wake EXCEPT ![g] = <<w>>]
      /\ Done(g, Result("ok", i, Zero))
  BY <1>1, <1>2 DEF SendDirect
<1>4. q = QueueOf(ch, c, FALSE)
  BY <1>2, <1>3, PolledWaiting DEF Attempts
<1>5. /\ q # <<>> /\ x \in Sudog /\ x.g \in G \ {g} /\ Sleeps(x.g) /\ op[x.g] \in Ops
      /\ x.case \in Cases(x.g) /\ ChanOf(x.g, x.case) = c /\ Sends(x.g, x.case) = FALSE
      /\ Abstract!Offers(x.g, x.case, c, FALSE)
  BY <1>1, <1>2, <1>3, <1>4, FirstWaiting DEF Attempts, RefInv
<1> HIDE DEF c
<1>6. \A d \in C : SameRing(ch'[d], ch[d]) /\ ch'[d].closed = ch[d].closed
  <2>1. \A d \in C \ {c} : ch'[d] = h[d]
    BY <1>2, <1>3
  <2>2. ch'[c] = [h[c] EXCEPT !.recvq = AfterDequeue(q)]
    BY <1>2, <1>3
  <2>3. SameRing(ch'[c], h[c]) /\ ch'[c].closed = h[c].closed
    BY <1>2, <2>2 DEF SameRing, Hchan
  <2> QED
    BY <2>1, <2>3 DEF Attempts, PolledFrom, SameRing
<1>7. RingInv'
  BY <1>6, RingKept DEF Attempts, RefInv
<1>8. Queued' = Queued /\ Closed' = Closed
  BY <1>6, QueuedKept DEF Closed
<1>9. ch[c].qcount = 0 /\ Queued[c] = <<>>
  <2>1. ch[c].qcount = 0
    BY <1>2, <1>4, <1>5 DEF Attempts, RefInv, ChanInv, ExclusiveInv, QueueOf, TypeOK, Hchan
  <2> QED
    BY <1>2, <2>1, QueuedNone
<1>10. Got' = [Got EXCEPT ![g] = Result("ok", i, Zero), ![x.g] = Result("ok", x.case, v)]
  <2>1. w \in Wakeup /\ w.sg = x
    BY <1>1, <1>5 DEF Wakeup
  <2>2. Pushes(g, w)
    <3>1. wake'[g] = <<w>> /\ \A k \in G \ {g} : wake'[k] = wake[k]
      BY <1>3 DEF Attempts, RefInv, ChanInv, TypeOK
    <3>2. <<w>> \o wake[g] = <<w>>
      BY <1>2
    <3> QED
      BY <3>1, <3>2 DEF Pushes
  <2>3. Outcome(w)' = Result("ok", x.case, v)
    <3>1. elem'[x.g] = v /\ op' = op
      BY <1>3, <1>5 DEF Attempts, RefInv, ChanInv, TypeOK
    <3> QED
      BY <1>1, <1>5, <3>1 DEF Outcome, Sends
  <2>4. \A k \in G \ {x.g} : elem'[k] = elem[k]
    BY <1>3 DEF Attempts, RefInv, ChanInv, TypeOK
  <2>5. x.g \in G \ {g} /\ w.sg.g = x.g /\ Sleeps(x.g)
    BY <1>5, <2>1
  <2>6. /\ Wakeups(x.g)' = {w}
        /\ Got' = [Got EXCEPT ![g] = Result("ok", i, Zero), ![x.g] = ResultOf(x.g)']
    BY <1>2, <1>3, <2>1, <2>2, <2>4, <2>5, OthersResult
    DEF Attempts, RefInv, ChanInv, WaitInv
  <2>7. ResultOf(x.g)' = Outcome(w)'
    BY <2>6 DEF ResultOf
  <2> QED
    BY <2>3, <2>6, <2>7
<1>11. Settles(g)
  <2>1. Result("ok", i, Zero) \in Results
    BY <1>2 DEF Result, Results, Value
  <2> QED
    BY <1>3, <2>1 DEF Settles
<1>12. Abstract!Meet(g, i, x.g, x.case, c)
  <2>1. /\ Append(Queued[c], v) = <<v>> /\ Head(Append(Queued[c], v)) = v
        /\ Tail(Append(Queued[c], v)) = <<>> /\ Len(Queued[c]) = 0
    BY <1>9
  <2>2. Queued' = [Queued EXCEPT ![c] = <<>>]
    BY <1>2, <1>8, <1>9 DEF Queued
  <2>3. ~Closed[c]
    BY <1>2 DEF Closed
  <2> QED
    BY <1>2, <1>5, <1>8, <1>10, <2>1, <2>2, <2>3
    DEF Abstract!Meet, Abstract!Result, Result, Queued, Closed, Got, Attempts
<1>13. Abstract!Communicate(g, i, c)
  BY <1>5, <1>12 DEF Abstract!Communicate, Abstract!Cases, Cases
<1> QED
  BY <1>7, <1>11, <1>13, IsCommunication DEF Attempts, c

LEMMA RecvDirectRef ==
  ASSUME NEW g \in G, NEW i, NEW h, NEW I, Attempts(g, i, h, I), ~Sends(g, i),
         RecvDirect(g, i, h)
  PROVE  RingInv' /\ Settles(g) /\ Abstract!Next
<1> DEFINE c == ChanOf(g, i)
           q == QueueOf(h, c, TRUE)
<1>1. PICK x, w, v : /\ x = q[Dequeued(q)] /\ w = [sg |-> x, success |-> TRUE]
                     /\ v = op[x.g].cases[x.case].val
  OBVIOUS
<1> DEFINE hc == [h[c] EXCEPT !.sendq = AfterDequeue(@)]
           got == IF Cap[c] = 0 THEN v ELSE h[c].buf[h[c].recvx]
<1>2. /\ c \in C /\ i \in Nat \ {0} /\ h[c] \in Hchan(c) /\ DOMAIN h = C
      /\ wake[g] = <<>> /\ Abstract!Offers(g, i, c, FALSE)
      /\ pc[g] \notin {"parked", "woken", "relock"}
      /\ q = h[c].sendq /\ q \in Seq(Sudog) /\ h[c].qcount = ch[c].qcount
      /\ ch[c].closed => ch[c].sendq = <<>>
  <2>1. /\ c \in C /\ i \in Nat \ {0} /\ h[c] \in Hchan(c) /\ DOMAIN h = C
        /\ wake[g] = <<>> /\ Abstract!Offers(g, i, c, FALSE)
        /\ pc[g] \notin {"parked", "woken", "relock"}
        /\ h[c].sendq \in Seq(Sudog) /\ (ch[c].closed => ch[c].sendq = <<>>)
    BY AttemptFacts, ZenonT(40)
  <2>2. h[c].qcount = ch[c].qcount
    BY <2>1 DEF Attempts, PolledFrom
  <2> QED
    BY <2>1, <2>2 DEF QueueOf
<1>3. /\ Waiting(q)
      /\ ch' = [h EXCEPT ![c] = IF Cap[c] = 0 THEN hc ELSE Exchange(hc, c, v)]
      /\ wake' = [wake EXCEPT ![g] = <<w>>]
      /\ Done(g, Result("ok", i, got))
      /\ UNCHANGED elem
  BY <1>1, <1>2 DEF RecvDirect
<1>4. q = QueueOf(ch, c, TRUE)
  BY <1>2, <1>3, PolledWaiting DEF Attempts
<1>5. /\ q # <<>> /\ x \in Sudog /\ x.g \in G \ {g} /\ Sleeps(x.g) /\ op[x.g] \in Ops
      /\ x.case \in Cases(x.g) /\ ChanOf(x.g, x.case) = c /\ Sends(x.g, x.case) = TRUE
      /\ Abstract!Offers(x.g, x.case, c, TRUE)
  BY <1>1, <1>2, <1>3, <1>4, FirstWaiting DEF Attempts, RefInv
<1>6. v \in Value
  BY <1>1, <1>5, CallFacts DEF Attempts, RefInv, ChanInv
<1>7. /\ hc \in Hchan(c) /\ SameRing(hc, ch[c]) /\ hc.closed = h[c].closed
      /\ hc.recvq = h[c].recvq /\ hc.qcount = Cap[c]
  <2>1. AfterDequeue(q) \in Seq(Sudog)
    BY <1>2, AfterDequeueType
  <2>2. hc \in Hchan(c) /\ SameRing(hc, h[c]) /\ hc.closed = h[c].closed /\ hc.recvq = h[c].recvq
    BY <1>2, <2>1 DEF Hchan, SameRing
  <2>3. ~(ch[c].qcount < Cap[c]) /\ ch[c].qcount \in 0 .. Cap[c] /\ Cap[c] \in Nat
    <3>1. ch[c] \in Hchan(c) /\ Cap[c] \in Nat
      BY <1>2, ChanAssumption DEF Attempts, RefInv, ChanInv, TypeOK
    <3> QED
      BY <1>2, <1>4, <1>5, <3>1 DEF Attempts, RefInv, ChanInv, ExclusiveInv, QueueOf, Hchan
  <2>4. ch[c].qcount = Cap[c]
    BY <2>3
  <2>5. SameRing(h[c], ch[c])
    BY <1>2 DEF Attempts
  <2> HIDE DEF hc
  <2> QED
    BY <2>2, <2>4, <2>5 DEF SameRing
<1>8. /\ ch'[c] = IF Cap[c] = 0 THEN hc ELSE Exchange(hc, c, v)
      /\ \A d \in C \ {c} : ch'[d] = h[d]
  BY <1>2, <1>3
<1>9. got = IF Cap[c] = 0 THEN v ELSE hc.buf[hc.recvx]
  BY <1>2 DEF Hchan
<1> HIDE DEF c, hc, got
<1>10. InOrder(hc, c) /\ Holds(hc, c) = Queued[c] /\ ch[c].closed = h[c].closed
  <2>1. InOrder(ch[c], c)
    BY <1>2 DEF Attempts, RefInv, RingInv
  <2> QED
    BY <1>2, <1>7, <2>1
    DEF InOrder, SameRing, Slot, Holds, Queued, Contents, Attempts, PolledFrom
<1>11. LET s == Append(Queued[c], v) IN
       /\ InOrder(ch'[c], c) /\ Holds(ch'[c], c) = Tail(s) /\ Head(s) = got
       /\ Len(Queued[c]) \in {0, Cap[c]} /\ got \in Value
       /\ ch'[c].closed = h[c].closed
  <2>1. CASE Cap[c] = 0
    <3>1. Holds(hc, c) = <<>>
      BY <1>7, <2>1 DEF Holds
    <3>2. Append(<<>>, v) = <<v>> /\ Tail(<<v>>) = <<>> /\ Head(<<v>>) = v /\ Len(<<>>) = 0
      OBVIOUS
    <3> QED
      BY <1>6, <1>7, <1>8, <1>9, <1>10, <2>1, <3>1, <3>2
  <2>2. CASE Cap[c] # 0
    <3>1. ch'[c].closed = h[c].closed
      BY <1>2, <1>6, <1>7, <1>8, <2>2, ExchangeFacts
    <3>2. Len(Queued[c]) = Cap[c]
      BY <1>2, <1>7, <1>10, HoldsFacts
    <3>3. got \in Value
      <4>1. hc.recvx \in 0 .. Cap[c] - 1 /\ hc.buf \in [0 .. Cap[c] - 1 -> Value]
        BY <1>7, <2>2 DEF Hchan
      <4> QED
        BY <4>1, <1>9, <2>2
    <3>4. /\ InOrder(Exchange(hc, c, v), c) /\ Head(Append(Queued[c], v)) = got
          /\ Holds(Exchange(hc, c, v), c) = Tail(Append(Queued[c], v))
      BY <1>2, <1>6, <1>7, <1>9, <1>10, <2>2, ExchangeHolds
    <3> QED
      BY <1>8, <2>2, <3>1, <3>2, <3>3, <3>4
  <2> QED
    BY <2>1, <2>2
<1>12. \A d \in C \ {c} : SameRing(ch'[d], ch[d]) /\ ch'[d].closed = ch[d].closed
  BY <1>8 DEF Attempts, PolledFrom
<1>13. RingInv'
  BY <1>2, <1>11, <1>12, RingSet DEF Attempts, RefInv
<1>14. Queued' = [Queued EXCEPT ![c] = Tail(Append(Queued[c], v))]
  BY <1>2, <1>11, <1>12, QueuedSet
<1>15. Closed' = Closed
  <2>1. \A d \in C : ch'[d].closed = ch[d].closed
    BY <1>10, <1>11, <1>12
  <2> QED
    BY <2>1 DEF Closed
<1>16. Got' = [Got EXCEPT ![g] = Result("ok", i, got), ![x.g] = Result("ok", x.case, Zero)]
  <2>1. w \in Wakeup /\ w.sg = x
    BY <1>1, <1>5 DEF Wakeup
  <2>2. Pushes(g, w)
    <3>1. wake'[g] = <<w>> /\ \A k \in G \ {g} : wake'[k] = wake[k]
      BY <1>3 DEF Attempts, RefInv, ChanInv, TypeOK
    <3>2. <<w>> \o wake[g] = <<w>>
      BY <1>2
    <3> QED
      BY <3>1, <3>2 DEF Pushes
  <2>3. Outcome(w)' = Result("ok", x.case, Zero)
    <3>1. op' = op
      BY DEF Attempts
    <3> QED
      BY <1>1, <1>5, <3>1 DEF Outcome, Sends
  <2>4. x.g \in G \ {g} /\ w.sg.g = x.g /\ Sleeps(x.g)
    BY <1>5, <2>1
  <2>5. /\ Wakeups(x.g)' = {w}
        /\ Got' = [Got EXCEPT ![g] = Result("ok", i, got), ![x.g] = ResultOf(x.g)']
    BY <1>2, <1>3, <2>1, <2>2, <2>4, OthersResult
    DEF Attempts, RefInv, ChanInv, WaitInv
  <2>6. ResultOf(x.g)' = Outcome(w)'
    BY <2>5 DEF ResultOf
  <2> QED
    BY <2>3, <2>5, <2>6
<1>17. Settles(g)
  <2>1. Result("ok", i, got) \in Results
    BY <1>2, <1>11 DEF Result, Results
  <2> QED
    BY <1>3, <2>1 DEF Settles
<1>18. ~Closed[c]
  <2>1. ~ch[c].closed
    BY <1>2, <1>4, <1>5 DEF QueueOf
  <2> QED
    BY <1>2, <2>1 DEF Closed
<1>19. Abstract!Meet(x.g, x.case, g, i, c)
  <2>1. op[x.g].cases[x.case].val = v
    BY <1>1
  <2>2. Got' = [Got EXCEPT ![x.g] = Result("ok", x.case, Zero), ![g] = Result("ok", i, got)]
    BY <1>5, <1>16 DEF Got
  <2> QED
    BY <1>2, <1>5, <1>11, <1>14, <1>15, <1>18, <2>1, <2>2
    DEF Abstract!Meet, Abstract!Result, Result, Queued, Closed, Got, Attempts
<1>20. Abstract!Communicate(x.g, x.case, c)
  <2>1. i \in Abstract!Cases(g) /\ g \in G \ {x.g}
    BY <1>5 DEF Abstract!Cases, Cases, Attempts
  <2> QED
    BY <1>19, <2>1 DEF Abstract!Communicate
<1> QED
  BY <1>5, <1>13, <1>17, <1>20, IsCommunication

LEMMA SendToBufRef ==
  ASSUME NEW g \in G, NEW i, NEW h, NEW I, Attempts(g, i, h, I), Sends(g, i),
         ~h[ChanOf(g, i)].closed, SendToBuf(g, i, h)
  PROVE  RingInv' /\ Settles(g) /\ Abstract!Next
<1> DEFINE c == ChanOf(g, i)
           v == op[g].cases[i].val
           hc == [h[c] EXCEPT !.recvq = AfterDequeue(@)]
<1>1. /\ c \in C /\ v \in Value /\ i \in Nat \ {0} /\ h[c] \in Hchan(c) /\ DOMAIN h = C
      /\ ~ch[c].closed /\ Abstract!Offers(g, i, c, TRUE)
      /\ pc[g] \notin {"parked", "woken", "relock"}
      /\ h[c].recvq \in Seq(Sudog)
  BY AttemptFacts
<1>2. /\ h[c].qcount < Cap[c] /\ ch' = [h EXCEPT ![c] = Put(hc, c, v)]
      /\ Done(g, Result("ok", i, Zero)) /\ UNCHANGED <<elem, wake>>
  BY DEF SendToBuf
<1>3. hc \in Hchan(c) /\ SameRing(hc, h[c]) /\ hc.closed = h[c].closed
  <2>1. AfterDequeue(h[c].recvq) \in Seq(Sudog)
    BY <1>1, AfterDequeueType
  <2> QED
    BY <1>1, <2>1 DEF Hchan, SameRing
<1>4. ch'[c] = Put(hc, c, v) /\ \A d \in C \ {c} : ch'[d] = h[d]
  BY <1>1, <1>2
<1> HIDE DEF c, hc
<1>5. InOrder(hc, c) /\ Holds(hc, c) = Queued[c] /\ hc.qcount < Cap[c]
  <2>1. InOrder(ch[c], c) /\ SameRing(h[c], ch[c])
    BY <1>1 DEF Attempts, RefInv, RingInv
  <2> QED
    BY <1>1, <1>2, <1>3, <2>1 DEF InOrder, SameRing, Slot, Holds, Queued, Contents
<1>6. /\ InOrder(ch'[c], c) /\ Holds(ch'[c], c) = Append(Queued[c], v)
      /\ ch'[c].closed = h[c].closed
  BY <1>1, <1>3, <1>4, <1>5, PutHolds, PutFacts
<1>7. /\ \A d \in C \ {c} : SameRing(ch'[d], ch[d]) /\ ch'[d].closed = ch[d].closed
      /\ h[c].closed = ch[c].closed
  BY <1>1, <1>4 DEF Attempts, PolledFrom
<1>8. RingInv'
  BY <1>1, <1>6, <1>7, RingSet DEF Attempts, RefInv
<1>9. Queued' = [Queued EXCEPT ![c] = Append(Queued[c], v)]
  BY <1>1, <1>6, <1>7, QueuedSet
<1>10. Closed' = Closed
  <2>1. \A d \in C : ch'[d].closed = ch[d].closed
    BY <1>6, <1>7
  <2> QED
    BY <2>1 DEF Closed
<1>11. Got' = [Got EXCEPT ![g] = Result("ok", i, Zero)]
  BY <1>1, <1>2, OwnResult DEF Attempts, RefInv, ChanInv, WaitInv
<1>12. Settles(g)
  <2>1. Result("ok", i, Zero) \in Results
    BY <1>1 DEF Result, Results, Value
  <2> QED
    BY <1>2, <2>1 DEF Settles
<1>13. Abstract!Send(g, i, c)
  <2>1. Len(Queued[c]) < Cap[c]
    <3>1. Len(Holds(hc, c)) = hc.qcount
      BY <1>1, <1>3, HoldsFacts
    <3> QED
      BY <1>5, <3>1
  <2>2. ~Closed[c]
    BY <1>1 DEF Closed
  <2> QED
    BY <1>1, <1>9, <1>10, <1>11, <2>1, <2>2
    DEF Abstract!Send, Abstract!Result, Result, Queued, Closed, Got, Attempts
<1>14. Abstract!Communicate(g, i, c)
  BY <1>13 DEF Abstract!Communicate
<1> QED
  BY <1>8, <1>12, <1>14, IsCommunication DEF Attempts, c

LEMMA RecvFromBufRef ==
  ASSUME NEW g \in G, NEW i, NEW h, NEW I, Attempts(g, i, h, I), ~Sends(g, i),
         RecvFromBuf(g, i, h)
  PROVE  RingInv' /\ Settles(g) /\ Abstract!Next
<1> DEFINE c == ChanOf(g, i)
           v == h[c].buf[h[c].recvx]
           hc == [h[c] EXCEPT !.sendq = AfterDequeue(@)]
<1>1. /\ c \in C /\ i \in Nat \ {0} /\ h[c] \in Hchan(c) /\ DOMAIN h = C
      /\ Abstract!Offers(g, i, c, FALSE)
      /\ pc[g] \notin {"parked", "woken", "relock"}
      /\ h[c].sendq \in Seq(Sudog)
  BY AttemptFacts
<1>2. /\ h[c].qcount > 0 /\ ch' = [h EXCEPT ![c] = Get(hc, c)]
      /\ Done(g, Result("ok", i, v)) /\ UNCHANGED <<elem, wake>>
  BY DEF RecvFromBuf
<1>3. hc \in Hchan(c) /\ SameRing(hc, h[c]) /\ hc.closed = h[c].closed /\ v \in Value
  <2>1. AfterDequeue(h[c].sendq) \in Seq(Sudog)
    BY <1>1, AfterDequeueType
  <2>2. v \in Value
    <3>1. Cap[c] # 0
      <4>1. h[c].qcount \in 0 .. Cap[c]
        BY <1>1 DEF Hchan
      <4>2. h[c].qcount > 0
        BY <1>2
      <4>3. Cap[c] \in Nat
        BY <1>1, ChanAssumption
      <4> QED
        BY <4>1, <4>2, <4>3
    <3>2. h[c].recvx \in 0 .. Cap[c] - 1 /\ h[c].buf \in [0 .. Cap[c] - 1 -> Value]
      BY <1>1, <3>1 DEF Hchan
    <3> QED
      BY <3>2
  <2>3. hc \in Hchan(c) /\ SameRing(hc, h[c]) /\ hc.closed = h[c].closed
    BY <1>1, <2>1 DEF Hchan, SameRing
  <2> QED
    BY <2>2, <2>3
<1>4. ch'[c] = Get(hc, c) /\ \A d \in C \ {c} : ch'[d] = h[d]
  BY <1>1, <1>2
<1> HIDE DEF c, hc, v
<1>5. /\ InOrder(hc, c) /\ Holds(hc, c) = Queued[c] /\ hc.qcount > 0
      /\ hc.buf[hc.recvx] = v
  <2>1. InOrder(ch[c], c) /\ SameRing(h[c], ch[c])
    BY <1>1 DEF Attempts, RefInv, RingInv
  <2> QED
    BY <1>1, <1>2, <1>3, <2>1 DEF InOrder, SameRing, Slot, Holds, Queued, Contents, v
<1>6. /\ InOrder(ch'[c], c) /\ Holds(ch'[c], c) = Tail(Queued[c])
      /\ Queued[c] # <<>> /\ Head(Queued[c]) = v
      /\ ch'[c].closed = h[c].closed
  BY <1>1, <1>3, <1>4, <1>5, GetHolds, GetFacts
<1>7. /\ \A d \in C \ {c} : SameRing(ch'[d], ch[d]) /\ ch'[d].closed = ch[d].closed
      /\ h[c].closed = ch[c].closed
  BY <1>1, <1>4 DEF Attempts, PolledFrom
<1>8. RingInv'
  BY <1>1, <1>6, <1>7, RingSet DEF Attempts, RefInv
<1>9. Queued' = [Queued EXCEPT ![c] = Tail(Queued[c])]
  BY <1>1, <1>6, <1>7, QueuedSet
<1>10. Closed' = Closed
  <2>1. \A d \in C : ch'[d].closed = ch[d].closed
    BY <1>6, <1>7
  <2> QED
    BY <2>1 DEF Closed
<1>11. Got' = [Got EXCEPT ![g] = Result("ok", i, v)]
  BY <1>1, <1>2, OwnResult DEF Attempts, RefInv, ChanInv, WaitInv
<1>12. Settles(g)
  <2>1. Result("ok", i, v) \in Results
    BY <1>1, <1>3 DEF Result, Results
  <2> QED
    BY <1>2, <2>1 DEF Settles
<1>13. Abstract!Receive(g, i, c)
  BY <1>1, <1>6, <1>9, <1>10, <1>11
  DEF Abstract!Receive, Abstract!Result, Result, Queued, Closed, Got, Attempts
<1>14. Abstract!Communicate(g, i, c)
  BY <1>13 DEF Abstract!Communicate
<1> QED
  BY <1>8, <1>12, <1>14, IsCommunication DEF Attempts, c

(* A channel that is closed: a send panics, a receive finds it empty.      *)
LEMMA ClosedRef ==
  ASSUME NEW g \in G, NEW i, NEW h, NEW I, Attempts(g, i, h, I),
         h[ChanOf(g, i)].closed, ch' = h, UNCHANGED <<elem, wake>>,
         \/ Sends(g, i) /\ Done(g, Result("panic", i, Zero))
         \/ ~Sends(g, i) /\ h[ChanOf(g, i)].qcount = 0 /\ Done(g, Result("closed", i, Zero))
  PROVE  RingInv' /\ Settles(g) /\ Abstract!Next
<1> DEFINE c == ChanOf(g, i)
<1>1. /\ c \in C /\ i \in Nat \ {0}
      /\ pc[g] \notin {"parked", "woken", "relock"}
      /\ h[c].closed = ch[c].closed /\ h[c].qcount = ch[c].qcount
  <2>1. c \in C /\ i \in Nat \ {0}
    BY AttemptFacts
  <2>2. pc[g] \notin {"parked", "woken", "relock"}
    BY AttemptFacts
  <2>3. h[c].closed = ch[c].closed /\ h[c].qcount = ch[c].qcount
    BY <2>1 DEF Attempts, PolledFrom
  <2> QED
    BY <2>1, <2>2, <2>3
<1>2. \A d \in C : SameRing(ch'[d], ch[d]) /\ ch'[d].closed = ch[d].closed
  BY DEF Attempts, PolledFrom
<1>3. RingInv'
  BY <1>2, RingKept DEF Attempts, RefInv
<1>4. Queued' = Queued /\ Closed' = Closed
  BY <1>2, QueuedKept DEF Closed
<1>5. Closed[c]
  BY <1>1 DEF Closed
<1>6. CASE Sends(g, i) /\ Done(g, Result("panic", i, Zero))
  <2>1. Got' = [Got EXCEPT ![g] = Result("panic", i, Zero)]
    BY <1>1, <1>6, OwnResult DEF Attempts, RefInv, ChanInv, WaitInv
  <2>2. Result("panic", i, Zero) \in Results
    BY <1>1 DEF Result, Results, Value
  <2>3. Abstract!Offers(g, i, c, TRUE)
    BY <1>6, AttemptFacts
  <2>4. Abstract!SendClosed(g, i, c)
    BY <1>1, <1>4, <1>5, <2>1, <2>3
    DEF Abstract!SendClosed, Abstract!channels, Abstract!Result, Result, Queued, Closed,
        Got, Attempts
  <2>5. Abstract!Communicate(g, i, c)
    BY <2>4 DEF Abstract!Communicate
  <2> QED
    BY <1>3, <1>6, <2>2, <2>5, IsCommunication DEF Settles, Attempts
<1>7. CASE ~Sends(g, i) /\ h[c].qcount = 0 /\ Done(g, Result("closed", i, Zero))
  <2>1. Got' = [Got EXCEPT ![g] = Result("closed", i, Zero)]
    BY <1>1, <1>7, OwnResult DEF Attempts, RefInv, ChanInv, WaitInv
  <2>2. Result("closed", i, Zero) \in Results
    BY <1>1 DEF Result, Results, Value
  <2>3. Abstract!Offers(g, i, c, FALSE)
    BY <1>7, AttemptFacts
  <2>4. Queued[c] = <<>>
    BY <1>1, <1>7, QueuedNone
  <2>5. Abstract!ReceiveClosed(g, i, c)
    BY <1>1, <1>4, <1>5, <2>1, <2>4, <2>3
    DEF Abstract!ReceiveClosed, Abstract!channels, Abstract!Result, Result, Queued, Closed,
        Got, Attempts
  <2>6. Abstract!Communicate(g, i, c)
    BY <2>5 DEF Abstract!Communicate
  <2> QED
    BY <1>3, <1>7, <2>2, <2>6, IsCommunication DEF Settles, Attempts
<1> QED
  BY <1>6, <1>7

LEMMA CommunicateRef ==
  ASSUME NEW g \in G, NEW i, NEW h, NEW I, Attempts(g, i, h, I), Communicate(g, i, h)
  PROVE  RingInv' /\ Settles(g) /\ Abstract!Next
<1>1. CASE Sends(g, i) /\ h[ChanOf(g, i)].closed
  BY <1>1, ClosedRef DEF Communicate, Send
<1>2. CASE Sends(g, i) /\ ~h[ChanOf(g, i)].closed
  BY <1>2, SendDirectRef, SendToBufRef DEF Communicate, Send
<1>3. CASE ~Sends(g, i) /\ RecvClosed(g, i, h)
  BY <1>3, ClosedRef DEF RecvClosed
<1>4. CASE ~Sends(g, i) /\ (RecvDirect(g, i, h) \/ RecvFromBuf(g, i, h))
  BY <1>4, RecvDirectRef, RecvFromBufRef
<1> QED
  BY <1>1, <1>2, <1>3, <1>4 DEF Communicate

-----------------------------------------------------------------------------
(* The steps.  Each keeps the invariants, and is one of module Channel or  *)
(* none at all.                                                            *)

Stutters == Queued' = Queued /\ Closed' = Closed /\ Got' = Got /\ UNCHANGED op

(* A goroutine that stays where it is, with its result.                    *)
Stays(k) == pc'[k] = pc[k] /\ op'[k] = op[k] /\ result'[k] = result[k]

LEMMA ResultKept ==
  ASSUME TypeOK, CallInv, ResultInv, result' \in [G -> Results \cup {None}],
         \A c \in C : ch[c].closed => ch'[c].closed,
         \A k \in G : Stays(k) \/ Fits(k)'
  PROVE  ResultInv'
<1> SUFFICES ASSUME NEW k \in G, Stays(k) PROVE Fits(k)'
  BY DEF ResultInv
<1>1. Sends(k, 1)' = Sends(k, 1) /\ ChanOf(k, 1)' = ChanOf(k, 1)
  BY DEF Stays, Sends, ChanOf
<1>2. pc[k] = "tryEmptyAgain" => ChanOf(k, 1) \in C
  <2> SUFFICES ASSUME pc[k] = "tryEmptyAgain" PROVE ChanOf(k, 1) \in C
    OBVIOUS
  <2>1. op[k] \in Ops
    BY DEF CallInv, Stands, TypeOK
  <2> QED
    BY <2>1, OpsAssumption DEF ChanOf
<1> QED
  BY <1>1, <1>2 DEF ResultInv, Stays, Fits

LEMMA LocksKept ==
  ASSUME TypeOK, CallInv, LockInv,
         \A k \in G :
           \/ Locks(k)'
           \/ /\ pc'[k] = pc[k] /\ op'[k] = op[k] /\ toLock'[k] = toLock[k]
              /\ \A c \in C : owner[c] = k => owner'[c] = k
  PROVE  LockInv'
<1> SUFFICES ASSUME NEW k \in G,
                    pc'[k] = pc[k] /\ op'[k] = op[k] /\ toLock'[k] = toLock[k],
                    \A c \in C : owner[c] = k => owner'[c] = k,
                    pc[k] \in {"sellock", "relock"}, NEW c \in Chans(op[k])
             PROVE  c \in toLock[k] \/ owner'[c] = k
  BY DEF LockInv, Locks, Chans
<1>1. op[k] \in Ops
  BY DEF CallInv, Stands, TypeOK
<1>2. c \in C
  BY <1>1, OpsAssumption DEF Chans
<1> QED
  BY <1>2 DEF LockInv, Locks

LEMMA GotKept ==
  ASSUME UNCHANGED <<wake, param, op, elem, result>>
  PROVE  Got' = Got
<1>1. \A k \in G : Wakeups(k)' = Wakeups(k)
  BY DEF Wakeups
<1>2. \A k \in G : ResultOf(k)' = ResultOf(k)
  BY <1>1, ResultSame
<1> QED
  BY <1>2 DEF Got

LEMMA PolledRing ==
  ASSUME TypeOK, NEW g \in G, NEW I
  PROVE  \A d \in C : SameRing(Polled(g, I)[d], ch[d])
<1> SUFFICES ASSUME NEW d \in C PROVE SameRing(Polled(g, I)[d], ch[d])
  OBVIOUS
<1>1. ch[d] \in Hchan(d)
  BY DEF TypeOK
<1> QED
  BY <1>1 DEF Polled, SameRing, Hchan

LEMMA ProceedRef ==
  ASSUME RefInv, NEW g \in G, pc[g] \in {"lock", "sellock"}, UNCHANGED <<op, param>>,
         \A i \in Cases(g) : owner[ChanOf(g, i)] \in {None, g}, Proceed(g)
  PROVE  /\ RingInv' /\ Settles(g) /\ Abstract!Next
         /\ \A c \in C : ch'[c].closed = ch[c].closed
<1>1. PICK i \in Cases(g), I \in SUBSET Cases(g) :
        (\A j \in I : ~CanProceed(g, j)) /\ Communicate(g, i, Polled(g, I))
  BY DEF Proceed
<1>2. PolledFrom(Polled(g, I), g, I) /\ \A d \in C : SameRing(Polled(g, I)[d], ch[d])
  BY <1>1, PolledFacts, PolledRing DEF RefInv, ChanInv
<1>3. Attempts(g, i, Polled(g, I), I)
  BY <1>2 DEF Attempts
<1>4. wake[g] = <<>>
  BY DEF RefInv, ChanInv, CallInv, Stands, InClose
<1>5. Outcomes(g)
  BY <1>1, <1>2, <1>4, CommunicateFacts DEF RefInv, ChanInv, WaitInv
<1> QED
  BY <1>1, <1>3, <1>5, CommunicateRef DEF Outcomes, Counts

LEMMA GiveUpRef ==
  ASSUME RefInv, NEW g \in G, pc[g] \in {"lock", "sellock"}, UNCHANGED <<op, param>>,
         GiveUp(g)
  PROVE  /\ RingInv'
         /\ \/ op[g].block /\ pc'[g] = "parked" /\ result' = result /\ Stutters
            \/ ~op[g].block /\ pc'[g] = "done" /\ Settles(g) /\ Abstract!Next
         /\ \A c \in C : ch'[c].closed = ch[c].closed
<1> DEFINE h == Polled(g, Cases(g))
<1>1. \A i \in Cases(g) : ~CanProceed(g, i)
  BY DEF GiveUp
<1>2. PolledFrom(h, g, Cases(g)) /\ \A d \in C : SameRing(h[d], ch[d])
  BY <1>1, PolledFacts, PolledRing DEF RefInv, ChanInv
<1> HIDE DEF h
<1>3. ch' = h \/ ch' = Enqueued(g, h)
  BY DEF GiveUp, h
<1>4. \A d \in C : SameRing(Enqueued(g, h)[d], h[d]) /\ Enqueued(g, h)[d].closed = h[d].closed
  <2> TAKE d \in C
  <2>1. h[d] \in Hchan(d)
    BY <1>2 DEF PolledFrom
  <2> QED
    BY <2>1 DEF Enqueued, SameRing, Hchan
<1>5. \A d \in C : SameRing(ch'[d], ch[d]) /\ ch'[d].closed = ch[d].closed
  BY <1>2, <1>3, <1>4 DEF PolledFrom, SameRing
<1>6. RingInv'
  BY <1>5, RingKept DEF RefInv
<1>7. Queued' = Queued /\ Closed' = Closed
  BY <1>5, QueuedKept DEF Closed
<1>8. UNCHANGED <<wake, elem>> /\ pc \in [G -> ChanPC]
  BY DEF GiveUp, RefInv, ChanInv, TypeOK
<1>9. CASE op[g].block
  <2>1. pc'[g] = "parked" /\ result' = result
    BY <1>8, <1>9 DEF GiveUp
  <2>2. Got' = Got
    BY <1>8, <2>1, GotKept
  <2> QED
    BY <1>5, <1>6, <1>7, <1>9, <2>1, <2>2 DEF Stutters
<1>10. CASE ~op[g].block
  <2>1. pc'[g] = "done" /\ Done(g, Result("default", 0, Zero))
    BY <1>8, <1>10 DEF GiveUp
  <2>2. pc[g] \notin {"parked", "woken", "relock"}
    OBVIOUS
  <2>3. Got' = [Got EXCEPT ![g] = Result("default", 0, Zero)]
    BY <1>8, <2>1, <2>2, OwnResult DEF RefInv, ChanInv, WaitInv
  <2>4. Result("default", 0, Zero) \in Results
    BY DEF Result, Results, Value
  <2>5. op[g] # None /\ ResultOf(g) = None
    <3>1. op[g] # None /\ result[g] = None
      BY DEF RefInv, ChanInv, CallInv, Stands, ResultInv, Fits, InClose
    <3> QED
      BY <2>2, <3>1, Unwoken DEF RefInv, ChanInv, WaitInv
  <2>6. Abstract!Default(g)
    BY <1>7, <1>10, <2>3, <2>5
    DEF Abstract!Default, Abstract!channels, Abstract!Result, Result, Queued, Closed, Got
  <2>7. Abstract!Next
    BY <2>6 DEF Abstract!Next
  <2> QED
    BY <1>5, <1>6, <1>10, <2>1, <2>4, <2>7 DEF Settles
<1> QED
  BY <1>9, <1>10

(* A step keeps the invariants, and is one of module Channel or none.      *)
Refines == ResultInv' /\ RingInv' /\ LockInv' /\ (Abstract!Next \/ Stutters)

LEMMA IsResult ==
  ASSUME ResultInv, NEW g \in G, Settles(g)
  PROVE  /\ result' \in [G -> Results \cup {None}] /\ result'[g] # None
         /\ \A k \in G \ {g} : result'[k] = result[k]
<1>1. None \notin Results
  BY ChanAssumption
<1> QED
  BY <1>1 DEF ResultInv, Settles, Done

LEMMA AttemptRef ==
  ASSUME RefInv, NEW g \in G, pc[g] \in {"lock", "sellock"},
         UNCHANGED <<op, param, toLock>>,
         \A i \in Cases(g) : owner[ChanOf(g, i)] \in {None, g},
         \A k \in G \ {g} : \A c \in C : owner[c] = k => owner'[c] = k,
         Proceed(g) \/ GiveUp(g)
  PROVE  Refines
<1>1. /\ RingInv' /\ (Abstract!Next \/ Stutters)
      /\ \A c \in C : ch'[c].closed = ch[c].closed
  BY ProceedRef, GiveUpRef
<1>2. /\ \/ pc'[g] \in {"done", "ready"} /\ Settles(g)
         \/ pc'[g] = "parked" /\ result' = result
      /\ \A k \in G \ {g} : pc'[k] = pc[k]
  <2>1. CASE Proceed(g)
    <3>1. pc' = [pc EXCEPT ![g] = IF wake'[g] = <<>> THEN "done" ELSE "ready"]
      BY <2>1 DEF Proceed
    <3>2. Settles(g)
      BY <2>1, ProceedRef
    <3> QED
      BY <3>1, <3>2 DEF RefInv, ChanInv, TypeOK
  <2>2. CASE GiveUp(g)
    <3>1. pc' = [pc EXCEPT ![g] = IF op[g].block THEN "parked" ELSE "done"]
      BY <2>2 DEF GiveUp
    <3>2. \/ op[g].block /\ result' = result
          \/ ~op[g].block /\ Settles(g)
      BY <2>2, GiveUpRef
    <3> QED
      BY <3>1, <3>2 DEF RefInv, ChanInv, TypeOK
  <2> QED
    BY <2>1, <2>2
<1>3. result' \in [G -> Results \cup {None}] /\ \A k \in G \ {g} : Stays(k)
  BY <1>2, IsResult DEF RefInv, ResultInv, Stays
<1>4. Fits(g)'
  BY <1>2, IsResult DEF RefInv, ResultInv, Fits, Tries, InClose
<1>5. ResultInv'
  BY <1>1, <1>3, <1>4, ResultKept DEF RefInv, ChanInv
<1>6. Locks(g)'
  BY <1>2 DEF Locks
<1>7. LockInv'
  BY <1>2, <1>6, LocksKept DEF RefInv, ChanInv
<1> QED
  BY <1>1, <1>5, <1>7 DEF Refines

(* A call with one case holds or finds free the lock of its channel.       *)
LEMMA ChanRef ==
  ASSUME RefInv, NEW g \in G, ChanSend(g) \/ ChanRecv(g)
  PROVE  Refines
<1>1. /\ pc[g] = "lock" /\ owner[ChanOf(g, 1)] = None
      /\ UNCHANGED <<owner, op, toLock, param>> /\ (Proceed(g) \/ GiveUp(g))
  BY DEF ChanSend, ChanRecv
<1>2. op[g] \in Ops /\ op[g].kind # "select"
  BY <1>1 DEF RefInv, ChanInv, CallInv, Stands, TypeOK
<1>3. Cases(g) = {1}
  BY <1>2, OpsAssumption, ChanAssumption DEF Cases
<1> QED
  BY <1>1, <1>3, AttemptRef

(* A select that polls has taken every lock it needs.                      *)
LEMMA SelectPollRef ==
  ASSUME RefInv, NEW g \in G, SelectPoll(g)
  PROVE  Refines
<1>1. /\ pc[g] = "sellock" /\ toLock[g] = {}
      /\ UNCHANGED <<op, toLock, param>> /\ (Proceed(g) \/ GiveUp(g))
      /\ owner' = [c \in C |-> IF owner[c] = g THEN None ELSE owner[c]]
  BY DEF SelectPoll, SelUnlock
<1>2. \A i \in Cases(g) : owner[ChanOf(g, i)] = g
  <2>1. \A c \in Chans(op[g]) : owner[c] = g
    BY <1>1 DEF RefInv, LockInv, Locks
  <2> QED
    BY <2>1 DEF Cases, Chans, ChanOf
<1> QED
  BY <1>1, <1>2, AttemptRef

(* It goes on with the result that its waker has given it.                 *)
LEMMA WakeSpent ==
  ASSUME TypeOK, CallInv, WakeInv, NEW g \in G, pc[g] \in {"woken", "relock"},
         UNCHANGED wake, param' = [param EXCEPT ![g] = None]
  PROVE  Wakeups(g)' = {} /\ \A k \in G \ {g} : Wakeups(k)' = Wakeups(k)
<1>1. \A h \in G : \A n \in DOMAIN wake[h] : wake[h][n].sg.g # g
  BY DEF WakeInv
<1>2. \A h \in G : \A w \in ToSet(wake[h]) : w.sg.g # g
  BY <1>1 DEF ToSet
<1>3. param'[g] = None /\ \A k \in G \ {g} : param'[k] = param[k]
  BY DEF TypeOK
<1> QED
  BY <1>2, <1>3 DEF Wakeups

LEMMA FinishRef ==
  ASSUME RefInv, NEW g \in G, pc[g] \in {"woken", "relock"},
         pc' = [pc EXCEPT ![g] = "done"], Done(g, Outcome(param[g])),
         param' = [param EXCEPT ![g] = None], UNCHANGED <<op, toLock, wake, elem>>,
         \A c \in C : SameRing(ch'[c], ch[c]) /\ ch'[c].closed = ch[c].closed,
         \A k \in G \ {g} : \A c \in C : owner[c] = k => owner'[c] = k
  PROVE  Refines
<1> USE DEF RefInv, ChanInv, WaitInv
<1>1. ResultOf(g) = Outcome(param[g]) /\ param[g] \in Wakeup /\ param[g].sg.g = g
  BY WokenResult
<1>2. Outcome(param[g]) \in Results
  <2>1. elem[g] \in Value /\ Zero \in Value /\ param[g].sg.case \in Nat
    BY <1>1 DEF TypeOK, Value, Wakeup, Sudog
  <2> QED
    BY <1>1, <2>1 DEF Outcome, Result, Results
<1>3. pc'[g] = "done" /\ Settles(g) /\ \A k \in G \ {g} : pc'[k] = pc[k]
  BY <1>2 DEF TypeOK, Settles
<1>4. ResultInv'
  <2>1. Fits(g)'
    BY <1>3, IsResult DEF Fits, Tries, InClose
  <2>2. result' \in [G -> Results \cup {None}] /\ \A k \in G \ {g} : Stays(k)
    BY <1>3, IsResult DEF Stays
  <2> QED
    BY <2>1, <2>2, ResultKept
<1>5. LockInv'
  <2>1. Locks(g)'
    BY <1>3 DEF Locks
  <2> QED
    BY <1>3, <2>1, LocksKept
<1>6. RingInv' /\ Queued' = Queued /\ Closed' = Closed
  BY RingKept, QueuedKept DEF Closed
<1>7. Got' = Got
  <2>1. Wakeups(g)' = {} /\ \A k \in G \ {g} : Wakeups(k)' = Wakeups(k)
    BY WakeSpent
  <2>2. ResultOf(g)' = ResultOf(g)
    BY <1>1, <2>1 DEF ResultOf, Done, ResultInv
  <2>3. ASSUME NEW k \in G \ {g} PROVE ResultOf(k)' = ResultOf(k)
    BY <2>1, ResultSame DEF Done, ResultInv
  <2> QED
    BY <2>2, <2>3 DEF Got
<1> QED
  BY <1>4, <1>5, <1>6, <1>7 DEF Refines, Stutters

LEMMA WokenRef ==
  ASSUME RefInv, NEW g \in G, Woken(g)
  PROVE  Refines
  BY FinishRef DEF Woken, Goto, SameRing

LEMMA SelectFinishRef ==
  ASSUME RefInv, NEW g \in G, SelectFinish(g)
  PROVE  Refines
<1>1. /\ pc[g] = "relock" /\ pc' = [pc EXCEPT ![g] = "done"]
      /\ Done(g, Outcome(param[g])) /\ param' = [param EXCEPT ![g] = None]
      /\ owner' = [c \in C |-> IF owner[c] = g THEN None ELSE owner[c]]
      /\ UNCHANGED <<op, toLock, wake, elem>>
  BY DEF SelectFinish, Goto, SelUnlock
<1>2. \A c \in C : SameRing(ch'[c], ch[c]) /\ ch'[c].closed = ch[c].closed
  <2> TAKE c \in C
  <2>1. ch[c] \in Hchan(c)
    BY SMTT(30) DEF RefInv, ChanInv, TypeOK
  <2>2. PICK q, r : ch'[c] = [ch[c] EXCEPT !.recvq = q, !.sendq = r]
    BY DEF SelectFinish
  <2> QED
    BY <2>1, <2>2 DEF SameRing, Hchan
<1> QED
  BY <1>1, <1>2, FinishRef

(* The fast paths: on to another step, or settled without the lock.        *)
LEMMA TryOn ==
  ASSUME RefInv, NEW g \in G, pc[g] \in Tries, NEW to \in Tries \cup {"lock"},
         pc' = [pc EXCEPT ![g] = to], UNCHANGED <<others, result>>,
         to \in {"tryEmpty", "tryEmptyAgain"} => ~Sends(g, 1),
         to = "tryEmptyAgain" => ch[ChanOf(g, 1)].closed
  PROVE  Refines
<1> USE DEF RefInv, ChanInv, WaitInv
<1>1. UNCHANGED <<ch, owner, op, toLock, wake, param, elem, result>>
  BY DEF others
<1>2. pc'[g] = to /\ \A k \in G \ {g} : pc'[k] = pc[k]
  BY DEF TypeOK
<1>3. ResultInv'
  <2>1. Fits(g)'
    BY <1>1, <1>2 DEF ResultInv, Fits, Tries, InClose, Sends, ChanOf
  <2>2. \A k \in G \ {g} : Stays(k)
    BY <1>1, <1>2 DEF Stays
  <2> QED
    BY <1>1, <2>1, <2>2, ResultKept DEF ResultInv
<1>4. LockInv'
  <2>1. Locks(g)'
    BY <1>2 DEF Locks, Tries
  <2> QED
    BY <1>1, <1>2, <2>1, LocksKept
<1>5. RingInv' /\ Queued' = Queued /\ Closed' = Closed
  BY <1>1 DEF RingInv, Queued, Contents, Closed
<1>6. Got' = Got
  BY <1>1, GotKept
<1> QED
  BY <1>1, <1>3, <1>4, <1>5, <1>6 DEF Refines, Stutters

LEMMA TrySettled ==
  ASSUME RefInv, NEW g \in G, pc[g] \in Tries, pc' = [pc EXCEPT ![g] = "done"],
         UNCHANGED others, NEW r \in Results, Done(g, r)
  PROVE  /\ ResultInv' /\ RingInv' /\ LockInv'
         /\ Queued' = Queued /\ Closed' = Closed /\ op' = op
         /\ Got' = [Got EXCEPT ![g] = r] /\ Got[g] = None
         /\ op[g] \in Ops /\ op[g].kind = "chan" /\ ~op[g].block
<1> USE DEF RefInv, ChanInv, WaitInv
<1>1. UNCHANGED <<ch, owner, op, toLock, wake, param, elem>>
  BY DEF others
<1>2. pc'[g] = "done" /\ Settles(g) /\ \A k \in G \ {g} : pc'[k] = pc[k]
  BY DEF TypeOK, Settles
<1>3. ResultInv'
  <2>1. Fits(g)'
    BY <1>2, IsResult DEF Fits, Tries, InClose
  <2>2. result' \in [G -> Results \cup {None}] /\ \A k \in G \ {g} : Stays(k)
    BY <1>1, <1>2, IsResult DEF Stays
  <2> QED
    BY <1>1, <2>1, <2>2, ResultKept
<1>4. LockInv'
  <2>1. Locks(g)'
    BY <1>2 DEF Locks
  <2> QED
    BY <1>1, <1>2, <2>1, LocksKept
<1>5. RingInv' /\ Queued' = Queued /\ Closed' = Closed
  BY <1>1 DEF RingInv, Queued, Contents, Closed
<1>6. pc[g] \notin {"parked", "woken", "relock"}
  BY DEF Tries
<1>7. Got' = [Got EXCEPT ![g] = r]
  BY <1>1, <1>6, OwnResult
<1>8. result[g] = None /\ op[g] \in Ops /\ op[g].kind = "chan" /\ ~op[g].block
  BY DEF ResultInv, Fits, Tries, InClose, CallInv, Stands, TypeOK
<1>9. Got[g] = None
  BY <1>6, <1>8, Unwoken DEF Got
<1> QED
  BY <1>1, <1>3, <1>4, <1>5, <1>7, <1>8, <1>9

LEMMA TryDefault ==
  ASSUME RefInv, NEW g \in G, pc[g] \in Tries, pc' = [pc EXCEPT ![g] = "done"],
         UNCHANGED others, Done(g, Result("default", 0, Zero))
  PROVE  Refines
<1>1. Result("default", 0, Zero) \in Results
  BY DEF Result, Results, Value
<1>2. /\ ResultInv' /\ RingInv' /\ LockInv'
      /\ Queued' = Queued /\ Closed' = Closed /\ op' = op
      /\ Got' = [Got EXCEPT ![g] = Result("default", 0, Zero)] /\ Got[g] = None
      /\ op[g] # None /\ ~op[g].block
  BY <1>1, TrySettled, ChanAssumption
<1>3. Abstract!Default(g)
  BY <1>2 DEF Abstract!Default, Abstract!channels, Abstract!Result, Result, Queued, Closed, Got
<1> QED
  BY <1>2, <1>3 DEF Refines, Abstract!Next

LEMMA FastNothing ==
  ASSUME ResultInv, NEW g \in G, pc[g] \in Tries, NEW r,
         result' = [result EXCEPT ![g] = None]
  PROVE  result' = result
<1>1. result[g] = None
  BY DEF ResultInv, Fits, Tries, InClose
<1> QED
  BY <1>1 DEF ResultInv

LEMMA SendTryClosedRef ==
  ASSUME RefInv, NEW g \in G, SendTryClosed(g)
  PROVE  Refines
  BY TryOn DEF SendTryClosed, Goto, Tries

LEMMA RecvTryEmptyRef ==
  ASSUME RefInv, NEW g \in G, RecvTryEmpty(g)
  PROVE  Refines
<1>1. PICK to \in {"tryClosed", "lock"} :
        pc[g] = "tryEmpty" /\ pc' = [pc EXCEPT ![g] = to] /\ UNCHANGED <<others, result>>
  BY DEF RecvTryEmpty, Goto
<1>2. pc[g] \in Tries /\ to \in Tries \cup {"lock"}
  BY <1>1 DEF Tries
<1> QED
  BY <1>1, <1>2, TryOn

LEMMA SendTryFullRef ==
  ASSUME RefInv, NEW g \in G, SendTryFull(g)
  PROVE  Refines
<1>1. CASE Full(ChanOf(g, 1))
  BY <1>1, TryDefault DEF SendTryFull, Fast, Goto, Done, Tries
<1>2. CASE ~Full(ChanOf(g, 1))
  <2>1. /\ pc[g] \in Tries /\ pc' = [pc EXCEPT ![g] = "lock"] /\ UNCHANGED others
        /\ result' = [result EXCEPT ![g] = None]
    BY <1>2 DEF SendTryFull, Fast, Goto, Tries
  <2>2. result' = result
    BY <2>1, FastNothing DEF RefInv
  <2> QED
    BY <2>1, <2>2, TryOn
<1> QED
  BY <1>1, <1>2

LEMMA RecvTryClosedRef ==
  ASSUME RefInv, NEW g \in G, RecvTryClosed(g)
  PROVE  Refines
<1>1. CASE ~ch[ChanOf(g, 1)].closed
  BY <1>1, TryDefault DEF RecvTryClosed, Fast, Goto, Done, Tries
<1>2. CASE ch[ChanOf(g, 1)].closed
  <2>1. /\ pc[g] \in Tries /\ pc' = [pc EXCEPT ![g] = "tryEmptyAgain"] /\ UNCHANGED others
        /\ result' = [result EXCEPT ![g] = None] /\ ~Sends(g, 1)
    BY <1>2 DEF RecvTryClosed, Fast, Goto, Tries
  <2>2. result' = result
    BY <2>1, FastNothing DEF RefInv
  <2>3. "tryEmptyAgain" \in Tries
    BY DEF Tries
  <2> QED
    BY <1>2, <2>1, <2>2, <2>3, TryOn
<1> QED
  BY <1>1, <1>2

(* Closed at the one read, empty at the next: it has stayed closed.        *)
LEMMA RecvTryEmptyAgainRef ==
  ASSUME RefInv, NEW g \in G, RecvTryEmptyAgain(g)
  PROVE  Refines
<1> DEFINE c == ChanOf(g, 1)
           r == Result("closed", 1, Zero)
<1>1. CASE Empty(c)
  <2>1. /\ pc[g] = "tryEmptyAgain" /\ pc[g] \in Tries
        /\ pc' = [pc EXCEPT ![g] = "done"] /\ UNCHANGED others /\ Done(g, r)
    BY <1>1 DEF RecvTryEmptyAgain, Fast, Goto, Done, Tries
  <2>2. r \in Results
    BY DEF Result, Results, Value
  <2>3. /\ ResultInv' /\ RingInv' /\ LockInv'
        /\ Queued' = Queued /\ Closed' = Closed /\ op' = op
        /\ Got' = [Got EXCEPT ![g] = r] /\ Got[g] = None
        /\ op[g] \in Ops /\ op[g].kind = "chan"
    BY <2>1, <2>2, TrySettled
  <2>4. 1 \in Cases(g) /\ c \in C
    BY <2>3, OpsAssumption, ChanAssumption DEF Cases, ChanOf
  <2>5. ch[c].closed /\ ~Sends(g, 1)
    BY <2>1 DEF RefInv, ResultInv, Fits
  <2>6. Queued[c] = <<>>
    <3>1. ch[c] \in Hchan(c) /\ Cap[c] \in Nat
      BY <2>4, ChanAssumption DEF RefInv, ChanInv, TypeOK
    <3>2. ch[c].qcount = 0
      BY <1>1, <3>1 DEF Empty, Hchan
    <3> QED
      BY <2>4, <3>2, QueuedNone
  <2>7. Abstract!Offers(g, 1, c, FALSE)
    <3>1. ResultOf(g) = None /\ op[g].kind # "close"
      BY <2>3 DEF Got
    <3>2. Sends(g, 1) \in BOOLEAN
      BY <2>4, CallFacts DEF RefInv, ChanInv
    <3> QED
      BY <2>4, <2>5, <3>1, <3>2, Offering
  <2>8. Abstract!ReceiveClosed(g, 1, c)
    BY <2>3, <2>4, <2>5, <2>6, <2>7
    DEF Abstract!ReceiveClosed, Abstract!channels, Abstract!Result, Result, Queued, Closed,
        Got
  <2>9. Abstract!Communicate(g, 1, c)
    BY <2>8 DEF Abstract!Communicate
  <2> QED
    BY <2>3, <2>4, <2>9, IsCommunication DEF Refines
<1>2. CASE ~Empty(c)
  <2>1. /\ pc[g] \in Tries /\ pc' = [pc EXCEPT ![g] = "lock"] /\ UNCHANGED others
        /\ result' = [result EXCEPT ![g] = None]
    BY <1>2 DEF RecvTryEmptyAgain, Fast, Goto, Tries
  <2>2. result' = result
    BY <2>1, FastNothing DEF RefInv
  <2> QED
    BY <2>1, <2>2, TryOn
<1> QED
  BY <1>1, <1>2

LEMMA SelLockRef ==
  ASSUME RefInv, NEW g \in G, SelLock(g)
  PROVE  Refines
<1> USE DEF RefInv, ChanInv, WaitInv
<1>1. PICK c \in C :
        /\ owner[c] = None /\ owner' = [owner EXCEPT ![c] = g]
        /\ toLock' = [toLock EXCEPT ![g] = @ \ {c}]
        /\ UNCHANGED <<ch, pc, op, wake, param, elem, result>>
  BY DEF SelLock
<1>2. ResultInv'
  <2>1. \A k \in G : Stays(k)
    BY <1>1 DEF Stays
  <2> QED
    BY <1>1, <2>1, ResultKept DEF ResultInv
<1>3. LockInv'
  <2>1. Locks(g)'
    BY <1>1 DEF LockInv, Locks, TypeOK, Chans
  <2>2. ASSUME NEW k \in G \ {g}
        PROVE  /\ pc'[k] = pc[k] /\ op'[k] = op[k] /\ toLock'[k] = toLock[k]
               /\ \A d \in C : owner[d] = k => owner'[d] = k
    BY <1>1, ChanAssumption DEF TypeOK
  <2> QED
    BY <2>1, <2>2, LocksKept
<1>4. RingInv' /\ Queued' = Queued /\ Closed' = Closed
  BY <1>1 DEF RingInv, Queued, Contents, Closed
<1>5. Got' = Got
  BY <1>1, GotKept
<1> QED
  BY <1>1, <1>2, <1>3, <1>4, <1>5 DEF Refines, Stutters

LEMMA CloseMarkRef ==
  ASSUME RefInv, NEW g \in G, CloseMark(g)
  PROVE  Refines
<1> USE DEF RefInv, ChanInv, WaitInv
<1>1. PICK i : i = 1
  OBVIOUS
<1> DEFINE c == ChanOf(g, i)
<1>2. PICK r : r = Result(IF ch[c].closed THEN "panic" ELSE "ok", i, Zero)
  OBVIOUS
<1>3. /\ pc[g] = "close" /\ owner[c] = None
      /\ pc' = [pc EXCEPT ![g] = IF ch[c].closed THEN "done" ELSE "closeRecv"]
      /\ ch' = [ch EXCEPT ![c].closed = TRUE]
      /\ owner' = [owner EXCEPT ![c] = IF ch[c].closed THEN None ELSE g]
      /\ Done(g, r) /\ UNCHANGED <<op, toLock, wake, param, elem>>
  BY <1>1, <1>2 DEF CloseMark, Goto
<1>4. op[g] \in Ops /\ op[g].kind = "close"
  BY <1>3 DEF CallInv, Stands, TypeOK
<1>5. c \in C /\ i \in Cases(g)
  BY <1>1, <1>4, OpsAssumption, ChanAssumption DEF Cases, ChanOf
<1>6. r \in Results
  BY <1>1, <1>2 DEF Result, Results, Value
<1>7. ch'[c] = [ch[c] EXCEPT !.closed = TRUE] /\ \A d \in C \ {c} : ch'[d] = ch[d]
  BY <1>3, <1>5 DEF TypeOK
<1>8. (\A d \in C : SameRing(ch'[d], ch[d])) /\ ch'[c].closed
  <2>1. ch[c] \in Hchan(c)
    BY <1>5 DEF TypeOK
  <2> QED
    BY <1>7, <2>1 DEF SameRing, Hchan
<1>9. RingInv' /\ Queued' = Queued
  BY <1>8, RingKept, QueuedKept
<1>10. Closed' = [Closed EXCEPT ![c] = TRUE]
  <2>1. ch'[c].closed = TRUE
    BY <1>5, <1>7 DEF TypeOK, Hchan
  <2> QED
    BY <1>5, <1>7, <2>1 DEF Closed
<1>11. /\ pc'[g] \in {"done", "closeRecv"} /\ Settles(g)
       /\ \A k \in G \ {g} : pc'[k] = pc[k]
  BY <1>3, <1>6 DEF TypeOK, Settles
<1>12. ResultInv'
  <2>1. Fits(g)'
    BY <1>11, IsResult DEF Fits, Tries, InClose
  <2>2. result' \in [G -> Results \cup {None}] /\ \A k \in G \ {g} : Stays(k)
    BY <1>3, <1>11, IsResult DEF Stays
  <2>3. \A d \in C : ch[d].closed => ch'[d].closed
    BY <1>7, <1>8
  <2> QED
    BY <2>1, <2>2, <2>3, ResultKept
<1>13. LockInv'
  <2>1. Locks(g)'
    BY <1>11 DEF Locks
  <2>2. \A k \in G \ {g} : \A d \in C : owner[d] = k => owner'[d] = k
    BY <1>3, ChanAssumption DEF TypeOK
  <2> QED
    BY <1>3, <1>11, <2>1, <2>2, LocksKept
<1>14. Got' = [Got EXCEPT ![g] = r]
  BY <1>3, OwnResult
<1>15. Got[g] = None
  <2>1. result[g] = None
    BY <1>3 DEF ResultInv, Fits, InClose
  <2> QED
    BY <1>3, <2>1, Unwoken DEF Got
<1>16. Abstract!Close(g, c)
  <2>1. op[g] # None /\ op[g].cases[i].chan = c /\ Closed[c] = ch[c].closed
    BY <1>4, <1>5, <1>1, ChanAssumption DEF ChanOf, Closed
  <2> QED
    BY <1>1, <1>2, <1>3, <1>4, <1>9, <1>10, <1>14, <1>15, <2>1
    DEF Abstract!Close, Abstract!Result, Result, Queued, Closed, Got
<1>17. Abstract!Next
  BY <1>5, <1>16, IsClose
<1> QED
  BY <1>9, <1>12, <1>13, <1>17 DEF Refines

(* A close settles the calls of all that wait, one after the other.        *)
LEMMA ReleaseRef ==
  ASSUME RefInv, NEW g \in G, pc[g] \in InClose, NEW s \in BOOLEAN, Collects(g, s),
         Waiting(QueueOf(ch, ChanOf(g, 1), s)),
         UNCHANGED <<op, param, result>>, Queued' = Queued, Closed' = Closed
  PROVE  Abstract!Next
<1> USE DEF RefInv, ChanInv, WaitInv
<1> DEFINE c == ChanOf(g, 1)
           q == QueueOf(ch, c, s)
<1>1. PICK x, w, r : x = q[Dequeued(q)] /\ w = [sg |-> x, success |-> FALSE] /\ r = result[g]
  OBVIOUS
<1>2. c \in C /\ ch[c].closed /\ pc[g] \notin {"parked", "woken", "relock"}
  BY CloserFacts DEF InClose
<1>3. /\ Waiting(q) /\ Win(x.g) /\ elem' = [elem EXCEPT ![x.g] = Zero]
      /\ wake' = [wake EXCEPT ![g] = <<w>> \o @]
  BY <1>1 DEF Collects, Release
<1>4. /\ q # <<>> /\ x \in Sudog /\ x.g \in G \ {g} /\ op[x.g] \in Ops /\ Sleeps(x.g)
      /\ x.case \in Cases(x.g) /\ ChanOf(x.g, x.case) = c /\ Sends(x.g, x.case) = s
      /\ Abstract!Offers(x.g, x.case, c, s)
  BY <1>1, <1>2, <1>3, FirstWaiting
<1>5. w \in Wakeup /\ w.sg = x /\ w.sg.g = x.g
  BY <1>1, <1>4 DEF Wakeup
<1>6. Pushes(g, w) /\ Done(g, r) /\ \A k \in G \ {x.g} : elem'[k] = elem[k]
  BY <1>1, <1>3 DEF Pushes, Done, TypeOK, ResultInv
<1> HIDE DEF c, q
<1>7. /\ Wakeups(x.g)' = {w}
      /\ Got' = [Got EXCEPT ![g] = r, ![x.g] = ResultOf(x.g)']
  BY <1>2, <1>4, <1>5, <1>6, OthersResult
<1>8. Got[g] = r
  BY <1>1, <1>2, Unwoken DEF Got
<1>9. Got' = [Got EXCEPT ![x.g] = Outcome(w)']
  <2>1. ResultOf(x.g)' = Outcome(w)'
    BY <1>7 DEF ResultOf
  <2>2. Got = [Got EXCEPT ![g] = r]
    BY <1>8 DEF Got
  <2> QED
    BY <1>7, <2>1, <2>2
<1>10. Closed[c]
  BY <1>2 DEF Closed
<1>11. CASE s = FALSE
  <2>1. Outcome(w)' = Result("closed", x.case, Zero)
    <3>1. elem'[x.g] = Zero /\ op' = op
      BY <1>3, <1>4 DEF TypeOK
    <3> QED
      BY <1>1, <1>4, <1>11, <3>1 DEF Outcome, Sends
  <2>2. Queued[c] = <<>>
    <3>1. ch[c].qcount = 0
      BY <1>2, <1>4, <1>11 DEF ExclusiveInv, QueueOf, TypeOK, Hchan, q
    <3> QED
      BY <1>2, <3>1, QueuedNone
  <2>3. Abstract!ReceiveClosed(x.g, x.case, c)
    BY <1>2, <1>4, <1>9, <1>10, <1>11, <2>1, <2>2
    DEF Abstract!ReceiveClosed, Abstract!channels, Abstract!Result, Result, Queued, Closed,
        Got
  <2>4. Abstract!Communicate(x.g, x.case, c)
    BY <2>3 DEF Abstract!Communicate
  <2> QED
    BY <1>4, <2>4, IsCommunication
<1>12. CASE s = TRUE
  <2>1. Outcome(w)' = Result("panic", x.case, Zero)
    BY <1>1, <1>4, <1>12 DEF Outcome, Sends
  <2>2. Abstract!SendClosed(x.g, x.case, c)
    BY <1>2, <1>4, <1>9, <1>10, <1>12, <2>1
    DEF Abstract!SendClosed, Abstract!channels, Abstract!Result, Result, Queued, Closed,
        Got
  <2>3. Abstract!Communicate(x.g, x.case, c)
    BY <2>2 DEF Abstract!Communicate
  <2> QED
    BY <1>4, <2>3, IsCommunication
<1> QED
  BY <1>11, <1>12

LEMMA CollectRef ==
  ASSUME RefInv, NEW g \in G, pc[g] \in InClose, NEW s \in BOOLEAN, Collects(g, s),
         UNCHANGED <<op, toLock, param, result>>,
         \A d \in C : SameRing(ch'[d], ch[d]),
         pc'[g] \in {"ready", "done"} \cup InClose, \A k \in G \ {g} : pc'[k] = pc[k],
         \A k \in G \ {g} : \A d \in C : owner[d] = k => owner'[d] = k
  PROVE  Refines
<1> USE DEF RefInv, ChanInv, WaitInv
<1>1. RingInv' /\ Queued' = Queued
  BY RingKept, QueuedKept
<1>2. \A d \in C : ch'[d].closed = ch[d].closed
  BY DEF Collects
<1>3. Closed' = Closed
  BY <1>2 DEF Closed
<1>4. ResultInv'
  <2>1. Fits(g)'
    BY DEF ResultInv, Fits, Tries, InClose
  <2>2. \A k \in G \ {g} : Stays(k)
    BY DEF Stays
  <2> QED
    BY <1>2, <2>1, <2>2, ResultKept DEF ResultInv
<1>5. LockInv'
  <2>1. Locks(g)'
    BY DEF Locks, InClose
  <2> QED
    BY <2>1, LocksKept
<1>6. CASE Waiting(QueueOf(ch, ChanOf(g, 1), s))
  BY <1>1, <1>3, <1>4, <1>5, <1>6, ReleaseRef DEF Refines
<1>7. CASE ~Waiting(QueueOf(ch, ChanOf(g, 1), s))
  <2>1. UNCHANGED <<wake, elem>>
    BY <1>7 DEF Collects, Nobody
  <2>2. Got' = Got
    BY <2>1, GotKept
  <2> QED
    BY <1>1, <1>3, <1>4, <1>5, <2>2 DEF Refines, Stutters
<1> QED
  BY <1>6, <1>7

(* What closechan takes out of a queue leaves the rest as it was.          *)
LEMMA OneQueue ==
  ASSUME TypeOK, NEW c \in C, NEW q \in Seq(Sudog),
         \/ ch' = [ch EXCEPT ![c].recvq = q]
         \/ ch' = [ch EXCEPT ![c].sendq = q]
  PROVE  /\ DOMAIN ch' = C /\ \A d \in C : SameRing(ch'[d], ch[d])
         /\ \A d \in C \ {c} : ch'[d] = ch[d]
         /\ ch'[c] \in Hchan(c)
         /\ ch'[c].qcount = ch[c].qcount /\ ch'[c].closed = ch[c].closed
<1>1. DOMAIN ch' = C /\ ch[c] \in Hchan(c) /\ \A d \in C \ {c} : ch'[d] = ch[d]
  BY DEF TypeOK
<1>2. ch'[c] = [ch[c] EXCEPT !.recvq = q] \/ ch'[c] = [ch[c] EXCEPT !.sendq = q]
  BY DEF TypeOK
<1>3. /\ SameRing(ch'[c], ch[c]) /\ ch'[c] \in Hchan(c)
      /\ ch'[c].qcount = ch[c].qcount /\ ch'[c].closed = ch[c].closed
  BY <1>1, <1>2 DEF Hchan, SameRing
<1> QED
  BY <1>1, <1>3 DEF SameRing

LEMMA CloseRecvRef ==
  ASSUME RefInv, NEW g \in G, CloseRecv(g)
  PROVE  Refines
<1> USE DEF RefInv, ChanInv, WaitInv
<1> DEFINE c == ChanOf(g, 1)
<1>1. PICK q : q = QueueOf(ch, c, FALSE)
  OBVIOUS
<1>2. /\ pc[g] = "closeRecv" /\ UNCHANGED <<owner, op, toLock, param, result>>
      /\ ch' = [ch EXCEPT ![c].recvq = AfterDequeue(q)]
      /\ IF Waiting(q)
         THEN Release(g, q[Dequeued(q)]) /\ UNCHANGED pc
         ELSE pc' = [pc EXCEPT ![g] = "closeSend"] /\ Nobody
  BY <1>1 DEF CloseRecv, Goto, QueueOf, Nobody
<1>3. c \in C /\ pc[g] \in InClose
  BY <1>2, CloserFacts DEF InClose
<1>4. AfterDequeue(q) \in Seq(Sudog)
  BY <1>1, <1>3, Queue, AfterDequeueType
<1>5. /\ DOMAIN ch' = C /\ \A d \in C : SameRing(ch'[d], ch[d])
      /\ \A d \in C \ {c} : ch'[d] = ch[d]
      /\ ch'[c] \in Hchan(c)
      /\ ch'[c].qcount = ch[c].qcount /\ ch'[c].closed = ch[c].closed
  BY <1>2, <1>3, <1>4, OneQueue
<1>6. ch'[c].recvq = AfterDequeue(q) /\ ch'[c].sendq = ch[c].sendq
  BY <1>2, <1>3 DEF TypeOK, Hchan
<1>7. Collects(g, FALSE)
  BY <1>1, <1>2, <1>5, <1>6 DEF Collects, QueueOf
<1>8. pc'[g] \in InClose /\ \A k \in G \ {g} : pc'[k] = pc[k]
  BY <1>2 DEF TypeOK, InClose
<1> QED
  BY <1>2, <1>3, <1>5, <1>7, <1>8, CollectRef

LEMMA CloseSendRef ==
  ASSUME RefInv, NEW g \in G, CloseSend(g)
  PROVE  Refines
<1> USE DEF RefInv, ChanInv, WaitInv
<1> DEFINE c == ChanOf(g, 1)
<1>1. PICK q : q = QueueOf(ch, c, TRUE)
  OBVIOUS
<1>2. /\ pc[g] = "closeSend" /\ UNCHANGED <<op, toLock, param, result>>
      /\ ch' = [ch EXCEPT ![c].sendq = AfterDequeue(q)]
      /\ IF Waiting(q)
         THEN Release(g, q[Dequeued(q)]) /\ UNCHANGED <<pc, owner>>
         ELSE /\ pc' = [pc EXCEPT ![g] = IF wake[g] = <<>> THEN "done" ELSE "ready"]
              /\ owner' = [owner EXCEPT ![c] = None]
              /\ Nobody
  BY <1>1 DEF CloseSend, Goto, QueueOf, Nobody
<1>3. c \in C /\ pc[g] \in InClose /\ owner[c] = g
  BY <1>2, CloserFacts DEF InClose
<1>4. AfterDequeue(q) \in Seq(Sudog)
  BY <1>1, <1>3, Queue, AfterDequeueType
<1>5. /\ DOMAIN ch' = C /\ \A d \in C : SameRing(ch'[d], ch[d])
      /\ \A d \in C \ {c} : ch'[d] = ch[d]
      /\ ch'[c] \in Hchan(c)
      /\ ch'[c].qcount = ch[c].qcount /\ ch'[c].closed = ch[c].closed
  BY <1>2, <1>3, <1>4, OneQueue
<1>6. ch'[c].sendq = AfterDequeue(q) /\ ch'[c].recvq = ch[c].recvq
  BY <1>2, <1>3 DEF TypeOK, Hchan
<1>7. Collects(g, TRUE)
  BY <1>1, <1>2, <1>5, <1>6 DEF Collects, QueueOf
<1>8. /\ pc'[g] \in {"ready", "done"} \cup InClose /\ \A k \in G \ {g} : pc'[k] = pc[k]
      /\ \A k \in G \ {g} : \A d \in C : owner[d] = k => owner'[d] = k
  BY <1>2, <1>3 DEF TypeOK, InClose
<1> QED
  BY <1>2, <1>3, <1>5, <1>7, <1>8, CollectRef

(* goready: the wakeup goes from the waker to the woken.                   *)
LEMMA ReadyWakeups ==
  ASSUME TypeOK, WakeInv, CallInv, NEW g \in G, NEW w \in Wakeup, NEW r \in G, w.sg.g = r,
         wake[g] # <<>>, Head(wake[g]) = w, wake' = [wake EXCEPT ![g] = Tail(@)],
         param[r] = None, param' = [param EXCEPT ![r] = w], NEW k \in G
  PROVE  Wakeups(k)' = Wakeups(k)
<1> DEFINE All == UNION {ToSet(wake[h]) : h \in G}
           Rest == UNION {ToSet(wake'[h]) : h \in G}
<1>1. wake[g] \in Seq(Wakeup) /\ w # None
  BY ChanAssumption DEF TypeOK
<1>2. ToSet(wake[g]) = ToSet(Tail(wake[g])) \cup {w}
  <2> DEFINE s == wake[g]
             t == Tail(s)
  <2>1. /\ DOMAIN s = 1 .. Len(s) /\ Len(s) \in Nat \ {0} /\ s[1] = w
        /\ DOMAIN t = 1 .. Len(s) - 1 /\ \A n \in DOMAIN t : t[n] = s[n + 1]
    BY <1>1
  <2> HIDE DEF s, t
  <2>2. ASSUME NEW y \in ToSet(s) PROVE y \in ToSet(t) \cup {w}
    <3>1. PICK n \in DOMAIN s : y = s[n]
      BY <2>2 DEF ToSet
    <3>2. CASE n = 1
      BY <2>1, <3>1, <3>2
    <3>3. CASE n # 1
      <4>1. n - 1 \in DOMAIN t /\ t[n - 1] = s[n]
        BY <2>1, <3>3
      <4> QED
        BY <3>1, <4>1 DEF ToSet
    <3> QED
      BY <3>2, <3>3
  <2>3. ASSUME NEW y \in ToSet(t) \cup {w} PROVE y \in ToSet(s)
    <3>1. CASE y = w
      <4>1. 1 \in DOMAIN s
        BY <2>1
      <4> QED
        BY <2>1, <3>1, <4>1 DEF ToSet
    <3>2. CASE y \in ToSet(t)
      <4>1. PICK n \in DOMAIN t : y = t[n]
        BY <3>2 DEF ToSet
      <4>2. n + 1 \in DOMAIN s
        BY <2>1
      <4> QED
        BY <2>1, <4>1, <4>2 DEF ToSet
    <3> QED
      BY <2>3, <3>1, <3>2
  <2> QED
    BY <2>2, <2>3 DEF s, t
<1>3. wake'[g] = Tail(wake[g]) /\ \A h \in G \ {g} : wake'[h] = wake[h]
  BY DEF TypeOK
<1>4. All = Rest \cup {w}
  BY <1>2, <1>3
<1>5. Wakeups(k) = {y \in All \cup {param[k]} : y # None /\ y.sg.g = k}
  BY DEF Wakeups
<1>6. Wakeups(k)' = {y \in Rest \cup {param'[k]} : y # None /\ y.sg.g = k}
  BY DEF Wakeups
<1> HIDE DEF All, Rest
<1>7. param'[r] = w /\ (k # r => param'[k] = param[k])
  BY DEF TypeOK
<1>8. CASE k = r
  BY <1>4, <1>5, <1>6, <1>7, <1>8
<1>9. CASE k # r
  BY <1>4, <1>5, <1>6, <1>7, <1>9
<1> QED
  BY <1>8, <1>9

LEMMA ReadyRef ==
  ASSUME RefInv, NEW g \in G, Ready(g)
  PROVE  Refines
<1> USE DEF RefInv, ChanInv, WaitInv
<1>1. PICK w \in Wakeup :
        /\ w.sg.g \in G /\ w.sg.g # g /\ pc[w.sg.g] = "parked" /\ pc[g] = "ready"
        /\ wake[g] # <<>> /\ 1 \in DOMAIN wake[g] /\ wake[g][1] = w
        /\ wake' = [wake EXCEPT ![g] = Tail(@)]
        /\ param' = [param EXCEPT ![w.sg.g] = w]
        /\ pc' = [pc EXCEPT ![w.sg.g] = IF Selects(w.sg.g) THEN "relock" ELSE "woken",
                            ![g] = IF Len(wake[g]) = 1 THEN "done" ELSE "ready"]
        /\ toLock' = [toLock EXCEPT ![w.sg.g] =
             IF Selects(w.sg.g) THEN Chans(op[w.sg.g]) ELSE {}]
        /\ UNCHANGED <<ch, owner, op, selectDone, elem, result>>
  BY ReadyFacts
<1>2. PICK r \in G : r = w.sg.g
  BY <1>1
<1>3. /\ r # g /\ pc[r] = "parked" /\ pc[g] = "ready" /\ param[r] = None
      /\ pc'[r] = (IF Selects(r) THEN "relock" ELSE "woken")
      /\ pc'[g] \in {"done", "ready"}
      /\ \A k \in G \ {g, r} : pc'[k] = pc[k]
      /\ toLock'[r] = (IF Selects(r) THEN Chans(op[r]) ELSE {})
      /\ \A k \in G \ {r} : toLock'[k] = toLock[k]
  BY <1>1, <1>2 DEF TypeOK, CallInv, Stands
<1>4. UNCHANGED <<ch, owner, op, elem, result>>
  BY <1>1
<1>5. ResultInv'
  <2>1. Fits(g)' /\ Fits(r)'
    BY <1>3, <1>4 DEF ResultInv, Fits, Tries, InClose
  <2>2. \A k \in G \ {g, r} : Stays(k)
    BY <1>3, <1>4 DEF Stays
  <2> QED
    BY <1>4, <2>1, <2>2, ResultKept DEF ResultInv
<1>6. LockInv'
  <2>1. Locks(g)' /\ Locks(r)'
    BY <1>3, <1>4 DEF Locks, Chans
  <2> QED
    BY <1>3, <1>4, <2>1, LocksKept
<1>7. RingInv' /\ Queued' = Queued /\ Closed' = Closed
  BY <1>4 DEF RingInv, Queued, Contents, Closed
<1>8. Head(wake[g]) = w
  <2>1. wake[g] \in Seq(Wakeup)
    BY DEF TypeOK
  <2> QED
    BY <1>1, <2>1
<1>9. \A k \in G : Wakeups(k)' = Wakeups(k)
  BY <1>1, <1>2, <1>3, <1>8, ReadyWakeups
<1>10. Got' = Got
  <2>1. \A k \in G : ResultOf(k)' = ResultOf(k)
    BY <1>4, <1>9, ResultSame
  <2> QED
    BY <2>1 DEF Got
<1> QED
  BY <1>4, <1>5, <1>6, <1>7, <1>10 DEF Refines, Stutters

(* Begin and return.                                                       *)
LEMMA CallRef ==
  ASSUME RefInv, NEW g \in G, NEW o \in Ops, Call(g, o)
  PROVE  Refines
<1> USE DEF RefInv, ChanInv, WaitInv
<1>1. /\ pc[g] = "out" /\ pc' = [pc EXCEPT ![g] = Start(o)]
      /\ op' = [op EXCEPT ![g] = o]
      /\ toLock' = [toLock EXCEPT ![g] = IF o.kind = "select" THEN Chans(o) ELSE {}]
      /\ UNCHANGED <<ch, owner, wake, param, elem, result>>
  BY DEF Call, Goto
<1>2. /\ pc'[g] = Start(o) /\ op'[g] = o /\ op[g] = None
      /\ toLock'[g] = IF o.kind = "select" THEN Chans(o) ELSE {}
      /\ \A k \in G \ {g} : pc'[k] = pc[k] /\ op'[k] = op[k] /\ toLock'[k] = toLock[k]
  BY <1>1 DEF TypeOK, CallInv, Stands
<1>3. /\ Start(o) \in {"close", "sellock", "lock", "tryClosed", "tryEmpty"}
      /\ Start(o) \in {"tryClosed", "tryEmpty"} => ~o.block
      /\ Start(o) = "tryEmpty" => ~o.cases[1].send
      /\ Start(o) = "sellock" => o.kind = "select"
  BY OpsAssumption DEF Start
<1>4. ResultInv'
  <2>1. Fits(g)'
    BY <1>1, <1>2, <1>3 DEF ResultInv, Fits, Tries, InClose, Sends
  <2>2. \A k \in G \ {g} : Stays(k)
    BY <1>1, <1>2 DEF Stays
  <2> QED
    BY <1>1, <2>1, <2>2, ResultKept DEF ResultInv
<1>5. LockInv'
  <2>1. Locks(g)'
    BY <1>2, <1>3 DEF Locks, Chans
  <2> QED
    BY <1>1, <1>2, <2>1, LocksKept
<1>6. RingInv' /\ Queued' = Queued /\ Closed' = Closed
  BY <1>1 DEF RingInv, Queued, Contents, Closed
<1>7. Got' = Got
  <2>1. \A k \in G : Wakeups(k)' = Wakeups(k)
    BY <1>1 DEF Wakeups
  <2>2. Wakeups(g) = {}
    BY <1>1, Unwoken
  <2>3. \A k \in G : ResultOf(k)' = ResultOf(k)
    BY <1>1, <1>2, <2>1, <2>2, ResultSame
  <2> QED
    BY <2>3 DEF Got
<1>8. Abstract!Begin(g, o)
  BY <1>1, <1>2, <1>6, <1>7 DEF Abstract!Begin, Abstract!channels, Queued, Closed, Got
<1> QED
  BY <1>4, <1>5, <1>6, <1>8 DEF Refines, Abstract!Next

LEMMA ReturnRef ==
  ASSUME RefInv, NEW g \in G, Return(g)
  PROVE  Refines
<1> USE DEF RefInv, ChanInv, WaitInv
<1>1. /\ pc[g] = "done" /\ pc' = [pc EXCEPT ![g] = "out"]
      /\ op' = [op EXCEPT ![g] = None] /\ elem' = [elem EXCEPT ![g] = Zero]
      /\ result' = [result EXCEPT ![g] = None]
      /\ UNCHANGED <<ch, owner, toLock, wake, param>>
  BY DEF Return, Goto
<1>2. /\ pc'[g] = "out" /\ op'[g] = None /\ op[g] # None
      /\ result'[g] = None /\ result[g] # None
      /\ \A k \in G \ {g} :
           pc'[k] = pc[k] /\ op'[k] = op[k] /\ elem'[k] = elem[k] /\ result'[k] = result[k]
  BY <1>1 DEF TypeOK, CallInv, Stands, ResultInv, Fits
<1>3. ResultInv'
  <2>1. Fits(g)'
    BY <1>2 DEF Fits, Tries, InClose
  <2>2. (\A k \in G \ {g} : Stays(k)) /\ result' \in [G -> Results \cup {None}]
    BY <1>1, <1>2 DEF Stays, ResultInv
  <2> QED
    BY <1>1, <2>1, <2>2, ResultKept
<1>4. LockInv'
  <2>1. Locks(g)'
    BY <1>2 DEF Locks
  <2> QED
    BY <1>1, <1>2, <2>1, LocksKept
<1>5. RingInv' /\ Queued' = Queued /\ Closed' = Closed
  BY <1>1 DEF RingInv, Queued, Contents, Closed
<1>6. Got' = [Got EXCEPT ![g] = None] /\ Got[g] # None
  <2>1. \A k \in G : Wakeups(k)' = Wakeups(k)
    BY <1>1 DEF Wakeups
  <2>2. Wakeups(g) = {} /\ ResultOf(g) = result[g]
    BY <1>1, Unwoken
  <2>3. ResultOf(g)' = None
    BY <1>2, <2>1, <2>2 DEF ResultOf
  <2>4. ASSUME NEW k \in G \ {g} PROVE ResultOf(k)' = ResultOf(k)
    BY <1>2, <2>1, ResultSame
  <2> QED
    BY <1>2, <2>2, <2>3, <2>4 DEF Got
<1>7. Abstract!Return(g)
  BY <1>1, <1>2, <1>5, <1>6 DEF Abstract!Return, Abstract!channels, Queued, Closed, Got
<1> QED
  BY <1>3, <1>4, <1>5, <1>7 DEF Refines, Abstract!Next

LEMMA RefInit == Init => RefInv /\ Abstract!Init
<1> SUFFICES ASSUME Init PROVE RefInv /\ Abstract!Init
  OBVIOUS
<1>1. ChanInv
  BY InitInv
<1>2. \A g \in G : pc[g] = "out" /\ op[g] = None /\ result[g] = None
  BY DEF Init
<1>3. ResultInv
  BY <1>2 DEF Init, ResultInv, Fits, Tries, InClose
<1>4. LockInv
  BY <1>2 DEF LockInv, Locks
<1>5. ASSUME NEW c \in C
      PROVE  InOrder(ch[c], c) /\ Contents(c) = <<>> /\ ch[c].closed = FALSE
  <2>1. ch[c].qcount = 0 /\ ch[c].recvx = 0 /\ ch[c].sendx = 0 /\ ch[c].closed = FALSE
    BY DEF Init
  <2>2. Cap[c] \in Nat
    BY ChanAssumption
  <2> QED
    BY <2>1, <2>2 DEF InOrder, Slot, Contents
<1>6. \A g \in G : ResultOf(g) = None
  BY <1>1, <1>2, Unwoken DEF ChanInv, WaitInv
<1>7. Abstract!Init
  BY <1>5, <1>6 DEF Abstract!Init, Init
<1> QED
  BY <1>1, <1>3, <1>4, <1>5, <1>7 DEF RefInv, RingInv

LEMMA RefStep ==
  ASSUME RefInv, [Next]_vars
  PROVE  Refines
<1>1. CASE UNCHANGED vars
  <2>1. UNCHANGED <<ch, owner, pc, op, toLock, wake, param, elem, result>>
    BY <1>1 DEF vars
  <2>2. Got' = Got
    BY <2>1, GotKept
  <2>3. ResultInv'
    BY <2>1, ResultKept DEF RefInv, ChanInv, ResultInv, Stays
  <2> QED
    BY <2>1, <2>2, <2>3
    DEF RefInv, RingInv, LockInv, Locks, Chans, Queued, Contents, Closed, Refines, Stutters
<1>2. ASSUME NEW g \in G, Continue(g) PROVE Refines
  BY <1>2, ChanRef, WokenRef, SendTryClosedRef, SendTryFullRef, RecvTryEmptyRef,
     RecvTryClosedRef, RecvTryEmptyAgainRef, SelLockRef, SelectPollRef, SelectFinishRef,
     CloseMarkRef, CloseRecvRef, CloseSendRef, ReadyRef, ReturnRef
  DEF Continue
<1>3. ASSUME NEW g \in G, NEW o \in Ops, Call(g, o) PROVE Refines
  BY <1>3, CallRef
<1> QED
  BY <1>1, <1>2, <1>3 DEF Next

(* A call has a result from the step that fixes it to its return, a ring   *)
(* buffer's indexes are as far apart as it holds values, and a select      *)
(* holds the locks it has taken.                                           *)
THEOREM ChanRefInvariant == Spec => []RefInv
<1>1. Init => RefInv
  BY RefInit
<1>2. RefInv /\ [Next]_vars => RefInv'
  <2> SUFFICES ASSUME RefInv, [Next]_vars PROVE RefInv'
    OBVIOUS
  <2>1. ChanInv'
    BY StepInv DEF RefInv
  <2>2. Refines
    BY RefStep
  <2> QED
    BY <2>1, <2>2 DEF RefInv, Refines
<1> QED
  BY <1>1, <1>2, PTL DEF Spec

(* chan.go and select.go implement the channels of module Channel: every   *)
(* step of theirs is a step of a Go channel, or none.                      *)
THEOREM ChanImplements == Spec => Implements
<1>1. Init => Abstract!Init
  BY RefInit
<1>2. RefInv /\ [Next]_vars => [Abstract!Next]_<<Abstract!channels, op, Got>>
  <2> SUFFICES ASSUME RefInv, [Next]_vars
               PROVE  Abstract!Next \/ UNCHANGED <<Abstract!channels, op, Got>>
    OBVIOUS
  <2>1. Abstract!Next \/ Stutters
    BY RefStep DEF Refines
  <2> QED
    BY <2>1 DEF Stutters, Abstract!channels, Queued, Closed
<1>3. Implements <=> Abstract!Init /\ [][Abstract!Next]_<<Abstract!channels, op, Got>>
  BY DEF Implements, Abstract!Spec, Got
<1> QED
  BY <1>1, <1>2, <1>3, ChanRefInvariant, PTL DEF Spec

-----------------------------------------------------------------------------
(* The default case (module ChanHistory).  A call on the fast path is      *)
(* between two reads; what it has read holds of the moment of the first    *)
(* read, and what it can still read of the second.  Tells says what its    *)
(* place and the state together say of the moments between.                *)

FullClosed(g) ==
  LET c == ChanOf(g, 1) IN
  ch[c].closed /\ Cap[c] # 0 /\ ch[c].qcount = Cap[c]

Tells(g) ==
  /\ TakesDefault(g) => op[g] # None /\ ~op[g].block /\ (stuck[g] \/ SendsAtClose(g))
  /\ pc[g] = "tryFull" => Sends(g, 1) /\ (FullClosed(g) => stuck[g])
  /\ pc[g] = "tryClosed" /\ ~Sends(g, 1) => ch[ChanOf(g, 1)].closed \/ stuck[g]

DefaultInv == \A g \in G : Tells(g)

(* How a call gets to the second read, and to its default case.            *)
Arrives(g) ==
  LET c == ChanOf(g, 1) IN
  /\ pc'[g] = "tryFull" =>
       /\ op'[g] = op[g]
       /\ \/ pc[g] = "tryFull"
          \/ pc[g] = "tryClosed" /\ Sends(g, 1) /\ ~ch[c].closed /\ ch' = ch
  /\ pc'[g] = "tryClosed" /\ ~op'[g].cases[1].send =>
       /\ op'[g] = op[g]
       /\ pc[g] = "tryClosed" \/ (pc[g] = "tryEmpty" /\ Empty(c))
  /\ TakesDefault(g)' =>
       /\ op'[g] = op[g]
       /\ \/ TakesDefault(g)
          \/ op[g] # None /\ ~op[g].block /\ Stuck(g)
          \/ pc[g] = "tryFull" /\ Full(c) /\ ch' = ch
          \/ pc[g] = "tryClosed" /\ ~Sends(g, 1) /\ ~ch[c].closed

LEMMA NobodyWaits == ~Waiting(<<>>)
<1>1. DOMAIN (<<>>) = {} /\ <<>> \in Seq(Sudog)
  OBVIOUS
<1> QED
  BY <1>1, DequeuedFacts

(* A call that tries the fast path has one case.                           *)
LEMMA OneCase ==
  ASSUME RefInv, NEW g \in G, pc[g] \in Tries
  PROVE  /\ op[g] \in Ops /\ op[g] # None /\ op[g].kind = "chan" /\ ~op[g].block
         /\ Cases(g) = {1} /\ ChanOf(g, 1) \in C /\ Sends(g, 1) \in BOOLEAN
         /\ result[g] = None
<1>1. /\ op[g] \in Ops /\ op[g] # None /\ op[g].kind = "chan" /\ ~op[g].block
      /\ result[g] = None
  BY ChanAssumption
  DEF RefInv, ChanInv, CallInv, Stands, TypeOK, ResultInv, Fits, Tries, InClose
<1>2. Cases(g) = {1}
  BY <1>1, OpsAssumption DEF Cases
<1> QED
  BY <1>1, <1>2, CallFacts DEF RefInv, ChanInv

(* Full says that a send cannot proceed on an open channel, and Empty that *)
(* a receive cannot.                                                       *)
LEMMA FullStuck ==
  ASSUME RefInv, NEW g \in G, pc[g] \in Tries, Sends(g, 1),
         ~ch[ChanOf(g, 1)].closed, Full(ChanOf(g, 1))
  PROVE  Stuck(g)
<1> DEFINE c == ChanOf(g, 1)
<1>1. /\ op[g] # None /\ Cases(g) = {1} /\ c \in C /\ result[g] = None
      /\ ch[c] \in Hchan(c) /\ Cap[c] \in Nat
  BY OneCase, ChanAssumption DEF RefInv, ChanInv, TypeOK
<1>2. ch[c].recvq = <<>> /\ ~(ch[c].qcount < Cap[c])
  BY <1>1 DEF Full, Hchan, RefInv, ChanInv, ExclusiveInv
<1>3. ~CanProceed(g, 1)
  BY <1>2, NobodyWaits DEF CanProceed
<1> QED
  BY <1>1, <1>3 DEF Stuck

LEMMA EmptyStuck ==
  ASSUME RefInv, NEW g \in G, pc[g] \in Tries, ~Sends(g, 1),
         ~ch[ChanOf(g, 1)].closed, Empty(ChanOf(g, 1))
  PROVE  Stuck(g)
<1> DEFINE c == ChanOf(g, 1)
<1>1. /\ op[g] # None /\ Cases(g) = {1} /\ c \in C /\ result[g] = None
      /\ ch[c] \in Hchan(c) /\ Cap[c] \in Nat
  BY OneCase, ChanAssumption DEF RefInv, ChanInv, TypeOK
<1>2. ch[c].sendq = <<>> /\ ~(ch[c].qcount > 0)
  BY <1>1 DEF Empty, Hchan, RefInv, ChanInv, ExclusiveInv
<1>3. ~CanProceed(g, 1)
  BY <1>2, NobodyWaits DEF CanProceed
<1> QED
  BY <1>1, <1>3 DEF Stuck

(* A closed channel stays closed, and nothing enters its buffer: a step of *)
(* module Channel is like that, and the code's steps are.                  *)
LEMMA ClosedQueue ==
  ASSUME NEW c \in C, Queued \in [C -> Seq(Value)], Closed \in [C -> BOOLEAN],
         Abstract!Next
  PROVE  /\ Closed[c] => Closed'[c]
         /\ Closed'[c] => Len(Queued'[c]) <= Len(Queued[c])
<1> DEFINE Goal == /\ Closed[c] => Closed'[c]
                   /\ Closed'[c] => Len(Queued'[c]) <= Len(Queued[c])
<1>1. Len(Queued[c]) \in Nat
  OBVIOUS
<1>2. ASSUME UNCHANGED <<Queued, Closed>> PROVE Goal
  BY <1>1, <1>2
<1>3. ASSUME NEW g \in G, NEW o \in Ops, Abstract!Begin(g, o) PROVE Goal
  BY <1>2, <1>3 DEF Abstract!Begin, Abstract!channels, Queued, Closed
<1>4. ASSUME NEW g \in G, Abstract!Return(g) PROVE Goal
  BY <1>2, <1>4 DEF Abstract!Return, Abstract!channels, Queued, Closed
<1>5. ASSUME NEW g \in G, Abstract!Default(g) PROVE Goal
  BY <1>2, <1>5 DEF Abstract!Default, Abstract!channels, Queued, Closed
<1>6. ASSUME NEW g \in G, NEW i, Abstract!Close(g, op[g].cases[i].chan) PROVE Goal
  <2> DEFINE d == op[g].cases[i].chan
  <2>1. Queued' = Queued /\ Closed' = [Closed EXCEPT ![d] = TRUE]
    BY <1>6 DEF Abstract!Close, Queued, Closed
  <2> QED
    BY <1>1, <2>1
<1>7. ASSUME NEW g \in G, NEW i,
             Abstract!Communicate(g, i, op[g].cases[i].chan)
      PROVE  Goal
  <2> DEFINE d == op[g].cases[i].chan
  <2>1. CASE Abstract!Send(g, i, op[g].cases[i].chan)
    <3>1. PICK v : /\ ~Closed[d] /\ Closed' = Closed
                   /\ Queued' = [Queued EXCEPT ![d] = Append(@, v)]
      BY <2>1 DEF Abstract!Send, Queued, Closed
    <3>2. Closed' = Closed /\ (Closed'[c] => Queued'[c] = Queued[c])
      BY <3>1
    <3> QED
      BY <1>1, <3>2
  <2>2. CASE Abstract!Receive(g, i, op[g].cases[i].chan)
    <3>1. Queued[d] # <<>> /\ Closed' = Closed /\ Queued' = [Queued EXCEPT ![d] = Tail(@)]
      BY <2>2 DEF Abstract!Receive, Queued, Closed
    <3>2. CASE c = d
      <4>1. Queued[c] \in Seq(Value) /\ Queued[c] # <<>> /\ Queued'[c] = Tail(Queued[c])
        BY <3>1, <3>2
      <4>2. Len(Queued'[c]) = Len(Queued[c]) - 1
        BY <4>1, TailFacts
      <4> QED
        BY <3>1, <4>2, <1>1
    <3> QED
      BY <1>1, <3>1, <3>2
  <2>3. CASE \/ Abstract!ReceiveClosed(g, i, op[g].cases[i].chan)
             \/ Abstract!SendClosed(g, i, op[g].cases[i].chan)
    BY <1>2, <2>3 DEF Abstract!ReceiveClosed, Abstract!SendClosed, Abstract!channels,
       Queued, Closed
  <2>4. ASSUME NEW r \in G, NEW j, Abstract!Meet(g, i, r, j, op[g].cases[i].chan)
        PROVE  Goal
    <3>1. PICK q : ~Closed[d] /\ Closed' = Closed /\ Queued' = [Queued EXCEPT ![d] = q]
      BY <2>4 DEF Abstract!Meet, Queued, Closed
    <3> QED
      BY <1>1, <3>1
  <2> QED
    BY <1>7, <2>1, <2>2, <2>3, <2>4 DEF Abstract!Communicate
<1> HIDE DEF Goal
<1>8. Goal
  <2>1. PICK g \in G :
          \/ \E o \in Ops : Abstract!Begin(g, o)
          \/ Abstract!Return(g)
          \/ Abstract!Default(g)
          \/ \E i \in Abstract!Cases(g) :
               \/ Abstract!Close(g, op[g].cases[i].chan)
               \/ Abstract!Communicate(g, i, op[g].cases[i].chan)
    BY DEF Abstract!Next
  <2> QED
    BY <1>3, <1>4, <1>5, <1>6, <1>7, <2>1
<1> QED
  BY <1>8 DEF Goal

LEMMA ClosedFull ==
  ASSUME RefInv, RefInv', [Next]_vars, NEW c \in C
  PROVE  /\ ch[c].closed => ch'[c].closed
         /\ ch'[c].closed => ch'[c].qcount <= ch[c].qcount
<1>1. /\ ch[c] \in Hchan(c) /\ ch'[c] \in Hchan(c)
      /\ ch[c].qcount \in Nat /\ ch'[c].qcount \in Nat
  BY ChanAssumption DEF RefInv, ChanInv, TypeOK, Hchan
<1>2. /\ Queued[c] = Holds(ch[c], c) /\ Queued'[c] = Holds(ch'[c], c)
      /\ Closed[c] = ch[c].closed /\ Closed'[c] = ch'[c].closed
  BY DEF Queued, Closed, Contents, Holds
<1>3. Len(Queued[c]) = ch[c].qcount /\ Len(Queued'[c]) = ch'[c].qcount
  BY <1>1, <1>2, HoldsFacts
<1>4. Queued \in [C -> Seq(Value)] /\ Closed \in [C -> BOOLEAN]
  <2>1. \A d \in C : ch[d] \in Hchan(d) /\ Contents(d) = Holds(ch[d], d)
    BY DEF RefInv, ChanInv, TypeOK, Contents, Holds
  <2>2. \A d \in C : Contents(d) \in Seq(Value) /\ ch[d].closed \in BOOLEAN
    BY <2>1, HoldsFacts DEF Hchan
  <2> QED
    BY <2>2 DEF Queued, Closed
<1>5. Abstract!Next \/ (Queued' = Queued /\ Closed' = Closed)
  BY RefStep DEF Refines, Stutters
<1>6. CASE Abstract!Next
  BY <1>2, <1>3, <1>4, <1>6, ClosedQueue
<1>7. CASE Queued' = Queued /\ Closed' = Closed
  BY <1>1, <1>2, <1>3, <1>7
<1> QED
  BY <1>5, <1>6, <1>7

(* What each step does for a goroutine: the one that takes it, and those   *)
(* that it does not concern.                                               *)
LEMMA StaysArrives ==
  ASSUME NEW g \in G, Stays(g)
  PROVE  Arrives(g)
  BY DEF Stays, Arrives, TakesDefault, Sends

LEMMA OutArrives ==
  ASSUME NEW g \in G, pc'[g] \notin {"tryClosed", "tryFull"},
         (result'[g] = result[g] /\ op'[g] = op[g]) \/ ~TakesDefault(g)'
  PROVE  Arrives(g)
  BY DEF Arrives, TakesDefault

LEMMA CommunicateSettles ==
  ASSUME NEW g, NEW i, NEW h, Communicate(g, i, h)
  PROVE  \E how \in {"ok", "closed", "panic"} : \E v : Done(g, Result(how, i, v))
<1>1. CASE Send(g, i, h)
  <2>1. CASE h[ChanOf(g, i)].closed
    BY <1>1, <2>1 DEF Send
  <2>2. CASE SendDirect(g, i, h) \/ SendToBuf(g, i, h)
    <3>1. Done(g, Result("ok", i, Zero))
      BY <2>2 DEF SendDirect, SendToBuf
    <3> QED
      BY <3>1
  <2> QED
    BY <1>1, <2>1, <2>2 DEF Send
<1>2. CASE RecvDirect(g, i, h) \/ RecvFromBuf(g, i, h)
  <2>1. PICK v : Done(g, Result("ok", i, v))
    BY <1>2, Zenon DEF RecvDirect, RecvFromBuf
  <2> QED
    BY <2>1
<1>3. CASE RecvClosed(g, i, h)
  BY <1>3 DEF RecvClosed
<1> QED
  BY <1>1, <1>2, <1>3 DEF Communicate

LEMMA ProceedTakes ==
  ASSUME ResultInv, NEW g \in G, Proceed(g)
  PROVE  ~TakesDefault(g)'
<1>1. PICK i, h : Communicate(g, i, h)
  BY Zenon DEF Proceed
<1>2. PICK how \in {"ok", "closed", "panic"} :
        \E v : Done(g, Result(how, i, v))
  BY <1>1, CommunicateSettles
<1> QED
  BY <1>2 DEF Done, Result, ResultInv, TakesDefault

LEMMA OwnArrives ==
  ASSUME RefInv, NEW g \in G, Continue(g)
  PROVE  Arrives(g)
<1> USE DEF RefInv, ChanInv, TypeOK
<1>1. CASE pc[g] \in {"lock", "sellock"} /\ UNCHANGED op /\ Proceed(g)
  <2>1. pc'[g] \in {"done", "ready"}
    BY <1>1 DEF Proceed
  <2>2. ~TakesDefault(g)'
    BY <1>1, ProceedTakes
  <2> QED
    BY <2>1, <2>2, OutArrives
<1>2. CASE pc[g] \in {"lock", "sellock"} /\ UNCHANGED op /\ GiveUp(g)
  <2>1. /\ \A i \in Cases(g) : ~CanProceed(g, i)
        /\ pc'[g] \in {"parked", "done"}
        /\ op[g].block => result' = result
    BY <1>2 DEF GiveUp
  <2>2. op[g] # None /\ result[g] = None
    BY <1>2 DEF CallInv, Stands, ResultInv, Fits, InClose
  <2> QED
    BY <1>2, <2>1, <2>2 DEF Arrives, Stuck, TakesDefault
<1>3. CASE ChanSend(g) \/ ChanRecv(g) \/ (SelectPoll(g))
  BY <1>1, <1>2, <1>3 DEF ChanSend, ChanRecv, SelectPoll
<1>4. CASE Woken(g) \/ SelectFinish(g)
  <2>1. pc'[g] = "done" /\ Done(g, Outcome(param[g]))
    BY <1>4 DEF Woken, SelectFinish, Goto
  <2>2. Outcome(param[g]).how # "default"
    BY DEF Outcome, Result
  <2> QED
    BY <2>1, <2>2, OutArrives DEF Done, TakesDefault, ResultInv
<1>5. CASE SendTryClosed(g)
  <2>1. /\ pc[g] = "tryClosed" /\ Sends(g, 1) /\ UNCHANGED <<ch, op, result>>
        /\ pc'[g] = IF ch[ChanOf(g, 1)].closed THEN "lock" ELSE "tryFull"
    BY <1>5 DEF SendTryClosed, Goto, others
  <2> QED
    BY <2>1 DEF Arrives, TakesDefault
<1>6. CASE SendTryFull(g)
  <2>1. /\ pc[g] = "tryFull" /\ UNCHANGED <<ch, op>> /\ pc'[g] \in {"done", "lock"}
        /\ ~Full(ChanOf(g, 1)) => result'[g] = None
    BY <1>6 DEF SendTryFull, Fast, Goto, others, ResultInv
  <2> QED
    BY <2>1 DEF Arrives, TakesDefault
<1>7. CASE RecvTryEmpty(g)
  <2>1. /\ pc[g] = "tryEmpty" /\ UNCHANGED <<ch, op, result>>
        /\ pc'[g] = IF Empty(ChanOf(g, 1)) THEN "tryClosed" ELSE "lock"
    BY <1>7 DEF RecvTryEmpty, Goto, others
  <2> QED
    BY <2>1 DEF Arrives, TakesDefault
<1>8. CASE RecvTryClosed(g)
  <2>1. /\ pc[g] = "tryClosed" /\ ~Sends(g, 1) /\ UNCHANGED <<ch, op>>
        /\ pc'[g] \in {"done", "tryEmptyAgain"}
        /\ ch[ChanOf(g, 1)].closed => result'[g] = None
    BY <1>8 DEF RecvTryClosed, Fast, Goto, others, ResultInv
  <2> QED
    BY <2>1 DEF Arrives, TakesDefault
<1>9. CASE RecvTryEmptyAgain(g)
  <2>1. /\ pc'[g] \in {"done", "lock"}
        /\ result'[g] = None \/ result'[g].how = "closed"
    BY <1>9 DEF RecvTryEmptyAgain, Fast, Goto, ResultInv, Result
  <2> QED
    BY <2>1, OutArrives DEF TakesDefault
<1>10. CASE SelLock(g)
  BY <1>10, OutArrives DEF SelLock
<1>11. CASE CloseMark(g)
  <2>1. pc'[g] \in {"done", "closeRecv"} /\ result'[g].how \in {"panic", "ok"}
    BY <1>11 DEF CloseMark, Goto, Done, Result, ResultInv
  <2> QED
    BY <2>1, OutArrives DEF TakesDefault
<1>12. CASE CloseRecv(g) \/ CloseSend(g)
  <2>1. pc'[g] \in {"closeRecv", "closeSend", "done", "ready"} /\ UNCHANGED <<op, result>>
    BY <1>12 DEF CloseRecv, CloseSend, Goto
  <2> QED
    BY <2>1, OutArrives
<1>13. CASE Ready(g)
  <2>1. pc'[g] \notin {"tryClosed", "tryFull"} /\ UNCHANGED <<op, result>>
    BY <1>13, ReadyFacts
  <2> QED
    BY <2>1, OutArrives
<1>14. CASE Return(g)
  BY <1>14, OutArrives DEF Return, Goto, TakesDefault, ResultInv
<1> QED
  BY <1>3, <1>4, <1>5, <1>6, <1>7, <1>8, <1>9, <1>10, <1>11, <1>12, <1>13, <1>14
  DEF Continue

(* A step leaves the calls of all others as they are, but for a wakeup.    *)
LEMMA OthersStay ==
  ASSUME RefInv, NEW g \in G, Continue(g), ~Ready(g), NEW k \in G, k # g
  PROVE  Stays(k)
<1> USE DEF RefInv, ChanInv, TypeOK
<1>0. result \in [G -> Results \cup {None}]
  BY DEF ResultInv
<1>1. CASE UNCHANGED op /\ (Proceed(g) \/ GiveUp(g))
  <2>1. pc'[k] = pc[k]
    BY <1>1 DEF Proceed, GiveUp
  <2>2. CASE Proceed(g)
    <3>1. PICK i, h : Communicate(g, i, h)
      BY <2>2, Zenon DEF Proceed
    <3>2. PICK r : Done(g, r)
      BY <3>1, CommunicateSettles
    <3> QED
      BY <1>0, <1>1, <2>1, <3>2 DEF Stays, Done
  <2>3. CASE GiveUp(g)
    BY <1>0, <1>1, <2>1, <2>3 DEF Stays, GiveUp, Done
  <2> QED
    BY <1>1, <2>2, <2>3
<1>2. CASE ChanSend(g) \/ ChanRecv(g) \/ SelectPoll(g)
  BY <1>1, <1>2 DEF ChanSend, ChanRecv, SelectPoll
<1>3. CASE Woken(g) \/ SelectFinish(g)
  <2>1. Goto(g, pc[g], "done") /\ (\E r : Done(g, r)) /\ op' = op
    BY <1>3 DEF Woken, SelectFinish, Goto
  <2> QED
    BY <1>0, <2>1 DEF Goto, Done, Stays
<1>4. CASE SendTryClosed(g) \/ RecvTryEmpty(g)
  BY <1>4 DEF SendTryClosed, RecvTryEmpty, Goto, others, Stays
<1>5. CASE SendTryFull(g) \/ RecvTryClosed(g) \/ RecvTryEmptyAgain(g)
  BY <1>0, <1>5
  DEF SendTryFull, RecvTryClosed, RecvTryEmptyAgain, Fast, Goto, others, Stays
<1>6. CASE SelLock(g)
  BY <1>6 DEF SelLock, Stays
<1>7. CASE CloseMark(g) \/ CloseRecv(g) \/ CloseSend(g)
  BY <1>0, <1>7 DEF CloseMark, CloseRecv, CloseSend, Goto, Done, Stays
<1>8. CASE Return(g)
  BY <1>0, <1>8 DEF Return, Goto, Stays
<1> QED
  BY <1>2, <1>3, <1>4, <1>5, <1>6, <1>7, <1>8 DEF Continue

LEMMA StepArrives ==
  ASSUME RefInv, [Next]_vars, NEW k \in G
  PROVE  Arrives(k)
<1> USE DEF RefInv, ChanInv, TypeOK
<1>1. CASE UNCHANGED vars
  BY <1>1, StaysArrives DEF vars, Stays
<1>2. ASSUME NEW g \in G, Continue(g) PROVE Arrives(k)
  <2>1. CASE k = g
    BY <1>2, <2>1, OwnArrives
  <2>2. CASE k # g /\ ~Ready(g)
    <3>1. Stays(k)
      BY <1>2, <2>2, OthersStay
    <3> QED
      BY <3>1, StaysArrives
  <2>3. CASE k # g /\ Ready(g)
    <3>1. PICK w \in Wakeup :
            /\ pc' = [pc EXCEPT ![w.sg.g] = IF Selects(w.sg.g) THEN "relock" ELSE "woken",
                                ![g] = IF Len(wake[g]) = 1 THEN "done" ELSE "ready"]
            /\ UNCHANGED <<op, result>>
      BY <2>3, ReadyFacts
    <3>2. CASE k = w.sg.g
      BY <2>3, <3>1, <3>2, OutArrives
    <3>3. CASE k # w.sg.g
      BY <2>3, <3>1, <3>3, StaysArrives DEF Stays
    <3> QED
      BY <3>2, <3>3
  <2> QED
    BY <2>1, <2>2, <2>3
<1>3. ASSUME NEW g \in G, NEW o \in Ops, Call(g, o) PROVE Arrives(k)
  <2>1. /\ pc' = [pc EXCEPT ![g] = Start(o)] /\ op' = [op EXCEPT ![g] = o]
        /\ pc[g] = "out" /\ result' = result
    BY <1>3 DEF Call, Goto
  <2>2. CASE k = g
    <3>1. /\ pc'[k] = Start(o) /\ op'[k] = o /\ Start(o) # "tryFull"
          /\ Start(o) = "tryClosed" => o.cases[1].send
      BY <2>1, <2>2 DEF Start
    <3>2. result[k] = None
      BY <2>1, <2>2 DEF ResultInv, Fits, InClose
    <3> QED
      BY <2>1, <3>1, <3>2 DEF Arrives, TakesDefault
  <2>3. CASE k # g
    BY <2>1, <2>3, StaysArrives DEF Stays
  <2> QED
    BY <2>2, <2>3
<1> QED
  BY <1>1, <1>2, <1>3 DEF Next

(* The history variable.                                                   *)
History ==
  stuck' = [g \in G |-> op'[g] # None /\ ~op'[g].block /\ (stuck[g] \/ Stuck(g))]

LEMMA DefaultStep ==
  ASSUME RefInv, RefInv', DefaultInv, [Next]_vars, History
  PROVE  DefaultInv'
<1> SUFFICES ASSUME NEW g \in G PROVE Tells(g)'
  BY DEF DefaultInv
<1> DEFINE c == ChanOf(g, 1)
<1>1. Arrives(g)
  BY StepArrives
<1>2. Tells(g)
  BY DEF DefaultInv
<1>3. ASSUME op'[g] = op[g], op[g] # None, ~op[g].block, stuck[g] \/ Stuck(g)
      PROVE  stuck'[g]
  BY <1>3 DEF History
<1>4. ASSUME op'[g] = op[g]
      PROVE  c' = c /\ Sends(g, 1)' = Sends(g, 1)
  BY <1>4 DEF ChanOf, Sends
<1>5. ASSUME c \in C
      PROVE  /\ ch[c].closed => ch'[c].closed
             /\ ch'[c].closed => ch'[c].qcount <= ch[c].qcount
             /\ Cap[c] \in Nat
             /\ ch[c].qcount \in 0 .. Cap[c] /\ ch'[c].qcount \in 0 .. Cap[c]
  BY <1>5, ClosedFull, ChanAssumption DEF RefInv, ChanInv, TypeOK, Hchan
<1>6. ASSUME pc'[g] = "tryFull"
      PROVE  Sends(g, 1)' /\ (FullClosed(g)' => stuck'[g])
  <2>1. op'[g] = op[g] /\ pc[g] \in Tries
    BY <1>1, <1>6 DEF Arrives, Tries
  <2>2. op[g] # None /\ ~op[g].block /\ c \in C
    BY <2>1, OneCase
  <2>3. CASE pc[g] = "tryFull"
    <3>1. Sends(g, 1)'
      BY <1>2, <1>4, <2>1, <2>3 DEF Tells
    <3>2. ASSUME FullClosed(g)' PROVE stuck'[g]
      <4>1. ch'[c].closed /\ Cap[c] # 0 /\ ch'[c].qcount = Cap[c]
        BY <1>4, <2>1, <3>2 DEF FullClosed
      <4>2. ch[c].qcount = Cap[c]
        BY <1>5, <2>2, <4>1
      <4>3. CASE ch[c].closed
        BY <1>2, <1>3, <2>1, <2>2, <2>3, <4>1, <4>2, <4>3 DEF Tells, FullClosed
      <4>4. CASE ~ch[c].closed
        <5>1. Stuck(g)
          BY <1>4, <2>1, <2>3, <3>1, <4>1, <4>2, <4>4, FullStuck DEF Full
        <5> QED
          BY <1>3, <2>1, <2>2, <5>1
      <4> QED
        BY <4>3, <4>4
    <3> QED
      BY <3>1, <3>2
  <2>4. CASE pc[g] = "tryClosed" /\ Sends(g, 1) /\ ~ch[c].closed /\ ch' = ch
    BY <1>4, <2>1, <2>4 DEF FullClosed
  <2> QED
    BY <1>1, <1>6, <2>3, <2>4 DEF Arrives
<1>7. ASSUME pc'[g] = "tryClosed", ~Sends(g, 1)'
      PROVE  ch'[c'].closed \/ stuck'[g]
  <2>1. /\ op'[g] = op[g] /\ pc[g] \in Tries
        /\ pc[g] = "tryClosed" \/ (pc[g] = "tryEmpty" /\ Empty(c))
    BY <1>1, <1>7 DEF Arrives, Tries, Sends
  <2>2. op[g] # None /\ ~op[g].block /\ c \in C /\ ~Sends(g, 1) /\ c' = c
    BY <1>4, <1>7, <2>1, OneCase
  <2>3. ch[c].closed \/ stuck[g] \/ Stuck(g)
    BY <1>2, <2>1, <2>2, EmptyStuck DEF Tells
  <2> QED
    BY <1>3, <1>5, <2>1, <2>2, <2>3
<1>8. ASSUME TakesDefault(g)'
      PROVE  op'[g] # None /\ ~op'[g].block /\ (stuck'[g] \/ SendsAtClose(g)')
  <2>1. op'[g] = op[g]
    BY <1>1, <1>8 DEF Arrives
  <2>2. CASE op[g] # None /\ ~op[g].block /\ (stuck[g] \/ Stuck(g))
    BY <1>3, <2>1, <2>2
  <2>3. CASE TakesDefault(g) /\ SendsAtClose(g)
    <3>1. op[g] # None /\ ~op[g].block
      BY <1>2, <2>3 DEF Tells
    <3>2. c \in C
      <4>1. op[g] \in Ops
        BY <3>1 DEF RefInv, ChanInv, TypeOK
      <4> QED
        BY <4>1, OpsAssumption DEF ChanOf
    <3>3. SendsAtClose(g)'
      BY <1>4, <1>5, <2>1, <2>3, <3>2 DEF SendsAtClose
    <3> QED
      BY <2>1, <3>1, <3>3
  <2>4. CASE pc[g] = "tryFull" /\ Full(c) /\ ch' = ch
    <3>1. /\ op[g] # None /\ ~op[g].block /\ op[g].kind = "chan" /\ c \in C
          /\ Sends(g, 1)
      BY <1>2, <2>4, OneCase DEF Tells, Tries
    <3>2. CASE ~ch[c].closed
      BY <1>3, <2>1, <2>4, <3>1, <3>2, FullStuck DEF Tries
    <3>3. CASE ch[c].closed /\ Cap[c] # 0
      BY <1>2, <1>3, <2>1, <2>4, <3>1, <3>3 DEF Tells, FullClosed, Full
    <3>4. CASE ch[c].closed /\ Cap[c] = 0
      BY <1>4, <2>1, <2>4, <3>1, <3>4 DEF SendsAtClose
    <3> QED
      BY <2>1, <3>1, <3>2, <3>3, <3>4
  <2>5. CASE pc[g] = "tryClosed" /\ ~Sends(g, 1) /\ ~ch[c].closed
    <3>1. op[g] # None /\ ~op[g].block /\ stuck[g]
      BY <1>2, <2>5, OneCase DEF Tells, Tries
    <3> QED
      BY <1>3, <2>1, <3>1
  <2> QED
    BY <1>1, <1>2, <1>8, <2>2, <2>3, <2>4, <2>5 DEF Arrives, Tells
<1> QED
  BY <1>6, <1>7, <1>8 DEF Tells

(* The inductive invariant of the default case: what a call that stands    *)
(* between two lock-free reads of a channel can still find, and whether it *)
(* has been unable to proceed.                                             *)
THEOREM ChanDefaultInvariant == HistorySpec => [](RefInv /\ DefaultInv)
<1>1. HistoryInit => RefInv /\ DefaultInv
  <2> SUFFICES ASSUME HistoryInit PROVE RefInv /\ DefaultInv
    OBVIOUS
  <2>1. RefInv
    BY RefInit DEF HistoryInit
  <2>2. \A g \in G : pc[g] = "out" /\ result[g] = None
    BY DEF HistoryInit, Init
  <2> QED
    BY <2>1, <2>2 DEF DefaultInv, Tells, TakesDefault
<1>2. RefInv /\ DefaultInv /\ [HistoryNext]_<<vars, stuck>> => (RefInv /\ DefaultInv)'
  <2> SUFFICES ASSUME RefInv, DefaultInv, [HistoryNext]_<<vars, stuck>>
               PROVE  RefInv' /\ DefaultInv'
    OBVIOUS
  <2>1. [Next]_vars
    BY DEF HistoryNext
  <2>2. RefInv'
    <3>1. ChanInv'
      BY <2>1, StepInv DEF RefInv
    <3> QED
      BY <2>1, <3>1, RefStep DEF RefInv, Refines
  <2>3. CASE HistoryNext
    BY <2>1, <2>2, <2>3, DefaultStep DEF HistoryNext, History
  <2>4. CASE UNCHANGED <<vars, stuck>>
    <3>1. UNCHANGED <<ch, pc, op, result, stuck>>
      BY <2>4 DEF vars
    <3>2. ASSUME NEW g \in G PROVE Tells(g)'
      <4>1. Tells(g)
        BY DEF DefaultInv
      <4> QED
        BY <3>1, <4>1 DEF Tells, TakesDefault, SendsAtClose, FullClosed, Sends, ChanOf
    <3> QED
      BY <2>2, <3>2 DEF DefaultInv
  <2> QED
    BY <2>2, <2>3, <2>4
<1> QED
  BY <1>1, <1>2, PTL DEF HistorySpec

(* A call that takes its default case could not proceed at some moment     *)
(* since it began, although its fast path decides from reads made at       *)
(* different moments; or it is a send on a channel without a buffer that   *)
(* has been closed.                                                        *)
THEOREM ChanDefaultUnlessClosed == HistorySpec => []DefaultUnlessClosed
<1>1. DefaultInv => DefaultUnlessClosed
  BY DEF DefaultInv, Tells, DefaultUnlessClosed
<1> QED
  BY <1>1, ChanDefaultInvariant, PTL
=============================================================================
