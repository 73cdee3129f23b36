---------------------------- MODULE SyncMapProofs ----------------------------
(***************************************************************************)
(* Theorems about sync.Map, for any goroutines, keys and values.           *)
(*                                                                         *)
(* DirtyComplete says nothing while m.mu is held; what holds then depends  *)
(* on the call under it (LockInv), and on how far dirtyLocked has come in  *)
(* filling a new dirty map (Filling).  That a store to an entry reaches    *)
(* one key only, and that a promoted map holds nothing expunged, needs     *)
(* that an entry belongs to one key (OneKey) and DirtyClean.               *)
(***************************************************************************)
EXTENDS SyncMap, TLAPS

Holding == {"swap", "miss", "expunge"}

(* m.mu is held between a Lock and an Unlock, and what a call has at hand  *)
(* at each point under it.                                                 *)
LockInv ==
  \A g \in G :
    /\ mu = g <=> pc[g] \in Holding
    /\ pc[g] \in {"entry", "swap"} => e[g] # None
    /\ pc[g] = "swap" => p[e[g]] # Expunged
    /\ pc[g] = "miss" => dirty # None

(* An entry belongs to one key.                                            *)
SameKey(m, n) == \A k \in DOMAIN m, l \in DOMAIN n : m[k] = n[l] => k = l

OneKey ==
  /\ SameKey(readM, readM)
  /\ dirty # None => SameKey(dirty, dirty) /\ SameKey(readM, dirty)

(* The dirty map has no expunged entries, so it can be promoted.           *)
DirtyClean == dirty # None => \A k \in DOMAIN dirty : p[dirty[k]] # Expunged

(* What the dirty map, d, has of key k of m.read.                          *)
Kept(k, d) ==
  IF p[readM[k]] = Expunged THEN k \notin DOMAIN d
  ELSE k \in DOMAIN d /\ d[k] = readM[k]

(* DirtyComplete, whenever dirtyLocked is not filling the dirty map.       *)
Complete ==
  /\ amended <=> dirty # None
  /\ dirty = None => \A k \in DOMAIN readM : p[readM[k]] # Expunged
  /\ dirty # None => \A k \in DOMAIN readM : Kept(k, dirty)

(* How far dirtyLocked has come.                                           *)
Filling(g) ==
  /\ ~amended /\ dirty # None
  /\ Stores(call[g]) /\ call[g].key \notin DOMAIN readM
  /\ DOMAIN rest[g] \subseteq DOMAIN readM
  /\ \A k \in DOMAIN rest[g] :
       rest[g][k] = readM[k] /\ k \notin DOMAIN dirty /\ p[readM[k]] # Expunged
  /\ \A k \in DOMAIN readM \ DOMAIN rest[g] : Kept(k, dirty)

DirtyInv ==
  /\ OneKey /\ DirtyClean
  /\ (\A g \in G : pc[g] # "expunge") => Complete
  /\ \A g \in G : pc[g] = "expunge" => Filling(g)

SyncMapInv == TypeOK /\ LockInv /\ DirtyInv

-----------------------------------------------------------------------------
(* Maps and entries.                                                       *)

Ids == 1 .. MaxEntry

Ptr == Value \cup {Nil, Expunged}

Kinds == {"out", "entry", "slow", "swap", "miss", "expunge", "range"}

LEMMA MapElim ==
  ASSUME NEW m \in Map
  PROVE  /\ DOMAIN m \subseteq Key /\ m \in [DOMAIN m -> Ids] /\ m # None
         /\ EntriesOf(m) = {m[k] : k \in DOMAIN m}
<1>1. PICK K \in SUBSET Key : m \in [K -> Ids]
  BY DEF Map, Ids
<1>2. m # None
  BY NoneAssumption
<1> QED
  BY <1>1, <1>2 DEF EntriesOf, Range

LEMMA MapIntro ==
  ASSUME NEW K \in SUBSET Key, NEW m \in [K -> Ids] PROVE m \in Map
  BY DEF Map, Ids

LEMMA NoKeysMap == NoKeys \in Map /\ DOMAIN NoKeys = {} /\ EntriesOf(NoKeys) = {}
<1>1. NoKeys \in [{} -> Ids] /\ DOMAIN NoKeys = {}
  BY DEF NoKeys
<1>2. NoKeys \in Map
  BY <1>1, MapIntro
<1> QED
  BY <1>1, <1>2, MapElim

(* A map with one more entry.                                              *)
LEMMA WithMap ==
  ASSUME NEW m \in Map, NEW k \in Key, NEW i \in Ids
  PROVE  /\ With(m, k, i) \in Map /\ With(m, k, i) # None
         /\ DOMAIN With(m, k, i) = DOMAIN m \cup {k}
         /\ \A j \in DOMAIN m \cup {k} : With(m, k, i)[j] = IF j = k THEN i ELSE m[j]
         /\ EntriesOf(With(m, k, i)) \subseteq EntriesOf(m) \cup {i}
<1> DEFINE n == With(m, k, i)
<1>1. /\ DOMAIN n = DOMAIN m \cup {k}
      /\ \A j \in DOMAIN n : n[j] = IF j = k THEN i ELSE m[j]
  BY DEF With
<1>2. n \in [DOMAIN m \cup {k} -> Ids]
  BY MapElim DEF With
<1>3. n \in Map
  BY <1>2, MapElim, MapIntro
<1> HIDE DEF n
<1>4. EntriesOf(n) \subseteq EntriesOf(m) \cup {i}
  BY <1>1, <1>3, MapElim
<1> QED
  BY <1>1, <1>3, <1>4, MapElim DEF n

(* A map without one of its keys.                                          *)
LEMMA WithoutMap ==
  ASSUME NEW m \in Map, NEW k
  PROVE  /\ Without(m, k) \in Map /\ Without(m, k) # None
         /\ DOMAIN Without(m, k) = DOMAIN m \ {k}
         /\ \A j \in DOMAIN m \ {k} : Without(m, k)[j] = m[j]
         /\ EntriesOf(Without(m, k)) \subseteq EntriesOf(m)
<1> DEFINE n == Without(m, k)
<1>1. DOMAIN n = DOMAIN m \ {k} /\ \A j \in DOMAIN n : n[j] = m[j]
  BY DEF Without
<1>2. n \in [DOMAIN m \ {k} -> Ids]
  BY MapElim DEF Without
<1>3. n \in Map
  BY <1>2, MapElim, MapIntro
<1> HIDE DEF n
<1>4. EntriesOf(n) \subseteq EntriesOf(m)
  BY <1>1, <1>3, MapElim
<1> QED
  BY <1>1, <1>3, <1>4, MapElim DEF n

(* What is found in a map is an entry in use.                              *)
LEMMA LookupIs ==
  ASSUME NEW m \in Map \cup {None}, NEW k
  PROVE  /\ Lookup(m, k) # None <=> m # None /\ k \in DOMAIN m
         /\ Lookup(m, k) # None => Lookup(m, k) = m[k]
         /\ Lookup(m, k) \in EntriesOf(m) \cup {None}
<1>1. m # None /\ k \in DOMAIN m => m[k] # None /\ m[k] \in EntriesOf(m)
  BY MapElim, SyncMapAssumption DEF Ids
<1> QED
  BY <1>1 DEF Lookup

LEMMA LiveHas ==
  ASSUME TypeOK
  PROVE  /\ EntriesOf(readM) \subseteq Live /\ EntriesOf(dirty) \subseteq Live
         /\ \A k \in DOMAIN readM : readM[k] \in Live
         /\ dirty # None => \A k \in DOMAIN dirty : dirty[k] \in Live
         /\ \A g \in G : e[g] # None => e[g] \in Live
         /\ \A g \in G : EntriesOf(rest[g]) \subseteq Live
         /\ \A g \in G : \A k \in DOMAIN rest[g] : rest[g][k] \in Live
<1>1. /\ EntriesOf(readM) \subseteq Live /\ EntriesOf(dirty) \subseteq Live
      /\ \A g \in G : e[g] # None => e[g] \in Live
      /\ \A g \in G : EntriesOf(rest[g]) \subseteq Live
  BY DEF Live
<1> QED
  BY <1>1, MapElim DEF TypeOK


-----------------------------------------------------------------------------
(* The calls.                                                              *)

Results == Value \cup BOOLEAN \cup {None}

(* The calls after a step that leaves them with entries of S.              *)
NextCalls(S) ==
  /\ pc' \in [G -> Kinds]
  /\ call' \in [G -> {None} \cup UNION {Call(g) : g \in G}]
  /\ \A h \in G : IF pc'[h] = "out" THEN call'[h] = None ELSE call'[h] \in Call(h)
  /\ e' \in [G -> Ids \cup {None}]
  /\ rest' \in [G -> Map]
  /\ res' \in [G -> Results]
  /\ \A h \in G : (e'[h] # None => e'[h] \in S) /\ EntriesOf(rest'[h]) \subseteq S

(* Those of the others.                                                    *)
Others(g) ==
  \A h \in G \ {g} : /\ pc'[h] = pc[h] /\ call'[h] = call[h]
                     /\ e'[h] = e[h] /\ rest'[h] = rest[h]

LEMMA Returns ==
  ASSUME TypeOK, NEW g \in G, NEW r \in Results, Return(g, r)
  PROVE  NextCalls(Live) /\ Others(g) /\ pc'[g] = "out"
<1>1. pc' \in [G -> Kinds] /\ pc'[g] = "out"
  BY DEF TypeOK, Return, Goto, Kinds
<1>2. e' \in [G -> Ids \cup {None}] /\ e'[g] = None
  BY DEF TypeOK, Return, Ids
<1>3. rest' \in [G -> Map] /\ rest'[g] = NoKeys
  BY NoKeysMap DEF TypeOK, Return
<1>4. res' \in [G -> Results]
  BY DEF TypeOK, Return, Results
<1>5. Others(g)
  BY DEF Others, Return, Goto, TypeOK
<1>6. call' \in [G -> {None} \cup UNION {Call(h) : h \in G}] /\ call'[g] = None
  BY DEF TypeOK, Return
<1>7. \A h \in G : IF pc'[h] = "out" THEN call'[h] = None ELSE call'[h] \in Call(h)
  BY <1>1, <1>5, <1>6 DEF TypeOK, Others
<1>8. \A h \in G : (e'[h] # None => e'[h] \in Live) /\ EntriesOf(rest'[h]) \subseteq Live
  BY <1>2, <1>3, <1>5, LiveHas, NoKeysMap DEF Others
<1> QED
  BY <1>1, <1>2, <1>3, <1>4, <1>5, <1>6, <1>7, <1>8 DEF NextCalls

LEMMA GoesOn ==
  ASSUME TypeOK, NEW g \in G, NEW c \in Call(g), NEW there \in Kinds \ {"out"},
         NEW i \in Live \cup {None}, i \in Ids \cup {None}, Goes(g, c, there, i)
  PROVE  /\ NextCalls(Live) /\ Others(g)
         /\ pc'[g] = there /\ call'[g] = c /\ e'[g] = i /\ rest'[g] = rest[g]
<1>1. pc' \in [G -> Kinds] /\ pc'[g] = there
  BY DEF TypeOK, Goes, Goto, Kinds
<1>2. e' \in [G -> Ids \cup {None}] /\ e'[g] = i
  BY DEF TypeOK, Goes, Ids
<1>3. rest' = rest /\ rest' \in [G -> Map]
  BY DEF TypeOK, Goes
<1>4. res' \in [G -> Results]
  BY DEF TypeOK, Goes, Results
<1>5. Others(g)
  BY DEF Others, Goes, Goto, TypeOK
<1>6. call' \in [G -> {None} \cup UNION {Call(h) : h \in G}] /\ call'[g] = c
  BY DEF TypeOK, Goes
<1>7. \A h \in G : IF pc'[h] = "out" THEN call'[h] = None ELSE call'[h] \in Call(h)
  BY <1>1, <1>5, <1>6 DEF TypeOK, Others
<1>8. \A h \in G : (e'[h] # None => e'[h] \in Live) /\ EntriesOf(rest'[h]) \subseteq Live
  BY <1>2, <1>3, <1>5, LiveHas DEF Others
<1> QED
  BY <1>1, <1>2, <1>3, <1>4, <1>5, <1>6, <1>7, <1>8 DEF NextCalls

(* The types, and the pointers of the entries in use, after a step that    *)
(* leaves q in the entries S.                                              *)
LEMMA Types ==
  ASSUME NEW S \in SUBSET Ids, NEW q \in [S -> Ptr], NextCalls(S), Heap(q),
         readM' \in Map, EntriesOf(readM') \subseteq S, amended' \in BOOLEAN,
         dirty' \in Map \cup {None}, EntriesOf(dirty') \subseteq S,
         misses' \in Nat, mu' \in G \cup {None}
  PROVE  TypeOK' /\ \A i \in Live' : i \in S /\ p'[i] = q[i]
<1>1. Live' \subseteq S
  <2>1. \A g \in G : e'[g] # None => e'[g] \in S
    BY DEF NextCalls
  <2>2. \A g \in G : EntriesOf(rest'[g]) \subseteq S
    BY DEF NextCalls
  <2>3. Live' = EntriesOf(readM') \cup EntriesOf(dirty') \cup ({e'[g] : g \in G} \ {None})
                  \cup UNION {EntriesOf(rest'[g]) : g \in G}
    BY DEF Live, EntriesOf
  <2> QED
    BY <2>1, <2>2, <2>3
<1>2. p' \in [Live' -> Ptr] /\ \A i \in Live' : p'[i] = q[i]
  BY <1>1 DEF Heap
<1>3. TypeOK'
  BY <1>2 DEF TypeOK, NextCalls, Ids, Kinds, Ptr, Results
<1> QED
  BY <1>1, <1>2, <1>3

LEMMA LiveIds == TypeOK => Live \subseteq Ids /\ p \in [Live -> Ptr]
<1> SUFFICES ASSUME TypeOK PROVE Live \subseteq Ids
  BY DEF TypeOK, Ptr
<1>1. EntriesOf(readM) \subseteq Ids
  BY MapElim DEF TypeOK
<1>2. EntriesOf(dirty) \subseteq Ids
  BY MapElim DEF TypeOK, EntriesOf
<1>3. \A g \in G : e[g] # None => e[g] \in Ids
  BY DEF TypeOK, Ids
<1>4. \A g \in G : EntriesOf(rest[g]) \subseteq Ids
  BY MapElim DEF TypeOK
<1> QED
  BY <1>1, <1>2, <1>3, <1>4 DEF Live

(* The same for a step that leaves the maps alone.                         *)
LEMMA TypesStill ==
  ASSUME TypeOK, NEW q \in [Live -> Ptr], NextCalls(Live), Heap(q),
         UNCHANGED <<readM, amended, dirty>>, misses' \in Nat, mu' \in G \cup {None}
  PROVE  TypeOK' /\ \A i \in Live' : i \in Live /\ p'[i] = q[i]
<1>1. /\ readM' \in Map /\ EntriesOf(readM') \subseteq Live /\ amended' \in BOOLEAN
      /\ dirty' \in Map \cup {None} /\ EntriesOf(dirty') \subseteq Live
  BY LiveHas DEF TypeOK
<1> QED
  BY <1>1, LiveIds, Types


-----------------------------------------------------------------------------
(* Steps that expunge nothing and leave the maps alone.                    *)

(* What an operation makes of a pointer.                                   *)
LEMMA PointerIs ==
  ASSUME NEW g \in G, NEW c \in Call(g), NEW ptr \in Ptr
  PROVE  /\ Pointer(c, ptr) \in Ptr
         /\ ptr # Expunged => Pointer(c, ptr) # Expunged
         /\ ptr = Expunged /\ ~Stores(c) => Pointer(c, ptr) = Expunged
         /\ Result(c, ptr) \in Results /\ NotFound(c) \in Results
         /\ Loaded(ptr) \in Results
         /\ Loaded(ptr) = None <=> ptr \in {Nil, Expunged}
<1>1. Loaded(ptr) \in Results /\ (Loaded(ptr) = None <=> ptr \in {Nil, Expunged})
  BY SyncMapAssumption DEF Loaded, Ptr, Results
<1>2. Result(c, ptr) \in Results /\ NotFound(c) \in Results
  BY <1>1 DEF Result, NotFound, Results
<1>3. /\ Pointer(c, ptr) \in Ptr
      /\ ptr # Expunged => Pointer(c, ptr) # Expunged
      /\ ptr = Expunged /\ ~Stores(c) => Pointer(c, ptr) = Expunged
  BY <1>1, SyncMapAssumption, CallAssumption DEF Pointer, Ptr, Stores
<1> QED
  BY <1>1, <1>2, <1>3

(* An entry that was or was not expunged stays so.                         *)
AsExpunged == \A i \in Live' : i \in Live /\ (p'[i] = Expunged <=> p[i] = Expunged)

LEMMA LiveHasNext ==
  ASSUME TypeOK'
  PROVE  /\ \A k \in DOMAIN readM' : readM'[k] \in Live'
         /\ dirty' # None => \A k \in DOMAIN dirty' : dirty'[k] \in Live'
         /\ \A g \in G : e'[g] # None => e'[g] \in Live'
         /\ \A g \in G : \A k \in DOMAIN rest'[g] : rest'[g][k] \in Live'
<1>1. /\ EntriesOf(readM') \subseteq Live' /\ EntriesOf(dirty') \subseteq Live'
      /\ \A g \in G : e'[g] # None => e'[g] \in Live'
      /\ \A g \in G : EntriesOf(rest'[g]) \subseteq Live'
  BY DEF Live, EntriesOf
<1> QED
  BY <1>1, MapElim DEF TypeOK

LEMMA QuietMaps ==
  ASSUME SyncMapInv, TypeOK', UNCHANGED <<readM, amended, dirty>>, AsExpunged
  PROVE  /\ OneKey' /\ DirtyClean' /\ (Complete => Complete')
         /\ \A g \in G : /\ Filling(g) /\ pc[g] = "expunge" 
                         /\ call'[g] = call[g] /\ rest'[g] = rest[g] 
                         => Filling(g)'
<1>1. OneKey'
  BY DEF SyncMapInv, DirtyInv, OneKey, SameKey
<1>2. \A k \in DOMAIN readM : p'[readM[k]] = Expunged <=> p[readM[k]] = Expunged
  BY LiveHasNext DEF AsExpunged
<1>3. dirty # None => \A k \in DOMAIN dirty : p'[dirty[k]] = Expunged <=> p[dirty[k]] = Expunged
  BY LiveHasNext DEF AsExpunged
<1>4. DirtyClean'
  BY <1>3 DEF SyncMapInv, DirtyInv, DirtyClean
<1>5. \A k \in DOMAIN readM : Kept(k, dirty) => Kept(k, dirty)'
  BY <1>2 DEF Kept
<1>6. Complete => Complete'
  BY <1>2, <1>5 DEF Complete
<1>7. ASSUME NEW g \in G, Filling(g), call'[g] = call[g], rest'[g] = rest[g]
      PROVE  Filling(g)'
  BY <1>2, <1>5, <1>7 DEF Filling
<1> QED
  BY <1>1, <1>4, <1>6, <1>7

(* The lock, and what is at hand, when g takes a step.                     *)
LEMMA LockStep ==
  ASSUME SyncMapInv, TypeOK', NEW g \in G, Others(g),
         mu' = g <=> pc'[g] \in Holding,
         mu' = mu \/ {mu, mu'} \subseteq {None, g},
         pc'[g] \in {"entry", "swap"} => e'[g] # None,
         pc'[g] = "swap" => p'[e'[g]] # Expunged,
         pc'[g] = "miss" => dirty' # None,
         mu \notin {None, g} => UNCHANGED dirty /\ AsExpunged
  PROVE  LockInv'
<1> SUFFICES ASSUME NEW h \in G
             PROVE  /\ mu' = h <=> pc'[h] \in Holding
                    /\ pc'[h] \in {"entry", "swap"} => e'[h] # None
                    /\ pc'[h] = "swap" => p'[e'[h]] # Expunged
                    /\ pc'[h] = "miss" => dirty' # None
  BY DEF LockInv
<1>1. CASE h = g
  BY <1>1
<1>2. CASE h # g
  <2>1. pc'[h] = pc[h] /\ e'[h] = e[h]
    BY <1>2 DEF Others
  <2>2. mu' = h <=> mu = h
    BY <1>2, SyncMapAssumption
  <2>3. pc[h] \in Holding => mu = h /\ h \notin {None, g}
    BY <1>2, SyncMapAssumption DEF SyncMapInv, LockInv
  <2>4. pc[h] = "swap" => p'[e[h]] # Expunged
    <3> SUFFICES ASSUME pc[h] = "swap" PROVE p'[e[h]] # Expunged
      OBVIOUS
    <3>1. AsExpunged /\ e[h] # None /\ p[e[h]] # Expunged
      BY <2>3 DEF Holding, SyncMapInv, LockInv
    <3>2. e'[h] \in Live'
      BY <2>1, <3>1, LiveHasNext
    <3> QED
      BY <2>1, <3>1, <3>2 DEF AsExpunged
  <2>5. pc[h] = "miss" => dirty' # None
    BY <2>3 DEF Holding, SyncMapInv, LockInv
  <2> QED
    BY <2>1, <2>2, <2>4, <2>5 DEF SyncMapInv, LockInv
<1> QED
  BY <1>1, <1>2

LEMMA QuietStep ==
  ASSUME SyncMapInv, TypeOK', NEW g \in G, Others(g),
         UNCHANGED <<readM, amended, dirty>>, AsExpunged,
         pc[g] # "expunge", pc'[g] # "expunge",
         mu' = g <=> pc'[g] \in Holding,
         mu' = mu \/ {mu, mu'} \subseteq {None, g},
         pc'[g] \in {"entry", "swap"} => e'[g] # None,
         pc'[g] = "swap" => p'[e'[g]] # Expunged,
         pc'[g] = "miss" => dirty' # None
  PROVE  SyncMapInv'
<1>1. LockInv'
  BY LockStep
<1>2. OneKey' /\ DirtyClean' /\ (Complete => Complete')
  BY QuietMaps
<1>3. (\A h \in G : pc'[h] # "expunge") => Complete'
  BY <1>2 DEF Others, SyncMapInv, DirtyInv
<1>4. \A h \in G : pc'[h] = "expunge" => Filling(h)'
  BY QuietMaps DEF Others, SyncMapInv, DirtyInv
<1> QED
  BY <1>1, <1>2, <1>3, <1>4 DEF SyncMapInv, DirtyInv

(* A step of g without the lock, before and after.                         *)
LEMMA FreeStep ==
  ASSUME SyncMapInv, TypeOK', NEW g \in G, Others(g), UNCHANGED mvars, AsExpunged,
         pc[g] \notin Holding, pc'[g] \notin Holding,
         pc'[g] = "entry" => e'[g] # None
  PROVE  SyncMapInv'
<1>1. mu # g
  BY DEF SyncMapInv, LockInv
<1> QED
  BY <1>1, QuietStep DEF mvars, Holding


(* A step without the lock that changes the pointers to q.                 *)
LEMMA FreeCall ==
  ASSUME SyncMapInv, NEW g \in G, NEW q \in [Live -> Ptr], Heap(q),
         \A i \in Live : q[i] = Expunged <=> p[i] = Expunged,
         NextCalls(Live), Others(g), UNCHANGED mvars,
         pc[g] \notin Holding, pc'[g] \notin Holding,
         pc'[g] = "entry" => e'[g] # None
  PROVE  SyncMapInv'
<1>1. TypeOK
  BY DEF SyncMapInv
<1>2. misses' \in Nat /\ mu' \in G \cup {None} /\ UNCHANGED <<readM, amended, dirty>>
  BY <1>1 DEF TypeOK, mvars
<1>3. TypeOK' /\ AsExpunged
  BY <1>1, <1>2, TypesStill DEF AsExpunged
<1> QED
  BY <1>3, FreeStep

LEMMA HitInv ==
  ASSUME SyncMapInv, NEW g \in G, NEW c \in Call(g), Hit(g, c) PROVE SyncMapInv'
<1>1. TypeOK
  BY DEF SyncMapInv
<1>2. readM[c.key] \in Live /\ readM[c.key] \in Ids /\ readM[c.key] # None
  BY <1>1, LiveHas, LiveIds, SyncMapAssumption DEF Hit, Ids
<1>3. /\ NextCalls(Live) /\ Others(g)
      /\ pc'[g] = "entry" /\ e'[g] # None
  BY <1>1, <1>2, GoesOn DEF Hit, Kinds
<1>4. p \in [Live -> Ptr]
  BY <1>1, LiveIds
<1> QED
  BY <1>3, <1>4, FreeCall DEF Hit, At, Holding

LEMMA MissInv ==
  ASSUME SyncMapInv, NEW g \in G, NEW c \in Call(g), Miss(g, c) PROVE SyncMapInv'
<1>1. TypeOK /\ p \in [Live -> Ptr]
  BY LiveIds DEF SyncMapInv
<1>2. NextCalls(Live) /\ Others(g) /\ pc'[g] \in {"slow", "out"}
  <2>1. CASE Goes(g, c, "slow", None)
    BY <1>1, <2>1, GoesOn DEF Kinds
  <2>2. CASE Return(g, NotFound(c))
    <3>1. NotFound(c) \in Results
      BY DEF NotFound, Results
    <3> QED
      BY <1>1, <2>2, <3>1, Returns
  <2> QED
    BY <2>1, <2>2 DEF Miss
<1> QED
  BY <1>1, <1>2, FreeCall DEF Miss, At, Holding

LEMMA EntryInv ==
  ASSUME SyncMapInv, NEW g \in G, Entry(g) PROVE SyncMapInv'
<1> DEFINE i == e[g]
           c == call[g]
<1>1. TypeOK /\ p \in [Live -> Ptr] /\ pc[g] = "entry" /\ i # None /\ c \in Call(g)
  BY LiveIds DEF SyncMapInv, LockInv, Entry, At, TypeOK
<1>2. i \in Live /\ p[i] \in Ptr
  BY <1>1, LiveHas
<1>3. CASE Stores(c) /\ p[i] = Expunged
  <2>1. Goes(g, c, "slow", None) /\ Heap(p) /\ UNCHANGED mvars
    BY <1>3 DEF Entry
  <2>2. NextCalls(Live) /\ Others(g) /\ pc'[g] = "slow"
    BY <1>1, <2>1, GoesOn DEF Kinds
  <2> QED
    BY <1>1, <2>1, <2>2, FreeCall DEF Holding
<1>4. CASE ~(Stores(c) /\ p[i] = Expunged)
  <2> DEFINE q == [p EXCEPT ![i] = Pointer(c, @)]
  <2>1. Return(g, Result(c, p[i])) /\ Heap(q) /\ UNCHANGED mvars
    BY <1>4 DEF Entry
  <2>2. Result(c, p[i]) \in Results /\ Pointer(c, p[i]) \in Ptr
        /\ (Pointer(c, p[i]) = Expunged <=> p[i] = Expunged)
    BY <1>1, <1>2, <1>4, PointerIs
  <2>3. q \in [Live -> Ptr] /\ \A j \in Live : q[j] = Expunged <=> p[j] = Expunged
    BY <1>1, <1>2, <2>2
  <2>4. NextCalls(Live) /\ Others(g) /\ pc'[g] = "out"
    BY <1>1, <2>1, <2>2, Returns
  <2> HIDE DEF q
  <2> QED
    BY <1>1, <2>1, <2>3, <2>4, FreeCall DEF Holding
<1> QED
  BY <1>3, <1>4

LEMMA RangeEntryInv ==
  ASSUME SyncMapInv, NEW g \in G, RangeEntry(g) PROVE SyncMapInv'
<1>1. TypeOK /\ p \in [Live -> Ptr] /\ pc[g] = "range"
  BY LiveIds DEF SyncMapInv, RangeEntry, At
<1>2. PICK k \in DOMAIN rest[g] :
        /\ rest' = [rest EXCEPT ![g] = Without(@, k)]
        /\ res' = IF k = call[g].key THEN [res EXCEPT ![g] = Loaded(p[rest[g][k]])] ELSE res
  BY DEF RangeEntry
<1>3. rest' \in [G -> Map] /\ \A h \in G : EntriesOf(rest'[h]) \subseteq Live
  <2>1. /\ Without(rest[g], k) \in Map
        /\ EntriesOf(Without(rest[g], k)) \subseteq Live
    BY <1>1, WithoutMap, LiveHas DEF TypeOK
  <2> QED
    BY <1>1, <1>2, <2>1, LiveHas DEF TypeOK
<1>4. res' \in [G -> Results]
  <2>1. p[rest[g][k]] \in Ptr
    BY <1>1, LiveHas
  <2>2. Loaded(p[rest[g][k]]) \in Results
    BY <2>1 DEF Loaded, Ptr, Results
  <2> QED
    BY <1>1, <1>2, <2>2 DEF TypeOK, Results
<1>5. NextCalls(Live) /\ Others(g) /\ pc'[g] = "range"
  BY <1>1, <1>2, <1>3, <1>4, LiveHas
  DEF RangeEntry, NextCalls, Others, TypeOK, Kinds, Ids
<1> QED
  BY <1>1, <1>5, FreeCall DEF RangeEntry, Holding

LEMMA RangeEndInv ==
  ASSUME SyncMapInv, NEW g \in G, RangeEnd(g) PROVE SyncMapInv'
<1>1. TypeOK /\ p \in [Live -> Ptr]
  BY LiveIds DEF SyncMapInv
<1>2. NextCalls(Live) /\ Others(g) /\ pc'[g] = "out"
  BY <1>1, Returns DEF RangeEnd, TypeOK, Results
<1> QED
  BY <1>1, <1>2, FreeCall DEF RangeEnd, At, Holding

(* The calls when g begins to iterate over m.                              *)
LEMMA IteratesOn ==
  ASSUME TypeOK, NEW g \in G, NEW m \in Map, EntriesOf(m) \subseteq Live, Iterates(g, m),
         NEW c \in Call(g), call' = [call EXCEPT ![g] = c]
  PROVE  NextCalls(Live) /\ Others(g) /\ pc'[g] = "range"
<1>1. pc' \in [G -> Kinds] /\ pc'[g] = "range"
  BY DEF TypeOK, Iterates, Goto, Kinds
<1>2. rest' \in [G -> Map] /\ \A h \in G : EntriesOf(rest'[h]) \subseteq Live
  BY LiveHas DEF TypeOK, Iterates
<1>3. call' \in [G -> {None} \cup UNION {Call(h) : h \in G}] /\ call'[g] = c
  BY DEF TypeOK
<1>4. Others(g)
  BY DEF Others, Iterates, Goto, TypeOK
<1>5. \A h \in G : IF pc'[h] = "out" THEN call'[h] = None ELSE call'[h] \in Call(h)
  BY <1>1, <1>3, <1>4 DEF TypeOK, Others
<1>6. e' = e /\ res' \in [G -> Results]
  BY DEF Iterates, TypeOK, Results
<1> QED
  BY <1>1, <1>2, <1>3, <1>4, <1>5, <1>6, LiveHas DEF NextCalls, TypeOK, Ids

LEMMA RangeBeginInv ==
  ASSUME SyncMapInv, NEW g \in G, NEW c \in Call(g), RangeBegin(g, c)
  PROVE  SyncMapInv'
<1>1. TypeOK /\ p \in [Live -> Ptr]
  BY LiveIds DEF SyncMapInv
<1>2. NextCalls(Live) /\ Others(g) /\ pc'[g] \in {"slow", "range"}
  <2>1. CASE Goes(g, c, "slow", None)
    BY <1>1, <2>1, GoesOn DEF Kinds
  <2>2. CASE Iterates(g, readM) /\ call' = [call EXCEPT ![g] = c]
    BY <1>1, <2>2, IteratesOn, LiveHas DEF TypeOK
  <2> QED
    BY <2>1, <2>2 DEF RangeBegin
<1> QED
  BY <1>1, <1>2, FreeCall DEF RangeBegin, At, Holding


-----------------------------------------------------------------------------
(* Steps under the lock.                                                   *)

(* Who has the lock, or finds it free, finds the dirty map complete.       *)
LEMMA LockedComplete ==
  ASSUME SyncMapInv, NEW g \in G, mu \in {None, g}, pc[g] # "expunge"
  PROVE  Complete /\ \A h \in G \ {g} : pc[h] \notin Holding
<1>1. \A h \in G \ {g} : pc[h] \notin Holding
  BY SyncMapAssumption DEF SyncMapInv, LockInv
<1> QED
  BY <1>1 DEF SyncMapInv, DirtyInv, Holding

(* A step that leaves the maps alone.                                      *)
LEMMA QuietCall ==
  ASSUME SyncMapInv, NEW g \in G, NEW q \in [Live -> Ptr], Heap(q),
         \A i \in Live : q[i] = Expunged <=> p[i] = Expunged,
         NextCalls(Live), Others(g),
         UNCHANGED <<readM, amended, dirty>>, misses' \in Nat,
         {mu, mu'} \subseteq {None, g}, mu' = g <=> pc'[g] \in Holding,
         pc[g] # "expunge", pc'[g] # "expunge",
         pc'[g] \in {"entry", "swap"} => e'[g] # None,
         pc'[g] = "swap" => q[e'[g]] # Expunged,
         pc'[g] = "miss" => dirty # None
  PROVE  SyncMapInv'
<1>1. TypeOK /\ mu' \in G \cup {None}
  BY DEF SyncMapInv
<1>2. TypeOK' /\ \A i \in Live' : i \in Live /\ p'[i] = q[i]
  BY <1>1, TypesStill
<1>3. AsExpunged
  BY <1>2 DEF AsExpunged
<1>4. pc'[g] = "swap" => p'[e'[g]] # Expunged
  BY <1>2, LiveHasNext
<1> QED
  BY <1>2, <1>3, <1>4, QuietStep

(* A step that leaves the dirty map complete.                              *)
LEMMA MapsStep ==
  ASSUME SyncMapInv, TypeOK', NEW g \in G, Others(g),
         OneKey', DirtyClean', Complete',
         {mu, mu'} \subseteq {None, g}, mu' = g <=> pc'[g] \in Holding,
         pc'[g] # "expunge",
         pc'[g] \in {"entry", "swap"} => e'[g] # None,
         pc'[g] = "swap" => p'[e'[g]] # Expunged,
         pc'[g] = "miss" => dirty' # None
  PROVE  SyncMapInv'
<1>1. LockInv'
  BY LockStep
<1>2. \A h \in G : pc'[h] # "expunge"
  BY <1>1, SyncMapAssumption DEF LockInv, Holding
<1> QED
  BY <1>1, <1>2 DEF SyncMapInv, DirtyInv

(* missLocked, for what is left of the dirty map.                          *)
LEMMA MissLockedInv ==
  ASSUME SyncMapInv, NEW g \in G, NextCalls(Live), Others(g), Heap(p),
         NEW d \in Map, dirty # None, DOMAIN d \subseteq DOMAIN dirty,
         \A k \in DOMAIN d : d[k] = dirty[k],
         \A k \in DOMAIN readM : k \in DOMAIN dirty => k \in DOMAIN d,
         MissLocked(d),
         mu \in {None, g}, mu' = None, pc[g] # "expunge",
         pc'[g] \in {"entry", "out"}, pc'[g] = "entry" => e'[g] # None
  PROVE  SyncMapInv'
<1> USE DEF SyncMapInv
<1>1. Complete /\ OneKey /\ DirtyClean
  BY LockedComplete DEF DirtyInv
<1>2. EntriesOf(d) \subseteq Live /\ d # None
  BY MapElim, LiveHas DEF TypeOK
<1>3. \/ readM' = readM /\ amended' = amended /\ dirty' = d /\ misses' \in Nat
      \/ readM' = d /\ amended' = FALSE /\ dirty' = None /\ misses' \in Nat
  BY DEF MissLocked, TypeOK
<1>4. EntriesOf(None) = {}
  BY DEF EntriesOf
<1>5. /\ readM' \in Map /\ EntriesOf(readM') \subseteq Live /\ amended' \in BOOLEAN
      /\ dirty' \in Map \cup {None} /\ EntriesOf(dirty') \subseteq Live
  BY <1>2, <1>3, <1>4, LiveHas DEF TypeOK
<1>6. TypeOK' /\ \A i \in Live' : i \in Live /\ p'[i] = p[i]
  BY <1>3, <1>5, LiveIds, Types
<1>7. OneKey' /\ DirtyClean' /\ Complete'
  <2>1. CASE readM' = readM /\ amended' = amended /\ dirty' = d
    <3>1. \A k \in DOMAIN readM : p'[readM[k]] = p[readM[k]]
      BY <1>6, <2>1, LiveHasNext
    <3>2. \A k \in DOMAIN d : p'[d[k]] = p[d[k]]
      BY <1>2, <1>6, <2>1, LiveHasNext
    <3>3. OneKey'
      BY <1>1, <2>1 DEF OneKey, SameKey
    <3>4. DirtyClean'
      BY <1>1, <2>1, <3>2 DEF DirtyClean
    <3>5. Complete'
      BY <1>1, <1>2, <2>1, <3>1 DEF Complete, Kept
    <3> QED
      BY <3>3, <3>4, <3>5
  <2>2. CASE readM' = d /\ amended' = FALSE /\ dirty' = None
    <3>1. \A k \in DOMAIN d : p'[d[k]] = p[d[k]]
      BY <1>6, <2>2, LiveHasNext
    <3>2. \A k \in DOMAIN d : p[d[k]] # Expunged
      BY <1>1 DEF DirtyClean
    <3>3. OneKey'
      BY <1>1, <2>2 DEF OneKey, SameKey
    <3> QED
      BY <2>2, <3>1, <3>2, <3>3 DEF DirtyClean, Complete
  <2> QED
    BY <1>3, <2>1, <2>2
<1> QED
  BY <1>6, <1>7, MapsStep, SyncMapAssumption DEF Holding


LEMMA FindInv ==
  ASSUME SyncMapInv, NEW g \in G, Find(g) PROVE SyncMapInv'
<1> DEFINE c == call[g]
           k == c.key
           i == IF k \in DOMAIN readM THEN readM[k]
                ELSE IF amended THEN Lookup(dirty, k) ELSE None
<1>1. TypeOK /\ p \in [Live -> Ptr] /\ pc[g] = "slow" /\ mu = None /\ mu' = None
      /\ c \in Call(g) /\ Heap(p)
  BY LiveIds DEF SyncMapInv, Find, Locks, At, TypeOK
<1>2. Complete
  BY <1>1, LockedComplete
<1>3. i \in Live \cup {None} /\ i \in Ids \cup {None}
  <2>1. k \in DOMAIN readM => i \in Live
    BY <1>1, LiveHas
  <2>2. k \notin DOMAIN readM => i \in Live \cup {None}
    BY <1>1, LiveHas, LookupIs DEF TypeOK
  <2> QED
    BY <1>1, <2>1, <2>2, LiveIds
<1>4. /\ NextCalls(Live) /\ Others(g)
      /\ pc'[g] \in {"entry", "out"} /\ (pc'[g] = "entry" => e'[g] # None)
  <2>1. CASE i # None /\ Goes(g, c, "entry", i)
    <3> HIDE DEF i
    <3> QED
      BY <1>1, <1>3, <2>1, GoesOn DEF Kinds
  <2>2. CASE Return(g, NotFound(c))
    <3>1. NotFound(c) \in Results
      BY DEF NotFound, Results
    <3> QED
      BY <1>1, <2>2, <3>1, Returns
  <2> QED
    BY <2>1, <2>2 DEF Find
<1>5. CASE k \notin DOMAIN readM /\ amended
  <2>1. dirty # None /\ dirty \in Map
    BY <1>1, <1>2, <1>5 DEF Complete, TypeOK
  <2>2. MissLocked(dirty) \/ MissLocked(Without(dirty, k))
    BY <1>5 DEF Find
  <2>3. /\ Without(dirty, k) \in Map
        /\ DOMAIN Without(dirty, k) = DOMAIN dirty \ {k}
        /\ \A j \in DOMAIN dirty \ {k} : Without(dirty, k)[j] = dirty[j]
    BY <2>1, WithoutMap
  <2>4. CASE MissLocked(dirty)
    BY <1>1, <1>4, <2>1, <2>4, MissLockedInv
  <2>5. CASE MissLocked(Without(dirty, k))
    BY <1>1, <1>4, <1>5, <2>1, <2>3, <2>5, MissLockedInv
  <2> QED
    BY <2>2, <2>4, <2>5
<1>6. CASE ~(k \notin DOMAIN readM /\ amended)
  <2>1. UNCHANGED <<readM, amended, dirty, misses>> /\ misses' \in Nat
    BY <1>1, <1>6 DEF Find, TypeOK
  <2> QED
    BY <1>1, <1>4, <2>1, QuietCall, SyncMapAssumption DEF Holding
<1> QED
  BY <1>5, <1>6

LEMMA CountMissInv ==
  ASSUME SyncMapInv, NEW g \in G, CountMiss(g) PROVE SyncMapInv'
<1>1. TypeOK /\ pc[g] = "miss" /\ mu = g /\ dirty # None /\ dirty \in Map
  BY DEF SyncMapInv, LockInv, CountMiss, At, TypeOK, Holding
<1>2. NextCalls(Live) /\ Others(g) /\ pc'[g] = "out"
  BY <1>1, Returns DEF CountMiss, TypeOK, Results
<1> QED
  BY <1>1, <1>2, MissLockedInv DEF CountMiss

LEMMA SwapLockedInv ==
  ASSUME SyncMapInv, NEW g \in G, SwapLocked(g) PROVE SyncMapInv'
<1> DEFINE i == e[g]
           c == call[g]
           q == [p EXCEPT ![i] = Pointer(c, @)]
<1>1. /\ TypeOK /\ p \in [Live -> Ptr] /\ pc[g] = "swap" /\ mu = g
      /\ i # None /\ p[i] # Expunged /\ c \in Call(g)
  BY LiveIds DEF SyncMapInv, LockInv, SwapLocked, At, TypeOK, Holding
<1>2. i \in Live /\ p[i] \in Ptr
  BY <1>1, LiveHas
<1>3. /\ Result(c, p[i]) \in Results /\ Pointer(c, p[i]) \in Ptr
      /\ Pointer(c, p[i]) # Expunged
  BY <1>1, <1>2, PointerIs
<1>4. q \in [Live -> Ptr] /\ \A j \in Live : q[j] = Expunged <=> p[j] = Expunged
  BY <1>1, <1>2, <1>3
<1>5. NextCalls(Live) /\ Others(g) /\ pc'[g] = "out"
  BY <1>1, <1>3, Returns DEF SwapLocked
<1>6. Heap(q) /\ UNCHANGED <<readM, amended, dirty>> /\ misses' \in Nat /\ mu' = None
  BY <1>1 DEF SwapLocked, TypeOK
<1> HIDE DEF q
<1> QED
  BY <1>1, <1>4, <1>5, <1>6, QuietCall, SyncMapAssumption DEF Holding

LEMMA SwapAtOnceInv ==
  ASSUME SyncMapInv, NEW g \in G, SwapAtOnce(g) PROVE SyncMapInv'
<1> DEFINE c == call[g]
           k == c.key
           i == IF k \in DOMAIN readM THEN readM[k] ELSE Lookup(dirty, k)
           q == [p EXCEPT ![i] = Pointer(c, @)]
<1>1. /\ TypeOK /\ p \in [Live -> Ptr] /\ pc[g] = "slow" /\ mu = None
      /\ c \in Call(g) /\ c.kind \in {"CompareAndSwap", "Swap"}
  BY LiveIds DEF SyncMapInv, SwapAtOnce, Locks, At, TypeOK
<1>2. UNCHANGED <<readM, amended, dirty>> /\ misses' \in Nat /\ mu' = None
  BY <1>1 DEF SwapAtOnce, mvars, TypeOK
<1>3. CASE i # None /\ Return(g, Result(c, p[i])) /\ Heap(q)
  <2>1. i \in Live
    <3>1. k \in DOMAIN readM => i \in Live
      BY <1>1, LiveHas
    <3>2. k \notin DOMAIN readM => i \in Live
      BY <1>1, <1>3, LiveHas, LookupIs DEF TypeOK
    <3> QED
      BY <3>1, <3>2
  <2>2. c.kind = "Swap" => p[i] # Expunged
    <3> SUFFICES ASSUME c.kind = "Swap" PROVE p[i] # Expunged
      OBVIOUS
    <3>1. k \notin DOMAIN readM /\ i = Lookup(dirty, k) /\ i # None
      BY DEF SwapAtOnce, Locks
    <3>2. dirty # None /\ k \in DOMAIN dirty /\ i = dirty[k]
      BY <1>1, <3>1, LookupIs DEF TypeOK
    <3> QED
      BY <3>2 DEF SyncMapInv, DirtyInv, DirtyClean
  <2>3. /\ Result(c, p[i]) \in Results /\ Pointer(c, p[i]) \in Ptr
        /\ Pointer(c, p[i]) = Expunged <=> p[i] = Expunged
    BY <1>1, <2>1, <2>2, PointerIs DEF Stores
  <2>4. q \in [Live -> Ptr] /\ \A j \in Live : q[j] = Expunged <=> p[j] = Expunged
    BY <1>1, <2>1, <2>3
  <2>5. NextCalls(Live) /\ Others(g) /\ pc'[g] = "out"
    BY <1>1, <1>3, <2>3, Returns
  <2> HIDE DEF q
  <2> QED
    BY <1>1, <1>2, <1>3, <2>4, <2>5, QuietCall, SyncMapAssumption DEF Holding
<1>4. CASE Return(g, NotFound(c)) /\ Heap(p)
  <2>1. NotFound(c) \in Results
    BY DEF NotFound, Results
  <2>2. NextCalls(Live) /\ Others(g) /\ pc'[g] = "out"
    BY <1>1, <1>4, <2>1, Returns
  <2> QED
    BY <1>1, <1>2, <1>4, <2>2, QuietCall, SyncMapAssumption DEF Holding
<1> QED
  BY <1>3, <1>4 DEF SwapAtOnce

LEMMA SwapDirtyInv ==
  ASSUME SyncMapInv, NEW g \in G, SwapDirty(g) PROVE SyncMapInv'
<1> DEFINE c == call[g]
           i == Lookup(dirty, c.key)
           q == [p EXCEPT ![i] = Pointer(c, @)]
<1>1. /\ TypeOK /\ p \in [Live -> Ptr] /\ pc[g] = "slow" /\ mu = None
      /\ c \in Call(g) /\ i # None
  BY LiveIds DEF SyncMapInv, SwapDirty, Locks, At, TypeOK
<1>2. /\ UNCHANGED <<readM, amended, dirty>> /\ misses' \in Nat /\ mu' = g
      /\ Heap(q)
  BY <1>1 DEF SwapDirty, TypeOK
<1>3. dirty # None /\ c.key \in DOMAIN dirty /\ i = dirty[c.key]
  BY <1>1, LookupIs DEF TypeOK
<1>4. i \in Live /\ p[i] # Expunged
  BY <1>1, <1>3, LiveHas DEF SyncMapInv, DirtyInv, DirtyClean
<1>5. /\ Result(c, p[i]) \in Results /\ Pointer(c, p[i]) \in Ptr
      /\ Pointer(c, p[i]) # Expunged
  BY <1>1, <1>4, PointerIs
<1>6. q \in [Live -> Ptr] /\ \A j \in Live : q[j] = Expunged <=> p[j] = Expunged
  BY <1>1, <1>4, <1>5
<1>7. pc' \in [G -> Kinds] /\ pc'[g] = "miss" /\ UNCHANGED <<call, e, rest>>
  BY <1>1 DEF SwapDirty, Goto, TypeOK, Kinds
<1>8. Others(g)
  BY <1>1, <1>7 DEF Others, SwapDirty, Goto, TypeOK
<1>9. res' \in [G -> Results]
  BY <1>1, <1>5 DEF SwapDirty, TypeOK, Results
<1>10. NextCalls(Live)
  <2>1. \A h \in G : IF pc'[h] = "out" THEN call'[h] = None ELSE call'[h] \in Call(h)
    BY <1>1, <1>7, <1>8 DEF Others, TypeOK
  <2> QED
    BY <1>1, <1>7, <1>9, <2>1, LiveHas DEF NextCalls, TypeOK, Ids
<1> HIDE DEF q
<1> QED
  BY <1>1, <1>2, <1>3, <1>6, <1>7, <1>8, <1>10, QuietCall DEF Holding


LEMMA UnexpungeInv ==
  ASSUME SyncMapInv, NEW g \in G, Unexpunge(g) PROVE SyncMapInv'
<1> DEFINE c == call[g]
           k == c.key
           i == readM[k]
<1>1. /\ TypeOK /\ p \in [Live -> Ptr] /\ pc[g] = "slow" /\ mu = None
      /\ c \in Call(g) /\ k \in DOMAIN readM /\ readM \in Map /\ mu' = g
  BY LiveIds DEF SyncMapInv, Unexpunge, Locks, At, TypeOK
<1>2. i \in Live /\ i \in Ids /\ i # None /\ k \in Key
  BY <1>1, LiveHas, LiveIds, MapElim, SyncMapAssumption DEF Ids
<1>3. /\ NextCalls(Live) /\ Others(g)
      /\ pc'[g] = "swap" /\ e'[g] = i
  BY <1>1, <1>2, GoesOn DEF Unexpunge, Kinds
<1>4. UNCHANGED <<readM, amended, misses>> /\ misses' \in Nat /\ amended' \in BOOLEAN
  BY <1>1 DEF Unexpunge, TypeOK
<1>5. CASE p[i] # Expunged
  <2>1. UNCHANGED dirty /\ Heap(p)
    BY <1>5 DEF Unexpunge
  <2> QED
    BY <1>1, <1>2, <1>3, <1>4, <1>5, <2>1, QuietCall DEF Holding
<1>6. CASE p[i] = Expunged
  <2> DEFINE q == [p EXCEPT ![i] = Nil]
             d == With(dirty, k, i)
  <2>1. dirty' = d /\ Heap(q)
    BY <1>6 DEF Unexpunge
  <2>2. Complete /\ OneKey /\ DirtyClean
    BY <1>1, LockedComplete DEF SyncMapInv, DirtyInv
  <2>3. dirty # None /\ dirty \in Map
    BY <1>1, <1>6, <2>2 DEF Complete, TypeOK
  <2>4. k \notin DOMAIN dirty
    BY <1>1, <1>6, <2>2, <2>3 DEF Complete, Kept
  <2>5. /\ d \in Map /\ d # None /\ DOMAIN d = DOMAIN dirty \cup {k}
        /\ \A j \in DOMAIN dirty : d[j] = dirty[j]
        /\ d[k] = i
        /\ EntriesOf(d) \subseteq Live
    BY <1>1, <1>2, <2>3, <2>4, WithMap, LiveHas
  <2>6. q \in [Live -> Ptr]
    BY <1>1, <1>2 DEF Ptr
  <2> HIDE DEF d, q
  <2>7. TypeOK' /\ \A j \in Live' : j \in Live /\ p'[j] = q[j]
    BY <1>1, <1>3, <1>4, <2>1, <2>5, <2>6, LiveIds, LiveHas, Types
  <2>8. \A j \in Live' : p'[j] = IF j = i THEN Nil ELSE p[j]
    BY <1>1, <1>2, <2>7 DEF q
  <2>9. \A j \in DOMAIN readM : readM[j] = i <=> j = k
    BY <1>1, <2>2 DEF OneKey, SameKey
  <2>10. \A j \in DOMAIN dirty : dirty[j] # i
    BY <1>1, <2>2, <2>3, <2>4 DEF OneKey, SameKey
  <2>11. OneKey'
    BY <1>1, <1>4, <2>1, <2>2, <2>3, <2>5, <2>9, <2>10 DEF OneKey, SameKey
  <2>12. DirtyClean'
    BY <2>1, <2>2, <2>3, <2>5, <2>7, <2>8, LiveHasNext, SyncMapAssumption DEF DirtyClean
  <2>13. Complete'
    <3>1. \A j \in DOMAIN readM : p'[readM[j]] = IF j = k THEN Nil ELSE p[readM[j]]
      BY <1>4, <2>7, <2>8, <2>9, LiveHasNext
    <3>2. \A j \in DOMAIN readM : Kept(j, dirty)'
      BY <1>4, <2>1, <2>2, <2>3, <2>5, <3>1, SyncMapAssumption DEF Complete, Kept
    <3> QED
      BY <1>4, <2>1, <2>2, <2>3, <2>5, <3>2 DEF Complete
  <2>14. p'[i] # Expunged
    <3>1. i \in Live'
      BY <1>1, <1>4, <2>7, LiveHasNext
    <3> QED
      BY <2>8, <3>1, SyncMapAssumption
  <2> QED
    BY <1>1, <1>2, <1>3, <2>7, <2>11, <2>12, <2>13, <2>14, MapsStep DEF Holding
<1> QED
  BY <1>5, <1>6

(* A new entry, for a key that m.read does not have.                       *)
LEMMA InsertInv ==
  ASSUME SyncMapInv, NEW g \in G, mu \in {None, g}, Stores(call[g]), pc[g] # "out",
         call[g].key \notin DOMAIN readM,
         dirty # None, \A k \in DOMAIN readM : Kept(k, dirty),
         Insert(g, dirty)
  PROVE  SyncMapInv'
<1> DEFINE c == call[g]
           l == c.key
<1>1. PICK i \in Ids :
        /\ i \notin DOMAIN p
        /\ dirty' = With(dirty, l, i) /\ amended' = TRUE /\ mu' = None
        /\ Return(g, None) /\ UNCHANGED <<readM, misses>>
        /\ Heap([j \in DOMAIN p \cup {i} |-> IF j = i THEN c.val ELSE p[j]])
  BY DEF Insert, Ids
<1>2. /\ TypeOK /\ p \in [Live -> Ptr] /\ i \notin Live
      /\ c \in Call(g) /\ readM \in Map /\ dirty \in Map
      /\ misses' \in Nat /\ Live \cup {i} \in SUBSET Ids
  BY <1>1, LiveIds DEF SyncMapInv, TypeOK
<1>3. c.val \in Value /\ l \in Key
  BY <1>2, CallAssumption DEF Key
<1> DEFINE S == Live \cup {i}
           q == [j \in S |-> IF j = i THEN c.val ELSE p[j]]
           d == With(dirty, l, i)
<1>4. q \in [S -> Ptr] /\ Heap(q)
  <2>1. DOMAIN p = Live
    BY <1>2
  <2> QED
    BY <1>1, <1>2, <1>3, <2>1 DEF Ptr
<1>5. /\ d \in Map /\ d # None /\ DOMAIN d = DOMAIN dirty \cup {l}
      /\ \A j \in DOMAIN d : d[j] = IF j = l THEN i ELSE dirty[j]
      /\ EntriesOf(d) \subseteq S /\ EntriesOf(readM) \subseteq S
  <2>1. EntriesOf(dirty) \subseteq Live /\ EntriesOf(readM) \subseteq Live
    BY <1>2, LiveHas
  <2>2. dirty \in Map /\ l \in Key /\ i \in Ids
    BY <1>1, <1>2, <1>3
  <2> HIDE DEF c, l
  <2>3. /\ With(dirty, l, i) \in Map /\ With(dirty, l, i) # None
        /\ DOMAIN With(dirty, l, i) = DOMAIN dirty \cup {l}
        /\ \A j \in DOMAIN dirty \cup {l} :
             With(dirty, l, i)[j] = IF j = l THEN i ELSE dirty[j]
        /\ EntriesOf(With(dirty, l, i)) \subseteq EntriesOf(dirty) \cup {i}
    <3> HIDE DEF S, q, d
    <3> QED
      BY <2>2, WithMap
  <2>4. d = With(dirty, l, i) /\ S = Live \cup {i}
    OBVIOUS
  <2> HIDE DEF S, q, d
  <2> QED
    BY <2>1, <2>3, <2>4
<1>6. NextCalls(Live) /\ Others(g) /\ pc'[g] = "out"
  BY <1>1, <1>2, Returns DEF Results
<1>7. NextCalls(S)
  BY <1>6 DEF NextCalls
<1>8. dirty' = d /\ \A j \in S : q[j] = IF j = i THEN c.val ELSE p[j]
  BY <1>1
<1> HIDE DEF S, q, d
<1>9. TypeOK' /\ \A j \in Live' : j \in S /\ p'[j] = q[j]
  <2>1. S \in SUBSET Ids
    BY <1>2 DEF S
  <2> QED
    BY <1>1, <1>2, <1>4, <1>5, <1>7, <1>8, <2>1, Types
<1>10. \A j \in DOMAIN readM : readM[j] # i /\ p'[readM[j]] = p[readM[j]]
  <2>1. \A j \in DOMAIN readM : readM[j] \in Live
    BY <1>2, LiveHas
  <2> QED
    BY <1>1, <1>2, <1>8, <1>9, <2>1, LiveHasNext
<1>11. \A j \in DOMAIN dirty : dirty[j] # i
  BY <1>2, LiveHas
<1>12. OneKey /\ DirtyClean
  BY DEF SyncMapInv, DirtyInv
<1>13. OneKey'
  BY <1>1, <1>5, <1>8, <1>10, <1>11, <1>12 DEF OneKey, SameKey
<1>14. DirtyClean'
  <2> SUFFICES ASSUME NEW j \in DOMAIN d PROVE p'[d[j]] # Expunged
    BY <1>8 DEF DirtyClean
  <2>1. d[j] \in Live' /\ d[j] \in S
    BY <1>5, <1>8, <1>9, LiveHasNext
  <2>2. CASE j = l
    BY <1>3, <1>5, <1>8, <1>9, <2>1, <2>2, SyncMapAssumption
  <2>3. CASE j # l
    BY <1>5, <1>8, <1>9, <1>11, <1>12, <2>1, <2>3 DEF DirtyClean
  <2> QED
    BY <2>2, <2>3
<1>15. Complete'
  <2>1. \A j \in DOMAIN readM : Kept(j, dirty)'
    BY <1>1, <1>5, <1>8, <1>10 DEF Kept
  <2> QED
    BY <1>1, <1>5, <1>8, <2>1 DEF Complete
<1> QED
  BY <1>1, <1>6, <1>9, <1>13, <1>14, <1>15, MapsStep, SyncMapAssumption DEF Holding

LEMMA StoreNewInv ==
  ASSUME SyncMapInv, NEW g \in G, StoreNew(g) PROVE SyncMapInv'
<1>1. /\ mu = None /\ pc[g] = "slow" /\ Stores(call[g]) /\ call[g].key \notin DOMAIN readM
      /\ amended /\ Insert(g, dirty)
  BY DEF StoreNew, Unknown, Locks, At, Stores
<1>2. Complete
  BY <1>1, LockedComplete
<1> QED
  BY <1>1, <1>2, InsertInv DEF Complete

LEMMA StoreFirstInv ==
  ASSUME SyncMapInv, NEW g \in G, StoreFirst(g) PROVE SyncMapInv'
<1>1. pc[g] = "expunge" /\ DOMAIN rest[g] = {} /\ Insert(g, dirty) /\ mu = g
  BY NoKeysMap DEF StoreFirst, At, SyncMapInv, LockInv, Holding
<1>2. Filling(g)
  BY <1>1 DEF SyncMapInv, DirtyInv
<1> QED
  BY <1>1, <1>2, InsertInv DEF Filling


(* dirtyLocked begins to fill an empty dirty map: nothing is expunged yet. *)
LEMMA DirtyLockedInv ==
  ASSUME SyncMapInv, NEW g \in G, DirtyLocked(g) PROVE SyncMapInv'
<1>1. /\ TypeOK /\ p \in [Live -> Ptr] /\ pc[g] = "slow" /\ mu = None
      /\ call[g] \in Call(g) /\ ~amended /\ Stores(call[g])
      /\ call[g].key \notin DOMAIN readM
  BY LiveIds
  DEF SyncMapInv, DirtyLocked, Unknown, Locks, At, TypeOK, Stores
<1>2. Complete /\ \A h \in G \ {g} : pc[h] \notin Holding
  BY <1>1, LockedComplete
<1>3. dirty = None /\ \A k \in DOMAIN readM : p[readM[k]] # Expunged
  BY <1>1, <1>2 DEF Complete
<1>4. /\ UNCHANGED <<readM, amended, misses, call, e, res>>
      /\ mu' = g /\ Heap(p) /\ dirty' = NoKeys
      /\ rest' = [rest EXCEPT ![g] = readM]
  BY <1>3 DEF DirtyLocked
<1>5. /\ pc' \in [G -> Kinds] /\ pc'[g] = "expunge"
      /\ rest' \in [G -> Map] /\ rest'[g] = readM
  BY <1>1, <1>4 DEF DirtyLocked, Goto, TypeOK, Kinds
<1>6. Others(g)
  BY <1>1, <1>4 DEF Others, DirtyLocked, Goto, TypeOK
<1>7. NextCalls(Live)
  <2>1. \A h \in G : IF pc'[h] = "out" THEN call'[h] = None ELSE call'[h] \in Call(h)
    <3>1. pc'[g] # "out" /\ call'[g] \in Call(g)
      BY <1>1, <1>4, <1>5
    <3> QED
      BY <1>1, <1>6, <3>1 DEF Others, TypeOK
  <2>2. \A h \in G : EntriesOf(rest'[h]) \subseteq Live
    BY <1>1, <1>4, LiveHas DEF TypeOK
  <2> QED
    BY <1>1, <1>4, <1>5, <2>1, <2>2, LiveHas DEF NextCalls, TypeOK, Ids, Results
<1>8. TypeOK' /\ \A j \in Live' : j \in Live /\ p'[j] = p[j]
  BY <1>1, <1>4, <1>7, LiveIds, LiveHas, NoKeysMap, Types DEF TypeOK
<1>9. LockInv'
  BY <1>1, <1>4, <1>5, <1>6, <1>8, LockStep DEF Holding
<1>10. OneKey' /\ DirtyClean'
  BY <1>4, NoKeysMap DEF SyncMapInv, DirtyInv, OneKey, DirtyClean, SameKey
<1>11. Filling(g)'
  <2>1. \A k \in DOMAIN readM : p'[readM[k]] # Expunged
    BY <1>3, <1>4, <1>8, LiveHasNext
  <2> QED
    BY <1>1, <1>4, <1>5, <2>1, NoKeysMap, NoneAssumption DEF Filling
<1>12. \A h \in G : pc'[h] = "expunge" => Filling(h)'
  BY <1>2, <1>6, <1>11 DEF Others, Holding
<1> QED
  BY <1>5, <1>8, <1>9, <1>10, <1>12 DEF SyncMapInv, DirtyInv

(* It expunges an entry, which the dirty map does not have, or copies it.  *)
LEMMA TryExpungeLockedInv ==
  ASSUME SyncMapInv, NEW g \in G, TryExpungeLocked(g) PROVE SyncMapInv'
<1>1. PICK k \in DOMAIN rest[g] :
        /\ rest' = [rest EXCEPT ![g] = Without(@, k)]
        /\ dirty' = IF Loaded(p[rest[g][k]]) = None THEN dirty ELSE With(dirty, k, rest[g][k])
        /\ UNCHANGED <<readM, amended, misses, mu, pc, call, e, res>>
        /\ Heap([p EXCEPT ![rest[g][k]] = IF @ = Nil THEN Expunged ELSE @])
  BY DEF TryExpungeLocked
<1> DEFINE i == rest[g][k]
           q == [p EXCEPT ![i] = IF @ = Nil THEN Expunged ELSE @]
<1>2. /\ TypeOK /\ p \in [Live -> Ptr] /\ pc[g] = "expunge" /\ mu = g
      /\ \A h \in G \ {g} : pc[h] \notin Holding
  BY LiveIds, SyncMapAssumption
  DEF SyncMapInv, LockInv, TryExpungeLocked, At, Holding
<1>3. Filling(g) /\ OneKey /\ DirtyClean
  BY <1>2 DEF SyncMapInv, DirtyInv
<1>4. /\ i = readM[k] /\ k \in DOMAIN readM /\ k \notin DOMAIN dirty
      /\ p[i] # Expunged /\ dirty # None /\ dirty \in Map /\ ~amended
      /\ i \in Live /\ i \in Ids /\ k \in Key /\ p[i] \in Ptr
  BY <1>2, <1>3, MapElim, LiveHas, LiveIds DEF Filling, TypeOK
<1>5. Loaded(p[i]) = None <=> p[i] = Nil
  BY <1>4, SyncMapAssumption DEF Loaded, Ptr
<1>6. /\ Without(rest[g], k) \in Map
      /\ DOMAIN Without(rest[g], k) = DOMAIN rest[g] \ {k}
      /\ \A j \in DOMAIN rest[g] \ {k} : Without(rest[g], k)[j] = rest[g][j]
      /\ EntriesOf(Without(rest[g], k)) \subseteq Live
  <2>1. rest[g] \in Map /\ EntriesOf(rest[g]) \subseteq Live
    BY <1>2, LiveHas DEF TypeOK
  <2> QED
    BY <2>1, WithoutMap
<1>7. /\ With(dirty, k, i) \in Map /\ With(dirty, k, i) # None
      /\ DOMAIN With(dirty, k, i) = DOMAIN dirty \cup {k}
      /\ \A j \in DOMAIN dirty : With(dirty, k, i)[j] = dirty[j]
      /\ With(dirty, k, i)[k] = i
      /\ EntriesOf(With(dirty, k, i)) \subseteq Live
  <2>1. EntriesOf(dirty) \subseteq Live
    BY <1>2, LiveHas
  <2> QED
    BY <1>4, <2>1, WithMap
<1>8. /\ rest' \in [G -> Map] /\ rest'[g] = Without(rest[g], k)
      /\ \A h \in G \ {g} : rest'[h] = rest[h]
  BY <1>1, <1>2, <1>6 DEF TypeOK
<1>9. NextCalls(Live) /\ Others(g)
  <2>1. \A h \in G : EntriesOf(rest'[h]) \subseteq Live
    BY <1>2, <1>6, <1>8, LiveHas
  <2> QED
    BY <1>1, <1>2, <1>8, <2>1, LiveHas
    DEF NextCalls, Others, TypeOK, Kinds, Ids, Results
<1>10. q \in [Live -> Ptr] /\ Heap(q)
  BY <1>1, <1>2, <1>4 DEF Ptr
<1>11. /\ dirty' \in Map /\ dirty' # None /\ EntriesOf(dirty') \subseteq Live
       /\ DOMAIN dirty' = IF p[i] = Nil THEN DOMAIN dirty ELSE DOMAIN dirty \cup {k}
       /\ \A j \in DOMAIN dirty : dirty'[j] = dirty[j]
       /\ p[i] # Nil => dirty'[k] = i
  BY <1>1, <1>2, <1>4, <1>5, <1>7, LiveHas
<1>12. \A j \in Live : q[j] = IF j = i /\ p[i] = Nil THEN Expunged ELSE p[j]
  BY <1>2, <1>4
<1> HIDE DEF q, i
<1>13. TypeOK' /\ \A j \in Live' : j \in Live /\ p'[j] = q[j]
  BY <1>1, <1>2, <1>9, <1>10, <1>11, LiveIds, LiveHas, Types DEF TypeOK
<1>14. LockInv'
  BY <1>1, <1>2, <1>9, <1>13, LockStep DEF Holding
<1>15. \A j \in DOMAIN readM : readM[j] = i <=> j = k
  BY <1>3, <1>4 DEF OneKey, SameKey
<1>16. \A j \in DOMAIN dirty : dirty[j] # i
  BY <1>3, <1>4 DEF OneKey, SameKey
<1>17. OneKey'
  BY <1>1, <1>3, <1>4, <1>11, <1>15, <1>16 DEF OneKey, SameKey
<1>18. \A j \in DOMAIN readM : p'[readM[j]] = IF j = k /\ p[i] = Nil THEN Expunged ELSE p[readM[j]]
  BY <1>1, <1>12, <1>13, <1>15, LiveHasNext
<1>19. DirtyClean'
  <2> SUFFICES ASSUME NEW j \in DOMAIN dirty' PROVE p'[dirty'[j]] # Expunged
    BY DEF DirtyClean
  <2>1. dirty'[j] \in Live'
    BY <1>11, <1>13, LiveHasNext
  <2>2. CASE j \in DOMAIN dirty
    BY <1>3, <1>4, <1>11, <1>12, <1>13, <1>16, <2>1, <2>2 DEF DirtyClean
  <2>3. CASE j \notin DOMAIN dirty
    BY <1>4, <1>11, <1>12, <1>13, <2>1, <2>3
  <2> QED
    BY <2>2, <2>3
<1>20. Filling(g)'
  <2>1. \A j \in DOMAIN rest'[g] :
          rest'[g][j] = readM[j] /\ j \notin DOMAIN dirty' /\ p'[readM[j]] # Expunged
    BY <1>3, <1>6, <1>8, <1>11, <1>18 DEF Filling
  <2>2. \A j \in DOMAIN readM \ DOMAIN rest'[g] : Kept(j, dirty)'
    <3> SUFFICES ASSUME NEW j \in DOMAIN readM \ DOMAIN rest'[g] PROVE Kept(j, dirty)'
      OBVIOUS
    <3>1. CASE j = k
      BY <1>1, <1>4, <1>11, <1>18, <3>1 DEF Kept
    <3>2. CASE j # k
      <4>1. Kept(j, dirty)
        BY <1>3, <1>6, <1>8, <3>2 DEF Filling
      <4> QED
        BY <1>1, <1>11, <1>18, <3>2, <4>1 DEF Kept
    <3> QED
      BY <3>1, <3>2
  <2> QED
    BY <1>1, <1>3, <1>6, <1>8, <1>11, <2>1, <2>2 DEF Filling
<1>21. \A h \in G : pc'[h] = "expunge" => Filling(h)'
  BY <1>1, <1>2, <1>20 DEF Holding
<1> QED
  BY <1>1, <1>2, <1>13, <1>14, <1>17, <1>19, <1>21 DEF SyncMapInv, DirtyInv

(* Range promotes the dirty map.                                           *)
LEMMA RangePromoteInv ==
  ASSUME SyncMapInv, NEW g \in G, RangePromote(g) PROVE SyncMapInv'
<1>1. /\ TypeOK /\ p \in [Live -> Ptr] /\ pc[g] = "slow" /\ mu = None /\ mu' = None
      /\ call[g] \in Call(g) /\ Heap(p) /\ Iterates(g, readM')
  BY LiveIds DEF SyncMapInv, RangePromote, Locks, At, TypeOK
<1>2. Complete /\ OneKey /\ DirtyClean
  BY <1>1, LockedComplete DEF SyncMapInv, DirtyInv
<1>3. call' = [call EXCEPT ![g] = call[g]]
  BY <1>1 DEF RangePromote, TypeOK
<1>4. CASE UNCHANGED <<readM, amended, dirty, misses>>
  <2>1. NextCalls(Live) /\ Others(g) /\ pc'[g] = "range"
    BY <1>1, <1>3, <1>4, LiveHas, IteratesOn DEF TypeOK
  <2>2. misses' \in Nat /\ UNCHANGED mvars
    BY <1>1, <1>4 DEF TypeOK, mvars
  <2> QED
    BY <1>1, <2>1, <2>2, FreeCall DEF Holding
<1>5. CASE amended /\ readM' = dirty /\ amended' = FALSE /\ dirty' = None /\ misses' = 0
  <2>1. dirty # None /\ dirty \in Map /\ EntriesOf(dirty) \subseteq Live /\ EntriesOf(None) = {}
    BY <1>1, <1>2, <1>5, LiveHas DEF Complete, TypeOK, EntriesOf
  <2>2. NextCalls(Live) /\ Others(g) /\ pc'[g] = "range"
    BY <1>1, <1>3, <1>5, <2>1, IteratesOn
  <2>3. TypeOK' /\ \A i \in Live' : i \in Live /\ p'[i] = p[i]
    BY <1>1, <1>5, <2>1, <2>2, LiveIds, Types
  <2>4. \A k \in DOMAIN dirty : p'[dirty[k]] # Expunged
    BY <1>2, <1>5, <2>1, <2>3, LiveHasNext DEF DirtyClean
  <2>5. OneKey' /\ DirtyClean' /\ Complete'
    BY <1>2, <1>5, <2>1, <2>4 DEF OneKey, SameKey, DirtyClean, Complete
  <2> QED
    BY <1>1, <2>2, <2>3, <2>5, MapsStep, SyncMapAssumption DEF Holding
<1> QED
  BY <1>4, <1>5 DEF RangePromote

-----------------------------------------------------------------------------
LEMMA SyncMapInitInv == Init => SyncMapInv
<1> SUFFICES ASSUME Init PROVE SyncMapInv
  OBVIOUS
<1>1. Live = {}
  BY NoKeysMap DEF Init, Live, EntriesOf
<1>2. TypeOK
  BY <1>1, NoKeysMap DEF Init, TypeOK
<1>3. LockInv
  BY SyncMapAssumption DEF Init, LockInv, Holding
<1>4. DirtyInv
  BY NoKeysMap DEF Init, DirtyInv, OneKey, SameKey, DirtyClean, Complete
<1> QED
  BY <1>2, <1>3, <1>4 DEF SyncMapInv

(* The invariant holds in every state of the map.                          *)
THEOREM SyncMapInvariant == Spec => []SyncMapInv
<1>1. SyncMapInv /\ [Next]_vars => SyncMapInv'
  <2> SUFFICES ASSUME SyncMapInv, [Next]_vars PROVE SyncMapInv'
    OBVIOUS
  <2>1. ASSUME NEW g \in G, NEW c \in Call(g), Hit(g, c) \/ Miss(g, c) \/ RangeBegin(g, c)
        PROVE  SyncMapInv'
    BY <2>1, HitInv, MissInv, RangeBeginInv
  <2>2. ASSUME NEW g \in G, Locked(g) PROVE SyncMapInv'
    BY <2>2, FindInv, UnexpungeInv, SwapLockedInv, SwapAtOnceInv, SwapDirtyInv,
       CountMissInv, StoreNewInv, DirtyLockedInv, TryExpungeLockedInv, StoreFirstInv,
       RangePromoteInv
    DEF Locked
  <2>3. ASSUME NEW g \in G, Step(g) PROVE SyncMapInv'
    BY <2>2, <2>3, EntryInv, RangeEntryInv, RangeEndInv DEF Step
  <2>4. CASE UNCHANGED vars
    <3>1. Live' = Live
      BY <2>4 DEF vars, mvars, Live, EntriesOf
    <3> QED
      BY <2>4, <3>1
      DEF vars, mvars, SyncMapInv, TypeOK, LockInv, DirtyInv, OneKey, DirtyClean, Complete,
          Kept, Filling
  <2> QED
    BY <2>1, <2>3, <2>4 DEF Next
<1> QED
  BY <1>1, SyncMapInitInv, PTL DEF Spec

(* The type invariant of sync.Map.                                         *)
THEOREM SyncMapTypeCorrect == Spec => []TypeOK
  BY SyncMapInvariant, PTL DEF SyncMapInv

(* Beside a free lock the dirty map is complete.                           *)
THEOREM SyncMapDirtyComplete == Spec => []DirtyComplete
<1>1. SyncMapInv => DirtyComplete
  <2> SUFFICES ASSUME SyncMapInv, mu = None
               PROVE  /\ amended <=> dirty # None
                      /\ \A k \in DOMAIN readM :
                           IF p[readM[k]] = Expunged THEN dirty # None /\ k \notin DOMAIN dirty
                           ELSE dirty # None => Lookup(dirty, k) = readM[k]
    BY DEF DirtyComplete
  <2>1. Complete
    BY SyncMapAssumption DEF SyncMapInv, DirtyInv, LockInv, Holding
  <2> QED
    BY <2>1 DEF Complete, Kept, Lookup
<1> QED
  BY <1>1, SyncMapInvariant, PTL

=============================================================================
