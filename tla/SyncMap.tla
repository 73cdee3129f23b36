------------------------------ MODULE SyncMap ------------------------------
(***************************************************************************)
(* sync.Map (sync/map.go): a read-only map that is read without a lock,    *)
(* and a dirty map under m.mu that holds what the other one lacks.  Both   *)
(* map keys to entries, and an entry points to a value, to nothing, or is  *)
(* expunged, which says that the dirty map does not have it.               *)
(*                                                                         *)
(* An operation on an entry is one step: its compare-and-swap loops take   *)
(* effect at the load that ends them or at the swap that succeeds, and no  *)
(* pointer comes back after it has been replaced, as every store has a     *)
(* pointer of its own.  m.read changes only under m.mu, so a stretch under *)
(* the lock is a step wherever it does not touch entries in between.       *)
(***************************************************************************)
EXTENDS Naturals, FiniteSets, Functions

CONSTANTS
  G, Value,
  Call(_),        \* the calls a goroutine makes: [kind, key, old, val]
  MaxEntry,       \* bound on the entries in use at one moment
  Nil, Expunged,  \* what an entry's pointer may be besides a value
  None            \* no value, no entry, no dirty map, no goroutine, no call

ASSUME SyncMapAssumption ==
  /\ {Nil, Expunged, None} \cap (Value \cup BOOLEAN) = {}
  /\ Nil # Expunged /\ None \notin {Nil, Expunged} \cup G
  /\ MaxEntry \in Nat /\ None \notin Nat

Stores(c) == c.kind \in {"Swap", "LoadOrStore"}

\* A nil interface is a value like any other: only a pointer can be nil.
ASSUME CallAssumption ==
  \A g \in G : \A c \in Call(g) :
    /\ c.kind \in {"Load", "LoadOrStore", "LoadAndDelete", "Swap",
                   "CompareAndSwap", "CompareAndDelete", "Range"}
    /\ c.old \in Value \cup {None}
    /\ Stores(c) \/ c.kind = "CompareAndSwap" => c.val \in Value

VARIABLES
  readM, amended,  \* m.read
  dirty, misses,   \* m.dirty (None for nil), m.misses
  p,               \* the pointers of the entries in use
  mu,              \* holder of m.mu
  pc, call,
  e,               \* the entry a call has found
  rest,            \* the keys a loop over m.read has still before it
  res              \* what the call will return, or has returned

mvars == <<readM, amended, dirty, misses, mu>>
vars == <<mvars, p, pc, call, e, rest, res>>

NoKeys == [k \in {} |-> None]

Init ==
  /\ readM = NoKeys /\ amended = FALSE
  /\ dirty = None /\ misses = 0
  /\ p = [i \in {} |-> Nil]
  /\ mu = None
  /\ pc = [g \in G |-> "out"]
  /\ call = [g \in G |-> None]
  /\ e = [g \in G |-> None]
  /\ rest = [g \in G |-> NoKeys]
  /\ res = [g \in G |-> None]

At(g, here) == pc[g] = here
Goto(g, there) == pc' = [pc EXCEPT ![g] = there]

\* The end of a call that returns r.
Return(g, r) ==
  /\ Goto(g, "out")
  /\ call' = [call EXCEPT ![g] = None]
  /\ res' = [res EXCEPT ![g] = r]
  /\ e' = [e EXCEPT ![g] = None]
  /\ rest' = [rest EXCEPT ![g] = NoKeys]

\* An entry is in use while a map or a goroutine has it; others are garbage.
EntriesOf(m) == IF m = None THEN {} ELSE Range(m)
Live ==
  EntriesOf(readM) \cup EntriesOf(dirty) \cup ({e[g] : g \in G} \ {None})
    \cup UNION {EntriesOf(rest[g]) : g \in G}
Heap(q) == p' = [i \in Live' |-> q[i]]

\* The entry of a key, or None.
Lookup(m, k) == IF m # None /\ k \in DOMAIN m THEN m[k] ELSE None

With(m, k, i) == [j \in DOMAIN m \cup {k} |-> IF j = k THEN i ELSE m[j]]
Without(m, k) == [j \in DOMAIN m \ {k} |-> m[j]]

-----------------------------------------------------------------------------
(* Operations on an entry: what they leave in it and what they return.     *)

Loaded(ptr) == IF ptr \in {Nil, Expunged} THEN None ELSE ptr

\* load, delete, tryCompareAndSwap, the loop of CompareAndDelete, and for an
\* entry that is not expunged trySwap, swapLocked and tryLoadOrStore.
Pointer(c, ptr) ==
  CASE c.kind \in {"Load", "Range"} -> ptr
    [] c.kind = "LoadAndDelete" -> IF Loaded(ptr) = None THEN ptr ELSE Nil
    [] c.kind = "CompareAndSwap" -> IF ptr = c.old THEN c.val ELSE ptr
    [] c.kind = "CompareAndDelete" -> IF ptr = c.old THEN Nil ELSE ptr
    [] c.kind = "Swap" -> c.val
    [] c.kind = "LoadOrStore" -> IF ptr = Nil THEN c.val ELSE ptr

\* LoadOrStore that stores returns None here.
Result(c, ptr) ==
  IF c.kind \in {"CompareAndSwap", "CompareAndDelete"}
  THEN ptr = c.old ELSE Loaded(ptr)

\* What a call returns that finds no entry and makes none.
NotFound(c) ==
  IF c.kind \in {"CompareAndSwap", "CompareAndDelete"} THEN FALSE ELSE None

-----------------------------------------------------------------------------
(* Without the lock: the load of m.read, the lookup, and what follows.     *)

Goes(g, c, there, i) ==
  /\ Goto(g, there)
  /\ call' = [call EXCEPT ![g] = c]
  /\ e' = [e EXCEPT ![g] = i]
  /\ res' = [res EXCEPT ![g] = None]
  /\ UNCHANGED rest

Hit(g, c) ==
  /\ At(g, "out") /\ c.kind # "Range"
  /\ c.key \in DOMAIN readM
  /\ Goes(g, c, "entry", readM[c.key])
  /\ UNCHANGED mvars /\ Heap(p)

Miss(g, c) ==
  /\ At(g, "out") /\ c.kind # "Range"
  /\ c.key \notin DOMAIN readM
  /\ \/ (amended \/ Stores(c)) /\ Goes(g, c, "slow", None)
     \/ ~amended /\ ~Stores(c) /\ Return(g, NotFound(c))
  /\ UNCHANGED mvars /\ Heap(p)

\* The operation on the entry, which Swap and LoadOrStore give up if it is
\* expunged.
Entry(g) ==
  LET i == e[g] IN
  /\ At(g, "entry")
  /\ UNCHANGED mvars
  /\ \/ /\ Stores(call[g]) /\ p[i] = Expunged
        /\ Goes(g, call[g], "slow", None)
        /\ Heap(p)
     \/ /\ ~(Stores(call[g]) /\ p[i] = Expunged)
        /\ Return(g, Result(call[g], p[i]))
        /\ Heap([p EXCEPT ![i] = Pointer(call[g], @)])

-----------------------------------------------------------------------------
(* Under m.mu.                                                             *)

Locks(g, kinds) == At(g, "slow") /\ mu = None /\ call[g].kind \in kinds

\* missLocked, for a dirty map d.
MissLocked(d) ==
  IF misses + 1 < Cardinality(DOMAIN d)
  THEN dirty' = d /\ misses' = misses + 1 /\ UNCHANGED <<readM, amended>>
  ELSE dirty' = None /\ misses' = 0 /\ readM' = d /\ amended' = FALSE

\* Slip: no second look at m.read, to which the entry may have moved.
FindBlind(g) ==
  LET k == call[g].key
      i == Lookup(dirty, k) IN
  /\ Locks(g, {"Load", "LoadAndDelete", "CompareAndDelete"})
  /\ IF amended
     THEN MissLocked(IF call[g].kind = "LoadAndDelete" THEN Without(dirty, k) ELSE dirty)
     ELSE UNCHANGED <<readM, amended, dirty, misses>>
  /\ \/ i # None /\ Goes(g, call[g], "entry", i)
     \/ i = None /\ Return(g, NotFound(call[g]))
  /\ UNCHANGED mu /\ Heap(p)

\* Load, LoadAndDelete and CompareAndDelete look again, then in the dirty map.
Find(g) ==
  LET k == call[g].key
      i == IF k \in DOMAIN readM THEN readM[k]
           ELSE IF amended THEN Lookup(dirty, k) ELSE None IN
  /\ Locks(g, {"Load", "LoadAndDelete", "CompareAndDelete"})
  /\ IF k \notin DOMAIN readM /\ amended
     THEN MissLocked(IF call[g].kind = "LoadAndDelete" THEN Without(dirty, k) ELSE dirty)
     ELSE UNCHANGED <<readM, amended, dirty, misses>>
  /\ \/ i # None /\ Goes(g, call[g], "entry", i)
     \/ i = None /\ Return(g, NotFound(call[g]))
  /\ UNCHANGED mu /\ Heap(p)

\* Slip: the entry is not put back into the dirty map.
UnexpungeAlone(g) ==
  LET k == call[g].key IN
  /\ Locks(g, {"Swap", "LoadOrStore"}) /\ k \in DOMAIN readM
  /\ mu' = g
  /\ Goes(g, call[g], "swap", readM[k])
  /\ UNCHANGED <<readM, amended, dirty, misses>>
  /\ Heap([p EXCEPT ![readM[k]] = IF @ = Expunged THEN Nil ELSE @])

\* Swap, LoadOrStore: an entry of m.read that is expunged joins the dirty map.
Unexpunge(g) ==
  LET k == call[g].key IN
  /\ Locks(g, {"Swap", "LoadOrStore"}) /\ k \in DOMAIN readM
  /\ mu' = g
  /\ Goes(g, call[g], "swap", readM[k])
  /\ UNCHANGED <<readM, amended, misses>>
  /\ \/ /\ p[readM[k]] = Expunged
        /\ dirty' = With(dirty, k, readM[k])
        /\ Heap([p EXCEPT ![readM[k]] = Nil])
     \/ p[readM[k]] # Expunged /\ UNCHANGED dirty /\ Heap(p)

\* swapLocked or tryLoadOrStore on it, and the unlock.
SwapLocked(g) ==
  /\ At(g, "swap")
  /\ mu' = None
  /\ Return(g, Result(call[g], p[e[g]]))
  /\ UNCHANGED <<readM, amended, dirty, misses>>
  /\ Heap([p EXCEPT ![e[g]] = Pointer(call[g], @)])

\* The same for CompareAndSwap, and for Swap on an entry of the dirty map.
SwapAtOnce(g) ==
  LET k == call[g].key
      i == IF k \in DOMAIN readM THEN readM[k] ELSE Lookup(dirty, k) IN
  /\ \/ Locks(g, {"CompareAndSwap"}) /\ (k \in DOMAIN readM \/ i = None)
     \/ Locks(g, {"Swap"}) /\ k \notin DOMAIN readM /\ i # None
  /\ UNCHANGED mvars
  /\ \/ /\ i # None
        /\ Return(g, Result(call[g], p[i]))
        /\ Heap([p EXCEPT ![i] = Pointer(call[g], @)])
     \/ i = None /\ Return(g, NotFound(call[g])) /\ Heap(p)

\* LoadOrStore and CompareAndSwap on an entry of the dirty map ...
SwapDirty(g) ==
  LET i == Lookup(dirty, call[g].key) IN
  /\ Locks(g, {"LoadOrStore", "CompareAndSwap"})
  /\ call[g].key \notin DOMAIN readM /\ i # None
  /\ mu' = g
  /\ Goto(g, "miss")
  /\ res' = [res EXCEPT ![g] = Result(call[g], p[i])]
  /\ UNCHANGED <<readM, amended, dirty, misses, call, e, rest>>
  /\ Heap([p EXCEPT ![i] = Pointer(call[g], @)])

\* ... count as a miss.
CountMiss(g) ==
  /\ At(g, "miss")
  /\ MissLocked(dirty)
  /\ mu' = None
  /\ Return(g, res[g])
  /\ Heap(p)

\* A new entry for the key of g goes into the dirty map d.
Insert(g, d) ==
  \E i \in 1 .. MaxEntry :
    /\ i \notin DOMAIN p /\ \A j \in 1 .. i - 1 : j \in DOMAIN p
    /\ dirty' = With(d, call[g].key, i)
    /\ amended' = TRUE
    /\ mu' = None
    /\ Return(g, None)
    /\ UNCHANGED <<readM, misses>>
    /\ Heap([j \in DOMAIN p \cup {i} |-> IF j = i THEN call[g].val ELSE p[j]])

Unknown(g) ==
  /\ Locks(g, {"Swap", "LoadOrStore"})
  /\ call[g].key \notin DOMAIN readM /\ Lookup(dirty, call[g].key) = None

StoreNew(g) == Unknown(g) /\ amended /\ Insert(g, dirty)

\* dirtyLocked: its loop over m.read ...
DirtyLocked(g) ==
  /\ Unknown(g) /\ ~amended
  /\ mu' = g
  /\ Goto(g, "expunge")
  /\ rest' = [rest EXCEPT ![g] = IF dirty = None THEN readM ELSE NoKeys]
  /\ dirty' = IF dirty = None THEN NoKeys ELSE dirty
  /\ UNCHANGED <<readM, amended, misses, call, e, res>>
  /\ Heap(p)

\* ... expunges the entries without a value and copies the others.
TryExpungeLocked(g) ==
  /\ At(g, "expunge")
  /\ \E k \in DOMAIN rest[g] :
       LET i == rest[g][k] IN
       /\ rest' = [rest EXCEPT ![g] = Without(@, k)]
       /\ dirty' = IF Loaded(p[i]) = None THEN dirty ELSE With(dirty, k, i)
       /\ UNCHANGED <<readM, amended, misses, mu, pc, call, e, res>>
       /\ Heap([p EXCEPT ![i] = IF @ = Nil THEN Expunged ELSE @])

\* Then m.read is marked amended and the new entry inserted.
StoreFirst(g) ==
  At(g, "expunge") /\ rest[g] = NoKeys /\ Insert(g, dirty)

-----------------------------------------------------------------------------
(* Range calls f for the keys of one m.read, for which it promotes the     *)
(* dirty map.  The call remembers what it has shown f for call.key.        *)

Iterates(g, m) ==
  /\ Goto(g, "range")
  /\ rest' = [rest EXCEPT ![g] = m]
  /\ res' = [res EXCEPT ![g] = None]
  /\ UNCHANGED e

RangeBegin(g, c) ==
  /\ At(g, "out") /\ c.kind = "Range"
  /\ \/ amended /\ Goes(g, c, "slow", None)
     \/ ~amended /\ Iterates(g, readM) /\ call' = [call EXCEPT ![g] = c]
  /\ UNCHANGED mvars /\ Heap(p)

RangePromote(g) ==
  /\ Locks(g, {"Range"})
  /\ \/ amended /\ readM' = dirty /\ amended' = FALSE /\ dirty' = None /\ misses' = 0
     \/ ~amended /\ UNCHANGED <<readM, amended, dirty, misses>>
  /\ Iterates(g, readM')
  /\ UNCHANGED <<mu, call>> /\ Heap(p)

RangeEntry(g) ==
  /\ At(g, "range")
  /\ \E k \in DOMAIN rest[g] :
       /\ rest' = [rest EXCEPT ![g] = Without(@, k)]
       /\ res' = IF k = call[g].key THEN [res EXCEPT ![g] = Loaded(p[rest[g][k]])] ELSE res
  /\ UNCHANGED <<mvars, pc, call, e>> /\ Heap(p)

RangeEnd(g) ==
  /\ At(g, "range") /\ rest[g] = NoKeys
  /\ Return(g, res[g])
  /\ UNCHANGED mvars /\ Heap(p)

-----------------------------------------------------------------------------
Locked(g) ==
  \/ Find(g) \/ Unexpunge(g) \/ SwapLocked(g) \/ SwapAtOnce(g)
  \/ SwapDirty(g) \/ CountMiss(g)
  \/ StoreNew(g) \/ DirtyLocked(g) \/ TryExpungeLocked(g) \/ StoreFirst(g)
  \/ RangePromote(g)

Step(g) == Entry(g) \/ Locked(g) \/ RangeEntry(g) \/ RangeEnd(g)

Next ==
  \E g \in G :
    \/ \E c \in Call(g) : Hit(g, c) \/ Miss(g, c) \/ RangeBegin(g, c)
    \/ Step(g)

Spec == Init /\ [][Next]_vars

-----------------------------------------------------------------------------
Key == {c.key : c \in UNION {Call(g) : g \in G}}
Map == UNION {[K -> 1 .. MaxEntry] : K \in SUBSET Key}

ASSUME NoneAssumption == None \notin Map

TypeOK ==
  /\ readM \in Map /\ amended \in BOOLEAN
  /\ dirty \in Map \cup {None} /\ misses \in Nat
  /\ p \in [Live -> Value \cup {Nil, Expunged}]
  /\ mu \in G \cup {None}
  /\ pc \in [G -> {"out", "entry", "slow", "swap", "miss", "expunge", "range"}]
  /\ call \in [G -> {None} \cup UNION {Call(g) : g \in G}]
  /\ \A g \in G : IF pc[g] = "out" THEN call[g] = None ELSE call[g] \in Call(g)
  /\ e \in [G -> 1 .. MaxEntry \cup {None}]
  /\ rest \in [G -> Map]
  /\ res \in [G -> Value \cup BOOLEAN \cup {None}]

(* Beside a free lock, the dirty map has every key of m.read but those of  *)
(* expunged entries, with the same entries, and there is a dirty map when  *)
(* an entry is expunged: a store to an entry that is not expunged reaches  *)
(* both maps, and one to an expunged entry can put it into the dirty map.  *)
DirtyComplete ==
  mu = None =>
    /\ amended <=> dirty # None
    /\ \A k \in DOMAIN readM :
         IF p[readM[k]] = Expunged THEN dirty # None /\ k \notin DOMAIN dirty
         ELSE dirty # None => Lookup(dirty, k) = readM[k]
=============================================================================
