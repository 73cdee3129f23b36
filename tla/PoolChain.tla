----------------------------- MODULE PoolChain -----------------------------
(***************************************************************************)
(* The queues of sync.Pool (sync/poolqueue.go): poolDequeue, a ring of one *)
(* producer and many consumers whose head and tail share one word, and     *)
(* poolChain, a list of such rings, each longer than the one before.       *)
(*                                                                         *)
(* A compare-and-swap of headTail that fails changes nothing, and one that *)
(* succeeds finds the word that was loaded, so load and swap are one step. *)
(* The producer's plain stores to a slot it owns are one step as well.     *)
(***************************************************************************)
EXTENDS Integers, Sequences, SequencesExt

CONSTANTS
  Owner, Thieves,
  Value,
  Nothing,       \* the answer of a pop that finds no value
  None,          \* no answer yet, or one that has been taken
  InitSize,      \* of the first ring: a power of two
  DequeueLimit,  \* size of the largest rings
  Indices,       \* 2^dequeueBits: head and tail wrap
  MaxRings       \* bound on the rings a chain gets

ASSUME PoolChainAssumption ==
  /\ InitSize \in Nat \ {0} /\ DequeueLimit >= InitSize
  /\ Indices % DequeueLimit = 0 /\ Indices >= 4 * DequeueLimit
  /\ Owner \notin Thieves
  /\ {Nothing, None} \cap Value = {} /\ Nothing # None

VARIABLES
  rings,    \* oldest first; the last is the chain's head
  linked,   \* rings whose next is set
  backed,   \* rings whose prev is set
  tail,     \* the chain's tail; 0 for nil
  pc, at, next,  \* each goroutine's place, its d, and a consumer's d2
  val       \* the value it pushes or has popped, its answer

qvars == <<rings, linked, backed, tail>>
vars == <<qvars, pc, at, next, val>>

T == Thieves \cup {Owner}

Empty == [typ |-> FALSE, val |-> None]
Ring(size) == [size |-> size, head |-> 0, tail |-> 0, vals |-> [i \in 0 .. size - 1 |-> Empty]]

Init ==
  /\ rings = <<>> /\ linked = {} /\ backed = {} /\ tail = 0
  /\ pc = [t \in T |-> "out"]
  /\ at = [t \in T |-> 0]
  /\ next = [t \in T |-> 0]
  /\ val = [t \in T |-> None]

At(t, here) == pc[t] = here
Goto(t, there) == pc' = [pc EXCEPT ![t] = there]

\* The ring a goroutine is at, and the slot of an index in it.
D(t) == rings[at[t]]
Slot(r, i) == i % r.size
IsEmpty(r) == r.head = r.tail
Plus(i, n) == (i + n) % Indices

\* The end of a call: its local variables are gone.
Return(t, v) ==
  /\ val' = [val EXCEPT ![t] = v]
  /\ at' = [at EXCEPT ![t] = 0]
  /\ next' = [next EXCEPT ![t] = 0]
  /\ Goto(t, "out")

SetRing(t, r) == rings' = [rings EXCEPT ![at[t]] = r]

-----------------------------------------------------------------------------
(* The producer: pushHead.                                                 *)

Push(v) ==
  /\ At(Owner, "out")
  /\ val' = [val EXCEPT ![Owner] = v]
  /\ Goto(Owner, "push")
  /\ \/ /\ rings = <<>>
        /\ rings' = <<Ring(InitSize)>> /\ tail' = 1
     \/ /\ rings # <<>>
        /\ UNCHANGED <<rings, tail>>
  /\ at' = [at EXCEPT ![Owner] = Len(rings')]
  /\ UNCHANGED <<linked, backed, next>>

\* headTail may be old by the time it is used: consumers only make room.
PushLoad ==
  /\ At(Owner, "push")
  /\ Goto(Owner, IF Plus(D(Owner).tail, D(Owner).size) = D(Owner).head
                 THEN "grow" ELSE "slot")
  /\ UNCHANGED <<qvars, at, next, val>>

\* Slip: the slot is taken without a look at its type.
PushSlotBlind ==
  LET r == D(Owner) IN
  /\ At(Owner, "slot")
  /\ SetRing(Owner, [r EXCEPT !.vals[Slot(r, r.head)] = [typ |-> TRUE, val |-> val[Owner]]])
  /\ Goto(Owner, "add")
  /\ UNCHANGED <<linked, backed, tail, at, next, val>>

\* A consumer may still be at the slot; then the ring counts as full.
PushSlot ==
  LET r == D(Owner)
      i == Slot(r, r.head) IN
  /\ At(Owner, "slot")
  /\ \/ /\ r.vals[i].typ
        /\ Goto(Owner, "grow")
        /\ UNCHANGED rings
     \/ /\ ~r.vals[i].typ
        /\ SetRing(Owner, [r EXCEPT !.vals[i] = [typ |-> TRUE, val |-> val[Owner]]])
        /\ Goto(Owner, "add")
  /\ UNCHANGED <<linked, backed, tail, at, next, val>>

PushAdd ==
  /\ At(Owner, "add")
  /\ SetRing(Owner, [D(Owner) EXCEPT !.head = Plus(@, 1)])
  /\ Return(Owner, None)
  /\ UNCHANGED <<linked, backed, tail>>

NewSize(n) == IF 2 * n >= DequeueLimit THEN DequeueLimit ELSE 2 * n

Grow ==
  /\ At(Owner, "grow")
  /\ Len(rings) < MaxRings
  /\ rings' = Append(rings, Ring(NewSize(D(Owner).size)))
  /\ linked' = linked \cup {Len(rings)}
  /\ backed' = backed \cup {Len(rings) + 1}
  /\ at' = [at EXCEPT ![Owner] = Len(rings) + 1]
  /\ Goto(Owner, "push")
  /\ UNCHANGED <<tail, next, val>>

-----------------------------------------------------------------------------
(* The producer: popHead.                                                  *)

PopHead ==
  /\ At(Owner, "out")
  /\ at' = [at EXCEPT ![Owner] = Len(rings)]
  /\ val' = [val EXCEPT ![Owner] = None]
  /\ Goto(Owner, "head")
  /\ UNCHANGED <<qvars, next>>

\* Take the head of the ring, or go back to the one before.
PopHeadTake ==
  /\ At(Owner, "head") /\ at[Owner] > 0
  /\ \/ /\ ~IsEmpty(D(Owner))
        /\ SetRing(Owner, [D(Owner) EXCEPT !.head = Plus(@, Indices - 1)])
        /\ Goto(Owner, "headRead")
     \/ /\ IsEmpty(D(Owner))
        /\ Goto(Owner, "back")
        /\ UNCHANGED rings
  /\ UNCHANGED <<linked, backed, tail, at, next, val>>

PopHeadRead ==
  LET r == D(Owner)
      i == Slot(r, r.head) IN
  /\ At(Owner, "headRead")
  /\ Return(Owner, r.vals[i].val)
  /\ SetRing(Owner, [r EXCEPT !.vals[i] = Empty])
  /\ UNCHANGED <<linked, backed, tail>>

PopHeadBack ==
  /\ At(Owner, "back")
  /\ at' = [at EXCEPT ![Owner] = IF @ \in backed THEN @ - 1 ELSE 0]
  /\ Goto(Owner, "head")
  /\ UNCHANGED <<qvars, next, val>>

PopHeadNothing ==
  /\ At(Owner, "head") /\ at[Owner] = 0
  /\ Return(Owner, Nothing)
  /\ UNCHANGED qvars

-----------------------------------------------------------------------------
(* The consumers: popTail.                                                 *)

PopTail(t) ==
  /\ At(t, "out")
  /\ \/ /\ tail = 0
        /\ Return(t, Nothing)
     \/ /\ tail # 0
        /\ at' = [at EXCEPT ![t] = tail]
        /\ val' = [val EXCEPT ![t] = None]
        /\ Goto(t, "next")
        /\ UNCHANGED next
  /\ UNCHANGED qvars

LoadNext(t) ==
  /\ At(t, "next")
  /\ next' = [next EXCEPT ![t] = IF at[t] \in linked THEN at[t] + 1 ELSE 0]
  /\ Goto(t, "pop")
  /\ UNCHANGED <<qvars, at, val>>

\* Slip: next is loaded after the pop.
PopTailTakeEarly(t) ==
  LET r == D(t) IN
  /\ \/ /\ At(t, "pop") /\ ~IsEmpty(r)
        /\ SetRing(t, [r EXCEPT !.tail = Plus(@, 1)])
        /\ next' = [next EXCEPT ![t] = Slot(r, r.tail)]
        /\ Goto(t, "read")
        /\ UNCHANGED <<at, val>>
     \/ /\ At(t, "pop") /\ IsEmpty(r)
        /\ Goto(t, "late")
        /\ UNCHANGED <<rings, at, next, val>>
     \/ /\ At(t, "late") /\ at[t] \notin linked
        /\ Return(t, Nothing)
        /\ UNCHANGED rings
     \/ /\ At(t, "late") /\ at[t] \in linked
        /\ next' = [next EXCEPT ![t] = at[t] + 1]
        /\ Goto(t, "drop")
        /\ UNCHANGED <<rings, at, val>>
  /\ UNCHANGED <<linked, backed, tail>>

\* The slot is found by the index that was swapped.
PopTailTake(t) ==
  LET r == D(t) IN
  /\ At(t, "pop")
  /\ \/ /\ ~IsEmpty(r)
        /\ SetRing(t, [r EXCEPT !.tail = Plus(@, 1)])
        /\ next' = [next EXCEPT ![t] = Slot(r, r.tail)]
        /\ Goto(t, "read")
        /\ UNCHANGED <<at, val>>
     \/ /\ IsEmpty(r) /\ next[t] = 0
        /\ Return(t, Nothing)
        /\ UNCHANGED rings
     \/ /\ IsEmpty(r) /\ next[t] # 0
        /\ Goto(t, "drop")
        /\ UNCHANGED <<rings, at, next, val>>
  /\ UNCHANGED <<linked, backed, tail>>

PopTailRead(t) ==
  /\ At(t, "read")
  /\ val' = [val EXCEPT ![t] = D(t).vals[next[t]].val]
  /\ Goto(t, "clear")
  /\ UNCHANGED <<qvars, at, next>>

Clear(t) ==
  LET r == D(t) IN
  \/ /\ At(t, "clear")
     /\ SetRing(t, [r EXCEPT !.vals[next[t]].val = None])
     /\ Goto(t, "free")
     /\ UNCHANGED <<linked, backed, tail, at, next, val>>
  \/ /\ At(t, "free")
     /\ SetRing(t, [r EXCEPT !.vals[next[t]].typ = FALSE])
     /\ Return(t, val[t])
     /\ UNCHANGED <<linked, backed, tail>>

\* Slip: who comes second at dropping a ring gives up.
DropOrGiveUp(t) ==
  /\ At(t, "drop")
  /\ \/ /\ tail = at[t]
        /\ tail' = next[t]
        /\ Goto(t, "unback")
        /\ UNCHANGED <<at, next, val>>
     \/ /\ tail # at[t]
        /\ Return(t, Nothing)
        /\ UNCHANGED tail
  /\ UNCHANGED <<rings, linked, backed>>

Move(t) ==
  /\ at' = [at EXCEPT ![t] = next[t]]
  /\ next' = [next EXCEPT ![t] = 0]
  /\ Goto(t, "next")

\* A ring that is empty and has a successor stays empty.
Drop(t) ==
  /\ At(t, "drop")
  /\ \/ /\ tail = at[t]
        /\ tail' = next[t]
        /\ Goto(t, "unback")
        /\ UNCHANGED <<at, next>>
     \/ /\ tail # at[t]
        /\ Move(t)
        /\ UNCHANGED tail
  /\ UNCHANGED <<rings, linked, backed, val>>

Unback(t) ==
  /\ At(t, "unback")
  /\ backed' = backed \ {next[t]}
  /\ Move(t)
  /\ UNCHANGED <<rings, linked, tail, val>>

-----------------------------------------------------------------------------
OwnerNext ==
  \/ (\E v \in Value : Push(v)) \/ PushLoad \/ PushSlot \/ PushAdd \/ Grow
  \/ PopHead \/ PopHeadTake \/ PopHeadRead \/ PopHeadBack \/ PopHeadNothing

ThiefNext(t) ==
  \/ PopTail(t) \/ LoadNext(t) \/ PopTailTake(t) \/ PopTailRead(t)
  \/ Clear(t) \/ Drop(t) \/ Unback(t)

Next == OwnerNext \/ \E t \in Thieves : ThiefNext(t)

Spec == Init /\ [][Next]_vars

-----------------------------------------------------------------------------
Length(r) == (r.head - r.tail) % Indices

Contents(r) == [n \in 1 .. Length(r) |-> r.vals[Slot(r, Plus(r.tail, n - 1))].val]

Queue == FlattenSeq([n \in DOMAIN rings |-> Contents(rings[n])])

\* A pop has its value from the moment it owns the slot.
Got(t) ==
  IF At(t, "read") THEN D(t).vals[next[t]].val
  ELSE IF At(t, "headRead") THEN D(t).vals[Slot(D(t), D(t).head)].val
  ELSE IF pc[t] \in {"push", "slot", "grow", "add"} THEN None
  ELSE val[t]

InUse(n, i) ==
  LET r == rings[n] IN
  \/ \E k \in 0 .. Length(r) - 1 : i = Slot(r, Plus(r.tail, k))
  \/ \E t \in Thieves : at[t] = n /\ next[t] = i /\ pc[t] \in {"read", "clear", "free"}
  \/ at[Owner] = n /\ pc[Owner] \in {"add", "headRead"} /\ i = Slot(r, r.head)

(* Nothing keeps a value alive that has been handed out: free slots are    *)
(* zero, and the rings that the consumers have dropped are drained and     *)
(* hang on no prev pointer, except one that is about to be cleared.        *)
NothingRetained ==
  /\ \A n \in DOMAIN rings : \A i \in DOMAIN rings[n].vals :
       ~InUse(n, i) => rings[n].vals[i] = Empty
  /\ \A n \in backed : n <= tail =>
       \E t \in Thieves : At(t, "unback") /\ next[t] = n
  /\ \A n \in DOMAIN rings : n < tail => IsEmpty(rings[n])
=============================================================================
