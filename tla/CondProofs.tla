----------------------------- MODULE CondProofs -----------------------------
(***************************************************************************)
(* Theorems about sync.Cond and its notifyList, for any finite set of      *)
(* goroutines, any even number of tickets that is at least twice theirs,   *)
(* and any bound on the items of the clients: notifyList keeps the promise *)
(* of a condition variable, a Signal or Broadcast that gives up on its     *)
(* fast path has nobody to notify, and no client sleeps beside an item.    *)
(*                                                                         *)
(* Tickets wrap around, so they are compared by how many have been drawn   *)
(* since: the tickets that nobody has notified are those whose age is at   *)
(* most the number pending, they are held by one waiter each, and so they  *)
(* are never more than half of all.                                        *)
(***************************************************************************)
EXTENDS MCCond, FiniteSetTheorems, SequenceTheorems, TLAPS

Half == Tickets \div 2

\* How many tickets have been drawn from b on, when a is the next.
Gap(a, b) == (a - b) % Tickets

\* The tickets nobody has notified yet, and the draws since a goroutine's
\* ticket, its own included: waiters are older than those behind them.
Pending == Gap(wait, notify)
Age(g) == Gap(wait, t[g])

OnTheWay == {"added", "enter"}
WaitPC == {"added", "enter", "asleep", "woken", "relock"}

(* c.L is held by whoever is past its Lock, and in Wait until Unlock.      *)
CondLockInv ==
  \A g \in G : /\ holder = g <=> pc[g] \in {"hold", "added"}
               /\ g \in wants <=> pc[g] \in {"lock", "relock"}

(* Each entry of the list is a goroutine asleep, with its own ticket.      *)
CondListInv ==
  /\ \A n \in DOMAIN list :
       pc[list[n].g] = "asleep" /\ list[n].ticket = t[list[n].g]
  /\ \A m, n \in DOMAIN list : list[m].g = list[n].g => m = n

OnList == {list[n].g : n \in DOMAIN list}

(* So is each one that a notifier has taken off the list, in one place.    *)
CondReadyInv ==
  \A g \in G :
    /\ ready[g] # <<>> <=> pc[g] = "ready"
    /\ \A n \in DOMAIN ready[g] :
         pc[ready[g][n].g] = "asleep" /\ ready[g][n].g \notin OnList
    /\ \A h \in G : \A m \in DOMAIN ready[g], n \in DOMAIN ready[h] :
         ready[g][m].g = ready[h][n].g => g = h /\ m = n

(* Who is on the way to the list is not older than half of all tickets.    *)
WayInv == \A g \in G : pc[g] \in OnTheWay => Age(g) \in 1 .. Half

(* The waiters nobody has notified hold the pending tickets, one each.     *)
TicketInv ==
  /\ \A g \in WaitersNow : Age(g) \in 1 .. Pending
  /\ \A g, h \in WaitersNow : t[g] = t[h] => g = h
  /\ \A n \in 1 .. Pending : \E g \in WaitersNow : Age(g) = n
  /\ Cardinality(WaitersNow) = Pending

CondInv ==
  /\ TypeOK /\ CondLockInv /\ CondListInv /\ CondReadyInv
  /\ WayInv /\ TicketInv

(* A notifier between its loads: whom it owes is older than its load.      *)
OwedInv ==
  \A g \in G : \A h \in owed[g] :
    Loading(g) /\ h \in WaitersNow /\ Age(g) < Age(h)

(* Clients: free ones have no items; a put is signalled before the next,   *)
(* and only takers wait.                                                   *)
RoleInv ==
  /\ items \in Nat
  /\ \/ items = 0 /\ role = [g \in G |-> "free"]
     \/ role \in [G -> {"put", "take", "signal"}]
  /\ \A g \in G :
       /\ role[g] = "signal" => pc[g] = "out"
       /\ role[g] = "put" => pc[g] \notin WaitPC

\* The signals that will not end on their fast path while h waits.
SignalsFor(h) ==
  {g \in G : \/ role[g] = "signal" \/ pc[g] = "oneLocked"
             \/ pc[g] = "one" /\ Age(g) < Age(h)}

(* For each waiter, every item has a signal or a taker that is coming.     *)
ItemsInv ==
  \A h \in WaitersNow :
    items <= Cardinality(SignalsFor(h)) + Cardinality(TakersComing)

-----------------------------------------------------------------------------
(* Tickets.                                                                *)

LEMMA HalfFacts == Tickets \in Nat /\ Half \in Nat /\ 2 * Half = Tickets
  BY CondAssumption DEF Half

(* A gap is the difference, or what it wraps around to.                    *)
LEMMA GapIs ==
  ASSUME NEW a \in 0 .. Tickets - 1, NEW b \in 0 .. Tickets - 1
  PROVE  /\ Gap(a, b) = IF a >= b THEN a - b ELSE a - b + Tickets
         /\ Gap(a, b) \in 0 .. Tickets - 1
<1>1. a >= b => (a - b) % Tickets = a - b
  BY CondAssumption
<1>2. a < b => (a - b) % Tickets = a - b + Tickets
  BY CondAssumption
<1> QED
  BY <1>1, <1>2, CondAssumption DEF Gap

LEMMA AfterIs ==
  ASSUME NEW a \in 0 .. Tickets - 1
  PROVE  /\ After(a) = IF a = Tickets - 1 THEN 0 ELSE a + 1
         /\ After(a) \in 0 .. Tickets - 1
<1>1. a = Tickets - 1 => (a + 1) % Tickets = 0
  BY CondAssumption
<1>2. a < Tickets - 1 => (a + 1) % Tickets = a + 1
  BY CondAssumption
<1> QED
  BY <1>1, <1>2, CondAssumption DEF After

(* Drawing a ticket makes every gap to it longer by one, notifying one     *)
(* makes the gap to the next draw shorter by one.                          *)
LEMMA GapGrows ==
  ASSUME NEW a \in 0 .. Tickets - 1, NEW b \in 0 .. Tickets - 1
  PROVE  /\ Gap(a, b) + 1 < Tickets => Gap(After(a), b) = Gap(a, b) + 1
         /\ Gap(a, b) # 0 => Gap(a, After(b)) = Gap(a, b) - 1
         /\ Gap(a, b) = 0 <=> a = b
<1>1. /\ Gap(a, b) = IF a >= b THEN a - b ELSE a - b + Tickets
      /\ After(a) = IF a = Tickets - 1 THEN 0 ELSE a + 1
      /\ After(b) = IF b = Tickets - 1 THEN 0 ELSE b + 1
      /\ After(a) \in 0 .. Tickets - 1 /\ After(b) \in 0 .. Tickets - 1
  BY GapIs, AfterIs
<1>2. Gap(After(a), b) =
        IF After(a) >= b THEN After(a) - b ELSE After(a) - b + Tickets
  BY <1>1, GapIs
<1>3. Gap(a, After(b)) =
        IF a >= After(b) THEN a - After(b) ELSE a - After(b) + Tickets
  BY <1>1, GapIs
<1> QED
  BY <1>1, <1>2, <1>3, HalfFacts

LEMMA GapTells ==
  ASSUME NEW a \in 0 .. Tickets - 1, NEW b \in 0 .. Tickets - 1,
         NEW c \in 0 .. Tickets - 1
  PROVE  Gap(a, b) = Gap(a, c) <=> b = c
<1>1. /\ Gap(a, b) = IF a >= b THEN a - b ELSE a - b + Tickets
      /\ Gap(a, c) = IF a >= c THEN a - c ELSE a - c + Tickets
  BY GapIs
<1> QED
  BY <1>1, HalfFacts

(* The sign of a difference tells which of two tickets is older, as long   *)
(* as neither is older than half of all tickets.                           *)
LEMMA LessIsOlder ==
  ASSUME NEW w \in 0 .. Tickets - 1, NEW a \in 0 .. Tickets - 1,
         NEW b \in 0 .. Tickets - 1,
         Gap(w, a) \in 1 .. Half, Gap(w, b) <= Half
  PROVE  Less(a, b) <=> Gap(w, a) > Gap(w, b)
<1>1. Less(a, b) <=> Gap(a, b) >= Half
  BY DEF Less, Gap, Half
<1>2. /\ Gap(w, a) = IF w >= a THEN w - a ELSE w - a + Tickets
      /\ Gap(w, b) = IF w >= b THEN w - b ELSE w - b + Tickets
      /\ Gap(a, b) = IF a >= b THEN a - b ELSE a - b + Tickets
  BY GapIs
<1> QED
  BY <1>1, <1>2, HalfFacts

(* The n-th of the pending tickets.                                        *)
LEMMA NthPending ==
  ASSUME NEW w \in 0 .. Tickets - 1, NEW a \in 0 .. Tickets - 1,
         NEW n \in 1 .. Gap(w, a)
  PROVE  /\ (a + n - 1) % Tickets \in 0 .. Tickets - 1
         /\ Gap(w, (a + n - 1) % Tickets) = Gap(w, a) - n + 1
<1> DEFINE k == (a + n - 1) % Tickets
<1>1. /\ Gap(w, a) \in 0 .. Tickets - 1
      /\ Gap(w, a) = IF w >= a THEN w - a ELSE w - a + Tickets
  BY GapIs
<1>2. a + n - 1 < Tickets => k = a + n - 1
  BY HalfFacts
<1>3. a + n - 1 >= Tickets => k = a + n - 1 - Tickets
  BY <1>1, HalfFacts
<1> HIDE DEF k
<1>4. k \in 0 .. Tickets - 1
  BY <1>1, <1>2, <1>3, HalfFacts
<1>5. Gap(w, k) = IF w >= k THEN w - k ELSE w - k + Tickets
  BY <1>4, GapIs
<1>6. Gap(w, k) = Gap(w, a) - n + 1
  BY <1>1, <1>2, <1>3, <1>5, HalfFacts
<1> QED
  BY <1>4, <1>6 DEF k

-----------------------------------------------------------------------------
(* What a step does to the waiters and their tickets.                      *)

Same ==
  /\ UNCHANGED <<wait, notify>> /\ WaitersNow' = WaitersNow
  /\ \A h \in WaitersNow : t'[h] = t[h]

Joins(g) ==
  /\ g \in G \ WaitersNow /\ WaitersNow' = WaitersNow \cup {g}
  /\ wait' = After(wait) /\ UNCHANGED notify
  /\ t' = [t EXCEPT ![g] = wait]

OldestLeaves(f) ==
  /\ f \in WaitersNow /\ Age(f) = Pending /\ WaitersNow' = WaitersNow \ {f}
  /\ notify' = After(notify) /\ UNCHANGED <<wait, t>>

AllLeave ==
  WaitersNow' = {} /\ notify' = wait /\ UNCHANGED <<wait, t>>

WaiterStep ==
  \/ Same \/ AllLeave
  \/ \E g \in G : Joins(g) \/ OldestLeaves(g)

(* The gaps of a state that the types allow.                               *)
LEMMA AgeType ==
  ASSUME TypeOK
  PROVE  /\ Pending \in 0 .. Tickets - 1
         /\ \A g \in G :
              Age(g) \in 0 .. Tickets - 1 /\ t[g] \in 0 .. Tickets - 1
         /\ wait \in 0 .. Tickets - 1 /\ notify \in 0 .. Tickets - 1
         /\ Pending = 0 <=> wait = notify
<1>1. wait \in 0 .. Tickets - 1 /\ notify \in 0 .. Tickets - 1
  BY DEF TypeOK
<1>2. \A g \in G : t[g] \in 0 .. Tickets - 1
  BY DEF TypeOK
<1>3. \A g \in G : Gap(wait, t[g]) \in 0 .. Tickets - 1
  BY <1>1, <1>2, GapIs
<1>4. /\ Gap(wait, notify) \in 0 .. Tickets - 1
      /\ Gap(wait, notify) = 0 <=> wait = notify
  BY <1>1, GapIs, GapGrows
<1> QED
  BY <1>1, <1>2, <1>3, <1>4 DEF Age, Pending

LEMMA PendingType == TypeOK => Pending \in Nat
  BY AgeType

LEMMA WaitersFinite ==
  /\ IsFiniteSet(WaitersNow) /\ WaitersNow \subseteq G
  /\ Cardinality(WaitersNow) \in 0 .. Half
<1>1. WaitersNow \subseteq G
  BY DEF WaitersNow
<1>2. IsFiniteSet(WaitersNow) /\ Cardinality(WaitersNow) <= Cardinality(G)
  BY <1>1, CondAssumption, FS_Subset
<1> QED
  BY <1>1, <1>2, CondAssumption, HalfFacts, FS_CardinalityType DEF Half

(* Nobody knows more than half of the tickets to be pending.               *)
LEMMA PendingHalf == TicketInv => Pending \in 0 .. Half
  BY WaitersFinite DEF TicketInv

(* The tickets of waiters survive each of the steps.                       *)
LEMMA SameTickets ==
  ASSUME TypeOK, TicketInv, Same PROVE TicketInv'
<1>1. Pending' = Pending /\ \A g \in WaitersNow : Age(g)' = Age(g)
  BY DEF Same, Pending, Age
<1> QED
  BY <1>1 DEF Same, TicketInv

LEMMA RoomToJoin ==
  ASSUME TypeOK, TicketInv, NEW x \in G \ WaitersNow
  PROVE  /\ Pending + 1 <= Half /\ Half < Tickets
         /\ Gap(After(wait), notify) = Pending + 1 /\ Gap(After(wait), wait) = 1
         /\ Cardinality(WaitersNow \cup {x}) = Pending + 1
<1>1. /\ IsFiniteSet(WaitersNow) /\ x \notin WaitersNow
      /\ Pending \in 0 .. Half /\ Cardinality(WaitersNow) = Pending
  BY PendingHalf, WaitersFinite DEF TicketInv
<1>2. Cardinality(WaitersNow \cup {x}) = Pending + 1
  BY <1>1, FS_AddElement
<1>3. Cardinality(WaitersNow \cup {x}) <= Half
  <2>1. WaitersNow \cup {x} \subseteq G
    BY WaitersFinite
  <2> QED
    BY <2>1, CondAssumption, HalfFacts, FS_Subset, FS_CardinalityType DEF Half
<1>4. Pending + 1 <= Half /\ Half < Tickets
  BY <1>1, <1>2, <1>3, HalfFacts
<1>5. wait \in 0 .. Tickets - 1 /\ notify \in 0 .. Tickets - 1
  BY AgeType
<1>6. Gap(After(wait), notify) = Pending + 1
  BY <1>1, <1>4, <1>5, GapGrows, HalfFacts DEF Pending
<1>7. Gap(wait, wait) = 0
  BY <1>5, GapGrows
<1>8. Gap(After(wait), wait) = 1
  BY <1>1, <1>4, <1>5, <1>7, GapGrows, HalfFacts
<1> QED
  BY <1>2, <1>4, <1>6, <1>8

LEMMA JoinTickets ==
  ASSUME TypeOK, TicketInv, NEW x \in G, Joins(x)
  PROVE  /\ TicketInv' /\ Pending' = Pending + 1
         /\ Age(x)' = 1 /\ \A g \in WaitersNow : Age(g)' = Age(g) + 1
<1>1. /\ x \notin WaitersNow /\ Pending \in 0 .. Half
      /\ wait \in 0 .. Tickets - 1 /\ notify \in 0 .. Tickets - 1
      /\ \A g \in G : t[g] \in 0 .. Tickets - 1 /\ Age(g) \in 0 .. Tickets - 1
  BY PendingHalf, AgeType DEF Joins
<1>2. Cardinality(WaitersNow') = Pending + 1
  BY <1>1, RoomToJoin DEF Joins
<1>3. Pending + 1 <= Half /\ Half < Tickets
  BY <1>1, RoomToJoin
<1>4. Pending' = Pending + 1
  BY <1>1, RoomToJoin DEF Joins, Pending
<1>5. Age(x)' = 1 /\ t'[x] = wait
  BY <1>1, RoomToJoin DEF Joins, Age, TypeOK
<1>6. ASSUME NEW g \in WaitersNow
      PROVE  Age(g)' = Age(g) + 1 /\ t'[g] = t[g] /\ t[g] # wait
  <2>1. g \in G /\ g # x /\ Age(g) \in 1 .. Pending
    BY <1>1, WaitersFinite DEF TicketInv
  <2>2. t'[g] = t[g]
    BY <2>1 DEF Joins, TypeOK
  <2>3. Gap(wait, t[g]) + 1 < Tickets /\ Gap(wait, t[g]) # 0
    BY <1>1, <1>3, <2>1, HalfFacts DEF Age
  <2> QED
    BY <1>1, <2>1, <2>2, <2>3, GapGrows DEF Age, Joins
<1>7. ASSUME NEW n \in 1 .. Pending + 1
      PROVE  \E g \in WaitersNow' : Age(g)' = n
  <2>1. CASE n = 1
    BY <1>5, <2>1 DEF Joins
  <2>2. CASE n # 1
    <3>1. n - 1 \in 1 .. Pending
      BY <1>1, <2>2
    <3>2. PICK g \in WaitersNow : Age(g) = n - 1
      BY <3>1 DEF TicketInv
    <3> QED
      BY <1>6, <3>2 DEF Joins
  <2> QED
    BY <2>1, <2>2
<1>8. \A g \in WaitersNow' : Age(g)' \in 1 .. Pending + 1
  BY <1>1, <1>5, <1>6 DEF Joins, TicketInv
<1>9. \A g, h \in WaitersNow' : t'[g] = t'[h] => g = h
  BY <1>5, <1>6 DEF Joins, TicketInv
<1> QED
  BY <1>2, <1>4, <1>5, <1>6, <1>7, <1>8, <1>9 DEF TicketInv

LEMMA LeaveTickets ==
  ASSUME TypeOK, TicketInv, NEW f \in G, OldestLeaves(f)
  PROVE  /\ TicketInv' /\ Pending' = Pending - 1
         /\ \A g \in G : Age(g)' = Age(g)
<1>1. /\ IsFiniteSet(WaitersNow) /\ f \in WaitersNow /\ WaitersNow \subseteq G
      /\ Pending \in 0 .. Half /\ Cardinality(WaitersNow) = Pending
      /\ Pending \in 1 .. Pending
  BY PendingHalf, WaitersFinite DEF OldestLeaves, TicketInv
<1>2. Cardinality(WaitersNow') = Pending - 1
  BY <1>1, FS_RemoveElement DEF OldestLeaves
<1>3. /\ wait \in 0 .. Tickets - 1 /\ notify \in 0 .. Tickets - 1
      /\ \A g \in G : t[g] \in 0 .. Tickets - 1 /\ Age(g) \in 0 .. Tickets - 1
  BY AgeType
<1>4. Pending' = Pending - 1
  BY <1>1, <1>3, GapGrows DEF OldestLeaves, Pending
<1>5. \A g \in G : Age(g)' = Age(g) /\ t'[g] = t[g]
  BY DEF OldestLeaves, Age
<1>6. ASSUME NEW g \in WaitersNow, g # f
      PROVE  Age(g) \in 1 .. Pending - 1
  <2>1. Age(g) \in 1 .. Pending /\ t[g] # t[f]
    BY <1>1, <1>6 DEF TicketInv
  <2>2. Gap(wait, t[g]) # Gap(wait, t[f])
    BY <1>1, <1>3, <2>1, GapTells
  <2> QED
    BY <1>1, <2>1, <2>2 DEF Age, OldestLeaves
<1>7. ASSUME NEW n \in 1 .. Pending - 1
      PROVE  \E g \in WaitersNow' : Age(g)' = n
  <2>1. PICK g \in WaitersNow : Age(g) = n
    BY <1>1 DEF TicketInv
  <2>2. g # f
    BY <1>1, <2>1 DEF OldestLeaves
  <2> QED
    BY <1>1, <1>5, <2>1, <2>2 DEF OldestLeaves
<1>8. \A g \in WaitersNow' : Age(g)' \in 1 .. Pending - 1
  BY <1>1, <1>5, <1>6 DEF OldestLeaves
<1>9. \A g, h \in WaitersNow' : t'[g] = t'[h] => g = h
  BY <1>1, <1>5 DEF OldestLeaves, TicketInv
<1> QED
  BY <1>2, <1>4, <1>5, <1>7, <1>8, <1>9 DEF TicketInv

LEMMA AllLeaveTickets ==
  ASSUME TypeOK, TicketInv, AllLeave PROVE TicketInv' /\ Pending' = 0
<1>1. Pending' = 0
  BY AgeType, GapGrows DEF AllLeave, Pending
<1>2. Cardinality(WaitersNow') = 0
  BY FS_EmptySet DEF AllLeave
<1> QED
  BY <1>1, <1>2 DEF AllLeave, TicketInv

LEMMA WaiterStepTickets == TypeOK /\ TicketInv /\ WaiterStep => TicketInv'
  BY SameTickets, JoinTickets, LeaveTickets, AllLeaveTickets DEF WaiterStep

-----------------------------------------------------------------------------
(* What each operation does to the rest of the invariant, and to waiters.  *)

Kept == TypeOK' /\ CondLockInv' /\ CondListInv' /\ CondReadyInv' /\ WayInv'

Sudogs == [g : G, ticket : 0 .. Tickets - 1]

LEMMA SudogAt ==
  ASSUME NEW s \in Seq(Sudogs), NEW n \in DOMAIN s
  PROVE  s[n] \in Sudogs /\ s[n].g \in G /\ s[n].ticket \in 0 .. Tickets - 1
<1>1. s[n] \in Sudogs
  OBVIOUS
<1> QED
  BY <1>1 DEF Sudogs

LEMMA SudogTypes ==
  ASSUME TypeOK
  PROVE  /\ pc \in [G -> CondPC]
         /\ list \in Seq(Sudogs) /\ ready \in [G -> Seq(Sudogs)]
         /\ \A n \in DOMAIN list : list[n].g \in G
         /\ \A h \in G : \A n \in DOMAIN ready[h] : ready[h][n].g \in G
<1>1. /\ pc \in [G -> CondPC]
      /\ list \in Seq(Sudogs) /\ ready \in [G -> Seq(Sudogs)]
  BY DEF TypeOK, Sudogs
<1>2. \A h \in G : ready[h] \in Seq(Sudogs)
  BY <1>1
<1> QED
  BY <1>1, <1>2, SudogAt

(* On the way to the list, the tickets tell who has been notified.         *)
LEMMA OnTheWayTells ==
  ASSUME TypeOK, WayInv, TicketInv, NEW g \in G, pc[g] \in OnTheWay
  PROVE  Unnotified(g) <=> Age(g) <= Pending
<1>1. Less(t[g], notify) <=> Age(g) > Pending
  BY AgeType, LessIsOlder, PendingHalf DEF WayInv, Age, Pending
<1>2. Unnotified(g) <=> ~Less(t[g], notify)
  BY DEF Unnotified, OnTheWay
<1> QED
  BY <1>1, <1>2, AgeType, HalfFacts DEF OnTheWay

\* Where a goroutine neither waits nor holds waiters.
Apart == CondPC \ {"added", "enter", "asleep", "ready"}

(* A step of a goroutine that has nothing to do with the list.             *)
LEMMA ApartStep ==
  ASSUME CondInv, NEW g \in G, pc[g] \in Apart, NEW to \in Apart,
         pc' = [pc EXCEPT ![g] = to], t' \in [G -> 0 .. Tickets - 1],
         \A h \in G \ {g} : t'[h] = t[h],
         UNCHANGED <<wait, notify, list, ready>>
  PROVE  /\ CondListInv' /\ CondReadyInv' /\ WayInv' /\ Same
         /\ pc' \in [G -> CondPC]
<1> USE DEF Apart, CondPC
<1>1. /\ pc \in [G -> CondPC]
      /\ \A n \in DOMAIN list : list[n].g \in G
      /\ \A h \in G : \A n \in DOMAIN ready[h] : ready[h][n].g \in G
  BY SudogTypes DEF CondInv
<1>2. \A h \in G : pc'[h] = IF h = g THEN to ELSE pc[h]
  BY <1>1
<1>3. OnList' = OnList /\ \A h : Listed(h)' = Listed(h)
  BY DEF Listed, OnList
<1>4. \A h \in G : Unnotified(h)' <=> Unnotified(h)
  BY <1>2, <1>3 DEF Unnotified, Less
<1>5. WaitersNow' = WaitersNow /\ g \notin WaitersNow
  BY <1>2, <1>4 DEF WaitersNow, Unnotified
<1>6. Same
  BY <1>5, WaitersFinite DEF Same
<1>7. CondListInv'
  BY <1>1, <1>2 DEF CondInv, CondListInv
<1>8. CondReadyInv'
  BY <1>1, <1>2, <1>3 DEF CondInv, CondReadyInv
<1>9. WayInv'
  BY <1>2 DEF CondInv, WayInv, Age, OnTheWay
<1> QED
  BY <1>1, <1>6, <1>7, <1>8, <1>9

LEMMA LockLKeeps ==
  ASSUME CondInv, NEW g \in G, LockL(g) PROVE Kept /\ Same
<1> USE CondAssumption DEF CondInv, TypeOK, CondLockInv, Goto
<1>1. \E to \in {"lock", "hold"} :
        pc[g] \in {"out", "lock"} /\ pc' = [pc EXCEPT ![g] = to]
  BY DEF LockL
<1>2. CondListInv' /\ CondReadyInv' /\ WayInv' /\ Same /\ pc' \in [G -> CondPC]
  BY <1>1, ApartStep DEF LockL, Apart, CondPC
<1>3. TypeOK' /\ CondLockInv'
  BY <1>2 DEF LockL, Lk!Request, Lk!Acquire
<1> QED
  BY <1>2, <1>3 DEF Kept

LEMMA UnlockLKeeps ==
  ASSUME CondInv, NEW g \in G, UnlockL(g) PROVE Kept /\ Same
<1> USE CondAssumption DEF CondInv, TypeOK, CondLockInv, Goto
<1>1. pc[g] = "hold" /\ pc' = [pc EXCEPT ![g] = "out"]
  BY DEF UnlockL
<1>2. CondListInv' /\ CondReadyInv' /\ WayInv' /\ Same /\ pc' \in [G -> CondPC]
  BY <1>1, ApartStep DEF UnlockL, Apart, CondPC
<1>3. TypeOK' /\ CondLockInv'
  BY <1>2 DEF UnlockL, Lk!Release
<1> QED
  BY <1>2, <1>3 DEF Kept

LEMMA WaitLockKeeps ==
  ASSUME CondInv, NEW g \in G, WaitLock(g) PROVE Kept /\ Same
<1> USE CondAssumption DEF CondInv, TypeOK, CondLockInv, Goto
<1>1. \E to \in {"relock", "hold"} :
        pc[g] \in {"woken", "relock"} /\ pc' = [pc EXCEPT ![g] = to]
  BY DEF WaitLock
<1>2. CondListInv' /\ CondReadyInv' /\ WayInv' /\ Same /\ pc' \in [G -> CondPC]
  BY <1>1, ApartStep DEF WaitLock, Apart, CondPC
<1>3. TypeOK' /\ CondLockInv'
  BY <1>2 DEF WaitLock, Lk!Request, Lk!Acquire
<1> QED
  BY <1>2, <1>3 DEF Kept

LEMMA LoadKeeps ==
  ASSUME CondInv, NEW g \in G, NEW to \in {"one", "all"}, Load(g, to)
  PROVE  Kept /\ Same
<1> USE CondAssumption DEF CondInv, TypeOK, CondLockInv, Goto
<1>1. pc[g] = "out" /\ pc' = [pc EXCEPT ![g] = to]
  BY DEF Load
<1>2. t' \in [G -> 0 .. Tickets - 1] /\ \A h \in G \ {g} : t'[h] = t[h]
  BY DEF Load
<1>3. CondListInv' /\ CondReadyInv' /\ WayInv' /\ Same /\ pc' \in [G -> CondPC]
  BY <1>1, <1>2, ApartStep DEF Load, Apart, CondPC
<1>4. TypeOK' /\ CondLockInv'
  BY <1>1, <1>2, <1>3 DEF Load, L
<1> QED
  BY <1>3, <1>4 DEF Kept

LEMMA FastPathKeeps ==
  ASSUME CondInv, NEW g \in G, NEW from \in {"one", "all"},
         NEW to \in {"oneLocked", "allLocked"}, FastPath(g, from, to)
  PROVE  Kept /\ Same
<1> USE CondAssumption DEF CondInv, TypeOK, CondLockInv, Goto
<1>1. \E at \in {"out", "oneLocked", "allLocked"} :
        pc[g] = from /\ pc' = [pc EXCEPT ![g] = at]
  BY DEF FastPath
<1>2. CondListInv' /\ CondReadyInv' /\ WayInv' /\ Same /\ pc' \in [G -> CondPC]
  BY <1>1, ApartStep DEF FastPath, Apart, CondPC
<1>3. TypeOK' /\ CondLockInv'
  BY <1>1, <1>2 DEF FastPath, L
<1> QED
  BY <1>2, <1>3 DEF Kept

LEMMA WaitUnlockKeeps ==
  ASSUME CondInv, NEW g \in G, WaitUnlock(g) PROVE Kept /\ Same
<1> USE CondAssumption DEF CondInv, CondLockInv, Goto
<1>1. /\ pc[g] = "added" /\ pc' = [pc EXCEPT ![g] = "enter"]
      /\ UNCHANGED <<wait, notify, list, t, ready>> /\ Lk!Release(g)
  BY DEF WaitUnlock
<1>2. /\ \A n \in DOMAIN list : list[n].g \in G
      /\ \A h \in G : \A n \in DOMAIN ready[h] : ready[h][n].g \in G
      /\ \A h \in G : pc'[h] = IF h = g THEN "enter" ELSE pc[h]
  BY <1>1, SudogTypes
<1>3. OnList' = OnList /\ \A h : Listed(h)' = Listed(h)
  BY <1>1 DEF Listed, OnList
<1>4. TypeOK' /\ CondLockInv'
  BY <1>1 DEF TypeOK, Lk!Release, CondPC
<1>5. CondListInv'
  BY <1>1, <1>2 DEF CondListInv
<1>6. CondReadyInv'
  BY <1>1, <1>2, <1>3 DEF CondReadyInv
<1>7. WayInv'
  BY <1>1, <1>2 DEF WayInv, Age, OnTheWay
<1>8. \A h \in G : Unnotified(h)' <=> Unnotified(h)
  BY <1>1, <1>2, <1>3 DEF Unnotified, Less
<1>9. Same
  BY <1>1, <1>8 DEF Same, WaitersNow
<1> QED
  BY <1>4, <1>5, <1>6, <1>7, <1>9 DEF Kept

LEMMA ListWaitKeeps ==
  ASSUME CondInv, NEW g \in G, ListWait(g) PROVE Kept /\ Same
<1> USE DEF CondInv, Goto
<1>1. /\ pc[g] = "enter" /\ UNCHANGED <<holder, wants, wait, notify, t, ready>>
      /\ pc' = [pc EXCEPT ![g] =
                  IF Less(t[g], notify) THEN "woken" ELSE "asleep"]
      /\ IF Less(t[g], notify) THEN list' = list
         ELSE list' = Append(list, [g |-> g, ticket |-> t[g]])
  BY DEF ListWait, L
<1>2. /\ \A n \in DOMAIN list : list[n].g \in G
      /\ \A h \in G : \A n \in DOMAIN ready[h] : ready[h][n].g \in G
      /\ \A h \in G : h # g => pc'[h] = pc[h]
      /\ pc'[g] = IF Less(t[g], notify) THEN "woken" ELSE "asleep"
      /\ pc' \in [G -> CondPC] /\ [g |-> g, ticket |-> t[g]] \in Sudogs
      /\ list \in Seq(Sudogs)
  BY <1>1, SudogTypes DEF CondPC, TypeOK, Sudogs
<1>3. list' \in Seq(Sudogs)
  BY <1>1, <1>2
<1>4. TypeOK' /\ CondLockInv'
  BY <1>1, <1>2, <1>3 DEF TypeOK, CondLockInv, Sudogs
<1>5. /\ \A h : Listed(h)' <=> Listed(h) \/ (h = g /\ ~Less(t[g], notify))
      /\ \A h : h \in OnList <=> Listed(h)
      /\ \A h : h \in OnList' <=> Listed(h)'
  <2>1. CASE Less(t[g], notify)
    BY <1>1, <2>1 DEF Listed, OnList
  <2>2. CASE ~Less(t[g], notify)
    <3>1. /\ DOMAIN list' = DOMAIN list \cup {Len(list) + 1}
          /\ \A n \in DOMAIN list : list'[n] = list[n]
          /\ list'[Len(list) + 1].g = g
      BY <1>1, <1>2, <2>2
    <3> QED
      BY <2>2, <3>1 DEF Listed, OnList
  <2> QED
    BY <2>1, <2>2
<1>6. CondListInv'
  <2>1. CASE Less(t[g], notify)
    BY <1>1, <1>2, <2>1 DEF CondListInv
  <2>2. CASE ~Less(t[g], notify)
    <3>1. /\ DOMAIN list' = DOMAIN list \cup {Len(list) + 1}
          /\ \A n \in DOMAIN list : list'[n] = list[n]
          /\ list'[Len(list) + 1] = [g |-> g, ticket |-> t[g]]
      BY <1>1, <1>2, <2>2
    <3>2. \A n \in DOMAIN list : list[n].g # g
      BY <1>1 DEF CondListInv
    <3>3. \A n \in DOMAIN list' :
            pc'[list'[n].g] = "asleep" /\ list'[n].ticket = t'[list'[n].g]
      BY <1>1, <1>2, <2>2, <3>1, <3>2 DEF CondListInv
    <3>4. \A m, n \in DOMAIN list' : list'[m].g = list'[n].g => m = n
      BY <3>1, <3>2 DEF CondListInv
    <3> QED
      BY <3>3, <3>4 DEF CondListInv
  <2> QED
    BY <2>1, <2>2
<1>7. CondReadyInv'
  BY <1>1, <1>2, <1>5 DEF CondReadyInv
<1>8. WayInv'
  BY <1>1, <1>2 DEF WayInv, Age, OnTheWay
<1>9. \A h \in G : Unnotified(h)' <=> Unnotified(h)
  BY <1>1, <1>2, <1>5 DEF Unnotified, Less
<1>10. Same
  BY <1>1, <1>9 DEF Same, WaitersNow
<1> QED
  BY <1>4, <1>6, <1>7, <1>8, <1>10 DEF Kept

LEMMA AddKeeps ==
  ASSUME CondInv, NEW g \in G, Timely, Add(g) PROVE Kept /\ Joins(g)
<1> USE DEF CondInv, Goto
<1>1. /\ pc[g] = "hold" /\ pc' = [pc EXCEPT ![g] = "added"]
      /\ t' = [t EXCEPT ![g] = wait] /\ wait' = After(wait)
      /\ UNCHANGED <<holder, wants, notify, list, ready>>
  BY DEF Add, L
<1>2. /\ \A n \in DOMAIN list : list[n].g \in G
      /\ \A h \in G : \A n \in DOMAIN ready[h] : ready[h][n].g \in G
      /\ \A h \in G : h # g => pc'[h] = pc[h] /\ t'[h] = t[h]
      /\ pc'[g] = "added" /\ t'[g] = wait
      /\ pc' \in [G -> CondPC] /\ t' \in [G -> 0 .. Tickets - 1]
      /\ wait \in 0 .. Tickets - 1 /\ notify \in 0 .. Tickets - 1
      /\ wait' \in 0 .. Tickets - 1
  BY <1>1, SudogTypes, AfterIs DEF CondPC, TypeOK
<1>3. OnList' = OnList /\ \A h : Listed(h)' = Listed(h)
  BY <1>1 DEF Listed, OnList
<1>4. TypeOK' /\ CondLockInv'
  BY <1>1, <1>2 DEF TypeOK, CondLockInv
<1>5. CondListInv'
  BY <1>1, <1>2 DEF CondListInv
<1>6. CondReadyInv'
  BY <1>1, <1>2, <1>3 DEF CondReadyInv
<1>7. g \in G \ WaitersNow
  BY <1>1 DEF WaitersNow, Unnotified
<1>8. /\ Gap(wait', notify) = Pending + 1 /\ Gap(wait', wait) = 1
      /\ Pending + 1 <= Half /\ Half < Tickets /\ Pending \in Nat
  <2>1. /\ Pending + 1 <= Half /\ Half < Tickets
        /\ Gap(After(wait), notify) = Pending + 1 /\ Gap(After(wait), wait) = 1
    BY <1>7, RoomToJoin
  <2>2. Pending \in Nat
    BY PendingHalf
  <2> QED
    BY <1>1, <2>1, <2>2
<1>9. ~Less(wait, notify)
  BY <1>2, <1>8, LessIsOlder, HalfFacts
<1>10. \A h \in G : Unnotified(h)' <=> Unnotified(h) \/ h = g
  BY <1>1, <1>2, <1>3, <1>9 DEF Unnotified, Less
<1>11. Joins(g)
  BY <1>1, <1>7, <1>10 DEF Joins, WaitersNow
<1>12. ASSUME NEW h \in G, pc'[h] \in OnTheWay PROVE Age(h)' \in 1 .. Half
  <2>1. CASE h = g
    BY <1>2, <1>8, <2>1, HalfFacts DEF Age
  <2>2. CASE h # g
    <3>1. Gap(wait, t[h]) \in 1 .. Half /\ Gap(wait, t[h]) < Half
      BY <1>2, <1>12, <2>2 DEF WayInv, Timely, OnTheWay, Gap, Half, Age
    <3>2. t[h] \in 0 .. Tickets - 1
      BY DEF TypeOK
    <3>3. Gap(wait', t[h]) = Gap(wait, t[h]) + 1
      BY <1>1, <1>2, <1>8, <3>1, <3>2, GapGrows, HalfFacts
    <3> QED
      BY <1>2, <2>2, <3>1, <3>3, HalfFacts DEF Age
  <2> QED
    BY <2>1, <2>2
<1> QED
  BY <1>4, <1>5, <1>6, <1>11, <1>12 DEF Kept, WayInv

(* Who has the ticket that is notified next is the oldest of the waiters.  *)
LEMMA OldestTicket ==
  ASSUME TypeOK, TicketInv, NEW f \in WaitersNow
  PROVE  t[f] = notify <=> Age(f) = Pending
<1>1. f \in G
  BY WaitersFinite
<1> QED
  BY <1>1, AgeType, GapTells DEF Age, Pending

(* When the next ticket has been notified, that is what the goroutines on  *)
(* the way to the list find, and all but the oldest are as before.         *)
LEMMA OnTheWayAfter ==
  ASSUME TypeOK, WayInv, TicketInv, notify # wait, notify' = After(notify),
         NEW f \in WaitersNow, Age(f) = Pending,
         NEW h \in G, pc[h] \in OnTheWay
  PROVE  ~Less(t[h], notify') <=> h \in WaitersNow /\ h # f
<1>1. /\ wait \in 0 .. Tickets - 1 /\ notify \in 0 .. Tickets - 1
      /\ t[h] \in 0 .. Tickets - 1 /\ t[f] \in 0 .. Tickets - 1 /\ f \in G
      /\ Pending \in 1 .. Half /\ notify' \in 0 .. Tickets - 1
  BY AgeType, AfterIs, PendingHalf, WaitersFinite
<1>2. Gap(wait, notify') = Pending - 1
  BY <1>1, GapGrows DEF Pending
<1>3. Age(h) \in 1 .. Half
  BY DEF WayInv
<1>4. Less(t[h], notify') <=> Age(h) > Pending - 1
  BY <1>1, <1>2, <1>3, LessIsOlder, HalfFacts DEF Age
<1>5. h \in WaitersNow <=> Age(h) <= Pending
  BY OnTheWayTells DEF WaitersNow
<1>6. h \in WaitersNow /\ Age(h) = Pending <=> h = f
  <2>1. h \in WaitersNow /\ Age(h) = Pending => t[h] = t[f]
    BY OldestTicket
  <2> QED
    BY <2>1 DEF TicketInv
<1> QED
  BY <1>1, <1>3, <1>4, <1>5, <1>6, HalfFacts

LEMMA RemoveAtIs ==
  ASSUME NEW s \in Seq(Sudogs), NEW n \in DOMAIN s
  PROVE  /\ RemoveAt(s, n) \in Seq(Sudogs)
         /\ DOMAIN RemoveAt(s, n) = 1 .. Len(s) - 1
         /\ \A i \in 1 .. Len(s) - 1 :
              RemoveAt(s, n)[i] = IF i < n THEN s[i] ELSE s[i + 1]
<1>1. Len(s) \in Nat /\ n \in 1 .. Len(s)
  OBVIOUS
<1> DEFINE a == SubSeq(s, 1, n - 1)
           b == SubSeq(s, n + 1, Len(s))
<1>2. /\ a \in Seq(Sudogs) /\ Len(a) = n - 1
      /\ \A i \in 1 .. n - 1 : a[i] = s[i]
  BY <1>1
<1>3. /\ b \in Seq(Sudogs) /\ Len(b) = Len(s) - n
      /\ \A i \in 1 .. Len(s) - n : b[i] = s[i + n]
  BY <1>1
<1> HIDE DEF a, b
<1>4. /\ a \o b \in Seq(Sudogs) /\ Len(a \o b) = Len(s) - 1
      /\ \A i \in 1 .. Len(s) - 1 :
           (a \o b)[i] = IF i <= n - 1 THEN a[i] ELSE b[i - (n - 1)]
  <2>1. /\ a \o b \in Seq(Sudogs) /\ Len(a \o b) = Len(a) + Len(b)
        /\ \A i \in 1 .. Len(a) + Len(b) :
             (a \o b)[i] = IF i <= Len(a) THEN a[i] ELSE b[i - Len(a)]
    BY <1>2, <1>3, ConcatProperties, Zenon
  <2>2. Len(a) + Len(b) = Len(s) - 1
    BY <1>1, <1>2, <1>3
  <2> QED
    BY <1>2, <2>1, <2>2
<1>5. ASSUME NEW i \in 1 .. Len(s) - 1
      PROVE  (a \o b)[i] = IF i < n THEN s[i] ELSE s[i + 1]
  <2>1. CASE i < n
    BY <1>1, <1>2, <1>4, <2>1
  <2>2. CASE ~(i < n)
    <3>1. i - (n - 1) \in 1 .. Len(s) - n /\ (i - (n - 1)) + n = i + 1
      BY <1>1, <2>2
    <3>2. (a \o b)[i] = b[i - (n - 1)]
      BY <1>1, <1>4, <2>2
    <3> QED
      BY <1>3, <2>2, <3>1, <3>2
  <2> QED
    BY <2>1, <2>2
<1>6. DOMAIN (a \o b) = 1 .. Len(s) - 1
  BY <1>4
<1> QED
  BY <1>4, <1>5, <1>6 DEF RemoveAt, a, b

(* Taking the n-th off the list.                                           *)
LEMMA TakenOff ==
  ASSUME TypeOK, CondListInv, NEW n \in DOMAIN list, list' = RemoveAt(list, n)
  PROVE  /\ list' \in Seq(Sudogs)
         /\ \A i \in DOMAIN list' : \E j \in DOMAIN list : list'[i] = list[j]
         /\ \A i, j \in DOMAIN list' : list'[i].g = list'[j].g => i = j
         /\ \A h : Listed(h)' <=> Listed(h) /\ h # list[n].g
         /\ OnList' = OnList \ {list[n].g}
<1>1. /\ list \in Seq(Sudogs) /\ Len(list) \in Nat /\ n \in 1 .. Len(list)
      /\ DOMAIN list = 1 .. Len(list)
  BY SudogTypes
<1>2. /\ list' \in Seq(Sudogs) /\ DOMAIN list' = 1 .. Len(list) - 1
      /\ \A i \in 1 .. Len(list) - 1 :
           list'[i] = IF i < n THEN list[i] ELSE list[i + 1]
  BY <1>1, RemoveAtIs
<1>3. \A i, j \in 1 .. Len(list) : list[i].g = list[j].g => i = j
  BY <1>1 DEF CondListInv
<1>4. \A i \in DOMAIN list' : \E j \in DOMAIN list : j # n /\ list'[i] = list[j]
  <2> SUFFICES ASSUME NEW i \in 1 .. Len(list) - 1
               PROVE  \E j \in 1 .. Len(list) : j # n /\ list'[i] = list[j]
    BY <1>1, <1>2
  <2>1. CASE i < n
    BY <1>1, <1>2, <2>1
  <2>2. CASE ~(i < n)
    <3>1. i + 1 \in 1 .. Len(list) /\ i + 1 # n /\ list'[i] = list[i + 1]
      BY <1>1, <1>2, <2>2
    <3> QED
      BY <3>1
  <2> QED
    BY <2>1, <2>2
<1>5. \A j \in DOMAIN list : j # n => \E i \in DOMAIN list' : list'[i] = list[j]
  <2> SUFFICES ASSUME NEW j \in 1 .. Len(list), j # n
               PROVE  \E i \in 1 .. Len(list) - 1 : list'[i] = list[j]
    BY <1>1, <1>2
  <2>1. CASE j < n
    BY <1>1, <1>2, <2>1
  <2>2. CASE ~(j < n)
    <3>1. j - 1 \in 1 .. Len(list) - 1 /\ ~(j - 1 < n) /\ (j - 1) + 1 = j
      BY <1>1, <2>2
    <3> QED
      BY <1>2, <3>1
  <2> QED
    BY <2>1, <2>2
<1>6. \A i, j \in DOMAIN list' : list'[i].g = list'[j].g => i = j
  <2> SUFFICES ASSUME NEW i \in 1 .. Len(list) - 1,
                      NEW j \in 1 .. Len(list) - 1, list'[i].g = list'[j].g
               PROVE  i = j
    BY <1>2
  <2>1. i \in 1 .. Len(list) /\ i + 1 \in 1 .. Len(list)
    BY <1>1
  <2>2. j \in 1 .. Len(list) /\ j + 1 \in 1 .. Len(list)
    BY <1>1
  <2> QED
    BY <1>1, <1>2, <1>3, <2>1, <2>2
<1>7. ASSUME NEW h PROVE Listed(h)' <=> Listed(h) /\ h # list[n].g
  BY <1>1, <1>3, <1>4, <1>5 DEF Listed
<1>8. OnList' = OnList \ {list[n].g}
  BY <1>7 DEF Listed, OnList
<1> QED
  BY <1>2, <1>4, <1>6, <1>7, <1>8

LEMMA NotifyOneKeeps ==
  ASSUME CondInv, NEW g \in G, NotifyOne(g)
  PROVE  /\ Kept
         /\ \/ notify = wait /\ Same
            \/ \E f \in WaitersNow : OldestLeaves(f)
<1> USE DEF CondInv
<1>1. /\ pc[g] = "oneLocked" /\ UNCHANGED <<holder, wants, wait, t>>
      /\ notify' = IF notify = wait THEN notify ELSE After(notify)
  BY DEF NotifyOne, TakeOff, Goto, L
<1>2. /\ pc \in [G -> CondPC] /\ list \in Seq(Sudogs)
      /\ ready \in [G -> Seq(Sudogs)]
      /\ \A n \in DOMAIN list : list[n].g \in G /\ list[n] \in Sudogs
      /\ \A h \in G : \A n \in DOMAIN ready[h] : ready[h][n].g \in G
      /\ wait \in 0 .. Tickets - 1 /\ notify \in 0 .. Tickets - 1
      /\ notify' \in 0 .. Tickets - 1
  BY <1>1, SudogTypes, SudogAt, AgeType, AfterIs
<1>3. CASE /\ notify = wait \/ \A n \in DOMAIN list : list[n].ticket # notify
           /\ Goto(g, "oneLocked", "out") /\ UNCHANGED <<list, ready>>
  <2>1. /\ \A h \in G : pc'[h] = IF h = g THEN "out" ELSE pc[h]
        /\ pc' \in [G -> CondPC] /\ \A h : Listed(h)' = Listed(h)
        /\ OnList' = OnList
    BY <1>2, <1>3 DEF Goto, CondPC, Listed, OnList
  <2>2. TypeOK' /\ CondLockInv'
    BY <1>1, <1>2, <1>3, <2>1 DEF TypeOK, CondLockInv
  <2>3. CondListInv' /\ CondReadyInv' /\ WayInv'
    BY <1>1, <1>2, <1>3, <2>1
    DEF CondListInv, CondReadyInv, WayInv, Age, OnTheWay
  <2>4. CASE notify = wait
    <3>1. \A h \in G : Unnotified(h)' <=> Unnotified(h)
      BY <1>1, <2>1, <2>4 DEF Unnotified, Less
    <3> QED
      BY <1>1, <2>2, <2>3, <2>4, <3>1 DEF Kept, Same, WaitersNow
  <2>5. CASE notify # wait
    <3>1. Pending \in 1 .. Pending
      BY <2>5, AgeType
    <3>2. PICK f \in WaitersNow : Age(f) = Pending
      BY <3>1 DEF TicketInv
    <3>3. f \in G /\ t[f] = notify
      BY <3>2, OldestTicket, WaitersFinite
    <3>4. ~Listed(f)
      BY <1>3, <2>5, <3>3 DEF Listed, CondListInv
    <3>5. \A h \in G : Unnotified(h)' <=> h \in WaitersNow /\ h # f
      <4> SUFFICES ASSUME NEW h \in G
                   PROVE  Unnotified(h)' <=> h \in WaitersNow /\ h # f
        OBVIOUS
      <4>1. CASE pc[h] \in OnTheWay
        <5>1. ~Less(t[h], notify') <=> h \in WaitersNow /\ h # f
          BY <1>1, <2>5, <3>2, <4>1, OnTheWayAfter
        <5> QED
          BY <1>1, <2>1, <4>1, <5>1 DEF Unnotified, OnTheWay, Less
      <4>2. CASE pc[h] \notin OnTheWay
        BY <1>1, <2>1, <3>4, <4>2 DEF Unnotified, OnTheWay, WaitersNow
      <4> QED
        BY <4>1, <4>2
    <3>6. OldestLeaves(f)
      BY <1>1, <2>5, <3>2, <3>5, WaitersFinite DEF OldestLeaves, WaitersNow
    <3> QED
      BY <2>2, <2>3, <3>6 DEF Kept
  <2> QED
    BY <2>4, <2>5
<1>4. ASSUME NEW n \in DOMAIN list, notify # wait, list[n].ticket = notify,
             TakeOff(g, n)
      PROVE  Kept /\ \E f \in WaitersNow : OldestLeaves(f)
  <2> DEFINE f == list[n].g
  <2>1. /\ \A h \in G : pc'[h] = IF h = g THEN "ready" ELSE pc[h]
        /\ pc' \in [G -> CondPC] /\ list' = RemoveAt(list, n)
        /\ ready' = [ready EXCEPT ![g] = <<list[n]>>]
    BY <1>2, <1>4 DEF TakeOff, Goto, CondPC
  <2>2. /\ list' \in Seq(Sudogs)
        /\ \A i \in DOMAIN list' : \E j \in DOMAIN list : list'[i] = list[j]
        /\ \A i, j \in DOMAIN list' : list'[i].g = list'[j].g => i = j
        /\ \A h : Listed(h)' <=> Listed(h) /\ h # f
        /\ OnList' = OnList \ {f}
    BY <2>1, TakenOff
  <2>3. /\ f \in G /\ pc[f] = "asleep" /\ t[f] = notify
        /\ Listed(f) /\ f \in OnList /\ f # g
    BY <1>1, <1>2, <1>4 DEF CondListInv, Listed, OnList
  <2>4. f \in WaitersNow
    BY <2>3 DEF WaitersNow, Unnotified
  <2>5. Age(f) = Pending
    BY <2>3, <2>4, OldestTicket
  <2>6. <<list[n]>> \in Seq(Sudogs) /\ ready' \in [G -> Seq(Sudogs)]
    BY <1>2, <2>1
  <2>7. TypeOK' /\ CondLockInv'
    BY <1>1, <1>2, <2>1, <2>2, <2>6 DEF TypeOK, CondLockInv, Sudogs
  <2>8. CondListInv' /\ WayInv'
    BY <1>1, <1>2, <2>1, <2>2 DEF CondListInv, WayInv, Age, OnTheWay
  <2>9. CondReadyInv'
    <3>1. /\ ready'[g] = <<list[n]>> /\ DOMAIN ready'[g] = {1}
          /\ ready'[g][1] = list[n] /\ ready'[g] # <<>>
          /\ \A h \in G : h # g => ready'[h] = ready[h]
      BY <1>2, <2>1
    <3>2. \A h \in G : \A m \in DOMAIN ready[h] : ready[h][m].g # f
      BY <2>3 DEF CondReadyInv
    <3>3. \A h \in G : ready'[h] # <<>> <=> pc'[h] = "ready"
      BY <2>1, <3>1 DEF CondReadyInv
    <3>4. ASSUME NEW h \in G, NEW m \in DOMAIN ready'[h]
          PROVE  pc'[ready'[h][m].g] = "asleep" /\ ready'[h][m].g \notin OnList'
      <4>1. CASE h = g
        BY <2>1, <2>2, <2>3, <3>1, <3>4, <4>1
      <4>2. CASE h # g
        BY <1>1, <1>2, <2>1, <2>2, <3>1, <3>4, <4>2 DEF CondReadyInv
      <4> QED
        BY <4>1, <4>2
    <3>5. ASSUME NEW h \in G, NEW k \in G, NEW i \in DOMAIN ready'[h],
                 NEW j \in DOMAIN ready'[k], ready'[h][i].g = ready'[k][j].g
          PROVE  h = k /\ i = j
      <4>1. CASE h = g /\ k = g
        BY <3>1, <3>5, <4>1
      <4>2. CASE h # g /\ k # g
        BY <3>1, <3>5, <4>2 DEF CondReadyInv
      <4>3. CASE (h = g /\ k # g) \/ (h # g /\ k = g)
        BY <3>1, <3>2, <3>5, <4>3
      <4> QED
        BY <4>1, <4>2, <4>3
    <3> QED
      BY <3>3, <3>4, <3>5 DEF CondReadyInv
  <2>10. ASSUME NEW h \in G
         PROVE  Unnotified(h)' <=> h \in WaitersNow /\ h # f
    <3>1. CASE pc[h] \in OnTheWay
      <4>1. ~Less(t[h], notify') <=> h \in WaitersNow /\ h # f
        BY <1>1, <1>4, <2>4, <2>5, <3>1, OnTheWayAfter
      <4> QED
        BY <1>1, <2>1, <3>1, <4>1 DEF Unnotified, OnTheWay, Less
    <3>2. CASE pc[h] \notin OnTheWay
      BY <1>1, <2>1, <2>2, <3>2 DEF Unnotified, OnTheWay, WaitersNow
    <3> QED
      BY <3>1, <3>2
  <2>11. OldestLeaves(f)
    BY <1>1, <1>4, <2>4, <2>5, <2>10, WaitersFinite DEF OldestLeaves, WaitersNow
  <2> QED
    BY <2>4, <2>7, <2>8, <2>9, <2>11 DEF Kept
<1> QED
  BY <1>3, <1>4 DEF NotifyOne

LEMMA NotifyAllKeeps ==
  ASSUME CondInv, NEW g \in G, NotifyAll(g) PROVE Kept /\ AllLeave
<1> USE DEF CondInv
<1>1. /\ pc[g] = "allLocked" /\ UNCHANGED <<holder, wants, wait, t>>
      /\ pc' = [pc EXCEPT ![g] = IF list = <<>> THEN "out" ELSE "ready"]
      /\ ready' = [ready EXCEPT ![g] = list] /\ list' = <<>> /\ notify' = wait
  BY DEF NotifyAll, Goto, L
<1>2. /\ pc \in [G -> CondPC] /\ list \in Seq(Sudogs)
      /\ ready \in [G -> Seq(Sudogs)]
      /\ \A n \in DOMAIN list : list[n].g \in G
      /\ \A h \in G : \A n \in DOMAIN ready[h] : ready[h][n].g \in G
      /\ wait \in 0 .. Tickets - 1
  BY SudogTypes, AgeType
<1>3. /\ \A h \in G : h # g => pc'[h] = pc[h] /\ ready'[h] = ready[h]
      /\ pc'[g] = IF list = <<>> THEN "out" ELSE "ready"
      /\ ready'[g] = list /\ pc' \in [G -> CondPC]
      /\ OnList' = {} /\ \A h : ~Listed(h)'
  BY <1>1, <1>2 DEF CondPC, Listed, OnList
<1>4. TypeOK' /\ CondLockInv'
  <2>1. ready' \in [G -> Seq(Sudogs)] /\ list' \in Seq(Sudogs)
    BY <1>1, <1>2
  <2> QED
    BY <1>1, <1>2, <1>3, <2>1 DEF TypeOK, CondLockInv, Sudogs
<1>5. CondListInv' /\ WayInv'
  BY <1>1, <1>2, <1>3 DEF CondListInv, WayInv, Age, OnTheWay
<1>6. CondReadyInv'
  <2>1. \A h \in G : ready'[h] # <<>> <=> pc'[h] = "ready"
    BY <1>1, <1>3 DEF CondReadyInv
  <2>2. \A n \in DOMAIN list : pc[list[n].g] = "asleep" /\ list[n].g \in OnList
    BY DEF CondListInv, OnList
  <2>3. \A h \in G : \A m \in DOMAIN ready'[h] : pc'[ready'[h][m].g] = "asleep"
    BY <1>1, <1>2, <1>3, <2>2 DEF CondReadyInv
  <2>4. ASSUME NEW h \in G, NEW k \in G, NEW i \in DOMAIN ready'[h],
               NEW j \in DOMAIN ready'[k], ready'[h][i].g = ready'[k][j].g
        PROVE  h = k /\ i = j
    <3>1. CASE h = g /\ k = g
      BY <1>3, <2>4, <3>1 DEF CondListInv
    <3>2. CASE h # g /\ k # g
      BY <1>3, <2>4, <3>2 DEF CondReadyInv
    <3>3. CASE (h = g /\ k # g) \/ (h # g /\ k = g)
      BY <1>3, <2>2, <2>4, <3>3 DEF CondReadyInv
    <3> QED
      BY <3>1, <3>2, <3>3
  <2> QED
    BY <1>3, <2>1, <2>3, <2>4 DEF CondReadyInv
<1>7. ASSUME NEW h \in G PROVE ~Unnotified(h)'
  <2>1. CASE pc[h] \in OnTheWay
    <3>1. /\ Gap(wait, wait) = 0 /\ Age(h) \in 1 .. Half
          /\ t[h] \in 0 .. Tickets - 1
      BY <1>2, <2>1, GapGrows, AgeType DEF WayInv
    <3>2. Less(t[h], wait)
      BY <1>2, <3>1, LessIsOlder, HalfFacts DEF Age
    <3> QED
      BY <1>1, <1>3, <3>2 DEF Unnotified, Less
  <2>2. CASE pc[h] \notin OnTheWay
    BY <1>3, <2>2 DEF Unnotified, OnTheWay
  <2> QED
    BY <2>1, <2>2
<1>8. AllLeave
  BY <1>1, <1>7 DEF AllLeave, WaitersNow
<1> QED
  BY <1>4, <1>5, <1>6, <1>8 DEF Kept

LEMMA TailIs ==
  ASSUME NEW r \in Seq(Sudogs), r # <<>>
  PROVE  /\ Len(r) \in Nat \ {0} /\ 1 \in DOMAIN r /\ Head(r) = r[1]
         /\ Tail(r) \in Seq(Sudogs)
         /\ Tail(r) = <<>> <=> Len(r) = 1
         /\ \A n \in DOMAIN Tail(r) :
              n \in Nat /\ n + 1 \in DOMAIN r /\ Tail(r)[n] = r[n + 1]
<1>1. Len(r) \in Nat \ {0} /\ DOMAIN r = 1 .. Len(r) /\ Head(r) = r[1]
  OBVIOUS
<1>2. /\ Tail(r) \in Seq(Sudogs) /\ Len(Tail(r)) = Len(r) - 1
      /\ \A n \in 1 .. Len(r) - 1 : Tail(r)[n] = r[n + 1]
  BY <1>1, HeadTailProperties
<1>3. DOMAIN Tail(r) = 1 .. Len(r) - 1
  BY <1>2
<1>4. Tail(r) = <<>> <=> Len(r) = 1
  <2>1. Tail(r) = <<>> => Len(Tail(r)) = 0
    <3>1. Len(<<>>) = 0
      OBVIOUS
    <3> QED
      BY <3>1, Zenon
  <2>2. Tail(r) # <<>> => Len(Tail(r)) # 0
    BY <1>2, EmptySeq
  <2> QED
    BY <1>1, <1>2, <2>1, <2>2
<1> QED
  BY <1>1, <1>2, <1>3, <1>4

LEMMA ReadyKeeps ==
  ASSUME CondInv, NEW g \in G, Ready(g) PROVE Kept /\ Same
<1> USE DEF CondInv
<1> DEFINE s == Head(ready[g])
<1>1. /\ pc[g] = "ready" /\ UNCHANGED <<holder, wants, wait, notify, list, t>>
      /\ ready' = [ready EXCEPT ![g] = Tail(ready[g])]
      /\ pc' = [pc EXCEPT ![s.g] = "woken",
                          ![g] = IF Len(ready[g]) = 1 THEN "out" ELSE @]
  BY DEF Ready, L, TypeOK
<1>2. /\ pc \in [G -> CondPC] /\ ready \in [G -> Seq(Sudogs)]
      /\ \A n \in DOMAIN list : list[n].g \in G
      /\ \A h \in G : \A n \in DOMAIN ready[h] : ready[h][n].g \in G
  BY SudogTypes
<1>3. /\ ready[g] \in Seq(Sudogs) /\ ready[g] # <<>>
      /\ Len(ready[g]) \in Nat \ {0}
      /\ 1 \in DOMAIN ready[g] /\ s = ready[g][1] /\ s.g \in G
  <2>1. ready[g] \in Seq(Sudogs) /\ ready[g] # <<>>
    BY <1>1, <1>2 DEF CondReadyInv
  <2>2. Len(ready[g]) \in Nat \ {0} /\ 1 \in DOMAIN ready[g] /\ s = ready[g][1]
    BY <2>1, TailIs
  <2> QED
    BY <1>2, <2>1, <2>2
<1>4. pc[s.g] = "asleep" /\ ~Listed(s.g) /\ s.g # g
  BY <1>1, <1>3 DEF CondReadyInv, Listed, OnList
<1>5. /\ Tail(ready[g]) \in Seq(Sudogs)
      /\ Tail(ready[g]) = <<>> <=> Len(ready[g]) = 1
      /\ \A n \in DOMAIN Tail(ready[g]) :
           /\ n \in Nat /\ n + 1 \in DOMAIN ready[g]
           /\ Tail(ready[g])[n] = ready[g][n + 1]
  BY <1>3, TailIs
<1> HIDE DEF s
<1>6. /\ \A h \in G : h # g /\ h # s.g => pc'[h] = pc[h]
      /\ pc'[s.g] = "woken"
      /\ pc'[g] = IF Len(ready[g]) = 1 THEN "out" ELSE "ready"
      /\ pc' \in [G -> CondPC]
      /\ OnList' = OnList /\ \A h : Listed(h)' = Listed(h)
      /\ ready'[g] = Tail(ready[g])
      /\ \A h \in G : h # g => ready'[h] = ready[h]
      /\ ready' \in [G -> Seq(Sudogs)]
  BY <1>1, <1>2, <1>3, <1>4, <1>5 DEF CondPC, Listed, OnList
<1>7. TypeOK' /\ CondLockInv'
  BY <1>1, <1>4, <1>6 DEF TypeOK, CondLockInv, Sudogs
<1>8. CondListInv' /\ WayInv'
  <2>1. \A n \in DOMAIN list : list[n].g # s.g /\ list[n].g # g
    BY <1>1, <1>4 DEF CondListInv, Listed
  <2>2. CondListInv'
    BY <1>1, <1>2, <1>6, <2>1 DEF CondListInv
  <2>3. WayInv'
    BY <1>1, <1>6 DEF WayInv, Age, OnTheWay
  <2> QED
    BY <2>2, <2>3
<1>9. CondReadyInv'
  <2>1. ASSUME NEW h \in G PROVE ready'[h] # <<>> <=> pc'[h] = "ready"
    <3>1. CASE h = g
      BY <1>5, <1>6, <3>1
    <3>2. CASE h = s.g
      BY <1>4, <1>6, <3>2 DEF CondReadyInv
    <3>3. CASE h # g /\ h # s.g
      BY <1>6, <3>3 DEF CondReadyInv
    <3> QED
      BY <3>1, <3>2, <3>3
  <2>2. \A n \in DOMAIN ready[g] : n # 1 => ready[g][n].g # s.g
    BY <1>3 DEF CondReadyInv
  <2>3. \A h \in G : h # g => \A n \in DOMAIN ready[h] : ready[h][n].g # s.g
    BY <1>3 DEF CondReadyInv
  <2>4. ASSUME NEW h \in G, NEW m \in DOMAIN ready'[h]
        PROVE  pc'[ready'[h][m].g] = "asleep" /\ ready'[h][m].g \notin OnList'
    <3>1. PICK k \in DOMAIN ready[h] :
            ready'[h][m] = ready[h][k] /\ ready[h][k].g # s.g
      <4>1. CASE h = g
        <5>1. m \in DOMAIN Tail(ready[g]) /\ ready'[h][m] = Tail(ready[g])[m]
          BY <1>6, <2>4, <4>1
        <5>2. /\ m + 1 \in DOMAIN ready[h] /\ m + 1 # 1
              /\ ready'[h][m] = ready[h][m + 1]
          BY <1>5, <4>1, <5>1
        <5> QED
          BY <2>2, <4>1, <5>2
      <4>2. CASE h # g
        BY <1>6, <2>3, <2>4, <4>2
      <4> QED
        BY <4>1, <4>2
    <3>2. pc[ready[h][k].g] = "asleep" /\ ready[h][k].g \notin OnList
      BY DEF CondReadyInv
    <3> QED
      BY <1>1, <1>2, <1>6, <3>1, <3>2
  <2>5. ASSUME NEW h \in G, NEW k \in G, NEW i \in DOMAIN ready'[h],
               NEW j \in DOMAIN ready'[k], ready'[h][i].g = ready'[k][j].g
        PROVE  h = k /\ i = j
    <3>1. \E n \in DOMAIN ready[h] :
            /\ ready'[h][i] = ready[h][n]
            /\ n = IF h = g THEN i + 1 ELSE i
      BY <1>5, <1>6, <2>5
    <3>2. \E n \in DOMAIN ready[k] :
            /\ ready'[k][j] = ready[k][n]
            /\ n = IF k = g THEN j + 1 ELSE j
      BY <1>5, <1>6, <2>5
    <3>3. h = k /\ (IF h = g THEN i + 1 ELSE i) = (IF k = g THEN j + 1 ELSE j)
      BY <2>5, <3>1, <3>2 DEF CondReadyInv
    <3>4. h = g => i \in Nat /\ j \in Nat
      BY <1>5, <1>6, <2>5, <3>3
    <3> QED
      BY <3>3, <3>4
  <2> QED
    BY <2>1, <2>4, <2>5 DEF CondReadyInv
<1>10. \A h \in G : Unnotified(h)' <=> Unnotified(h)
  BY <1>1, <1>4, <1>6 DEF Unnotified, Less
<1>11. Same
  BY <1>1, <1>10 DEF Same, WaitersNow
<1> QED
  BY <1>7, <1>8, <1>9, <1>11 DEF Kept

-----------------------------------------------------------------------------
(* The invariant.                                                          *)

LEMMA CondInitInv == Init => CondInv
<1> SUFFICES ASSUME Init PROVE CondInv
  OBVIOUS
<1> USE DEF Init, Lk!Init
<1>1. 0 \in 0 .. Tickets - 1 /\ <<>> \in Seq(Sudogs)
  BY CondAssumption
<1>2. TypeOK
  BY <1>1 DEF TypeOK, CondPC, Sudogs
<1>3. CondLockInv /\ CondListInv /\ CondReadyInv /\ WayInv
  BY CondAssumption
  DEF CondLockInv, CondListInv, CondReadyInv, WayInv, OnTheWay
<1>4. WaitersNow = {} /\ Cardinality(WaitersNow) = 0
  BY FS_EmptySet DEF WaitersNow, Unnotified
<1>5. Pending = 0
  BY <1>1, GapGrows DEF Pending
<1>6. TicketInv
  BY <1>4, <1>5 DEF TicketInv
<1> QED
  BY <1>2, <1>3, <1>6 DEF CondInv

(* What the operations do to those who wait, which they all keep right.    *)
CondStep(g) ==
  \/ /\ LockL(g) \/ UnlockL(g) \/ WaitUnlock(g) \/ ListWait(g) \/ WaitLock(g)
        \/ Ready(g) \/ \E to \in {"one", "all"} : Load(g, to)
        \/ FastPath(g, "one", "oneLocked") \/ FastPath(g, "all", "allLocked")
     /\ Same
  \/ Add(g) /\ Joins(g)
  \/ /\ NotifyOne(g)
     /\ \/ notify = wait /\ Same
        \/ \E f \in G : OldestLeaves(f)
  \/ NotifyAll(g) /\ AllLeave

LEMMA CondStepInv ==
  ASSUME CondInv, NEW g \in G, Call(g) \/ Waiting(g) \/ Notifying(g)
  PROVE  CondInv' /\ CondStep(g)
<1>1. Kept /\ CondStep(g)
  <2>1. CASE LockL(g)
    BY <2>1, LockLKeeps DEF CondStep
  <2>2. CASE UnlockL(g)
    BY <2>2, UnlockLKeeps DEF CondStep
  <2>3. CASE Timely /\ Add(g)
    BY <2>3, AddKeeps DEF CondStep
  <2>4. CASE \E to \in {"one", "all"} : Load(g, to)
    BY <2>4, LoadKeeps DEF CondStep
  <2>5. CASE WaitUnlock(g)
    BY <2>5, WaitUnlockKeeps DEF CondStep
  <2>6. CASE ListWait(g)
    BY <2>6, ListWaitKeeps DEF CondStep
  <2>7. CASE WaitLock(g)
    BY <2>7, WaitLockKeeps DEF CondStep
  <2>8. CASE FastPath(g, "one", "oneLocked")
    BY <2>8, FastPathKeeps DEF CondStep
  <2>9. CASE FastPath(g, "all", "allLocked")
    BY <2>9, FastPathKeeps DEF CondStep
  <2>10. CASE NotifyOne(g)
    BY <2>10, NotifyOneKeeps, WaitersFinite DEF CondStep
  <2>11. CASE NotifyAll(g)
    BY <2>11, NotifyAllKeeps DEF CondStep
  <2>12. CASE Ready(g)
    BY <2>12, ReadyKeeps DEF CondStep
  <2> QED
    BY <2>1, <2>2, <2>3, <2>4, <2>5, <2>6, <2>7, <2>8, <2>9, <2>10, <2>11,
       <2>12
    DEF Call, Waiting, Notifying
<1>2. WaiterStep
  BY <1>1 DEF CondStep, WaiterStep
<1> QED
  BY <1>1, <1>2, WaiterStepTickets DEF CondInv, Kept

LEMMA CondStutterInv ==
  ASSUME CondInv, UNCHANGED vars
  PROVE  CondInv' /\ Same
<1>1. UNCHANGED <<holder, wants, wait, notify, list, pc, t, ready>>
  BY DEF vars, L
<1>2. OnList' = OnList /\ WaitersNow' = WaitersNow
  BY <1>1 DEF OnList, WaitersNow, Unnotified, Listed, Less
<1>3. Same
  BY <1>1, <1>2 DEF Same
<1>4. Kept
  <2>1. TypeOK' /\ CondLockInv'
    BY <1>1 DEF CondInv, TypeOK, CondLockInv
  <2>2. CondListInv'
    BY <1>1 DEF CondInv, CondListInv
  <2>3. CondReadyInv'
    BY <1>1, <1>2 DEF CondInv, CondReadyInv
  <2>4. WayInv'
    BY <1>1 DEF CondInv, WayInv, Age
  <2> QED
    BY <2>1, <2>2, <2>3, <2>4 DEF Kept
<1>5. TicketInv'
  BY <1>3, SameTickets DEF CondInv
<1> QED
  BY <1>3, <1>4, <1>5 DEF Kept, CondInv

(* The inductive invariant of Cond and its notifyList holds in every       *)
(* behaviour.                                                              *)
THEOREM CondInvariant == Safety => []CondInv
<1>1. CondInv /\ [Next]_vars => CondInv'
  BY CondStepInv, CondStutterInv DEF Next
<1> QED
  BY <1>1, CondInitInv, PTL DEF Safety

(* The variables of Cond have their types; tickets stay below their width. *)
THEOREM CondTypeCorrect == Safety => []TypeOK
  BY CondInvariant, PTL DEF CondInv

-----------------------------------------------------------------------------
(* Cond keeps the promise of a condition variable.                         *)

Waiters == [n \in 1 .. (wait - notify) % Tickets |->
              HolderOf((notify + n - 1) % Tickets)]
InWait == {g \in G : pc[g] \in WaitPC}

\* The waiters stand in the order of their tickets, the oldest first.
InOrder ==
  /\ Waiters \in Seq(G) /\ Len(Waiters) = Pending
  /\ \A n \in 1 .. Pending :
       Waiters[n] \in WaitersNow /\ Age(Waiters[n]) = Pending - n + 1
  /\ \A n \in 1 .. Pending : \A g \in WaitersNow :
       Age(g) = Pending - n + 1 => Waiters[n] = g

LEMMA HolderIs ==
  ASSUME TicketInv, NEW g \in WaitersNow PROVE HolderOf(t[g]) = g
<1>1. {h \in G : Unnotified(h) /\ t[h] = t[g]} = {g}
  BY DEF TicketInv, WaitersNow
<1>2. (CHOOSE h \in {g} : TRUE) = g
  OBVIOUS
<1> QED
  BY <1>1, <1>2 DEF HolderOf

LEMMA WaitersInOrder == TypeOK /\ TicketInv => InOrder
<1> SUFFICES ASSUME TypeOK, TicketInv PROVE InOrder
  OBVIOUS
<1>1. /\ Pending \in Nat /\ Pending = (wait - notify) % Tickets
      /\ wait \in 0 .. Tickets - 1 /\ notify \in 0 .. Tickets - 1
  BY AgeType DEF Pending, Gap
<1>2. ASSUME NEW n \in 1 .. Pending, NEW g \in WaitersNow,
             Age(g) = Pending - n + 1
      PROVE  Waiters[n] = g
  <2> DEFINE k == (notify + n - 1) % Tickets
  <2>1. k \in 0 .. Tickets - 1 /\ Gap(wait, k) = Pending - n + 1
    BY <1>1, NthPending DEF Pending
  <2>2. t[g] \in 0 .. Tickets - 1 /\ Gap(wait, t[g]) = Pending - n + 1
    BY <1>2, AgeType, WaitersFinite DEF Age
  <2>3. t[g] = k
    BY <1>1, <2>1, <2>2, GapTells
  <2>4. Waiters[n] = HolderOf(k)
    BY <1>1 DEF Waiters
  <2> QED
    BY <2>3, <2>4, HolderIs
<1>3. ASSUME NEW n \in 1 .. Pending
      PROVE  Waiters[n] \in WaitersNow /\ Age(Waiters[n]) = Pending - n + 1
  <2>1. Pending - n + 1 \in 1 .. Pending
    BY <1>1
  <2>2. PICK g \in WaitersNow : Age(g) = Pending - n + 1
    BY <2>1 DEF TicketInv
  <2> QED
    BY <1>2, <2>2
<1>4. Waiters = [n \in 1 .. Pending |-> Waiters[n]]
  BY <1>1 DEF Waiters
<1>5. Waiters \in Seq(G) /\ Len(Waiters) = Pending
  <2>1. \A n \in 1 .. Pending : Waiters[n] \in G
    BY <1>3, WaitersFinite
  <2>2. Waiters \in [1 .. Pending -> G]
    BY <1>4, <2>1, Zenon
  <2> QED
    BY <1>1, <2>2
<1> QED
  BY <1>2, <1>3, <1>5 DEF InOrder

(* What a step of the waiters does to their order.                         *)
LEMMA WaitersStep ==
  ASSUME TypeOK, TicketInv, TypeOK', WaiterStep
  PROVE  /\ Same => Waiters' = Waiters
         /\ \A x \in G : Joins(x) => Waiters' = Append(Waiters, x)
         /\ \A f \in G :
              OldestLeaves(f) => Waiters # <<>> /\ Waiters' = Tail(Waiters)
         /\ AllLeave => Waiters' = <<>>
<1>1. InOrder /\ InOrder'
  <2>1. TicketInv'
    BY WaiterStepTickets
  <2>2. (TypeOK /\ TicketInv)' => InOrder'
    BY WaitersInOrder, PTL
  <2> QED
    BY <2>1, <2>2, WaitersInOrder
<1>2. /\ Waiters \in Seq(G) /\ Len(Waiters) = Pending /\ Pending \in Nat
      /\ Waiters' \in Seq(G) /\ Len(Waiters') = Pending' /\ Pending' \in Nat
      /\ WaitersNow \subseteq G
  <2>1. Pending' = Len(Waiters') /\ Waiters' \in Seq(G)
    BY <1>1 DEF InOrder
  <2> QED
    BY <1>1, <2>1, AgeType, WaitersFinite DEF InOrder
<1>3. ASSUME Same PROVE Waiters' = Waiters
  <2>1. Pending' = Pending /\ \A g \in WaitersNow : Age(g)' = Age(g)
    BY <1>3 DEF Same, Pending, Age
  <2>2. \A n \in 1 .. Pending : Waiters'[n] = Waiters[n]
    BY <1>1, <1>3, <2>1 DEF InOrder, Same
  <2> QED
    BY <1>2, <2>1, <2>2, SeqEqual
<1>4. ASSUME NEW x \in G, Joins(x) PROVE Waiters' = Append(Waiters, x)
  <2>1. /\ Pending' = Pending + 1 /\ Age(x)' = 1
        /\ \A g \in WaitersNow : Age(g)' = Age(g) + 1
        /\ x \in WaitersNow' /\ WaitersNow \subseteq WaitersNow'
    BY <1>4, JoinTickets DEF Joins
  <2>2. /\ Append(Waiters, x) \in Seq(G)
        /\ Len(Append(Waiters, x)) = Pending + 1
        /\ \A n \in 1 .. Pending : Append(Waiters, x)[n] = Waiters[n]
        /\ Append(Waiters, x)[Pending + 1] = x
    BY <1>2, AppendProperties
  <2>3. \A n \in 1 .. Pending + 1 : Waiters'[n] = Append(Waiters, x)[n]
    <3>1. Waiters'[Pending + 1] = x
      BY <1>1, <1>2, <2>1 DEF InOrder
    <3>2. ASSUME NEW n \in 1 .. Pending PROVE Waiters'[n] = Waiters[n]
      <4>1. PICK g \in WaitersNow : g = Waiters[n] /\ Age(g) = Pending - n + 1
        BY <1>1 DEF InOrder
      <4>2. /\ g \in WaitersNow' /\ Age(g)' = Pending' - n + 1
            /\ n \in 1 .. Pending'
        BY <1>2, <2>1, <4>1
      <4> QED
        BY <1>1, <4>1, <4>2 DEF InOrder
    <3> QED
      BY <1>2, <2>2, <3>1, <3>2
  <2> QED
    BY <1>2, <2>1, <2>2, <2>3, SeqEqual
<1>5. ASSUME NEW f \in G, OldestLeaves(f)
      PROVE  Waiters # <<>> /\ Waiters' = Tail(Waiters)
  <2>1. /\ Pending' = Pending - 1 /\ \A g \in G : Age(g)' = Age(g)
        /\ WaitersNow' = WaitersNow \ {f} /\ Age(f) = Pending
        /\ Pending >= 1
    BY <1>2, <1>5, LeaveTickets DEF OldestLeaves, TicketInv
  <2>2. Waiters # <<>>
    BY <1>2, <2>1
  <2>3. /\ Tail(Waiters) \in Seq(G) /\ Len(Tail(Waiters)) = Pending - 1
        /\ \A n \in 1 .. Pending - 1 : Tail(Waiters)[n] = Waiters[n + 1]
    BY <1>2, <2>2, HeadTailProperties
  <2>4. ASSUME NEW n \in 1 .. Pending - 1 PROVE Waiters'[n] = Waiters[n + 1]
    <3>1. PICK g \in WaitersNow :
            g = Waiters[n + 1] /\ Age(g) = Pending - (n + 1) + 1
      BY <1>1, <1>2 DEF InOrder
    <3>2. n \in 1 .. Pending' /\ Age(g) = Pending' - n + 1 /\ g # f /\ g \in G
      BY <1>2, <2>1, <3>1
    <3>3. g \in WaitersNow' /\ Age(g)' = Pending' - n + 1
      BY <2>1, <3>1, <3>2
    <3> QED
      BY <1>1, <3>1, <3>2, <3>3 DEF InOrder
  <2> QED
    BY <1>2, <2>1, <2>2, <2>3, <2>4, SeqEqual
<1>6. ASSUME AllLeave PROVE Waiters' = <<>>
  BY <1>2, <1>6, AllLeaveTickets, EmptySeq
<1> QED
  BY <1>3, <1>4, <1>5, <1>6

\* What a step of goroutine a does to where goroutines are, and to tickets.
Moved(a) ==
  /\ \A h \in G \ {a} :
       /\ t'[h] = t[h]
       /\ \/ pc'[h] = pc[h]
          \/ pc[h] = "asleep" /\ pc'[h] = "woken"
  /\ pc[a] # "asleep"
  /\ Loading(a)' => pc[a] = "out" /\ t'[a] = wait
  /\ GivesUp(a) => t[a] = notify

\* And what it does to those in Wait.
WaitMoved(a) ==
  \/ pc[a] = "hold" /\ pc'[a] = "added" /\ Joins(a)
  \/ pc[a] = "relock" /\ pc'[a] = "hold" /\ Same
  \/ /\ pc'[a] \in WaitPC <=> pc[a] \in WaitPC
     /\ Same \/ AllLeave \/ \E f \in G : OldestLeaves(f)

LEMMA ReadyMoves ==
  ASSUME CondInv, NEW a \in G, Ready(a)
  PROVE  /\ pc[a] = "ready" /\ pc'[a] \in {"out", "ready"} /\ t' = t
         /\ \A h \in G \ {a} : \/ pc'[h] = pc[h]
                               \/ pc[h] = "asleep" /\ pc'[h] = "woken"
<1> DEFINE s == Head(ready[a])
<1>1. /\ pc[a] = "ready" /\ t' = t /\ pc \in [G -> CondPC]
      /\ pc' = [pc EXCEPT ![s.g] = "woken",
                          ![a] = IF Len(ready[a]) = 1 THEN "out" ELSE @]
  BY DEF Ready, CondInv, TypeOK
<1>2. s.g \in G /\ pc[s.g] = "asleep"
  <2>1. ready[a] \in Seq(Sudogs) /\ ready[a] # <<>>
    BY <1>1, SudogTypes DEF CondInv, CondReadyInv
  <2>2. 1 \in DOMAIN ready[a] /\ s = ready[a][1]
    BY <2>1, TailIs
  <2> QED
    BY <2>2, SudogTypes DEF CondInv, CondReadyInv
<1> HIDE DEF s
<1>3. /\ \A h \in G : h # a /\ h # s.g => pc'[h] = pc[h]
      /\ pc'[s.g] = "woken" /\ pc'[a] \in {"out", "ready"} /\ s.g # a
  BY <1>1, <1>2
<1> QED
  BY <1>1, <1>2, <1>3

LEMMA StepMoves ==
  ASSUME CondInv, NEW a \in G, Call(a) \/ Waiting(a) \/ Notifying(a)
  PROVE  Moved(a) /\ WaitMoved(a)
<1> USE DEF Moved, WaitMoved, Loading, GivesUp, WaitPC, Goto
<1>1. pc \in [G -> CondPC] /\ t \in [G -> 0 .. Tickets - 1]
  BY DEF CondInv, TypeOK
<1>2. CASE LockL(a)
  <2>1. Same
    BY <1>2, LockLKeeps
  <2> QED
    BY <1>1, <1>2, <2>1 DEF LockL
<1>3. CASE UnlockL(a)
  <2>1. Same
    BY <1>3, UnlockLKeeps
  <2> QED
    BY <1>1, <1>3, <2>1 DEF UnlockL
<1>4. CASE Timely /\ Add(a)
  <2>1. Joins(a)
    BY <1>4, AddKeeps
  <2> QED
    BY <1>1, <1>4, <2>1 DEF Add
<1>5. CASE \E to \in {"one", "all"} : Load(a, to)
  <2>1. Same
    BY <1>5, LoadKeeps
  <2> QED
    BY <1>1, <1>5, <2>1 DEF Load
<1>6. CASE WaitUnlock(a)
  <2>1. Same
    BY <1>6, WaitUnlockKeeps
  <2> QED
    BY <1>1, <1>6, <2>1 DEF WaitUnlock
<1>7. CASE ListWait(a)
  <2>1. Same
    BY <1>7, ListWaitKeeps
  <2> QED
    BY <1>1, <1>7, <2>1 DEF ListWait
<1>8. CASE WaitLock(a)
  <2>1. Same
    BY <1>8, WaitLockKeeps
  <2> QED
    BY <1>1, <1>8, <2>1 DEF WaitLock
<1>9. CASE FastPath(a, "one", "oneLocked") \/ FastPath(a, "all", "allLocked")
  <2>1. Same
    BY <1>9, FastPathKeeps
  <2> QED
    BY <1>1, <1>9, <2>1 DEF FastPath
<1>10. CASE NotifyOne(a)
  <2>1. Same \/ \E f \in G : OldestLeaves(f)
    BY <1>10, NotifyOneKeeps, WaitersFinite
  <2> QED
    BY <1>1, <1>10, <2>1 DEF NotifyOne, TakeOff
<1>11. CASE NotifyAll(a)
  <2>1. AllLeave
    BY <1>11, NotifyAllKeeps
  <2> QED
    BY <1>1, <1>11, <2>1 DEF NotifyAll
<1>12. CASE Ready(a)
  <2>1. Same
    BY <1>12, ReadyKeeps
  <2> QED
    BY <1>12, <2>1, ReadyMoves
<1> QED
  BY <1>2, <1>3, <1>4, <1>5, <1>6, <1>7, <1>8, <1>9, <1>10, <1>11, <1>12
  DEF Call, Waiting, Notifying

LEMMA AbstractStep ==
  ASSUME CondInv, NEW a \in G, Call(a) \/ Waiting(a) \/ Notifying(a)
  PROVE  [Abstract!Next]_<<Waiters, InWait>>
<1> USE DEF Abstract!Next, Abstract!Add, Abstract!NotifyOne,
            Abstract!NotifyAll, Abstract!Return, WaitPC
<1>1. CondInv' /\ CondStep(a) /\ Moved(a) /\ WaitMoved(a)
  BY CondStepInv, StepMoves
<1>2. TypeOK /\ TicketInv /\ TypeOK' /\ InOrder
  BY <1>1, WaitersInOrder DEF CondInv
<1>3. /\ Same => Waiters' = Waiters
      /\ Joins(a) => Waiters' = Append(Waiters, a)
      /\ \A f \in G :
           OldestLeaves(f) => Waiters # <<>> /\ Waiters' = Tail(Waiters)
      /\ AllLeave => Waiters' = <<>>
  <2>1. WaiterStep
    BY <1>1 DEF CondStep, WaiterStep
  <2> QED
    BY <1>2, <2>1, WaitersStep
<1>4. \A h \in G \ {a} : h \in InWait' <=> h \in InWait
  BY <1>1 DEF Moved, InWait
<1>5. InWait \subseteq G /\ InWait' \subseteq G
  BY DEF InWait
<1>6. CASE pc[a] = "hold" /\ pc'[a] = "added" /\ Joins(a)
  <2>1. a \notin InWait /\ a \in InWait'
    BY <1>6 DEF InWait
  <2>2. InWait' = InWait \cup {a}
    BY <1>4, <1>5, <2>1
  <2>3. Abstract!Add(a)
    BY <1>3, <1>6, <2>1, <2>2 DEF Waiters, InWait
  <2> QED
    BY <2>3
<1>7. CASE pc[a] = "relock" /\ pc'[a] = "hold" /\ Same
  <2>1. a \in InWait /\ a \notin InWait' /\ a \notin WaitersNow
    BY <1>7 DEF InWait, WaitersNow, Unnotified
  <2>2. InWait' = InWait \ {a}
    BY <1>4, <1>5, <2>1
  <2>3. ~Abstract!Contains(Waiters, a)
    BY <1>2, <2>1 DEF InOrder, Abstract!Contains
  <2>4. Waiters' = Waiters
    BY <1>3, <1>7
  <2>5. Abstract!Return(a)
    BY <2>1, <2>2, <2>3, <2>4 DEF Waiters, InWait
  <2> QED
    BY <2>5
<1>8. CASE /\ pc'[a] \in WaitPC <=> pc[a] \in WaitPC
           /\ Same \/ AllLeave \/ \E f \in G : OldestLeaves(f)
  <2>1. InWait' = InWait
    <3>1. a \in InWait' <=> a \in InWait
      BY <1>8 DEF InWait
    <3> QED
      BY <1>4, <1>5, <3>1
  <2>2. \/ UNCHANGED <<Waiters, InWait>>
        \/ Abstract!NotifyOne \/ Abstract!NotifyAll
    BY <1>3, <1>8, <2>1 DEF Waiters, InWait
  <2> QED
    BY <2>2
<1> QED
  BY <1>1, <1>6, <1>7, <1>8 DEF WaitMoved

(* Tickets that are drawn, notified and compared with wrap-around, a list  *)
(* that waiters join later than they draw, and a notifier that readies     *)
(* them later than it takes them off, implement the promise of CondVar:    *)
(* waiters are notified in the order of their Wait calls, one by each      *)
(* Signal, and none returns that has not been notified.                    *)
THEOREM CondImplementsCondVar == Safety => Implements
<1>1. Init => Abstract!Init
  <2> SUFFICES ASSUME Init PROVE Abstract!Init
    OBVIOUS
  <2>1. InOrder /\ Pending = 0
    BY CondInitInv, WaitersInOrder, AgeType DEF CondInv, Init
  <2>2. Waiters = <<>>
    BY <2>1, EmptySeq DEF InOrder
  <2>3. InWait = {}
    BY DEF Init, InWait, WaitPC
  <2> QED
    BY <2>2, <2>3 DEF Abstract!Init, Waiters, InWait, WaitPC
<1>2. CondInv /\ [Next]_vars => [Abstract!Next]_<<Waiters, InWait>>
  <2>1. ASSUME UNCHANGED vars PROVE UNCHANGED <<Waiters, InWait>>
    <3>1. UNCHANGED <<wait, notify, list, pc, t>>
      BY <2>1 DEF vars
    <3>2. \A n : HolderOf(n)' = HolderOf(n)
      BY <3>1 DEF HolderOf, Unnotified, Listed, Less
    <3> QED
      BY <3>1, <3>2 DEF Waiters, InWait
  <2> QED
    BY <2>1, AbstractStep DEF Next
<1> QED
  BY <1>1, <1>2, CondInvariant, PTL
  DEF Safety, Implements, Abstract!Spec, Waiters, InWait, WaitPC

-----------------------------------------------------------------------------
(* A Signal or Broadcast between its two loads.                            *)

\* The step of one goroutine, with or without a use of items.
Does(a) == Free(a) \/ Put(a) \/ PutSignals(a) \/ Take(a) \/ TakeWaits(a)

LEMMA DoesStep ==
  ASSUME NEW a \in G, Does(a) PROVE Call(a) \/ Waiting(a) \/ Notifying(a)
  BY DEF Does, Free, Put, PutSignals, Take, TakeWaits, Call

\* What comes after goroutine a's step to those it owes a notification.
OwedStep ==
  owed' = [g \in G |-> IF pc[g] = "out" /\ Loading(g)' THEN WaitersNow
                       ELSE IF Loading(g)' THEN owed[g] \cap WaitersNow'
                       ELSE {}]

LEMMA MCNextDoes == MCNext <=> (\E a \in G : Does(a)) /\ OwedStep
  BY DEF MCNext, Does, OwedStep

(* Who begins a Signal or Broadcast does nothing else.                     *)
LEMMA OutSame ==
  ASSUME CondInv, NEW a \in G, Call(a) \/ Waiting(a) \/ Notifying(a),
         pc[a] = "out"
  PROVE  Same
<1>1. CondStep(a)
  BY CondStepInv
<1> QED
  BY <1>1 DEF CondStep, Add, NotifyOne, TakeOff, NotifyAll, Goto

(* A waiter keeps its ticket, and stays older than whoever loaded later.   *)
LEMMA StaysOlder ==
  ASSUME CondInv, NEW a \in G, Call(a) \/ Waiting(a) \/ Notifying(a),
         NEW g \in G, NEW h \in WaitersNow, h \in WaitersNow',
         t'[g] = t[g], Age(g) < Age(h)
  PROVE  Age(g)' < Age(h)'
<1>1. CondInv' /\ CondStep(a) /\ TypeOK /\ TicketInv /\ h \in G
  BY CondStepInv, WaitersFinite DEF CondInv
<1>2. /\ Age(g) \in 0 .. Tickets - 1 /\ t[g] \in 0 .. Tickets - 1
      /\ Age(h) \in 0 .. Tickets - 1 /\ wait \in 0 .. Tickets - 1
  BY <1>1, AgeType
<1>3. CASE Same \/ AllLeave \/ \E f \in G : OldestLeaves(f)
  <2>1. wait' = wait /\ t'[h] = t[h]
    BY <1>3 DEF Same, AllLeave, OldestLeaves
  <2> QED
    BY <2>1 DEF Age
<1>4. CASE Joins(a)
  <2>1. Age(h)' = Age(h) + 1 /\ wait' = After(wait)
    BY <1>1, <1>4, JoinTickets DEF Joins
  <2>2. Gap(wait, t[g]) + 1 < Tickets
    BY <1>2, HalfFacts DEF Age
  <2>3. Age(g)' = Age(g) + 1
    BY <1>2, <2>1, <2>2, GapGrows DEF Age
  <2> QED
    BY <1>2, <2>1, <2>3
<1> QED
  BY <1>1, <1>3, <1>4 DEF CondStep

LEMMA OwedStepInv ==
  ASSUME CondInv, OwedInv, NEW a \in G,
         Call(a) \/ Waiting(a) \/ Notifying(a), OwedStep
  PROVE  OwedInv'
<1>1. CondInv' /\ CondStep(a) /\ Moved(a) /\ TypeOK /\ TicketInv
  BY CondStepInv, StepMoves DEF CondInv
<1>2. SUFFICES ASSUME NEW g \in G, NEW h \in owed'[g]
               PROVE  Loading(g)' /\ h \in WaitersNow' /\ Age(g)' < Age(h)'
  BY DEF OwedInv
<1>3. /\ Loading(g)'
      /\ \/ pc[g] = "out" /\ h \in WaitersNow
         \/ pc[g] # "out" /\ h \in owed[g] /\ h \in WaitersNow'
  BY <1>2 DEF OwedStep
<1>4. CASE pc[g] = "out" /\ h \in WaitersNow
  <2>1. g = a /\ t'[g] = wait
    BY <1>1, <1>3, <1>4 DEF Moved, Loading
  <2>2. Same
    BY <1>3, <1>4, <2>1, OutSame
  <2>3. /\ h \in WaitersNow' /\ Age(h)' = Age(h) /\ Age(h) \in 1 .. Pending
        /\ wait' = wait /\ Pending \in Nat
    BY <1>1, <1>4, <2>2, AgeType DEF Same, Age, TicketInv
  <2>4. Age(g)' = 0
    BY <1>1, <2>1, <2>3, AgeType, GapGrows DEF Age
  <2> QED
    BY <1>3, <2>3, <2>4
<1>5. CASE pc[g] # "out" /\ h \in owed[g] /\ h \in WaitersNow'
  <2>1. g # a /\ t'[g] = t[g] /\ h \in WaitersNow /\ Age(g) < Age(h)
    BY <1>1, <1>3, <1>5 DEF Moved, OwedInv
  <2> QED
    BY <1>3, <1>5, <2>1, StaysOlder
<1> QED
  BY <1>3, <1>4, <1>5

LEMMA MCSpecSafety == MCSpec => Safety
<1>1. MCInit => Init
  BY DEF MCInit
<1>2. [MCNext]_mcvars => [Next]_vars
  BY MCNextDoes, DoesStep DEF mcvars, Next
<1> QED
  BY <1>1, <1>2, PTL DEF MCSpec, Safety

THEOREM OwedInvariant == MCSpec => []OwedInv
<1>1. MCInit => OwedInv
  BY DEF MCInit, OwedInv
<1>2. CondInv /\ OwedInv /\ [MCNext]_mcvars => OwedInv'
  <2>1. ASSUME CondInv, OwedInv, UNCHANGED mcvars PROVE OwedInv'
    <3>1. UNCHANGED <<wait, notify, list, pc, t, owed>>
      BY <2>1 DEF mcvars, vars
    <3>2. Same
      BY <2>1, CondStutterInv DEF mcvars
    <3> QED
      BY <2>1, <3>1, <3>2 DEF OwedInv, Loading, Age, Same
  <2> QED
    BY <2>1, MCNextDoes, DoesStep, OwedStepInv
<1> QED
  BY <1>1, <1>2, MCSpecSafety, CondInvariant, PTL DEF MCSpec

(* A Signal or Broadcast returns on its fast path, decided by two loads    *)
(* that other calls may come between, only when whoever waited as it began *)
(* has been notified: any such waiter would be older than what it loaded,  *)
(* while it has found that none is.                                        *)
THEOREM CondFastPathCovers == MCSpec => FastPathCovers
<1>1. CondInv /\ OwedInv /\ [MCNext]_mcvars
        => [\A g \in G : GivesUp(g) => owed[g] = {}]_<<vars, owed>>
  <2> SUFFICES ASSUME CondInv, OwedInv, MCNext, NEW g \in G, GivesUp(g)
               PROVE  owed[g] = {}
    BY DEF mcvars
  <2>1. PICK a \in G : Call(a) \/ Waiting(a) \/ Notifying(a)
    BY MCNextDoes, DoesStep
  <2>2. t[g] = notify
    <3>1. Moved(a)
      BY <2>1, StepMoves
    <3> QED
      BY <3>1 DEF Moved, GivesUp, Loading
  <2>3. Age(g) = Pending /\ Pending \in Nat /\ TicketInv
    BY <2>2, AgeType DEF Age, Pending, CondInv
  <2>4. \A h \in owed[g] : Age(h) \in 1 .. Pending /\ Age(g) < Age(h)
    BY <2>3 DEF OwedInv, TicketInv
  <2> QED
    BY <2>3, <2>4
<1> QED
  BY <1>1, OwedInvariant, MCSpecSafety, CondInvariant, PTL
  DEF MCSpec, FastPathCovers

-----------------------------------------------------------------------------
(* Clients that wait for items.                                            *)

LEMMA DoesMoves ==
  ASSUME CondInv, NEW a \in G, Does(a)
  PROVE  Moved(a) /\ WaitMoved(a) /\ CondStep(a) /\ CondInv'
  BY DoesStep, StepMoves, CondStepInv

\* Where a goroutine inside Wait, Signal or Broadcast comes from and gets to.
LEMMA InsideMoves ==
  ASSUME CondInv, NEW a \in G, Waiting(a) \/ Notifying(a)
  PROVE  /\ pc[a] \notin {"out", "lock", "hold"} /\ pc'[a] # "added"
         /\ pc'[a] = "hold" => pc[a] = "relock"
<1> USE DEF Goto
<1>1. pc \in [G -> CondPC]
  BY DEF CondInv, TypeOK
<1>2. CASE Waiting(a)
  BY <1>1, <1>2 DEF Waiting, WaitUnlock, ListWait, WaitLock
<1>3. CASE Ready(a)
  BY <1>3, ReadyMoves
<1>4. CASE Notifying(a) /\ ~Ready(a)
  BY <1>1, <1>4 DEF Notifying, FastPath, NotifyOne, TakeOff, NotifyAll
<1> QED
  BY <1>2, <1>3, <1>4

LEMMA LockMoves ==
  ASSUME CondInv, NEW a \in G
  PROVE  /\ LockL(a) => pc[a] \in {"out", "lock"} /\ pc'[a] \in {"lock", "hold"}
         /\ UnlockL(a) => pc[a] = "hold" /\ pc'[a] = "out"
         /\ \A to \in {"one", "all"} :
              Load(a, to) => pc[a] = "out" /\ pc'[a] = to /\ t'[a] = wait
<1>1. pc \in [G -> CondPC] /\ t \in [G -> 0 .. Tickets - 1]
  BY DEF CondInv, TypeOK
<1> QED
  BY <1>1 DEF LockL, UnlockL, Load, Goto

LEMMA RoleStep ==
  ASSUME CondInv, RoleInv, NEW a \in G, Does(a) PROVE RoleInv'
<1>1. Moved(a) /\ WaitMoved(a)
  BY DoesMoves
<1>2. \A h \in G \ {a} :
        /\ role[h] = "signal" => pc'[h] = "out"
        /\ role[h] = "put" => pc'[h] \notin WaitPC
  BY <1>1 DEF Moved, RoleInv, WaitPC
<1>3. CASE Free(a)
  <2>1. UNCHANGED <<items, role>>
    BY <1>3 DEF Free, clientvars
  <2>2. role[a] # "signal"
    BY <1>3, InsideMoves DEF Free, RoleInv
  <2>3. role[a] = "put" => pc'[a] \notin WaitPC
    <3>1. ASSUME role[a] = "put" PROVE pc'[a] # "added"
      BY <1>3, <3>1, InsideMoves, LockMoves DEF Free
    <3> QED
      BY <1>1, <3>1 DEF WaitMoved, RoleInv, WaitPC
  <2> QED
    BY <1>2, <2>1, <2>2, <2>3 DEF RoleInv
<1>4. CASE Put(a)
  <2>1. /\ role \in [G -> {"put", "take", "signal"}] /\ items' = items + 1
        /\ role' = [role EXCEPT ![a] = "signal"] /\ pc'[a] = "out"
    BY <1>4, LockMoves DEF Put, RoleInv
  <2> QED
    BY <1>2, <2>1 DEF RoleInv, WaitPC
<1>5. CASE PutSignals(a)
  <2>1. /\ role \in [G -> {"put", "take", "signal"}] /\ items' = items
        /\ role' = [role EXCEPT ![a] = "put"] /\ pc'[a] = "one"
    BY <1>5, LockMoves DEF PutSignals, RoleInv
  <2> QED
    BY <1>2, <2>1 DEF RoleInv, WaitPC
<1>6. CASE Take(a)
  <2>1. /\ role \in [G -> {"put", "take", "signal"}] /\ items' \in Nat
        /\ role' = role /\ role[a] = "take"
    BY <1>6 DEF Take, RoleInv
  <2> QED
    BY <1>2, <2>1 DEF RoleInv
<1>7. CASE TakeWaits(a)
  BY <1>2, <1>7 DEF TakeWaits, clientvars, RoleInv
<1> QED
  BY <1>3, <1>4, <1>5, <1>6, <1>7 DEF Does

(* Whom a step of goroutine a leaves among signals and takers: the others. *)
LEMMA OthersStay ==
  ASSUME CondInv, RoleInv, NEW a \in G, Does(a)
  PROVE  /\ \A h \in WaitersNow \cap WaitersNow' :
              SignalsFor(h) \ {a} \subseteq SignalsFor(h)'
         /\ TakersComing \ {a} \subseteq TakersComing'
<1>1. Moved(a) /\ CondStep(a)
  BY DoesMoves
<1>2. \A g \in G \ {a} : role'[g] = role[g]
  BY DEF RoleInv, Does, Free, Put, PutSignals, Take, TakeWaits, clientvars
<1>3. ASSUME NEW h \in WaitersNow \cap WaitersNow',
             NEW g \in SignalsFor(h) \ {a}
      PROVE  g \in SignalsFor(h)'
  <2>1. g \in G /\ t'[g] = t[g] /\ role'[g] = role[g]
    BY <1>1, <1>2, <1>3 DEF SignalsFor, Moved
  <2>2. CASE role[g] = "signal"
    BY <2>1, <2>2 DEF SignalsFor
  <2>3. CASE pc[g] = "oneLocked"
    BY <1>1, <1>3, <2>1, <2>3 DEF SignalsFor, Moved
  <2>4. CASE pc[g] = "one" /\ Age(g) < Age(h)
    <3>1. Age(g)' < Age(h)'
      BY <2>1, <2>4, <1>3, DoesStep, StaysOlder
    <3>2. pc'[g] = "one"
      BY <1>1, <1>3, <2>1, <2>4 DEF Moved
    <3> QED
      BY <2>1, <3>1, <3>2 DEF SignalsFor
  <2> QED
    BY <1>3, <2>2, <2>3, <2>4 DEF SignalsFor
<1>4. WaitersNow' \subseteq WaitersNow \cup {a}
  BY <1>1 DEF CondStep, Same, Joins, OldestLeaves, AllLeave
<1>5. ASSUME NEW g \in TakersComing \ {a} PROVE g \in TakersComing'
  <2>1. g \in G /\ g # a
    BY <1>5 DEF TakersComing
  <2>2. CASE pc[g] = "hold" /\ role[g] = "take"
    BY <1>1, <1>2, <2>1, <2>2 DEF Moved, TakersComing
  <2>3. CASE pc[g] \in WaitPC /\ ~Unnotified(g)
    <3>1. ~Unnotified(g)'
      BY <1>4, <2>1, <2>3 DEF WaitersNow
    <3>2. pc'[g] \in WaitPC
      BY <1>1, <2>1, <2>3 DEF Moved, WaitPC
    <3> QED
      BY <2>1, <3>1, <3>2 DEF TakersComing, WaitPC
  <2> QED
    BY <1>5, <2>2, <2>3 DEF TakersComing, WaitPC
<1> QED
  BY <1>3, <1>5

LEMMA Counts ==
  ASSUME NEW A \in SUBSET G, NEW B \in SUBSET G, NEW a, A \ {a} \subseteq B
  PROVE  /\ Cardinality(A) \in Nat /\ Cardinality(B) \in Nat
         /\ a \notin A \/ a \in B => Cardinality(A) <= Cardinality(B)
         /\ Cardinality(A) <= Cardinality(B) + 1
         /\ a \notin A /\ a \in B => Cardinality(A) + 1 <= Cardinality(B)
<1>1. IsFiniteSet(A) /\ IsFiniteSet(B)
  BY CondAssumption, FS_Subset
<1>2. Cardinality(A) \in Nat /\ Cardinality(B) \in Nat
  BY <1>1, FS_CardinalityType
<1>3. ASSUME NEW C \in SUBSET B PROVE Cardinality(C) <= Cardinality(B)
  BY <1>1, FS_Subset
<1>4. CASE a \in B
  <2>1. Cardinality(A) <= Cardinality(B)
    BY <1>3, <1>4
  <2>2. a \notin A => Cardinality(A) + 1 <= Cardinality(B)
    <3>1. ASSUME a \notin A PROVE Cardinality(A \cup {a}) = Cardinality(A) + 1
      BY <1>1, <3>1, FS_AddElement
    <3>2. Cardinality(A \cup {a}) <= Cardinality(B)
      BY <1>3, <1>4
    <3> QED
      BY <3>1, <3>2
  <2> QED
    BY <1>2, <1>4, <2>1, <2>2
<1>5. CASE a \notin B
  <2>1. a \notin A => Cardinality(A) <= Cardinality(B)
    BY <1>3
  <2>2. a \in A => Cardinality(A) <= Cardinality(B) + 1
    <3>1. ASSUME a \in A PROVE Cardinality(A \ {a}) = Cardinality(A) - 1
      BY <1>1, <3>1, FS_RemoveElement
    <3>2. Cardinality(A \ {a}) <= Cardinality(B)
      BY <1>3
    <3> QED
      BY <1>2, <3>1, <3>2
  <2> QED
    BY <1>2, <1>5, <2>1, <2>2
<1> QED
  BY <1>4, <1>5

\* Goroutine a, if it stood for an item by a signal or by taking, still does.
StillCounts(a, h) ==
  /\ a \notin SignalsFor(h) \/ a \in SignalsFor(h)'
  /\ a \notin TakersComing \/ a \in TakersComing'

(* So does a client inside Wait, and a Signal that finds nobody to notify  *)
(* has not counted; one that notifies makes a taker of a waiter.           *)
LEMMA InsideStep ==
  ASSUME CondInv, RoleInv, NEW a \in G, Waiting(a) \/ Notifying(a),
         role \in [G -> {"put", "take", "signal"}], role' = role,
         NEW h \in WaitersNow'
  PROVE  /\ h \in WaitersNow
         /\ \/ StillCounts(a, h)
            \/ /\ a \notin TakersComing
               /\ \E f \in G \ TakersComing : f \in TakersComing'
<1> USE DEF StillCounts
<1>1. Moved(a) /\ WaitMoved(a) /\ CondStep(a)
  BY StepMoves, CondStepInv
<1>2. role[a] # "signal" /\ pc[a] \notin {"out", "lock", "hold"}
  BY InsideMoves DEF RoleInv
<1>3. CASE Waiting(a)
  <2>1. Same
    BY <1>3, WaitUnlockKeeps, ListWaitKeeps, WaitLockKeeps DEF Waiting
  <2>2. /\ pc[a] \in WaitPC
        /\ \/ pc'[a] \in WaitPC
           \/ pc'[a] = "hold"
    BY <1>3 DEF Waiting, WaitUnlock, ListWait, WaitLock, Goto, WaitPC,
                CondInv, TypeOK
  <2>3. a \notin SignalsFor(h)
    BY <1>2, <2>2 DEF SignalsFor, WaitPC
  <2>4. role'[a] = "take"
    BY <1>2, <2>2 DEF RoleInv
  <2>5. a \notin TakersComing \/ a \in TakersComing'
    <3>1. Unnotified(a)' <=> Unnotified(a)
      BY <2>1 DEF Same, WaitersNow
    <3> QED
      BY <1>2, <2>2, <2>4, <3>1 DEF TakersComing, WaitPC
  <2> QED
    BY <2>1, <2>3, <2>5 DEF Same
<1>4. CASE Notifying(a)
  <2>1. a \notin TakersComing
    BY <1>4 DEF Notifying, FastPath, NotifyOne, TakeOff, NotifyAll, Ready,
                Goto, TakersComing
  <2>2. CASE FastPath(a, "one", "oneLocked")
    <3>1. Same /\ h \in WaitersNow
      BY <2>2, FastPathKeeps DEF Same
    <3>2. pc[a] = "one" /\ pc'[a] = IF t[a] = notify THEN "out" ELSE "oneLocked"
      BY <2>2 DEF FastPath, Goto, CondInv, TypeOK
    <3>3. CASE t[a] = notify
      <4>1. Age(h) \in 1 .. Pending /\ Age(a) = Pending /\ Pending \in Nat
        BY <3>1, <3>3, AgeType DEF CondInv, TicketInv, Age, Pending
      <4>2. a \notin SignalsFor(h)
        BY <1>2, <3>2, <4>1 DEF SignalsFor
      <4> QED
        BY <2>1, <3>1, <4>2
    <3>4. CASE t[a] # notify
      BY <2>1, <3>1, <3>2, <3>4 DEF SignalsFor
    <3> QED
      BY <3>3, <3>4
  <2>3. CASE FastPath(a, "all", "allLocked") \/ Ready(a)
    <3>1. Same /\ h \in WaitersNow
      BY <2>3, FastPathKeeps, ReadyKeeps DEF Same
    <3>2. a \notin SignalsFor(h)
      BY <1>2, <2>3 DEF SignalsFor, FastPath, Ready, Goto
    <3> QED
      BY <2>1, <3>1, <3>2
  <2>4. CASE NotifyOne(a)
    <3>1. CASE notify = wait
      <4>1. Same /\ WaitersNow = {}
        <5>1. \A f \in G : ~OldestLeaves(f)
          <6>1. Pending = 0 /\ \A f \in WaitersNow : Age(f) \in 1 .. Pending
            BY <3>1, AgeType DEF CondInv, TicketInv
          <6> QED
            BY <6>1 DEF OldestLeaves
        <5>2. WaitersNow = {}
          BY <3>1, AgeType DEF CondInv, TicketInv
        <5> QED
          BY <2>4, <5>1, <5>2, NotifyOneKeeps, WaitersFinite
      <4> QED
        BY <4>1 DEF Same
    <3>2. PICK f \in G : OldestLeaves(f) \/ notify = wait
      BY <2>4, NotifyOneKeeps, WaitersFinite
    <3>3. CASE OldestLeaves(f)
      <4>1. f \in WaitersNow /\ f \notin WaitersNow' /\ h \in WaitersNow
        BY <3>3 DEF OldestLeaves
      <4>2. Unnotified(f) /\ ~Unnotified(f)' /\ pc[f] \in WaitPC
        BY <4>1 DEF WaitersNow, Unnotified, WaitPC
      <4>3. f # a /\ pc'[f] \in WaitPC
        <5>1. pc[a] = "oneLocked"
          BY <2>4 DEF NotifyOne, TakeOff, Goto
        <5> QED
          BY <1>1, <4>2, <5>1 DEF Moved, WaitPC
      <4>4. f \notin TakersComing /\ f \in TakersComing'
        BY <4>2, <4>3 DEF TakersComing, WaitPC
      <4> QED
        BY <2>1, <4>1, <4>4
    <3> QED
      BY <3>1, <3>2, <3>3
  <2>5. CASE NotifyAll(a)
    BY <2>5, NotifyAllKeeps DEF AllLeave
  <2> QED
    BY <1>4, <2>2, <2>3, <2>4, <2>5 DEF Notifying
<1> QED
  BY <1>3, <1>4

(* What a client does while there are items to take and someone waits.     *)
LEMMA ClientStep ==
  ASSUME CondInv, RoleInv, NEW a \in G, Does(a), items' # 0,
         NEW h \in WaitersNow'
  PROVE  /\ h \in WaitersNow
         /\ \/ items' = items /\ StillCounts(a, h)
            \/ /\ items' = items + 1
               /\ a \notin SignalsFor(h) /\ a \in SignalsFor(h)'
               /\ a \notin TakersComing
            \/ /\ items' = items - 1
               /\ a \notin SignalsFor(h)
            \/ /\ items' = items
               /\ a \notin TakersComing
               /\ \E f \in G \ TakersComing : f \in TakersComing'
<1>1. Moved(a) /\ WaitMoved(a) /\ CondStep(a) /\ CondInv'
  BY DoesMoves
<1>2. role \in [G -> {"put", "take", "signal"}]
  <2>1. ASSUME items = 0, role = [g \in G |-> "free"] PROVE FALSE
    BY <2>1 DEF Does, Free, Put, PutSignals, Take, TakeWaits, clientvars
  <2> QED
    BY <2>1 DEF RoleInv
<1>3. CASE Free(a)
  <2>1. UNCHANGED <<items, role>> /\ role[a] # "free"
    BY <1>2, <1>3 DEF Free, clientvars
  <2>2. CASE LockL(a) \/ UnlockL(a)
    <3>1. h \in WaitersNow
      BY <2>2, LockLKeeps, UnlockLKeeps DEF Same
    <3>2. a \notin TakersComing \/ a \in TakersComing'
      BY <1>3, <2>1, <2>2, LockMoves, InsideMoves DEF Free, TakersComing
    <3>3. role[a] # "signal"
      BY <1>3, <2>2, LockMoves, InsideMoves DEF Free
    <3>4. a \notin SignalsFor(h)
      BY <2>2, <3>3, LockMoves DEF SignalsFor
    <3> QED
      BY <2>1, <3>1, <3>2, <3>4 DEF StillCounts
  <2>3. CASE Waiting(a) \/ Notifying(a)
    BY <1>2, <2>1, <2>3, InsideStep
  <2> QED
    BY <1>3, <2>1, <2>2, <2>3 DEF Free
<1>4. CASE Put(a)
  <2>1. /\ items' = items + 1 /\ role[a] = "put" /\ role'[a] = "signal"
        /\ pc[a] = "hold" /\ Same
    BY <1>2, <1>4, LockMoves, UnlockLKeeps DEF Put
  <2> QED
    BY <2>1 DEF Same, SignalsFor, TakersComing
<1>5. CASE PutSignals(a)
  <2>1. /\ items' = items /\ pc[a] = "out" /\ pc'[a] = "one" /\ t'[a] = wait
        /\ Same
    BY <1>5, LockMoves, LoadKeeps DEF PutSignals
  <2>2. Age(a)' < Age(h)'
    <3>1. Age(h)' \in 1 .. Pending' /\ Pending' \in Nat
      <4>1. TypeOK' => (Pending \in Nat)'
        BY PendingType, PTL
      <4> QED
        BY <1>1, <4>1 DEF CondInv, TicketInv
    <3>2. Age(a)' = 0
      BY <2>1, AgeType, GapGrows DEF Same, Age, CondInv
    <3> QED
      BY <3>1, <3>2
  <2>3. a \in SignalsFor(h)' /\ a \notin TakersComing
    BY <2>1, <2>2 DEF SignalsFor, TakersComing
  <2> QED
    BY <2>1, <2>3 DEF Same, StillCounts
<1>6. CASE Take(a)
  <2>1. items' = items - 1 /\ role[a] = "take" /\ pc[a] = "hold" /\ Same
    BY <1>6, LockMoves, UnlockLKeeps DEF Take
  <2> QED
    BY <2>1 DEF Same, SignalsFor
<1>7. CASE TakeWaits(a)
  BY <1>7 DEF TakeWaits, clientvars
<1> QED
  BY <1>3, <1>4, <1>5, <1>6, <1>7 DEF Does

LEMMA ItemsStep ==
  ASSUME CondInv, RoleInv, ItemsInv, NEW a \in G, Does(a)
  PROVE  ItemsInv'
<1> SUFFICES ASSUME NEW h \in WaitersNow'
             PROVE  items' <= Cardinality(SignalsFor(h)')
                                + Cardinality(TakersComing')
  BY DEF ItemsInv
<1> DEFINE S == SignalsFor(h)
           T == TakersComing
<1>1. S \subseteq G /\ S' \subseteq G /\ T \subseteq G /\ T' \subseteq G
  BY DEF SignalsFor, TakersComing
<1>2. CASE items' = 0
  BY <1>1, <1>2, Counts
<1>3. CASE items' # 0
  <2>1. h \in WaitersNow /\ S \ {a} \subseteq S' /\ T \ {a} \subseteq T'
    BY <1>3, ClientStep, OthersStay
  <2>2. /\ items \in Nat /\ items <= Cardinality(S) + Cardinality(T)
        /\ Cardinality(S) \in Nat /\ Cardinality(T) \in Nat
        /\ Cardinality(S') \in Nat /\ Cardinality(T') \in Nat
    BY <1>1, <2>1, Counts DEF ItemsInv, RoleInv
  <2> HIDE DEF S, T
  <2>3. /\ a \notin S \/ a \in S' => Cardinality(S) <= Cardinality(S')
        /\ Cardinality(S) <= Cardinality(S') + 1
        /\ a \notin S /\ a \in S' => Cardinality(S) + 1 <= Cardinality(S')
    BY <1>1, <2>1, Counts
  <2>4. /\ a \notin T \/ a \in T' => Cardinality(T) <= Cardinality(T')
        /\ Cardinality(T) <= Cardinality(T') + 1
    BY <1>1, <2>1, Counts
  <2>5. ASSUME a \notin T, NEW f \in G \ T, f \in T'
        PROVE  Cardinality(T) + 1 <= Cardinality(T')
    <3>1. T \ {f} \subseteq T'
      BY <2>1, <2>5
    <3> QED
      BY <1>1, <2>5, <3>1, Counts
  <2>6. \/ /\ items' = items
           /\ a \notin S \/ a \in S'
           /\ a \notin T \/ a \in T'
        \/ items' = items + 1 /\ a \notin S /\ a \in S' /\ a \notin T
        \/ items' = items - 1 /\ a \notin S
        \/ items' = items /\ a \notin T /\ \E f \in G \ T : f \in T'
    BY <1>3, ClientStep DEF StillCounts, S, T
  <2>7. items' <= Cardinality(S') + Cardinality(T')
    BY <2>2, <2>3, <2>4, <2>5, <2>6
  <2> QED
    BY <2>7 DEF S, T
<1> QED
  BY <1>2, <1>3

THEOREM ClientInvariant == MCSpec => [](RoleInv /\ ItemsInv)
<1>1. MCInit => RoleInv /\ ItemsInv
  <2> SUFFICES ASSUME MCInit PROVE RoleInv /\ ItemsInv
    OBVIOUS
  <2>1. Init /\ items = 0 /\ role \in Roles /\ \A g \in G : pc[g] = "out"
    BY DEF MCInit, Init
  <2>2. RoleInv
    BY <2>1 DEF Roles, RoleInv, WaitPC
  <2>3. WaitersNow = {}
    BY <2>1 DEF WaitersNow, Unnotified
  <2> QED
    BY <2>2, <2>3 DEF ItemsInv
<1>2. CondInv /\ RoleInv /\ ItemsInv /\ [MCNext]_mcvars
        => RoleInv' /\ ItemsInv'
  <2>1. ASSUME CondInv, RoleInv, ItemsInv, UNCHANGED mcvars
        PROVE  RoleInv' /\ ItemsInv'
    <3>1. UNCHANGED <<wait, notify, list, pc, t, items, role>>
      BY <2>1 DEF mcvars, vars, clientvars
    <3>2. \A g : Unnotified(g)' <=> Unnotified(g)
      BY <3>1 DEF Unnotified, Listed, Less
    <3>3. /\ \A h : SignalsFor(h)' = SignalsFor(h)
          /\ TakersComing' = TakersComing /\ WaitersNow' = WaitersNow
      BY <3>1, <3>2 DEF SignalsFor, Age, TakersComing, WaitersNow
    <3> QED
      BY <2>1, <3>1, <3>3 DEF RoleInv, ItemsInv
  <2> QED
    BY <2>1, MCNextDoes, RoleStep, ItemsStep
<1> QED
  BY <1>1, <1>2, MCSpecSafety, CondInvariant, PTL DEF MCSpec

(* While a client waits, every item has a signal or a taker of its own     *)
(* that is still coming, however many puts and waits run at once.          *)
THEOREM CondNoItemForgotten == MCSpec => []NoItemForgotten
<1>1. CondInv /\ RoleInv /\ ItemsInv => NoItemForgotten
  <2> SUFFICES ASSUME CondInv, RoleInv, ItemsInv, NEW h \in G, Unnotified(h)
               PROVE  items <= Cardinality(SignalsComing)
                                 + Cardinality(TakersComing)
    BY DEF NoItemForgotten
  <2>1. h \in WaitersNow
    BY DEF WaitersNow
  <2>2. /\ SignalsFor(h) \subseteq SignalsComing /\ SignalsComing \subseteq G
        /\ TakersComing \subseteq G
    BY DEF SignalsFor, SignalsComing, TakersComing
  <2>3. /\ Cardinality(SignalsFor(h)) \in Nat
        /\ Cardinality(SignalsComing) \in Nat
        /\ Cardinality(SignalsFor(h)) <= Cardinality(SignalsComing)
        /\ Cardinality(TakersComing) \in Nat
    <3>1. IsFiniteSet(SignalsComing) /\ IsFiniteSet(TakersComing)
      BY <2>2, CondAssumption, FS_Subset
    <3> QED
      BY <2>2, <3>1, FS_Subset, FS_CardinalityType
  <2> QED
    BY <2>1, <2>3 DEF ItemsInv, RoleInv
<1> QED
  BY <1>1, ClientInvariant, MCSpecSafety, CondInvariant, PTL
=============================================================================
