------------------------------- MODULE FDProofs -------------------------------
(***************************************************************************)
(* Theorems about the fdMutex, and about poll.FD on its pollDesc, for any  *)
(* number of goroutines, every scenario and any stale timers and events.   *)
(*                                                                         *)
(* The first part is about any balanced use of an fdMutex (MuInv).  The    *)
(* second adds what FD makes of it: which use belongs to which point of a  *)
(* call (PcInv), the order of close, eviction and destruction (CloseInv),  *)
(* who is announced in rg, that input and errors it has not seen are going *)
(* to be told to it (PollInv), and which timer a deadline rests on while   *)
(* timers of earlier deadlines are still running (TimerInv).               *)
(***************************************************************************)
EXTENDS FD, FiniteSetTheorems, TLAPS

(* A condition, counted.                                                   *)
One(b) == IF b THEN 1 ELSE 0

(* Two sets that differ at most in g differ by at most one in size.        *)
LEMMA SetMove ==
  ASSUME NEW S, NEW T, NEW g, IsFiniteSet(S), S \ {g} = T \ {g}
  PROVE  /\ Cardinality(S) \in Nat /\ Cardinality(T) \in Nat
         /\ Cardinality(T) = Cardinality(S) + One(g \in T) - One(g \in S)
<1>1. IsFiniteSet((S \ {g}) \cup {g})
  BY FS_RemoveElement, FS_AddElement
<1>2. IsFiniteSet(T)
  <2>1. T \subseteq (S \ {g}) \cup {g}
    OBVIOUS
  <2> QED
    BY <1>1, <2>1, FS_Subset
<1>3. /\ Cardinality(S \ {g}) = Cardinality(S) - One(g \in S)
      /\ Cardinality(T \ {g}) = Cardinality(T) - One(g \in T)
  BY <1>2, FS_RemoveElement, FS_CardinalityType DEF One
<1>4. Cardinality(S) \in Nat /\ Cardinality(T) \in Nat
  BY <1>2, FS_CardinalityType
<1>5. Cardinality(S) - One(g \in S) = Cardinality(T) - One(g \in T)
  BY <1>3
<1> QED
  BY <1>4, <1>5 DEF One

-----------------------------------------------------------------------------
(* The mutex of a descriptor, used in any balanced way: FdMutex.           *)

Cnt(u, m) == Cardinality(Using(u, m))

Inside == Cardinality(Users)

(* What goes with each use of the mutex, and what only Close brings about. *)
UseInv ==
  /\ \A g \in G :
       /\ mode[g] \in Mode <=> use[g] \in {"sem", "retry", "hold", "wake"}
       /\ waitsFor[g] = IF use[g] = "sem" THEN mode[g] ELSE NoMode
  /\ ~closed => toWake = Zeros /\ \A g \in G : use[g] # "closing"

MuInv == MuTypeOK /\ UseInv /\ RefsExact /\ SleepersCounted /\ NoLockForgotten
-----------------------------------------------------------------------------
(* Counting.                                                               *)

(* The counts are natural numbers.                                         *)
LEMMA CntNat ==
  /\ \A u, m : IsFiniteSet(Using(u, m)) /\ Cnt(u, m) \in Nat
  /\ IsFiniteSet(Users) /\ Inside \in Nat
<1>1. \A u, m : Using(u, m) \subseteq G
  BY DEF Using
<1>2. Users \subseteq G
  BY DEF Users
<1> QED
  BY <1>1, <1>2, FdMutexAssumption, FS_Subset, FS_CardinalityType DEF Cnt, Inside

(* The counts after a step of one goroutine.                               *)
LEMMA CntMove ==
  ASSUME MuTypeOK, NEW g \in G, NEW u, NEW m, Become(g, u, m)
  PROVE  /\ \A v, n : Cnt(v, n)' = Cnt(v, n) + One(u = v /\ m = n)
                                     - One(use[g] = v /\ mode[g] = n)
         /\ Inside' = Inside + One(u \in {"hold", "ref", "closing"})
                        - One(use[g] \in {"hold", "ref", "closing"})
<1>1. \A h \in G : /\ use'[h] = IF h = g THEN u ELSE use[h]
                   /\ mode'[h] = IF h = g THEN m ELSE mode[h]
  BY DEF MuTypeOK, Become
<1>2. ASSUME NEW v, NEW n
      PROVE  Cnt(v, n)' = Cnt(v, n) + One(u = v /\ m = n) - One(use[g] = v /\ mode[g] = n)
  <2>1. Using(v, n) \ {g} = Using(v, n)' \ {g}
    BY <1>1 DEF Using
  <2>2. /\ g \in Using(v, n) <=> (use[g] = v /\ mode[g] = n)
        /\ g \in Using(v, n)' <=> (u = v /\ m = n)
    BY <1>1 DEF Using
  <2>3. IsFiniteSet(Using(v, n))
    BY CntNat
  <2>4. Cardinality(Using(v, n)') =
          Cardinality(Using(v, n)) + One(g \in Using(v, n)') - One(g \in Using(v, n))
    BY <2>1, <2>3, SetMove
  <2> QED
    BY <2>2, <2>4 DEF Cnt, One
<1>3. Inside' = Inside + One(u \in {"hold", "ref", "closing"})
                  - One(use[g] \in {"hold", "ref", "closing"})
  <2>1. Users \ {g} = Users' \ {g}
    BY <1>1 DEF Users
  <2>2. /\ g \in Users <=> use[g] \in {"hold", "ref", "closing"}
        /\ g \in Users' <=> u \in {"hold", "ref", "closing"}
    BY <1>1 DEF Users
  <2>3. IsFiniteSet(Users)
    BY CntNat
  <2>4. Cardinality(Users') = Cardinality(Users) + One(g \in Users') - One(g \in Users)
    BY <2>1, <2>3, SetMove
  <2> QED
    BY <2>2, <2>4 DEF Inside, One
<1> QED
  BY <1>2, <1>3

(* A step that moves no goroutine.                                         *)
LEMMA CntStay ==
  ASSUME UNCHANGED <<use, mode>>
  PROVE  (\A v, n : Cnt(v, n)' = Cnt(v, n)) /\ Inside' = Inside
  BY DEF Cnt, Using, Inside, Users

(* The three counting conjuncts in terms of Cnt.                           *)
LEMMA Counts ==
  /\ RefsExact <=> /\ refs = Inside
                   /\ \A m \in Mode : Cnt("hold", m) = IF locked[m] THEN 1 ELSE 0
  /\ SleepersCounted <=>
       \A m \in Mode : Cnt("sem", m) = waiters[m] + permits[m] + toWake[m] + Cnt("wake", m)
  /\ NoLockForgotten <=>
       /\ closed => waiters = Zeros
       /\ \A m \in Mode : waiters[m] > 0 /\ ~locked[m] =>
            permits[m] + Cnt("retry", m) + Cnt("wake", m) > 0
  BY DEF RefsExact, SleepersCounted, NoLockForgotten, Cnt, Inside

LEMMA CountsNext ==
  /\ RefsExact' <=> /\ refs' = Inside'
                    /\ \A m \in Mode : Cnt("hold", m)' = IF locked'[m] THEN 1 ELSE 0
  /\ SleepersCounted' <=>
       \A m \in Mode :
         Cnt("sem", m)' = waiters'[m] + permits'[m] + toWake'[m] + Cnt("wake", m)'
  /\ NoLockForgotten' <=>
       /\ closed' => waiters' = Zeros
       /\ \A m \in Mode : waiters'[m] > 0 /\ ~locked'[m] =>
            permits'[m] + Cnt("retry", m)' + Cnt("wake", m)' > 0
  BY DEF RefsExact, SleepersCounted, NoLockForgotten, Cnt, Inside, Zeros

(* A holder is the holder: its lock bit is set, and nobody else holds it.  *)
LEMMA HolderLocked ==
  ASSUME MuInv, NEW g \in G, use[g] = "hold"
  PROVE  mode[g] \in Mode /\ locked[mode[g]]
<1>1. mode[g] \in Mode
  BY DEF MuInv, UseInv
<1>2. Using("hold", mode[g]) # {}
  BY DEF Using
<1>3. Cnt("hold", mode[g]) # 0
  BY <1>2, CntNat, FS_EmptySet DEF Cnt
<1> QED
  BY <1>1, <1>3, Counts DEF MuInv

(* Two holders of one lock are one goroutine.                              *)
LEMMA OneHolder ==
  ASSUME MuInv, NEW g \in G, NEW h \in G,
         use[g] = "hold", use[h] = "hold", mode[g] = mode[h]
  PROVE  g = h
<1> SUFFICES ASSUME g # h PROVE FALSE
  OBVIOUS
<1>1. Cnt("hold", mode[g]) = 1
  BY HolderLocked, Counts DEF MuInv
<1>2. IsFiniteSet(Using("hold", mode[g])) /\ {g, h} \subseteq Using("hold", mode[g])
  BY CntNat DEF Using
<1>3. Cardinality({g, h}) <= 1
  BY <1>1, <1>2, FS_Subset DEF Cnt
<1>4. Cardinality({g, h}) = 2
  <2>1. IsFiniteSet({g}) /\ Cardinality({g}) = 1 /\ h \notin {g}
    BY FS_Singleton
  <2>2. Cardinality({g} \cup {h}) = 1 + 1
    BY <2>1, FS_AddElement
  <2>3. {g} \cup {h} = {g, h}
    OBVIOUS
  <2> QED
    BY <2>2, <2>3
<1> QED
  BY <1>3, <1>4

(* Whoever is inside is counted.                                           *)
LEMMA UserCounted ==
  ASSUME MuInv, NEW g \in G, use[g] \in {"hold", "ref", "closing"}
  PROVE  refs - 1 \in Nat
<1>1. Users # {}
  BY DEF Users
<1>2. Inside # 0 /\ Inside \in Nat
  BY <1>1, CntNat, FS_EmptySet DEF Inside
<1> QED
  BY <1>2, Counts DEF MuInv

-----------------------------------------------------------------------------
(* MuInv holds initially, and every operation preserves it.                *)

LEMMA InitInv ==
  ASSUME MuInit PROVE MuInv
<1>1. MuTypeOK /\ UseInv
  BY FdMutexAssumption DEF MuInit, MuTypeOK, UseInv, Uses, Zeros, Mode
<1>2. Users = {} /\ \A u, m : u # "none" => Using(u, m) = {}
  BY DEF MuInit, Users, Using
<1>3. Inside = 0 /\ \A u, m : u # "none" => Cnt(u, m) = 0
  BY <1>2, FS_EmptySet DEF Inside, Cnt
<1> QED
  BY <1>1, <1>3, Counts DEF MuInit, MuInv, Zeros, Mode

LEMMA IncrefInv ==
  ASSUME MuInv, NEW g \in G, Incref(g) PROVE MuInv'
<1>1. MuTypeOK' /\ UseInv'
  BY FdMutexAssumption
  DEF MuInv, MuTypeOK, UseInv, Incref, Become, Uses, Zeros, Mode, state, sems
<1>2. /\ \A v, n : Cnt(v, n)' = Cnt(v, n) + One("ref" = v /\ NoMode = n)
                                    - One(use[g] = v /\ mode[g] = n)
      /\ Inside' = Inside + One("ref" \in {"hold", "ref", "closing"})
                     - One(use[g] \in {"hold", "ref", "closing"})
  BY CntMove DEF MuInv, Incref
<1>3. /\ Inside' = Inside + 1
      /\ \A n : \A v \in {"hold", "sem", "wake", "retry"} : Cnt(v, n)' = Cnt(v, n)
  BY <1>2, CntNat DEF One, Incref
<1> QED
  BY <1>1, <1>3, Counts, CountsNext, CntNat, FdMutexAssumption
  DEF MuInv, MuTypeOK, UseInv, Incref, Zeros, Mode, state, sems

LEMMA IncrefAndCloseInv ==
  ASSUME MuInv, NEW g \in G, IncrefAndClose(g) PROVE MuInv'
<1>1. MuTypeOK' /\ UseInv'
  BY FdMutexAssumption
  DEF MuInv, MuTypeOK, UseInv, IncrefAndClose, Become, Uses, Zeros, Mode, state, sems
<1>2. /\ \A v, n : Cnt(v, n)' = Cnt(v, n) + One("closing" = v /\ NoMode = n)
                                    - One(use[g] = v /\ mode[g] = n)
      /\ Inside' = Inside + One("closing" \in {"hold", "ref", "closing"})
                     - One(use[g] \in {"hold", "ref", "closing"})
  BY CntMove DEF MuInv, IncrefAndClose
<1>3. /\ Inside' = Inside + 1
      /\ \A n : \A v \in {"hold", "sem", "wake", "retry"} : Cnt(v, n)' = Cnt(v, n)
  BY <1>2, CntNat DEF One, IncrefAndClose
<1> QED
  BY <1>1, <1>3, Counts, CountsNext, CntNat, FdMutexAssumption
  DEF MuInv, MuTypeOK, UseInv, IncrefAndClose, Zeros, Mode, state, sems

LEMMA CloseWakeInv ==
  ASSUME MuInv, NEW g \in G, NEW m \in Mode, CloseWake(g, m) PROVE MuInv'
<1>1. MuTypeOK' /\ UseInv'
  BY FdMutexAssumption
  DEF MuInv, MuTypeOK, UseInv, CloseWake, Uses, Zeros, Mode, state, Sem!Give
<1>2. UNCHANGED <<use, mode>>
  BY DEF CloseWake
<1>3. Inside' = Inside /\ \A v, n : Cnt(v, n)' = Cnt(v, n)
  BY <1>2, CntStay
<1> QED
  BY <1>1, <1>3, Counts, CountsNext, CntNat
  DEF MuInv, MuTypeOK, CloseWake, Sem!Give, Zeros, Mode, state

LEMMA DecrefInv ==
  ASSUME MuInv, NEW g \in G, Decref(g) PROVE MuInv'
<1>1. MuTypeOK' /\ UseInv'
  BY FdMutexAssumption, UserCounted
  DEF MuInv, MuTypeOK, UseInv, Decref, Become, Uses, Zeros, Mode, state, sems
<1>2. /\ \A v, n : Cnt(v, n)' = Cnt(v, n) + One("none" = v /\ NoMode = n)
                                    - One(use[g] = v /\ mode[g] = n)
      /\ Inside' = Inside + One("none" \in {"hold", "ref", "closing"})
                     - One(use[g] \in {"hold", "ref", "closing"})
  BY CntMove DEF MuInv, Decref
<1>3. /\ Inside' = Inside - 1
      /\ \A n : \A v \in {"hold", "sem", "wake", "retry"} : Cnt(v, n)' = Cnt(v, n)
  BY <1>2, CntNat DEF One, Decref
<1> QED
  BY <1>1, <1>3, Counts, CountsNext, CntNat, FdMutexAssumption
  DEF MuInv, MuTypeOK, UseInv, Decref, Zeros, Mode, state, sems

LEMMA RWLockInv ==
  ASSUME MuInv, NEW g \in G, NEW m \in Mode, RWLock(g, m) PROVE MuInv'
<1>1. MuTypeOK' /\ UseInv'
  BY FdMutexAssumption
  DEF MuInv, MuTypeOK, UseInv, RWLock, Become, Uses, Zeros, Mode, state, sems, Locking, One
<1>2. /\ \A v, n : Cnt(v, n)' = Cnt(v, n) + One("hold" = v /\ m = n)
                                    - One(use[g] = v /\ mode[g] = n)
      /\ Inside' = Inside + One("hold" \in {"hold", "ref", "closing"})
                     - One(use[g] \in {"hold", "ref", "closing"})
  BY CntMove DEF MuInv, RWLock
<1>3. /\ Inside' = Inside + 1
      /\ \A n : Cnt("hold", n)' = Cnt("hold", n) + One(n = m)
      /\ \A n : \A v \in {"sem", "wake"} : Cnt(v, n)' = Cnt(v, n)
      /\ \A n : n # m => Cnt("retry", n)' = Cnt("retry", n)
  BY <1>2, CntNat DEF One, RWLock, Locking
<1>4. RefsExact'
  <2>1. refs' = Inside'
    BY <1>3, Counts, CntNat DEF MuInv, MuTypeOK, RWLock
  <2>2. \A n \in Mode : Cnt("hold", n)' = IF locked'[n] THEN 1 ELSE 0
    BY <1>3, Counts, CntNat DEF MuInv, MuTypeOK, RWLock, One
  <2> QED
    BY <2>1, <2>2, CountsNext
<1>5. SleepersCounted'
  BY <1>3, Counts, CountsNext DEF MuInv, RWLock, sems
<1>6. NoLockForgotten'
  BY <1>3, Counts, CountsNext DEF MuInv, MuTypeOK, RWLock, sems
<1> QED
  BY <1>1, <1>4, <1>5, <1>6 DEF MuInv

LEMMA RWLockWaitInv ==
  ASSUME MuInv, NEW g \in G, NEW m \in Mode, RWLockWait(g, m) PROVE MuInv'
<1>1. MuTypeOK' /\ UseInv'
  BY FdMutexAssumption
  DEF MuInv, MuTypeOK, UseInv, RWLockWait, Become, Uses, Zeros, Mode, state, sems, Locking, One, Sem!Want
<1>2. /\ \A v, n : Cnt(v, n)' = Cnt(v, n) + One("sem" = v /\ m = n)
                                    - One(use[g] = v /\ mode[g] = n)
      /\ Inside' = Inside + One("sem" \in {"hold", "ref", "closing"})
                     - One(use[g] \in {"hold", "ref", "closing"})
  BY CntMove DEF MuInv, RWLockWait
<1>3. /\ Inside' = Inside
      /\ \A n : Cnt("sem", n)' = Cnt("sem", n) + One(n = m)
      /\ \A n : \A v \in {"hold", "wake"} : Cnt(v, n)' = Cnt(v, n)
      /\ \A n : n # m => Cnt("retry", n)' = Cnt("retry", n)
  BY <1>2, CntNat DEF One, RWLockWait, Locking
<1> QED
  BY <1>1, <1>3, Counts, CountsNext, CntNat, FdMutexAssumption
  DEF MuInv, MuTypeOK, UseInv, RWLockWait, Zeros, Mode, state, sems, Locking, One, Sem!Want

LEMMA RWLockWokenInv ==
  ASSUME MuInv, NEW g \in G, RWLockWoken(g) PROVE MuInv'
<1>1. MuTypeOK' /\ UseInv'
  BY FdMutexAssumption
  DEF MuInv, MuTypeOK, UseInv, RWLockWoken, Become, Uses, Zeros, Mode, state, sems, One, Sem!Take
<1>2. /\ \A v, n : Cnt(v, n)' = Cnt(v, n) + One("retry" = v /\ mode[g] = n)
                                    - One(use[g] = v /\ mode[g] = n)
      /\ Inside' = Inside + One("retry" \in {"hold", "ref", "closing"})
                     - One(use[g] \in {"hold", "ref", "closing"})
  BY CntMove DEF MuInv, RWLockWoken
<1>3. /\ Inside' = Inside
      /\ \A n : Cnt("sem", n)' = Cnt("sem", n) - One(n = mode[g])
      /\ \A n : Cnt("retry", n)' = Cnt("retry", n) + One(n = mode[g])
      /\ \A n : \A v \in {"hold", "wake"} : Cnt(v, n)' = Cnt(v, n)
  BY <1>2, CntNat DEF One, RWLockWoken
<1> QED
  BY <1>1, <1>3, Counts, CountsNext, CntNat, FdMutexAssumption
  DEF MuInv, MuTypeOK, UseInv, RWLockWoken, Zeros, Mode, state, sems, One, Sem!Take

LEMMA RWLockFailsInv ==
  ASSUME MuInv, NEW g \in G, RWLockFails(g) PROVE MuInv'
<1>1. MuTypeOK' /\ UseInv'
  BY FdMutexAssumption
  DEF MuInv, MuTypeOK, UseInv, RWLockFails, Become, Uses, Zeros, Mode, state, sems
<1>2. /\ \A v, n : Cnt(v, n)' = Cnt(v, n) + One("none" = v /\ NoMode = n)
                                    - One(use[g] = v /\ mode[g] = n)
      /\ Inside' = Inside + One("none" \in {"hold", "ref", "closing"})
                     - One(use[g] \in {"hold", "ref", "closing"})
  BY CntMove DEF MuInv, RWLockFails
<1>3. /\ Inside' = Inside
      /\ \A n : \A v \in {"hold", "sem", "wake"} : Cnt(v, n)' = Cnt(v, n)
  BY <1>2, CntNat DEF One, RWLockFails
<1> QED
  BY <1>1, <1>3, Counts, CountsNext, CntNat, FdMutexAssumption
  DEF MuInv, MuTypeOK, UseInv, RWLockFails, Zeros, Mode, state, sems

LEMMA RWUnlockInv ==
  ASSUME MuInv, NEW g \in G, NEW m \in Mode, RWUnlock(g, m) PROVE MuInv'
<1>1. /\ use[g] = "hold" /\ mode[g] = m /\ locked[m]
      /\ refs - 1 \in Nat
  BY HolderLocked, UserCounted DEF RWUnlock
<1>2. \A n \in Mode : waiters[n] \in Nat
  BY DEF MuInv, MuTypeOK
<1>3. CASE waiters[m] > 0 /\ waiters' = [waiters EXCEPT ![m] = @ - 1] /\ Become(g, "wake", m)
  <2>1. MuTypeOK' /\ UseInv'
    BY <1>1, <1>2, <1>3, FdMutexAssumption
    DEF MuInv, MuTypeOK, UseInv, RWUnlock, Become, Uses, Zeros, Mode, sems
  <2>2. /\ \A v, n : Cnt(v, n)' = Cnt(v, n) + One("wake" = v /\ m = n)
                                     - One(use[g] = v /\ mode[g] = n)
        /\ Inside' = Inside + One("wake" \in {"hold", "ref", "closing"})
                       - One(use[g] \in {"hold", "ref", "closing"})
    BY <1>3, CntMove DEF MuInv
  <2>3. /\ Inside' = Inside - 1
        /\ \A n : Cnt("hold", n)' = Cnt("hold", n) - One(n = m)
        /\ \A n : Cnt("wake", n)' = Cnt("wake", n) + One(n = m)
        /\ \A n : \A v \in {"sem", "retry"} : Cnt(v, n)' = Cnt(v, n)
    BY <1>1, <2>2, CntNat DEF One
  <2>4. RefsExact'
    BY <1>1, <2>3, Counts, CountsNext, CntNat DEF MuInv, MuTypeOK, RWUnlock, One
  <2>5. SleepersCounted'
    BY <1>3, <2>3, Counts, CountsNext, CntNat DEF MuInv, MuTypeOK, RWUnlock, One, sems
  <2>6. NoLockForgotten'
    BY <1>2, <1>3, <2>3, Counts, CountsNext, CntNat
    DEF MuInv, MuTypeOK, RWUnlock, One, sems, Zeros
  <2> QED
    BY <2>1, <2>4, <2>5, <2>6 DEF MuInv
<1>4. CASE waiters[m] = 0 /\ Become(g, "none", NoMode) /\ UNCHANGED waiters
  <2>1. MuTypeOK' /\ UseInv'
    BY <1>1, <1>4, FdMutexAssumption
    DEF MuInv, MuTypeOK, UseInv, RWUnlock, Become, Uses, Zeros, Mode, sems
  <2>2. /\ \A v, n : Cnt(v, n)' = Cnt(v, n) + One("none" = v /\ NoMode = n)
                                     - One(use[g] = v /\ mode[g] = n)
        /\ Inside' = Inside + One("none" \in {"hold", "ref", "closing"})
                       - One(use[g] \in {"hold", "ref", "closing"})
    BY <1>4, CntMove DEF MuInv
  <2>3. /\ Inside' = Inside - 1
        /\ \A n : Cnt("hold", n)' = Cnt("hold", n) - One(n = m)
        /\ \A n : \A v \in {"sem", "retry", "wake"} : Cnt(v, n)' = Cnt(v, n)
    BY <1>1, <2>2, CntNat DEF One
  <2>4. RefsExact'
    BY <1>1, <2>3, Counts, CountsNext, CntNat DEF MuInv, MuTypeOK, RWUnlock, One
  <2>5. SleepersCounted'
    BY <1>4, <2>3, Counts, CountsNext, CntNat DEF MuInv, MuTypeOK, RWUnlock, sems
  <2>6. NoLockForgotten'
    BY <1>4, <2>3, Counts, CountsNext, CntNat
    DEF MuInv, MuTypeOK, RWUnlock, sems
  <2> QED
    BY <2>1, <2>4, <2>5, <2>6 DEF MuInv
<1> QED
  BY <1>3, <1>4 DEF RWUnlock

LEMMA UnlockWakeInv ==
  ASSUME MuInv, NEW g \in G, UnlockWake(g) PROVE MuInv'
<1>1. MuTypeOK' /\ UseInv'
  BY FdMutexAssumption
  DEF MuInv, MuTypeOK, UseInv, UnlockWake, Become, Uses, Zeros, Mode, state, sems, One, Sem!Give
<1>2. /\ \A v, n : Cnt(v, n)' = Cnt(v, n) + One("none" = v /\ NoMode = n)
                                    - One(use[g] = v /\ mode[g] = n)
      /\ Inside' = Inside + One("none" \in {"hold", "ref", "closing"})
                     - One(use[g] \in {"hold", "ref", "closing"})
  BY CntMove DEF MuInv, UnlockWake
<1>3. /\ Inside' = Inside
      /\ \A n : Cnt("wake", n)' = Cnt("wake", n) - One(n = mode[g])
      /\ \A n : \A v \in {"hold", "sem", "retry"} : Cnt(v, n)' = Cnt(v, n)
  BY <1>2, CntNat DEF One, UnlockWake
<1> QED
  BY <1>1, <1>3, Counts, CountsNext, CntNat, FdMutexAssumption
  DEF MuInv, MuTypeOK, UseInv, UnlockWake, Zeros, Mode, state, sems, One, Sem!Give

LEMMA StutterInv ==
  ASSUME MuInv, UNCHANGED muvars PROVE MuInv'
<1>1. UNCHANGED <<closed, locked, refs, waiters, permits, waitsFor, use, mode, toWake>>
  BY DEF muvars, state, sems
<1>2. MuTypeOK' /\ UseInv'
  BY <1>1 DEF MuInv, MuTypeOK, UseInv
<1>3. Inside' = Inside /\ \A v, n : Cnt(v, n)' = Cnt(v, n)
  BY <1>1, CntStay
<1> QED
  BY <1>1, <1>2, <1>3, Counts, CountsNext DEF MuInv

LEMMA StepInv ==
  ASSUME MuInv, [MuNext]_muvars PROVE MuInv'
<1>1. CASE MuNext
  <2>1. PICK g \in G :
          \/ Incref(g) \/ IncrefAndClose(g) \/ Decref(g)
          \/ RWLockWoken(g) \/ RWLockFails(g) \/ UnlockWake(g)
          \/ \E m \in Mode :
               CloseWake(g, m) \/ RWLock(g, m) \/ RWLockWait(g, m) \/ RWUnlock(g, m)
    BY <1>1 DEF MuNext
  <2>2. ASSUME NEW m \in Mode,
               CloseWake(g, m) \/ RWLock(g, m) \/ RWLockWait(g, m) \/ RWUnlock(g, m)
        PROVE  MuInv'
    BY <2>2, CloseWakeInv, RWLockInv, RWLockWaitInv, RWUnlockInv
  <2> QED
    BY <2>1, <2>2, IncrefInv, IncrefAndCloseInv, DecrefInv, RWLockWokenInv,
       RWLockFailsInv, UnlockWakeInv
<1>2. CASE UNCHANGED muvars
  BY <1>2, StutterInv
<1> QED
  BY <1>1, <1>2
-----------------------------------------------------------------------------
(* The theorems.                                                           *)

(* All of MuInv holds of fdMutex in every state.                           *)
THEOREM MuInvariant == MuSafety => []MuInv
<1>1. MuInit => MuInv
  BY InitInv
<1>2. MuInv /\ [MuNext]_muvars => MuInv'
  BY StepInv
<1> QED
  BY <1>1, <1>2, PTL DEF MuSafety

(* The fields of the word, which are unsigned in the code, never go below  *)
(* zero.                                                                   *)
THEOREM FdMutexTypeCorrect == MuSafety => []MuTypeOK
<1>1. MuInv => MuTypeOK
  BY DEF MuInv
<1> QED
  BY <1>1, MuInvariant, PTL

(* The references and lock bits of the word are exactly those of the       *)
(* goroutines inside the mutex, so no balanced use of a descriptor meets   *)
(* the panics of decref and rwunlock, and the last one to leave is last.   *)
THEOREM FdMutexRefsExact == MuSafety => []RefsExact
<1>1. MuInv => RefsExact
  BY DEF MuInv
<1> QED
  BY <1>1, MuInvariant, PTL

(* Every sleeper of each of the two semaphores is counted in the word, has *)
(* a permit, or is about to be given one by an unlock or by Close.         *)
THEOREM FdMutexSleepersCounted == MuSafety => []SleepersCounted
<1>1. MuInv => SleepersCounted
  BY DEF MuInv
<1> QED
  BY <1>1, MuInvariant, PTL

(* While someone waits for a free lock, someone has been told to take it;  *)
(* once the descriptor is closed nobody is counted as waiting.             *)
THEOREM FdMutexForgetsNoLock == MuSafety => []NoLockForgotten
<1>1. MuInv => NoLockForgotten
  BY DEF MuInv
<1> QED
  BY <1>1, MuInvariant, PTL

(* At most one goroutine holds each of the two locks of a descriptor.      *)
THEOREM FdMutexExcludes ==
  MuSafety => [](\A g, h \in G :
                   use[g] = "hold" /\ use[h] = "hold" /\ mode[g] = mode[h] => g = h)
<1>1. MuInv => \A g, h \in G :
         use[g] = "hold" /\ use[h] = "hold" /\ mode[g] = mode[h] => g = h
  BY OneHolder
<1> QED
  BY <1>1, MuInvariant, PTL

-----------------------------------------------------------------------------
(* The descriptor itself: FD.                                              *)

(* What each point of the code holds of the mutex.                         *)
PcUse(p, u) ==
  /\ p \in {"out", "csema"} \cup Destroying => u \in {"none", "wake"}
  /\ p = "lock" => u \in {"sem", "retry"}
  /\ p \in InIO => u = "hold"
  /\ p = "set" => u = "ref"
  /\ p = "decref" => u \in {"ref", "closing"}
  /\ p = "evict" => u = "closing"

PcInv == \A g \in G : PcUse(pc[g], use[g])

(* The order in which a descriptor is closed, evicted and destroyed.       *)
CloseInv ==
  /\ (\A g \in G : use[g] # "closing") => toWake = Zeros
  /\ closing => closed
  /\ \A g \in In({"evict"}) : closed /\ ~closing
  /\ \A g, h \in In({"evict"}) : g = h
  /\ closed /\ ~closing => In({"evict"}) # {}
  /\ In(Destroying) # {} \/ destroyed => closed /\ refs = 0
  /\ \A g, h \in In(Destroying) : g = h
  /\ destroyed => In(Destroying) = {}

(* Who is announced in rg, and who has been taken out of it.               *)
RgInv ==
  /\ \A m \in Mode :
       /\ rg[m] = "wait" => \E g \in In({"recheck", "commit", "swap"}) : mode[g] = m
       /\ rg[m] \in G => rg[m] \in In({"parked"}) \ woken /\ mode[rg[m]] = m
  /\ \A g \in In({"parked"}) : g \notin woken => rg[mode[g]] = g
  /\ woken \subseteq In({"parked"})

UnderWay(m) == \E e \in events \cup delivering : m \in e.modes /\ e.tag = fdseq

(* Input that a system call has missed is notified.                        *)
InputInv ==
  \A g \in In({"check", "block", "recheck", "commit", "parked", "swap"}) :
    readable[mode[g]] => rg[mode[g]] = "ready" \/ UnderWay(mode[g])

(* Whoever is announced past the second look at the errors is going to be  *)
(* unblocked if there is one.                                              *)
ErrorInv ==
  \A g \in In({"commit", "parked"}) :
    rg[mode[g]] \in {"wait", g} /\ (closing \/ deadline[mode[g]] < 0) =>
      mode[g] \in pdlock.todo

(* The timer that is to expire the deadline of a mode.                     *)
TimerOf(m) == IF PD!Combo(deadline) THEN "r" ELSE m

Pending(n) ==
  /\ timer[n].f # {}
  /\ timer[n].armed \/ [f |-> timer[n].f, seq |-> seq[n]] \in fired

(* Each timer agrees with the deadline it was set for.                     *)
TimersAgree ==
  \A m \in Mode :
    /\ timer[m].f # {} =>
         /\ timer[m].seq = seq[m] /\ PD!FirstOf(timer[m].f) = m /\ ~closing
         /\ deadline[m] > 0 => timer[m].f = PD!Covers(deadline, m)
    /\ timer[m].armed =>
         /\ timer[m].f # {}
         /\ deadline[m] > 0 /\ timer[m].when = deadline[m]

(* A timer whose function has started is out of date or the one that is    *)
(* set, and then its deadline has come.                                    *)
FiredAgree ==
  \A x \in fired :
    /\ x.f # {} /\ x.seq <= PD!CurrentSeq(x)
    /\ ~PD!Stale(x) =>
         /\ timer[PD!FirstOf(x.f)].f = x.f /\ ~timer[PD!FirstOf(x.f)].armed
         /\ deadline[PD!FirstOf(x.f)] \in 1..now

(* Between the two halves of a timer that serves both modes.               *)
HalfExpired ==
  pdlock.by = TheTimer =>
    /\ "r" \in pdlock.todo => deadline["r"] = -1
    /\ pdlock.todo = {"w"} => deadline["w"] = -1
    /\ pdlock.todo = Mode => timer["w"].f = {} /\ deadline["w"] \in 1..now

(* Somebody is going to expire each deadline that lies ahead.              *)
DeadlinesPending ==
  \A m \in Mode :
    deadline[m] > 0 /\ ~closing =>
      Pending(TimerOf(m)) \/ (pdlock.by = TheTimer /\ m \in pdlock.todo)

TimerInv == TimersAgree /\ FiredAgree /\ HalfExpired /\ DeadlinesPending

PollInv == RgInv /\ InputInv /\ ErrorInv

FDInv == TypeOK /\ MuInv /\ PcInv /\ CloseInv /\ PollInv /\ TimerInv
-----------------------------------------------------------------------------
(* Timers and deadlines.                                                   *)

LEMMA TwoModes == Mode = {"r", "w"} /\ PD!Mode = Mode
  BY DEF Mode, PD!Mode

LEMMA FirstOfIs ==
  ASSUME NEW ms \in SUBSET Mode
  PROVE  PD!FirstOf(ms) \in Mode /\ (ms # {} => PD!FirstOf(ms) \in ms)
  BY DEF PD!FirstOf, Mode

(* What the function of each timer covers.                                 *)
LEMMA CoversIs ==
  ASSUME NEW d \in [Mode -> Int], NEW m \in Mode
  PROVE  /\ PD!Combo(d) <=> d["r"] > 0 /\ d["r"] = d["w"]
         /\ PD!Covers(d, m) \in SUBSET Mode
         /\ d[m] <= 0 => PD!Covers(d, m) = {}
         /\ PD!Covers(d, m) # {} => PD!FirstOf(PD!Covers(d, m)) = m
         /\ PD!Combo(d) => PD!Covers(d, "r") = Mode /\ PD!Covers(d, "w") = {}
         /\ d[m] > 0 /\ ~PD!Combo(d) => PD!Covers(d, m) = {m}
  BY DEF PD!Combo, PD!Covers, PD!FirstOf, PD!Mode, Mode

(* Steps that have nothing to do with deadlines.                           *)
LEMMA TimerStays ==
  ASSUME TimerInv, UNCHANGED <<closing, deadline, seq, timer, fired, pdlock, now>>
  PROVE  TimerInv'
  BY DEF TimerInv, TimersAgree, FiredAgree, HalfExpired, DeadlinesPending, Pending, TimerOf,
         PD!Covers, PD!Combo, PD!FirstOf, PD!CurrentSeq, PD!Stale

TimerTypes ==
  /\ closing \in BOOLEAN /\ now \in Nat
  /\ deadline \in [Mode -> Int]
  /\ seq \in [Mode -> Nat]
  /\ timer \in [Mode -> TimerRecord]
  /\ pdlock \in [by : G \cup {NoG, TheTimer}, todo : SUBSET Mode]
  /\ fired \subseteq [f : SUBSET Mode, seq : Nat]

LEMMA TimerTick ==
  ASSUME TimerTypes, TimerInv, PD!Tick PROVE TimerInv'
<1>1. now' \in Nat /\ now <= now'
  BY DEF PD!Tick, TimerTypes
<1>2. UNCHANGED <<closing, deadline, seq, timer, fired, pdlock>>
  BY DEF PD!Tick, PD!info, PD!timers
<1>3. TimersAgree' /\ DeadlinesPending'
  BY <1>2 DEF TimerInv, TimersAgree, DeadlinesPending, Pending, TimerOf,
              PD!Covers, PD!Combo, PD!FirstOf
<1>4. FiredAgree'
  <2>1. \A x \in fired : PD!FirstOf(x.f) \in Mode
    BY FirstOfIs DEF TimerTypes
  <2> QED
    BY <1>1, <1>2, <2>1 DEF TimerInv, FiredAgree, TimerTypes, PD!CurrentSeq, PD!Stale, PD!FirstOf
<1>5. HalfExpired'
  BY <1>1, <1>2 DEF TimerInv, HalfExpired, TimerTypes, Mode
<1> QED
  BY <1>3, <1>4, <1>5 DEF TimerInv

LEMMA TimerFires1 ==
  ASSUME TimerTypes, TimerInv, NEW m \in Mode, PD!FireTimer(m) PROVE TimerInv'
<1> DEFINE y == [f |-> timer[m].f, seq |-> timer[m].seq]
<1>1. /\ timer[m].armed /\ timer[m].when <= now
      /\ timer' = [timer EXCEPT ![m].armed = FALSE]
      /\ fired' = fired \cup {y}
      /\ UNCHANGED <<closing, deadline, seq, pdlock, now>>
  BY DEF PD!FireTimer, PD!info
<1>2. \A n \in Mode : /\ timer'[n].f = timer[n].f /\ timer'[n].seq = timer[n].seq
                      /\ timer'[n].when = timer[n].when
                      /\ timer'[n].armed <=> (timer[n].armed /\ n # m)
  BY <1>1 DEF TimerTypes, TimerRecord
<1>3. /\ timer[m].f # {} /\ timer[m].seq = seq[m] /\ PD!FirstOf(timer[m].f) = m
      /\ deadline[m] \in 1..now
  BY <1>1 DEF TimerInv, TimersAgree, TimerTypes
<1>4. TimersAgree'
  BY <1>1, <1>2 DEF TimerInv, TimersAgree, PD!FirstOf, PD!Covers, PD!Combo
<1>5. HalfExpired'
  BY <1>1, <1>2, TwoModes DEF TimerInv, HalfExpired
<1>6. DeadlinesPending'
  <2>1. \A n \in Mode : Pending(n) => Pending(n)'
    BY <1>1, <1>2, <1>3 DEF Pending
  <2>2. \A n \in Mode : TimerOf(n)' = TimerOf(n) /\ TimerOf(n) \in Mode
    BY <1>1 DEF TimerOf, PD!Combo, Mode
  <2> QED
    BY <1>1, <2>1, <2>2 DEF TimerInv, DeadlinesPending
<1>7. FiredAgree'
  <2> SUFFICES ASSUME NEW x \in fired'
               PROVE  /\ x.f # {} /\ x.seq <= PD!CurrentSeq(x)'
                      /\ ~PD!Stale(x)' =>
                           /\ timer'[PD!FirstOf(x.f)].f = x.f /\ ~timer'[PD!FirstOf(x.f)].armed
                           /\ deadline'[PD!FirstOf(x.f)] \in 1..now'
    BY DEF FiredAgree, PD!FirstOf
  <2>1. PD!CurrentSeq(x)' = PD!CurrentSeq(x) /\ PD!Stale(x)' = PD!Stale(x)
    BY <1>1 DEF PD!CurrentSeq, PD!Stale, PD!FirstOf
  <2>2. CASE x = y
    BY <1>1, <1>2, <1>3, <2>1, <2>2 DEF PD!CurrentSeq, TimerTypes
  <2>3. CASE x \in fired
    <3>1. x.f \in SUBSET Mode /\ PD!FirstOf(x.f) \in Mode
      BY <2>3, FirstOfIs DEF TimerTypes
    <3> QED
      BY <1>1, <1>2, <2>1, <2>3, <3>1 DEF TimerInv, FiredAgree
  <2> QED
    BY <1>1, <2>2, <2>3
<1> QED
  BY <1>4, <1>5, <1>6, <1>7 DEF TimerInv

LEMMA TimerRuns1 ==
  ASSUME TimerTypes, TimerInv, NEW x \in fired, PD!RunTimer(x), FDAssumption
  PROVE  /\ TimerInv'
         /\ \A m \in Mode : deadline[m] > 0 /\ deadline'[m] = -1 => deadline[m] <= now
<1> DEFINE k == PD!FirstOf(x.f)
<1>1. /\ pdlock = PD!Unlocked
      /\ fired' = fired \ {x}
      /\ UNCHANGED <<closing, seq, timer, now>>
  BY DEF PD!RunTimer, PD!LockPd, PD!info
<1>2. /\ x \in [f : SUBSET Mode, seq : Nat] /\ x.f # {}
      /\ k \in Mode /\ k \in x.f
  BY FirstOfIs DEF TimerTypes, TimerInv, FiredAgree
<1>3. pdlock.by # TheTimer
  BY <1>1 DEF PD!Unlocked, FDAssumption
<1>4. CASE PD!Stale(x) /\ PD!LockPd(TheTimer, {}) /\ UNCHANGED deadline
  <2>1. pdlock' = pdlock
    BY <1>1, <1>4 DEF PD!LockPd
  <2>2. ASSUME NEW n \in Mode, Pending(n) PROVE Pending(n)'
    <3>1. timer[n].f # {} /\ PD!FirstOf(timer[n].f) = n
      BY <2>2 DEF Pending, TimerInv, TimersAgree
    <3>2. [f |-> timer[n].f, seq |-> seq[n]] # x
      BY <1>4, <3>1 DEF PD!Stale, PD!CurrentSeq
    <3> QED
      BY <1>1, <2>2, <3>2 DEF Pending
  <2>3. \A n \in Mode : TimerOf(n)' = TimerOf(n) /\ TimerOf(n) \in Mode
    BY <1>4 DEF TimerOf, PD!Combo, Mode
  <2>4. DeadlinesPending'
    BY <1>1, <1>4, <2>1, <2>2, <2>3 DEF TimerInv, DeadlinesPending
  <2>5. TimersAgree' /\ FiredAgree' /\ HalfExpired'
    BY <1>1, <1>4, <2>1 DEF TimerInv, TimersAgree, FiredAgree, HalfExpired, PD!FirstOf,
       PD!Covers, PD!Combo, PD!CurrentSeq, PD!Stale
  <2> QED
    BY <1>4, <2>4, <2>5 DEF TimerInv, TimerTypes
<1>5. CASE ~PD!Stale(x) /\ PD!LockPd(TheTimer, x.f) /\ PD!Expire(k)
  <2>1. /\ pdlock' = [by |-> TheTimer, todo |-> x.f]
        /\ deadline' = [deadline EXCEPT ![k] = -1]
    BY <1>2, <1>5 DEF PD!LockPd, PD!Expire
  <2>2. /\ timer[k].f = x.f /\ ~timer[k].armed
        /\ deadline[k] \in 1..now /\ ~closing
        /\ x.f = PD!Covers(deadline, k)
    BY <1>2, <1>5 DEF TimerInv, FiredAgree, TimersAgree, TimerTypes
  <2>3. \A n \in Mode : deadline'[n] = IF n = k THEN -1 ELSE deadline[n]
    BY <2>1 DEF TimerTypes
  <2>4. deadline \in [Mode -> Int]
    BY DEF TimerTypes
  <2>5. ~PD!Combo(deadline')
    BY <1>2, <2>2, <2>3 DEF PD!Combo, Mode
  <2>8. FiredAgree'
    <3> SUFFICES ASSUME NEW y \in fired, y # x
                   PROVE  /\ y.f # {} /\ y.seq <= PD!CurrentSeq(y)' 
                          /\ ~PD!Stale(y)' =>
                               /\ timer[PD!FirstOf(y.f)].f = y.f /\ ~timer[PD!FirstOf(y.f)].armed
                               /\ deadline'[PD!FirstOf(y.f)] \in 1..now
      BY <1>1 DEF FiredAgree, PD!FirstOf
    <3>1. y \in [f : SUBSET Mode, seq : Nat] /\ PD!FirstOf(y.f) \in Mode
      BY FirstOfIs DEF TimerTypes
    <3>2. PD!CurrentSeq(y)' = PD!CurrentSeq(y) /\ PD!Stale(y)' = PD!Stale(y)
      BY <1>1 DEF PD!CurrentSeq, PD!Stale, PD!FirstOf
    <3>3. y.f # {} /\ y.seq <= PD!CurrentSeq(y)
      BY DEF TimerInv, FiredAgree
    <3>4. ASSUME ~PD!Stale(y)
            PROVE  /\ timer[PD!FirstOf(y.f)].f = y.f /\ ~timer[PD!FirstOf(y.f)].armed
                   /\ PD!FirstOf(y.f) # k /\ deadline[PD!FirstOf(y.f)] \in 1..now
      BY <1>2, <1>5, <2>2, <3>1, <3>4 DEF TimerInv, FiredAgree, PD!Stale, PD!CurrentSeq
    <3> QED
      BY <2>3, <3>1, <3>2, <3>3, <3>4
  <2>7. CASE PD!Combo(deadline)
    <3>1. k = "r" /\ x.f = Mode /\ timer["w"].f = {} /\ deadline["w"] = deadline["r"]
      BY <1>2, <2>2, <2>4, <2>7, CoversIs, TwoModes DEF TimerInv, TimersAgree
    <3>2. TimersAgree'
      BY <1>1, <2>2, <2>3, <3>1, TwoModes DEF TimerInv, TimersAgree, PD!FirstOf
    <3>3. HalfExpired'
      BY <1>1, <2>1, <2>2, <2>3, <3>1, TwoModes DEF HalfExpired
    <3>4. DeadlinesPending'
      BY <2>1, <2>3, <3>1, TwoModes DEF DeadlinesPending
    <3> QED
      BY <2>2, <2>3, <2>8, <3>2, <3>3, <3>4 DEF TimerInv, TimerTypes
  <2>9. CASE ~PD!Combo(deadline)
    <3>1. x.f = {k}
      BY <1>2, <2>2, <2>4, <2>9, CoversIs
    <3>2. TimersAgree'
      <4>1. \A n \in Mode : n # k /\ deadline[n] > 0 =>
              PD!Covers(deadline', n) = PD!Covers(deadline, n)
        BY <2>3, <2>5, <2>9 DEF PD!Covers
      <4> QED
        BY <1>1, <2>2, <2>3, <4>1 DEF TimerInv, TimersAgree, PD!FirstOf
    <3>3. HalfExpired'
      BY <1>1, <1>2, <2>1, <2>2, <2>3, <3>1, TwoModes DEF HalfExpired
    <3>4. DeadlinesPending'
      <4>1. ASSUME NEW n \in Mode, n # k, Pending(n) PROVE Pending(n)'
        <5>1. timer[n].f # {} /\ PD!FirstOf(timer[n].f) = n
          BY <4>1 DEF Pending, TimerInv, TimersAgree
        <5>2. [f |-> timer[n].f, seq |-> seq[n]] # x
          BY <4>1, <5>1
        <5> QED
          BY <1>1, <4>1, <5>2 DEF Pending
      <4>2. \A n \in Mode : TimerOf(n) = n /\ TimerOf(n)' = n
        BY <2>5, <2>9 DEF TimerOf
      <4> QED
        BY <1>1, <1>3, <2>3, <4>1, <4>2 DEF TimerInv, DeadlinesPending
    <3> QED
      BY <2>2, <2>3, <2>8, <3>2, <3>3, <3>4 DEF TimerInv, TimerTypes
  <2> QED
    BY <2>7, <2>9
<1> QED
  BY <1>4, <1>5 DEF PD!RunTimer

LEMMA TimerUnblocks ==
  ASSUME TimerTypes, TimerInv, PD!UnblockNext, FDAssumption
  PROVE  /\ TimerInv'
         /\ \A m \in Mode : deadline[m] > 0 /\ deadline'[m] = -1 => deadline[m] <= now
<1> DEFINE m == PD!FirstOf(pdlock.todo)
           rest == pdlock.todo \ {m}
<1>1. /\ pdlock' = IF rest = {} THEN PD!Unlocked ELSE [pdlock EXCEPT !.todo = rest]
      /\ \/ pdlock.by = TheTimer /\ rest # {} /\ PD!Expire(PD!FirstOf(rest))
         \/ (pdlock.by # TheTimer \/ rest = {}) /\ UNCHANGED deadline
      /\ UNCHANGED <<closing, seq, timer, fired, now>>
  BY DEF PD!UnblockNext, PD!info
<1>2. pdlock.todo \in SUBSET Mode /\ m \in Mode
  BY FirstOfIs DEF TimerTypes
<1>3. CASE pdlock.by = TheTimer /\ rest # {}
  <2>1. pdlock.todo = Mode /\ m = "r" /\ rest = {"w"} /\ PD!FirstOf(rest) = "w"
    BY <1>2, <1>3, TwoModes DEF PD!FirstOf
  <2>2. /\ deadline["r"] = -1 /\ deadline["w"] \in 1..now /\ timer["w"].f = {}
        /\ ~timer["w"].armed
    BY <1>3, <2>1, TwoModes DEF TimerInv, HalfExpired, TimersAgree
  <2>3. deadline' = [deadline EXCEPT !["w"] = -1]
    BY <1>1, <1>3, <2>1 DEF PD!Expire
  <2>4. deadline' = [n \in Mode |-> -1]
    BY <2>2, <2>3, TwoModes DEF TimerTypes
  <2>5. pdlock' = [by |-> TheTimer, todo |-> {"w"}]
    BY <1>1, <1>3, <2>1 DEF TimerTypes
  <2>6. TimersAgree'
    <3>1. ~timer["r"].armed
      BY <2>2, TwoModes DEF TimerInv, TimersAgree
    <3> QED
      BY <1>1, <2>2, <2>4, <3>1, TwoModes DEF TimerInv, TimersAgree, PD!FirstOf
  <2>7. FiredAgree'
    <3>1. \A x \in fired : PD!FirstOf(x.f) \in Mode
      BY FirstOfIs DEF TimerTypes
    <3>2. \A x \in fired : PD!Stale(x)
      BY <2>2, <3>1, TwoModes DEF TimerInv, FiredAgree
    <3> QED
      BY <1>1, <3>2 DEF TimerInv, FiredAgree, PD!FirstOf, PD!Stale, PD!CurrentSeq
  <2>8. HalfExpired' /\ DeadlinesPending'
    BY <2>4, <2>5, TwoModes DEF HalfExpired, DeadlinesPending
  <2> QED
    BY <2>2, <2>4, <2>6, <2>7, <2>8, TwoModes DEF TimerInv
<1>4. CASE (pdlock.by # TheTimer \/ rest = {}) /\ UNCHANGED deadline
  <2>1. pdlock'.by = TheTimer => FALSE
    BY <1>1, <1>4 DEF PD!Unlocked, FDAssumption, TimerTypes
  <2>2. TimersAgree' /\ FiredAgree' /\ HalfExpired'
    BY <1>1, <1>4, <2>1 DEF TimerInv, TimersAgree, FiredAgree, HalfExpired, PD!FirstOf,
       PD!Covers, PD!Combo, PD!CurrentSeq, PD!Stale
  <2>3. \A n \in Mode : pdlock.by = TheTimer /\ n \in pdlock.todo => deadline[n] = -1
    <3>1. pdlock.by = TheTimer => pdlock.todo \subseteq {m}
      BY <1>4
    <3> QED
      BY <1>2, <3>1, TwoModes DEF TimerInv, HalfExpired
  <2>4. DeadlinesPending'
    BY <1>1, <1>4, <2>3 DEF TimerInv, DeadlinesPending, Pending, TimerOf, PD!Combo
  <2> QED
    BY <1>4, <2>2, <2>4 DEF TimerInv, TimerTypes
<1> QED
  BY <1>1, <1>3, <1>4

LEMMA TimerUnblockAll ==
  ASSUME TimerTypes, TimerInv, NEW g \in G, PD!PollUnblock(g), FDAssumption
  PROVE  TimerInv'
<1>1. /\ closing' = TRUE
      /\ seq' = [m \in Mode |-> seq[m] + 1]
      /\ timer' = [m \in Mode |-> PD!NoTimer]
      /\ UNCHANGED <<deadline, fired, now>>
  BY TwoModes DEF PD!PollUnblock
<1>2. pdlock' = [by |-> g, todo |-> Mode]
  BY TwoModes DEF PD!PollUnblock, PD!LockPd
<1>3. TimersAgree' /\ DeadlinesPending' /\ HalfExpired'
  BY <1>1, <1>2 DEF TimersAgree, DeadlinesPending, HalfExpired, PD!NoTimer, FDAssumption
<1>4. FiredAgree'
  <2> SUFFICES ASSUME NEW x \in fired
               PROVE  x.f # {} /\ x.seq <= PD!CurrentSeq(x)' /\ PD!Stale(x)'
    BY <1>1 DEF FiredAgree
  <2>1. x \in [f : SUBSET Mode, seq : Nat] /\ PD!FirstOf(x.f) \in Mode
    BY FirstOfIs DEF TimerTypes
  <2>2. x.f # {} /\ x.seq <= seq[PD!FirstOf(x.f)]
    BY DEF TimerInv, FiredAgree, PD!CurrentSeq
  <2>3. PD!CurrentSeq(x)' = seq[PD!FirstOf(x.f)] + 1
    BY <1>1, <2>1 DEF PD!CurrentSeq, PD!FirstOf
  <2> QED
    BY <2>1, <2>2, <2>3 DEF PD!Stale, TimerTypes
<1> QED
  BY <1>3, <1>4 DEF TimerInv

LEMMA TimerOpen ==
  ASSUME TimerTypes, TimerInv, closing, PD!PollOpen, FDAssumption
  PROVE  TimerInv'
<1>1. /\ closing' = FALSE /\ pdlock = PD!Unlocked /\ pdlock' = PD!Unlocked
      /\ seq' = [m \in Mode |-> seq[m] + 1]
      /\ deadline' = [m \in Mode |-> 0]
      /\ UNCHANGED <<timer, fired, now>>
  BY TwoModes DEF PD!PollOpen, PD!LockPd
<1>2. \A m \in Mode : timer[m].f = {} /\ ~timer[m].armed
  BY DEF TimerInv, TimersAgree
<1>3. TimersAgree' /\ DeadlinesPending' /\ HalfExpired'
  BY <1>1, <1>2 DEF TimersAgree, DeadlinesPending, HalfExpired, PD!Unlocked, FDAssumption
<1>4. FiredAgree'
  <2> SUFFICES ASSUME NEW x \in fired
               PROVE  x.f # {} /\ x.seq <= PD!CurrentSeq(x)' /\ PD!Stale(x)'
    BY <1>1 DEF FiredAgree
  <2>1. x \in [f : SUBSET Mode, seq : Nat] /\ PD!FirstOf(x.f) \in Mode
    BY FirstOfIs DEF TimerTypes
  <2>2. x.f # {} /\ x.seq <= seq[PD!FirstOf(x.f)]
    BY DEF TimerInv, FiredAgree, PD!CurrentSeq
  <2>3. PD!CurrentSeq(x)' = seq[PD!FirstOf(x.f)] + 1
    BY <1>1, <2>1 DEF PD!CurrentSeq, PD!FirstOf
  <2> QED
    BY <2>1, <2>2, <2>3 DEF PD!Stale, TimerTypes
<1> QED
  BY <1>3, <1>4 DEF TimerInv

LEMMA TimerSets ==
  ASSUME TimerTypes, TimerInv, NEW g \in G, NEW ms \in SUBSET Mode, NEW t \in Int,
         PD!PollSetDeadline(g, ms, t), FDAssumption
  PROVE  TimerInv'
<1>1. pdlock = PD!Unlocked /\ closing' = closing /\ now' = now
  BY DEF PD!PollSetDeadline, PD!LockPd, PD!info
<1>2. CASE closing /\ PD!LockPd(g, {}) /\ UNCHANGED PD!timers
  BY <1>1, <1>2, TimerStays DEF PD!LockPd, PD!timers
<1>3. CASE ~closing
  <2> DEFINE d == [m \in Mode |-> IF m \notin ms THEN deadline[m]
                                  ELSE IF t > 0 THEN now + t ELSE t]
  <2>1. /\ deadline' = d /\ fired' = fired
        /\ seq' = [m \in Mode |-> PD!NextSeq(d, m)]
        /\ timer' = [m \in Mode |-> PD!NextTimer(d, m)]
        /\ PD!LockPd(g, {m \in Mode : d[m] < 0})
    BY <1>3, TwoModes DEF PD!PollSetDeadline
  <2>2. d \in [Mode -> Int]
    BY DEF TimerTypes
  <2> HIDE DEF d
  <2>3. d \in [Mode -> Int] /\ deadline \in [Mode -> Int]
    BY <2>2 DEF TimerTypes
  <2>4. pdlock'.by # TheTimer /\ pdlock.by # TheTimer
    BY <1>1, <2>1 DEF PD!LockPd, PD!Unlocked, FDAssumption
  (* A timer that stays covers what it is to cover. *)
  <2>5. ASSUME NEW m \in Mode, timer[m].f # {}, ~PD!Rearmed(d, m)
        PROVE  /\ timer'[m] = timer[m] /\ seq'[m] = seq[m] /\ d[m] = deadline[m]
               /\ PD!Combo(d) <=> PD!Combo(deadline)
               /\ PD!Covers(d, m) = PD!Covers(deadline, m)
    <3>1. d[m] = deadline[m] /\ (PD!Combo(d) <=> PD!Combo(deadline))
      BY <2>5 DEF PD!Rearmed
    <3>2. PD!Covers(d, m) = PD!Covers(deadline, m)
      BY <3>1 DEF PD!Covers
    <3> QED
      BY <2>1, <2>5, <3>1, <3>2 DEF PD!NextTimer, PD!NextSeq
  (* A timer that is set covers what it is to cover. *)
  <2>6. ASSUME NEW m \in Mode, timer[m].f = {} \/ PD!Rearmed(d, m)
        PROVE  \/ PD!Covers(d, m) = {} /\ timer'[m].f = {} /\ ~timer'[m].armed
               \/ /\ PD!Covers(d, m) # {}
                  /\ timer'[m].f = PD!Covers(d, m) /\ timer'[m].armed
                  /\ timer'[m].seq = seq'[m] /\ timer'[m].when = d[m]
    <3>1. CASE PD!Covers(d, m) = {}
      <4>1. timer'[m] = PD!NoTimer
        BY <2>1, <2>6, <3>1 DEF PD!NextTimer
      <4> QED
        BY <3>1, <4>1 DEF PD!NoTimer
    <3>2. CASE PD!Covers(d, m) # {}
      <4>1. timer'[m] = [f |-> PD!Covers(d, m), armed |-> TRUE,
                         seq |-> seq'[m], when |-> d[m]]
        BY <2>1, <2>6, <3>2 DEF PD!NextTimer
      <4> QED
        BY <3>2, <4>1
    <3> QED
      BY <3>1, <3>2
  <2>7. \A m \in Mode : /\ seq'[m] = seq[m] \/ seq'[m] = seq[m] + 1
                        /\ PD!Rearmed(d, m) => seq'[m] = seq[m] + 1
    BY <2>1 DEF PD!NextSeq
  <2>8. TimersAgree'
    <3> SUFFICES ASSUME NEW m \in Mode
                 PROVE  /\ timer'[m].f # {} =>
                             /\ timer'[m].seq = seq'[m] /\ PD!FirstOf(timer'[m].f) = m
                             /\ d[m] > 0 => timer'[m].f = PD!Covers(d, m)
                        /\ timer'[m].armed =>
                             /\ timer'[m].f # {}
                             /\ d[m] > 0 /\ timer'[m].when = d[m]
      BY <1>1, <1>3, <2>1 DEF TimersAgree, PD!FirstOf, PD!Covers, PD!Combo
    <3>1. CASE timer[m].f # {} /\ ~PD!Rearmed(d, m)
      BY <2>5, <3>1 DEF TimerInv, TimersAgree
    <3>2. CASE timer[m].f = {} \/ PD!Rearmed(d, m)
      <4>1. PD!Covers(d, m) # {} => d[m] > 0 /\ PD!FirstOf(PD!Covers(d, m)) = m
        BY <2>3, CoversIs
      <4> QED
        BY <2>6, <3>2, <4>1
    <3> QED
      BY <3>1, <3>2
  <2>9. FiredAgree'
    <3> SUFFICES ASSUME NEW x \in fired
                 PROVE  /\ x.f # {} /\ x.seq <= seq'[PD!FirstOf(x.f)]
                        /\ x.seq = seq'[PD!FirstOf(x.f)] =>
                             /\ timer'[PD!FirstOf(x.f)].f = x.f
                             /\ ~timer'[PD!FirstOf(x.f)].armed
                             /\ d[PD!FirstOf(x.f)] \in 1..now
      BY <1>1, <2>1 DEF FiredAgree, PD!FirstOf, PD!Stale, PD!CurrentSeq
    <3> DEFINE k == PD!FirstOf(x.f)
    <3>1. x \in [f : SUBSET Mode, seq : Nat] /\ k \in Mode
      BY FirstOfIs DEF TimerTypes
    <3>2. /\ x.f # {} /\ x.seq <= seq[k] /\ seq[k] \in Nat
          /\ x.seq = seq[k] => /\ timer[k].f = x.f /\ ~timer[k].armed
                               /\ deadline[k] \in 1..now
      BY <3>1 DEF TimerInv, FiredAgree, PD!Stale, PD!CurrentSeq, TimerTypes
    <3>3. CASE x.seq = seq[k] /\ ~PD!Rearmed(d, k)
      BY <2>5, <3>1, <3>2, <3>3
    <3>4. CASE x.seq < seq[k] \/ PD!Rearmed(d, k)
      BY <2>7, <3>1, <3>2, <3>4
    <3> QED
      BY <3>1, <3>2, <3>3, <3>4
  <2>10. DeadlinesPending'
    <3> SUFFICES ASSUME NEW m \in Mode, d[m] > 0
                 PROVE  Pending(TimerOf(m))'
      BY <2>1 DEF DeadlinesPending
    <3> DEFINE n == IF PD!Combo(d) THEN "r" ELSE m
    <3>1. /\ n \in Mode /\ TimerOf(m)' = n
          /\ d[n] > 0 /\ PD!Covers(d, n) # {}
      BY <2>1, <2>3, TwoModes, CoversIs DEF TimerOf
    <3> HIDE DEF n
    <3>2. CASE timer[n].f # {} /\ ~PD!Rearmed(d, n)
      <4>1. /\ timer'[n] = timer[n] /\ seq'[n] = seq[n] /\ d[n] = deadline[n]
            /\ PD!Combo(d) <=> PD!Combo(deadline)
        BY <2>5, <3>1, <3>2
      <4>2. TimerOf(n) = n
        BY <4>1 DEF TimerOf, n
      <4>3. Pending(n)
        BY <1>3, <2>4, <3>1, <4>1, <4>2 DEF TimerInv, DeadlinesPending
      <4> QED
        BY <2>1, <3>1, <4>1, <4>3 DEF Pending
    <3>3. CASE timer[n].f = {} \/ PD!Rearmed(d, n)
      <4>1. timer'[n].f # {} /\ timer'[n].armed
        BY <2>6, <3>1, <3>3
      <4> QED
        BY <3>1, <4>1 DEF Pending
    <3> QED
      BY <3>2, <3>3
  <2> QED
    BY <2>4, <2>8, <2>9, <2>10 DEF TimerInv, HalfExpired
<1> QED
  BY <1>2, <1>3 DEF PD!PollSetDeadline

-----------------------------------------------------------------------------
(* What a step that leaves the pollDesc alone has to show.                 *)

LEMMA TypesOfTimers ==
  ASSUME TypeOK PROVE TimerTypes
  BY DEF TypeOK, TimerTypes

Announced == {"check", "block", "recheck", "commit", "parked", "swap"}

LEMMA PdStays ==
  ASSUME UNCHANGED pdvars
  PROVE  UNCHANGED <<fdseq, closing, eventErr, rg, deadline, seq, timer, pdlock, fired, woken,
                     events, delivering, registered, readable, now>>
  BY DEF pdvars

LEMMA TypesStay ==
  ASSUME TypeOK, MuInv', UNCHANGED pdvars, pc' \in [G -> FDPC], closer' \in G \cup {NoG},
         csema' \in Nat, destroyed' \in BOOLEAN, left' \in Scenario
  PROVE  TypeOK'
  BY PdStays DEF TypeOK, MuInv

LEMMA PollStays ==
  ASSUME TypeOK, PollInv, TimerInv, UNCHANGED pdvars,
         \A h \in G : pc[h] \in Announced \/ pc'[h] \in Announced =>
                        pc'[h] = pc[h] /\ mode'[h] = mode[h]
  PROVE  PollInv' /\ TimerInv'
<1> USE PdStays
<1>1. TimerInv'
  BY TimerStays
<1>2. RgInv'
  <2>1. \A h \in G : pc[h] \in {"recheck", "commit", "swap", "parked"} =>
                       pc'[h] = pc[h] /\ mode'[h] = mode[h]
    BY DEF Announced
  <2>2. \A h \in G : pc'[h] = "parked" => pc[h] = "parked" /\ mode'[h] = mode[h]
    BY DEF Announced
  <2>3. \A m \in Mode : rg[m] = "wait" =>
          \E g \in In({"recheck", "commit", "swap"}) : mode[g] = m
    BY DEF PollInv, RgInv
  <2>4. \A m \in Mode : rg'[m] = "wait" =>
          \E g \in In({"recheck", "commit", "swap"})' : mode'[g] = m
    BY <2>1, <2>3 DEF In
  <2>5. \A m \in Mode : rg'[m] \in G =>
          rg'[m] \in In({"parked"})' \ woken' /\ mode'[rg'[m]] = m
    BY <2>1 DEF PollInv, RgInv, In
  <2>6. \A g \in In({"parked"})' : g \notin woken' => rg'[mode'[g]] = g
    BY <2>2 DEF PollInv, RgInv, In
  <2>7. woken' \subseteq In({"parked"})'
    BY <2>1 DEF PollInv, RgInv, In
  <2> QED
    BY <2>4, <2>5, <2>6, <2>7 DEF RgInv, In
<1>3. InputInv'
  BY DEF PollInv, InputInv, UnderWay, In, Announced
<1>4. ErrorInv'
  BY DEF PollInv, ErrorInv, In, Announced
<1> QED
  BY <1>1, <1>2, <1>3, <1>4 DEF PollInv

LEMMA PcMoves ==
  ASSUME TypeOK, PcInv, NEW g \in G, NEW p, NEW u, NEW m, Goto(g, p), Become(g, u, m), PcUse(p, u)
  PROVE  PcInv'
<1>1. \A h \in G : /\ pc'[h] = IF h = g THEN p ELSE pc[h]
                   /\ use'[h] = IF h = g THEN u ELSE use[h]
  BY DEF TypeOK, MuTypeOK, Goto, Become
<1>2. \A h \in G : PcUse(pc'[h], use'[h])
  BY <1>1 DEF PcInv
<1> QED
  BY <1>2 DEF PcInv, PcUse

LEMMA CloseStays ==
  ASSUME CloseInv, UNCHANGED <<closed, closing, refs, destroyed, toWake>>,
         \A h \in G : /\ pc'[h] = "evict" <=> pc[h] = "evict"
                      /\ pc'[h] \in Destroying <=> pc[h] \in Destroying
                      /\ use'[h] = "closing" <=> use[h] = "closing"
  PROVE  CloseInv'
<1>1. In({"evict"})' = In({"evict"}) /\ In(Destroying)' = In(Destroying)
  BY DEF In
<1> QED
  BY <1>1 DEF CloseInv, In, Zeros

(* Nobody destroys a descriptor that somebody is inside.                   *)
LEMMA InsideAlone ==
  ASSUME TypeOK, MuInv, CloseInv, NEW g \in G, use[g] \in {"hold", "ref", "closing"}
  PROVE  In(Destroying) = {} /\ ~destroyed /\ refs # 0
  BY UserCounted DEF CloseInv, TypeOK, MuTypeOK

-----------------------------------------------------------------------------
(* The operations of the mutex in FD's calls.                              *)

LEMMA LockInv ==
  ASSUME FDInv, NEW g \in G, NEW m \in Mode, Lock(g, m), pc[g] \in {"out", "lock"},
         left' \in Scenario
  PROVE  FDInv'
<1> USE DEF FDInv
<1>1. UNCHANGED <<pdvars, closer, csema, destroyed>>
  BY DEF Lock
<1>2. CASE RWLock(g, m) /\ Goto(g, "prepare")
  <2>1. MuInv'
    BY <1>2, RWLockInv
  <2>2. pc' = [pc EXCEPT ![g] = "prepare"] /\ use' = [use EXCEPT ![g] = "hold"]
        /\ mode' = [mode EXCEPT ![g] = m] /\ ~closed /\ Become(g, "hold", m)
    BY <1>2 DEF Goto, RWLock, Become
  <2>3. TypeOK'
    BY <1>1, <2>1, <2>2, TypesStay DEF TypeOK, FDPC, InIO
  <2>4. PcInv'
    BY <1>2, <2>2, PcMoves DEF PcUse, InIO, Destroying
  <2>5. \A h \in G : h # g => pc'[h] = pc[h] /\ use'[h] = use[h] /\ mode'[h] = mode[h]
    BY <2>2 DEF TypeOK, MuTypeOK
  <2>6. pc'[g] = "prepare" /\ use'[g] = "hold" /\ use[g] # "closing"
    BY <2>2, <1>2 DEF TypeOK, MuTypeOK, RWLock, Locking
  <2>7. CloseInv'
    <3>1. In({"evict"})' = In({"evict"}) /\ In(Destroying)' = In(Destroying)
      BY <2>5, <2>6 DEF In, Destroying
    <3>2. UNCHANGED <<closed, closing, destroyed, toWake>>
      BY <1>1, <1>2, PdStays DEF RWLock
    <3>3. \A h \in G : use'[h] = "closing" <=> use[h] = "closing"
      BY <2>5, <2>6
    <3> QED
      BY <2>2, <3>1, <3>2, <3>3 DEF CloseInv, Zeros
  <2>8. PollInv' /\ TimerInv'
    BY <1>1, <2>5, <2>6, PollStays DEF Announced
  <2> QED
    BY <2>1, <2>3, <2>4, <2>7, <2>8
<1>3. CASE RWLockWait(g, m) /\ Goto(g, "lock")
  <2>1. MuInv'
    BY <1>3, RWLockWaitInv
  <2>2. pc' = [pc EXCEPT ![g] = "lock"] /\ use' = [use EXCEPT ![g] = "sem"]
        /\ mode' = [mode EXCEPT ![g] = m] /\ Become(g, "sem", m)
    BY <1>3 DEF Goto, RWLockWait, Become
  <2>3. TypeOK'
    BY <1>1, <2>1, <2>2, TypesStay DEF TypeOK, FDPC
  <2>4. PcInv'
    BY <1>3, <2>2, PcMoves DEF PcUse, InIO, Destroying
  <2>5. \A h \in G : h # g => pc'[h] = pc[h] /\ use'[h] = use[h] /\ mode'[h] = mode[h]
    BY <2>2 DEF TypeOK, MuTypeOK
  <2>6. pc'[g] = "lock" /\ use'[g] = "sem" /\ use[g] # "closing"
    BY <2>2, <1>3 DEF TypeOK, MuTypeOK, RWLockWait, Locking
  <2>7. CloseInv'
    <3>1. UNCHANGED <<closed, closing, refs, destroyed, toWake>>
      BY <1>1, <1>3, PdStays DEF RWLockWait
    <3> QED
      BY <2>5, <2>6, <3>1, CloseStays DEF Destroying
  <2>8. PollInv' /\ TimerInv'
    BY <1>1, <2>5, <2>6, PollStays DEF Announced
  <2> QED
    BY <2>1, <2>3, <2>4, <2>7, <2>8
<1> QED
  BY <1>2, <1>3 DEF Lock

(* Steps of the mutex alone.                                               *)
LEMMA LockWokenInv ==
  ASSUME FDInv, NEW g \in G, LockWoken(g) PROVE FDInv'
<1> USE DEF FDInv
<1>1. UNCHANGED <<pdvars, pc, fdvars>> /\ RWLockWoken(g)
  BY DEF LockWoken
<1>2. MuInv'
  BY <1>1, RWLockWokenInv
<1>3. use[g] = "sem" /\ use' = [use EXCEPT ![g] = "retry"] /\ mode' = [mode EXCEPT ![g] = mode[g]]
  BY <1>1 DEF RWLockWoken, Become
<1>4. \A h \in G : /\ use'[h] = IF h = g THEN "retry" ELSE use[h]
                   /\ mode'[h] = mode[h] /\ pc'[h] = pc[h]
  BY <1>1, <1>3 DEF TypeOK, MuTypeOK
<1>5. TypeOK'
  BY <1>1, <1>2, TypesStay DEF TypeOK, fdvars
<1>6. PcInv'
  <2>1. \A h \in G : PcUse(pc'[h], use'[h])
    BY <1>3, <1>4 DEF PcInv, PcUse
  <2> QED
    BY <2>1 DEF PcInv, PcUse
<1>7. CloseInv'
  BY <1>1, <1>3, <1>4, CloseStays, PdStays DEF fdvars, RWLockWoken, state
<1>8. PollInv' /\ TimerInv'
  BY <1>1, <1>4, PollStays
<1> QED
  BY <1>2, <1>5, <1>6, <1>7, <1>8

LEMMA WakeInv ==
  ASSUME FDInv, NEW g \in G, Wake(g) PROVE FDInv'
<1> USE DEF FDInv
<1>1. UNCHANGED <<pdvars, pc, fdvars>> /\ UnlockWake(g)
  BY DEF Wake
<1>2. MuInv'
  BY <1>1, UnlockWakeInv
<1>3. use[g] = "wake" /\ use' = [use EXCEPT ![g] = "none"] /\ mode' = [mode EXCEPT ![g] = NoMode]
  BY <1>1 DEF UnlockWake, Become
<1>4. \A h \in G : /\ use'[h] = IF h = g THEN "none" ELSE use[h]
                   /\ (h # g => mode'[h] = mode[h]) /\ pc'[h] = pc[h]
  BY <1>1, <1>3 DEF TypeOK, MuTypeOK
<1>5. TypeOK'
  BY <1>1, <1>2, TypesStay DEF TypeOK, fdvars
<1>6. PcInv' /\ pc[g] \notin InIO
  <2>1. \A h \in G : PcUse(pc'[h], use'[h])
    BY <1>3, <1>4 DEF PcInv, PcUse
  <2> QED
    BY <1>3, <2>1 DEF PcInv, PcUse
<1>7. CloseInv'
  BY <1>1, <1>3, <1>4, CloseStays, PdStays DEF fdvars, UnlockWake, state
<1>8. PollInv' /\ TimerInv'
  BY <1>1, <1>4, <1>6, PollStays DEF InIO, Announced
<1> QED
  BY <1>2, <1>5, <1>6, <1>7, <1>8

LEMMA LockFailsInv ==
  ASSUME FDInv, NEW g \in G, LockFails(g) PROVE FDInv'
<1> USE DEF FDInv
<1>1. UNCHANGED <<pdvars, fdvars>> /\ RWLockFails(g) /\ Goto(g, "out")
  BY DEF LockFails
<1>2. MuInv'
  BY <1>1, RWLockFailsInv
<1>3. /\ use[g] = "retry" /\ pc' = [pc EXCEPT ![g] = "out"]
      /\ use' = [use EXCEPT ![g] = "none"] /\ mode' = [mode EXCEPT ![g] = NoMode]
      /\ Become(g, "none", NoMode)
  BY <1>1 DEF RWLockFails, Become, Goto
<1>4. /\ \A h \in G : h # g => use'[h] = use[h] /\ mode'[h] = mode[h] /\ pc'[h] = pc[h]
      /\ pc'[g] = "out" /\ use'[g] = "none"
  BY <1>3 DEF TypeOK, MuTypeOK
<1>5. TypeOK'
  BY <1>1, <1>2, <1>3, TypesStay DEF TypeOK, fdvars, FDPC
<1>6. PcInv'
  BY <1>1, <1>3, PcMoves DEF PcUse, InIO, Destroying
<1>7. pc[g] = "lock"
  BY <1>3 DEF PcInv, PcUse, TypeOK, FDPC, InIO, Destroying
<1>8. CloseInv'
  BY <1>1, <1>3, <1>4, <1>7, CloseStays, PdStays DEF fdvars, RWLockFails, state, Destroying
<1>9. PollInv' /\ TimerInv'
  BY <1>1, <1>4, <1>7, PollStays DEF Announced
<1> QED
  BY <1>2, <1>5, <1>6, <1>8, <1>9

LEMMA SetDeadlineInv ==
  ASSUME FDInv, NEW g \in G, SetDeadline(g), left' \in Scenario PROVE FDInv'
<1> USE DEF FDInv
<1>1. /\ UNCHANGED <<pdvars, closer, csema, destroyed>>
      /\ Incref(g) /\ Goto(g, "set") /\ pc[g] = "out"
  BY DEF SetDeadline, At
<1>2. MuInv'
  BY <1>1, IncrefInv
<1>3. /\ use[g] = "none" /\ ~closed /\ pc' = [pc EXCEPT ![g] = "set"]
      /\ use' = [use EXCEPT ![g] = "ref"] /\ mode' = [mode EXCEPT ![g] = NoMode]
      /\ Become(g, "ref", NoMode) /\ UNCHANGED <<closed, toWake>>
  BY <1>1 DEF Incref, Become, Goto
<1>4. /\ \A h \in G : h # g => use'[h] = use[h] /\ mode'[h] = mode[h] /\ pc'[h] = pc[h]
      /\ pc'[g] = "set" /\ use'[g] = "ref"
  BY <1>3 DEF TypeOK, MuTypeOK
<1>5. TypeOK'
  BY <1>1, <1>2, <1>3, TypesStay DEF TypeOK, FDPC
<1>6. PcInv'
  BY <1>1, <1>3, PcMoves DEF PcUse, InIO, Destroying
<1>7. CloseInv'
  <2>1. In({"evict"})' = In({"evict"}) /\ In(Destroying)' = In(Destroying)
    BY <1>1, <1>4 DEF In, Destroying
  <2>2. \A h \in G : use'[h] = "closing" <=> use[h] = "closing"
    BY <1>3, <1>4
  <2> QED
    BY <1>1, <1>3, <2>1, <2>2, PdStays DEF CloseInv, Zeros
<1>8. PollInv' /\ TimerInv'
  BY <1>1, <1>4, PollStays DEF Announced
<1> QED
  BY <1>2, <1>5, <1>6, <1>7, <1>8

LEMMA CloseStarts ==
  ASSUME FDInv, NEW g \in G, Close(g), left' \in Scenario PROVE FDInv'
<1> USE DEF FDInv
<1>1. /\ UNCHANGED <<pdvars, csema, destroyed>> /\ closer' = g
      /\ IncrefAndClose(g) /\ Goto(g, "evict") /\ pc[g] = "out"
  BY DEF Close, At
<1>2. MuInv'
  BY <1>1, IncrefAndCloseInv
<1>3. /\ use[g] = "none" /\ ~closed /\ closed' /\ pc' = [pc EXCEPT ![g] = "evict"]
      /\ use' = [use EXCEPT ![g] = "closing"] /\ mode' = [mode EXCEPT ![g] = NoMode]
      /\ Become(g, "closing", NoMode)
  BY <1>1 DEF IncrefAndClose, Become, Goto
<1>4. /\ \A h \in G : h # g => use'[h] = use[h] /\ mode'[h] = mode[h] /\ pc'[h] = pc[h]
      /\ pc'[g] = "evict" /\ use'[g] = "closing"
  BY <1>3 DEF TypeOK, MuTypeOK
<1>5. TypeOK'
  BY <1>1, <1>2, <1>3, TypesStay DEF TypeOK, FDPC
<1>6. PcInv'
  BY <1>1, <1>3, PcMoves DEF PcUse, InIO, Destroying
<1>7. CloseInv'
  <2>1. In({"evict"}) = {} /\ In(Destroying) = {} /\ ~destroyed /\ ~closing
    BY <1>3 DEF CloseInv
  <2>2. In({"evict"})' = {g}
    BY <1>4, <2>1 DEF In
  <2>3. In(Destroying)' = {}
    BY <1>4, <2>1 DEF In, Destroying
  <2>4. ~destroyed' /\ ~closing'
    BY <1>1, <2>1, PdStays
  <2> QED
    BY <1>3, <1>4, <2>2, <2>3, <2>4 DEF CloseInv
<1>8. PollInv' /\ TimerInv'
  BY <1>1, <1>4, PollStays DEF Announced
<1> QED
  BY <1>2, <1>5, <1>6, <1>7, <1>8

LEMMA CloseWakesInv ==
  ASSUME FDInv, NEW g \in G, CloseWakes(g) PROVE FDInv'
<1> USE DEF FDInv
<1>1. PICK m \in Mode : CloseWake(g, m)
  BY DEF CloseWakes
<1>2. UNCHANGED <<pdvars, pc, fdvars>> /\ UNCHANGED <<closed, refs, use, mode>> /\ use[g] = "closing"
  BY <1>1 DEF CloseWakes, CloseWake, state
<1>3. MuInv'
  BY <1>1, CloseWakeInv
<1>4. TypeOK'
  BY <1>2, <1>3, TypesStay DEF TypeOK, fdvars
<1>5. PcInv'
  BY <1>2 DEF PcInv, PcUse
<1>6. CloseInv'
  BY <1>2, PdStays DEF CloseInv, fdvars, In
<1>7. PollInv' /\ TimerInv'
  BY <1>2, PollStays
<1> QED
  BY <1>3, <1>4, <1>5, <1>6, <1>7

(* A goroutine that leaves: the one that was inside last destroys.         *)
LEMMA LeaveInv ==
  ASSUME FDInv, NEW g \in G, NEW u \in {"none", "wake"}, NEW m,
         use[g] \in {"hold", "ref", "closing"}, use[g] = "closing" => toWake = Zeros,
         pc[g] \in {"unlock", "decref"},
         MuInv', Leave(g), Become(g, u, m), refs' = refs - 1,
         UNCHANGED <<pdvars, fdvars, closed, toWake>>
  PROVE  FDInv'
<1> USE DEF FDInv
<1>1. /\ In(Destroying) = {} /\ ~destroyed
      /\ In(Destroying)' # {} => closed' /\ refs' = 0
      /\ In(Destroying)' \subseteq {g}
      /\ pc'[g] \in {"destroy", "csema", "out"}
      /\ pc' = [pc EXCEPT ![g] = pc'[g]]
  <2>1. In(Destroying) = {} /\ ~destroyed
    BY InsideAlone
  <2>2. pc' = [pc EXCEPT ![g] = IF Last THEN "destroy" ELSE IF g = closer THEN "csema" ELSE "out"]
    BY DEF Leave, Goto
  <2>3. /\ pc'[g] = IF Last THEN "destroy" ELSE IF g = closer THEN "csema" ELSE "out"
        /\ \A h \in G : h # g => pc'[h] = pc[h]
    BY <2>2 DEF TypeOK
  <2>4. pc'[g] \in {"destroy", "csema", "out"} /\ (pc'[g] = "destroy" => Last)
    BY <2>3
  <2>5. In(Destroying)' \subseteq {g}
    BY <2>1, <2>3 DEF In
  <2>6. In(Destroying)' # {} => Last
    BY <2>4, <2>5 DEF In, Destroying
  <2> QED
    BY <2>1, <2>2, <2>3, <2>4, <2>5, <2>6 DEF Last
<1>2. /\ \A h \in G : h # g => use'[h] = use[h] /\ mode'[h] = mode[h] /\ pc'[h] = pc[h]
      /\ use'[g] = u
  BY <1>1 DEF Become, TypeOK, MuTypeOK
<1>3. TypeOK'
  BY <1>1, TypesStay DEF TypeOK, fdvars, FDPC, Destroying
<1>4. PcInv'
  BY <1>1, PcMoves DEF PcUse, InIO, Destroying, Goto
<1>5. CloseInv'
  <2>1. In({"evict"})' = In({"evict"})
    BY <1>1, <1>2 DEF In
  <2>2. (\A h \in G : use'[h] # "closing") => toWake' = Zeros
    BY <1>2 DEF CloseInv, Zeros
  <2> QED
    BY <1>1, <2>1, <2>2, PdStays DEF CloseInv, fdvars, Zeros
<1>6. PollInv' /\ TimerInv'
  BY <1>1, <1>2, PollStays DEF Announced
<1> QED
  BY <1>3, <1>4, <1>5, <1>6

LEMMA UnlockInv ==
  ASSUME FDInv, NEW g \in G, Unlock(g) PROVE FDInv'
<1>1. /\ pc[g] = "unlock" /\ RWUnlock(g, mode[g]) /\ Leave(g)
      /\ UNCHANGED <<pdvars, fdvars>>
  BY DEF Unlock, At
<1>2. use[g] = "hold" /\ refs' = refs - 1 /\ UNCHANGED <<closed, toWake>>
  BY <1>1 DEF RWUnlock
<1>3. mode[g] \in Mode /\ MuInv'
  BY <1>1, <1>2, HolderLocked, RWUnlockInv DEF FDInv
<1>4. Become(g, "wake", mode[g]) \/ Become(g, "none", NoMode)
  BY <1>1 DEF RWUnlock
<1> QED
  BY <1>1, <1>2, <1>3, <1>4, LeaveInv

LEMMA DecrefFDInv ==
  ASSUME FDInv, NEW g \in G, DecrefFD(g) PROVE FDInv'
<1>1. /\ pc[g] = "decref" /\ Decref(g) /\ Leave(g) /\ UNCHANGED <<pdvars, fdvars>>
  BY DEF DecrefFD, At
<1>2. /\ use[g] \in {"ref", "closing"} /\ (use[g] = "closing" => toWake = Zeros)
      /\ refs' = refs - 1 /\ Become(g, "none", NoMode) /\ UNCHANGED <<closed, toWake>>
  BY <1>1 DEF Decref
<1>3. MuInv'
  BY <1>1, DecrefInv DEF FDInv
<1> QED
  BY <1>1, <1>2, <1>3, LeaveInv

LEMMA SysCloseInv ==
  ASSUME FDInv, NEW g \in G, SysClose(g) PROVE FDInv'
<1> USE DEF FDInv
<1>1. /\ pc[g] = "sysclose" /\ destroyed' = TRUE /\ csema' = csema + 1
      /\ UNCHANGED <<muvars, pdvars, closer, left>>
      /\ Goto(g, IF g = closer THEN "csema" ELSE "out")
  BY DEF SysClose, At
<1>2. PICK p \in {"csema", "out"} : Goto(g, p)
  BY <1>1
<1>3. /\ pc' = [pc EXCEPT ![g] = p] /\ pc'[g] = p
      /\ \A h \in G : h # g => pc'[h] = pc[h]
  BY <1>2 DEF Goto, TypeOK
<1>4. UNCHANGED <<closed, refs, toWake, use, mode>> /\ MuInv'
  BY <1>1, StutterInv DEF muvars, state
<1>5. TypeOK'
  BY <1>1, <1>3, <1>4, TypesStay DEF TypeOK, FDPC
<1>6. PcInv'
  <2>1. \A h \in G : PcUse(pc'[h], use'[h])
    BY <1>1, <1>3, <1>4 DEF PcInv, PcUse, InIO, Destroying
  <2> QED
    BY <2>1 DEF PcInv, PcUse
<1>7. CloseInv'
  <2>1. g \in In(Destroying)
    BY <1>1 DEF In, Destroying
  <2>2. In(Destroying)' = {}
    BY <1>3, <2>1 DEF CloseInv, In, Destroying
  <2>3. In({"evict"})' = In({"evict"})
    BY <1>1, <1>3 DEF In
  <2> QED
    BY <1>1, <1>4, <2>1, <2>2, <2>3, PdStays DEF CloseInv, Zeros
<1>8. PollInv' /\ TimerInv'
  BY <1>1, <1>3, <1>4, PollStays DEF Announced
<1> QED
  BY <1>4, <1>5, <1>6, <1>7, <1>8

(* Steps of a call that leave the mutex alone.                             *)
LEMMA GoesOn ==
  ASSUME FDInv, NEW g \in G, NEW p \in FDPC, Goto(g, p),
         UNCHANGED <<muvars, closing, destroyed>>,
         PcUse(p, use[g]), p # "evict", pc[g] # "evict",
         p \in Destroying <=> pc[g] \in Destroying
  PROVE  /\ MuInv' /\ PcInv' /\ CloseInv'
         /\ pc' \in [G -> FDPC] /\ pc'[g] = p
         /\ \A h \in G : (h # g => pc'[h] = pc[h]) /\ mode'[h] = mode[h]
<1> USE DEF FDInv
<1>1. /\ pc' = [pc EXCEPT ![g] = p] /\ pc'[g] = p
      /\ \A h \in G : h # g => pc'[h] = pc[h]
  BY DEF Goto, TypeOK
<1>2. MuInv' /\ UNCHANGED <<use, mode, closed, refs, toWake>>
  BY StutterInv DEF muvars, state
<1>3. PcInv'
  <2>1. \A h \in G : PcUse(pc'[h], use'[h])
    BY <1>1, <1>2 DEF PcInv
  <2> QED
    BY <2>1 DEF PcInv, PcUse
<1>4. CloseInv'
  BY <1>1, <1>2, CloseStays
<1> QED
  BY <1>1, <1>2, <1>3, <1>4 DEF TypeOK

LEMMA ClosedInv ==
  ASSUME FDInv, NEW g \in G, Closed(g) PROVE FDInv'
<1> USE DEF FDInv
<1>1. /\ pc[g] = "csema" /\ csema > 0 /\ csema' = csema - 1 /\ closer' = NoG
      /\ UNCHANGED <<muvars, pdvars, destroyed, left>> /\ Goto(g, "out")
  BY DEF Closed, At
<1>2. /\ MuInv' /\ PcInv' /\ CloseInv'
      /\ pc' \in [G -> FDPC] /\ pc'[g] = "out"
      /\ \A h \in G : (h # g => pc'[h] = pc[h]) /\ mode'[h] = mode[h]
  <2>1. PcUse("out", use[g])
    BY <1>1 DEF PcInv, PcUse, InIO, Destroying
  <2> QED
    BY <1>1, <2>1, GoesOn, PdStays DEF FDPC, Destroying
<1>3. TypeOK'
  BY <1>1, <1>2, TypesStay DEF TypeOK
<1>4. PollInv' /\ TimerInv'
  BY <1>1, <1>2, PollStays DEF Announced
<1> QED
  BY <1>2, <1>3, <1>4

LEMMA PrepareInv ==
  ASSUME FDInv, NEW g \in G, Prepare(g) PROVE FDInv'
<1> USE DEF FDInv
<1>1. pc[g] = "prepare" /\ UNCHANGED <<muvars, pdvars, fdvars>>
  BY DEF Prepare, At
<1>2. PICK p \in {"reset", "unlock"} : Goto(g, p)
  BY DEF Prepare
<1>3. /\ MuInv' /\ PcInv' /\ CloseInv'
      /\ pc' \in [G -> FDPC] /\ pc'[g] = p
      /\ \A h \in G : (h # g => pc'[h] = pc[h]) /\ mode'[h] = mode[h]
  <2>1. PcUse(p, use[g])
    BY <1>1 DEF PcInv, PcUse, InIO, Destroying
  <2> QED
    BY <1>1, <1>2, <2>1, GoesOn, PdStays DEF FDPC, InIO, Destroying, fdvars
<1>4. TypeOK'
  BY <1>1, <1>3, TypesStay DEF TypeOK, fdvars
<1>5. PollInv' /\ TimerInv'
  BY <1>1, <1>3, PollStays DEF Announced
<1> QED
  BY <1>3, <1>4, <1>5

-----------------------------------------------------------------------------
(* Reads and writes.  Whoever is in one is alone in its mode.              *)

LEMMA Alone ==
  ASSUME FDInv, NEW g \in G, pc[g] \in InIO
  PROVE  /\ use[g] = "hold" /\ mode[g] \in Mode
         /\ \A h \in G : pc[h] \in InIO /\ mode[h] = mode[g] => h = g
<1>1. \A h \in G : pc[h] \in InIO => use[h] = "hold"
  BY DEF FDInv, PcInv, PcUse
<1> QED
  BY <1>1, OneHolder, HolderLocked DEF FDInv

(* What such a step of g, which goes to p and sets rg to x, has to show.   *)
LEMMA IoInv ==
  ASSUME FDInv, FDAssumption, NEW g \in G, NEW p \in InIO, pc[g] \in InIO, Goto(g, p),
         UNCHANGED <<muvars, fdvars, fdseq, closing, eventErr, deadline, seq, timer, pdlock,
                     fired, events, delivering, registered, now>>,
         NEW x \in {"nil", "ready", "wait", g}, rg' = [rg EXCEPT ![mode[g]] = x],
         woken' \subseteq G, \A h \in G \ {g} : h \in woken' <=> h \in woken,
         readable' \in [Mode -> BOOLEAN],
         \A m \in Mode \ {mode[g]} : readable'[m] = readable[m],
         x = "wait" => p \in {"recheck", "commit", "swap"},
         x = g => p = "parked" /\ g \notin woken',
         p = "parked" /\ g \notin woken' => x = g,
         g \in woken' => p = "parked",
         p \in Announced /\ readable'[mode[g]] => x = "ready" \/ UnderWay(mode[g]),
         p \in {"commit", "parked"} /\ x \in {"wait", g} /\ (closing \/ deadline[mode[g]] < 0)
           => mode[g] \in pdlock.todo
  PROVE  FDInv'
<1> USE DEF FDInv
<1>1. /\ use[g] = "hold" /\ mode[g] \in Mode
      /\ \A h \in G : pc[h] \in InIO /\ mode[h] = mode[g] => h = g
  BY Alone
<1>2. /\ MuInv' /\ PcInv' /\ CloseInv'
      /\ pc' \in [G -> FDPC] /\ pc'[g] = p
      /\ \A h \in G : (h # g => pc'[h] = pc[h]) /\ mode'[h] = mode[h]
  <2>1. PcUse(p, use[g])
    BY <1>1 DEF PcUse, InIO, Destroying
  <2> QED
    BY <2>1, GoesOn DEF FDPC, InIO, Destroying, fdvars
<1>3. \A m \in Mode : rg'[m] = IF m = mode[g] THEN x ELSE rg[m]
  BY DEF TypeOK
<1>4. TypeOK'
  BY <1>1, <1>2, <1>3, ZenonT(40) DEF TypeOK, MuInv, fdvars
<1>5. TimerInv'
  BY TimerStays
<1>6. \A h \in G : pc'[h] \in InIO /\ mode'[h] = mode[g] => h = g
  BY <1>1, <1>2
<1>7. x \in G => x = g
  BY DEF FDAssumption
<1>8. g # "wait" /\ g # "ready"
  BY DEF FDAssumption
<1>9. RgInv'
  <2>1. ASSUME NEW m \in Mode, rg'[m] = "wait"
        PROVE  \E h \in G : pc'[h] \in {"recheck", "commit", "swap"} /\ mode'[h] = m
    <3>1. CASE m = mode[g]
      BY <1>2, <1>3, <2>1, <3>1
    <3>2. CASE m # mode[g]
      <4>1. PICK h \in In({"recheck", "commit", "swap"}) : mode[h] = m
        BY <1>3, <2>1, <3>2 DEF PollInv, RgInv
      <4> QED
        BY <1>2, <3>2, <4>1 DEF In
    <3> QED
      BY <3>1, <3>2
  <2>2. ASSUME NEW m \in Mode, rg'[m] \in G
        PROVE  /\ pc'[rg'[m]] = "parked" /\ rg'[m] \notin woken' /\ mode'[rg'[m]] = m
    <3>1. CASE m = mode[g]
      BY <1>2, <1>3, <1>7, <2>2, <3>1
    <3>2. CASE m # mode[g]
      <4>1. rg[m] \in G /\ pc[rg[m]] = "parked" /\ rg[m] \notin woken /\ mode[rg[m]] = m
        BY <1>3, <2>2, <3>2 DEF PollInv, RgInv, In
      <4> QED
        BY <1>2, <1>3, <3>2, <4>1
    <3> QED
      BY <3>1, <3>2
  <2>3. ASSUME NEW h \in G, pc'[h] = "parked", h \notin woken'
        PROVE  rg'[mode'[h]] = h
    <3>1. CASE h = g
      BY <1>1, <1>2, <1>3, <2>3, <3>1
    <3>2. CASE h # g
      <4>1. pc[h] = "parked" /\ h \notin woken /\ rg[mode[h]] = h
        BY <1>2, <2>3, <3>2 DEF PollInv, RgInv, In
      <4>2. mode[h] \in Mode /\ mode[h] # mode[g]
        BY <1>1, <3>2, <4>1, Alone DEF InIO
      <4> QED
        BY <1>2, <1>3, <4>1, <4>2
    <3> QED
      BY <3>1, <3>2
  <2>4. \A h \in woken' : h \in G /\ pc'[h] = "parked"
    BY <1>2 DEF PollInv, RgInv, In
  <2> QED
    BY <2>1, <2>2, <2>3, <2>4 DEF RgInv, In
<1>10. InputInv'
  <2> SUFFICES ASSUME NEW h \in G, pc'[h] \in Announced, readable'[mode'[h]]
               PROVE  rg'[mode'[h]] = "ready" \/ UnderWay(mode[h])
    BY <1>2 DEF InputInv, In, UnderWay, Announced
  <2>1. CASE h = g
    BY <1>1, <1>2, <1>3, <2>1
  <2>2. CASE h # g
    <3>1. pc[h] \in Announced /\ mode[h] \in Mode /\ mode[h] # mode[g]
      BY <1>1, <1>2, <2>2, Alone DEF InIO, Announced
    <3> QED
      BY <1>2, <1>3, <3>1 DEF PollInv, InputInv, In, Announced
  <2> QED
    BY <2>1, <2>2
<1>11. ErrorInv'
  <2> SUFFICES ASSUME NEW h \in G, pc'[h] \in {"commit", "parked"}, rg'[mode'[h]] \in {"wait", h},
                      closing \/ deadline[mode[h]] < 0
               PROVE  mode[h] \in pdlock.todo
    BY <1>2 DEF ErrorInv, In
  <2>1. CASE h = g
    BY <1>1, <1>2, <1>3, <2>1
  <2>2. CASE h # g
    <3>1. pc[h] \in {"commit", "parked"} /\ mode[h] \in Mode /\ mode[h] # mode[g]
      BY <1>1, <1>2, <2>2, Alone DEF InIO
    <3> QED
      BY <1>2, <1>3, <3>1 DEF PollInv, ErrorInv, In
  <2> QED
    BY <2>1, <2>2
<1> QED
  BY <1>2, <1>4, <1>5, <1>9, <1>10, <1>11 DEF PollInv

(* What the state says of a goroutine in a read or write.                  *)
LEMMA IoState ==
  ASSUME FDInv, FDAssumption, NEW g \in G, pc[g] \in InIO
  PROVE  /\ mode[g] \in Mode /\ rg \in [Mode -> {"nil", "ready", "wait"} \cup G]
         /\ rg = [rg EXCEPT ![mode[g]] = rg[mode[g]]]
         /\ rg[mode[g]] = "wait" => pc[g] \in {"recheck", "commit", "swap"}
         /\ rg[mode[g]] \in G => rg[mode[g]] = g /\ pc[g] = "parked" /\ g \notin woken
         /\ pc[g] = "parked" /\ g \notin woken => rg[mode[g]] = g
         /\ g \in woken => pc[g] = "parked"
         /\ pc[g] \in Announced /\ readable[mode[g]] =>
              rg[mode[g]] = "ready" \/ UnderWay(mode[g])
         /\ woken \subseteq G /\ readable \in [Mode -> BOOLEAN]
<1>1. mode[g] \in Mode /\ \A h \in G : pc[h] \in InIO /\ mode[h] = mode[g] => h = g
  BY Alone
<1>2. /\ rg \in [Mode -> {"nil", "ready", "wait"} \cup G]
      /\ woken \subseteq G /\ readable \in [Mode -> BOOLEAN]
  BY DEF FDInv, TypeOK
<1>3. /\ rg[mode[g]] = "wait" => pc[g] \in {"recheck", "commit", "swap"}
      /\ rg[mode[g]] \in G => rg[mode[g]] = g /\ pc[g] = "parked" /\ g \notin woken
  BY <1>1 DEF FDInv, PollInv, RgInv, In, InIO
<1>4. /\ pc[g] = "parked" /\ g \notin woken => rg[mode[g]] = g
      /\ g \in woken => pc[g] = "parked"
  BY DEF FDInv, PollInv, RgInv, In
<1>5. pc[g] \in Announced /\ readable[mode[g]] =>
        rg[mode[g]] = "ready" \/ UnderWay(mode[g])
  BY DEF FDInv, PollInv, InputInv, In, Announced
<1> QED
  BY <1>1, <1>2, <1>3, <1>4, <1>5

LEMMA ResetInv ==
  ASSUME FDInv, FDAssumption, NEW g \in G, Reset(g) PROVE FDInv'
<1>1. /\ pc[g] = "reset" /\ Goto(g, "sys") /\ rg' = [rg EXCEPT ![mode[g]] = "nil"]
      /\ UNCHANGED <<muvars, fdvars, fdseq, closing, eventErr, deadline, seq, timer, pdlock,
                     fired, events, delivering, registered, readable, woken, now>>
  BY DEF Reset, At, PdUnchangedButRg, PD!SetRg
<1>2. g \notin {"nil", "ready", "wait"}
  BY DEF FDAssumption
<1> QED
  BY <1>1, <1>2, IoInv, IoState DEF InIO, Announced

LEMMA SyscallInv ==
  ASSUME FDInv, FDAssumption, NEW g \in G, Syscall(g) PROVE FDInv'
<1>1. /\ pc[g] = "sys"
      /\ UNCHANGED <<muvars, fdvars, fdseq, closing, eventErr, rg, deadline, seq, timer, pdlock,
                     fired, events, delivering, registered, woken, now>>
  BY DEF Syscall, At
<1>2. /\ mode[g] \in Mode /\ rg = [rg EXCEPT ![mode[g]] = rg[mode[g]]]
      /\ rg[mode[g]] \in {"nil", "ready"} /\ g \notin woken
      /\ woken \subseteq G /\ readable \in [Mode -> BOOLEAN]
  BY <1>1, IoState DEF InIO
<1>3. g \notin {"nil", "ready", "wait"}
  BY DEF FDAssumption
<1>4. CASE readable[mode[g]]
  <2>1. PICK more \in BOOLEAN : readable' = [readable EXCEPT ![mode[g]] = more]
    BY <1>4 DEF Syscall
  <2>2. Goto(g, "unlock")
    BY <1>4 DEF Syscall
  <2> QED
    BY <1>1, <1>2, <1>3, <2>1, <2>2, IoInv DEF InIO, Announced
<1>5. CASE ~readable[mode[g]]
  <2>1. Goto(g, "check") /\ readable' = readable
    BY <1>5 DEF Syscall
  <2> QED
    BY <1>1, <1>2, <1>3, <1>5, <2>1, IoInv DEF InIO, Announced
<1> QED
  BY <1>4, <1>5

LEMMA CheckInv ==
  ASSUME FDInv, FDAssumption, NEW g \in G, Check(g) PROVE FDInv'
<1>1. pc[g] = "check" /\ UNCHANGED <<muvars, pdvars, fdvars>>
  BY DEF Check, At
<1>2. PICK p \in {"block", "unlock"} : Goto(g, p)
  BY DEF Check
<1>3. g \notin {"nil", "ready", "wait"}
  BY DEF FDAssumption
<1>4. /\ mode[g] \in Mode /\ rg = [rg EXCEPT ![mode[g]] = rg[mode[g]]]
      /\ rg[mode[g]] \in {"nil", "ready"} /\ g \notin woken
      /\ woken \subseteq G /\ readable \in [Mode -> BOOLEAN]
      /\ readable[mode[g]] => rg[mode[g]] = "ready" \/ UnderWay(mode[g])
  BY <1>1, IoState DEF InIO, Announced
<1> QED
  BY <1>1, <1>2, <1>3, <1>4, IoInv, PdStays DEF InIO, Announced

LEMMA BlockInv ==
  ASSUME FDInv, FDAssumption, NEW g \in G, Block(g) PROVE FDInv'
<1>1. /\ pc[g] = "block"
      /\ UNCHANGED <<muvars, fdvars, fdseq, closing, eventErr, deadline, seq, timer, pdlock,
                     fired, events, delivering, registered, readable, woken, now>>
  BY DEF Block, At, PdUnchangedButRg
<1>2. g \notin {"nil", "ready", "wait"}
  BY DEF FDAssumption
<1>3. /\ mode[g] \in Mode /\ g \notin woken
      /\ woken \subseteq G /\ readable \in [Mode -> BOOLEAN]
      /\ readable[mode[g]] => rg[mode[g]] = "ready" \/ UnderWay(mode[g])
  BY <1>1, IoState DEF InIO, Announced
<1>4. CASE Goto(g, "sys") /\ rg' = [rg EXCEPT ![mode[g]] = "nil"]
  BY <1>1, <1>2, <1>3, <1>4, IoInv DEF InIO, Announced
<1>5. CASE rg[mode[g]] = "nil" /\ Goto(g, "recheck") /\ rg' = [rg EXCEPT ![mode[g]] = "wait"]
  BY <1>1, <1>2, <1>3, <1>5, IoInv DEF InIO, Announced
<1> QED
  BY <1>4, <1>5 DEF Block, PD!SetRg

LEMMA RecheckInv ==
  ASSUME FDInv, FDAssumption, NEW g \in G, Recheck(g) PROVE FDInv'
<1>1. pc[g] = "recheck" /\ UNCHANGED <<muvars, pdvars, fdvars>>
  BY DEF Recheck, At
<1>2. g \notin {"nil", "ready", "wait"}
  BY DEF FDAssumption
<1>3. /\ mode[g] \in Mode /\ rg = [rg EXCEPT ![mode[g]] = rg[mode[g]]]
      /\ rg[mode[g]] \in {"nil", "ready", "wait"} /\ g \notin woken
      /\ woken \subseteq G /\ readable \in [Mode -> BOOLEAN]
      /\ readable[mode[g]] => rg[mode[g]] = "ready" \/ UnderWay(mode[g])
  BY <1>1, IoState DEF InIO, Announced
<1>4. CASE PD!CheckErr(mode[g]) = "none" /\ Goto(g, "commit")
  <2>1. ~closing /\ ~(deadline[mode[g]] < 0)
    BY <1>4 DEF PD!CheckErr
  <2> QED
    BY <1>1, <1>2, <1>3, <1>4, <2>1, IoInv, PdStays DEF InIO, Announced
<1>5. CASE Goto(g, "swap")
  BY <1>1, <1>2, <1>3, <1>5, IoInv, PdStays DEF InIO, Announced
<1> QED
  BY <1>4, <1>5 DEF Recheck

LEMMA CommitInv ==
  ASSUME FDInv, FDAssumption, NEW g \in G, Commit(g) PROVE FDInv'
<1>1. /\ pc[g] = "commit"
      /\ UNCHANGED <<muvars, fdvars, fdseq, closing, eventErr, deadline, seq, timer, pdlock,
                     fired, events, delivering, registered, readable, woken, now>>
  BY DEF Commit, At, PdUnchangedButRg
<1>2. g \notin {"nil", "ready", "wait"}
  BY DEF FDAssumption
<1>3. /\ mode[g] \in Mode /\ rg = [rg EXCEPT ![mode[g]] = rg[mode[g]]]
      /\ rg[mode[g]] \in {"nil", "ready", "wait"} /\ g \notin woken
      /\ woken \subseteq G /\ readable \in [Mode -> BOOLEAN]
      /\ readable[mode[g]] => rg[mode[g]] = "ready" \/ UnderWay(mode[g])
  BY <1>1, IoState DEF InIO, Announced
<1>4. CASE rg[mode[g]] = "wait" /\ Goto(g, "parked") /\ rg' = [rg EXCEPT ![mode[g]] = g]
  <2>1. closing \/ deadline[mode[g]] < 0 => mode[g] \in pdlock.todo
    BY <1>1, <1>4 DEF FDInv, PollInv, ErrorInv, In
  <2> QED
    BY <1>1, <1>2, <1>3, <1>4, <2>1, IoInv DEF InIO, Announced
<1>5. CASE rg[mode[g]] # "wait" /\ Goto(g, "swap") /\ UNCHANGED rg
  BY <1>1, <1>2, <1>3, <1>5, IoInv DEF InIO, Announced
<1> QED
  BY <1>4, <1>5 DEF Commit, PD!SetRg

LEMMA ReadyInv ==
  ASSUME FDInv, FDAssumption, NEW g \in G, Ready(g) PROVE FDInv'
<1>1. /\ pc[g] = "parked" /\ g \in woken /\ woken' = woken \ {g} /\ Goto(g, "swap")
      /\ UNCHANGED <<muvars, fdvars, fdseq, closing, eventErr, rg, deadline, seq, timer, pdlock,
                     fired, events, delivering, registered, readable, now>>
  BY DEF Ready, At, PdUnchangedButRg
<1>2. g \notin {"nil", "ready", "wait"}
  BY DEF FDAssumption
<1>3. /\ mode[g] \in Mode /\ rg = [rg EXCEPT ![mode[g]] = rg[mode[g]]]
      /\ rg[mode[g]] \in {"nil", "ready"}
      /\ woken \subseteq G /\ readable \in [Mode -> BOOLEAN]
      /\ readable[mode[g]] => rg[mode[g]] = "ready" \/ UnderWay(mode[g])
  BY <1>1, IoState DEF InIO, Announced
<1> QED
  BY <1>1, <1>2, <1>3, IoInv DEF InIO, Announced

LEMMA SwapInv ==
  ASSUME FDInv, FDAssumption, NEW g \in G, Swap(g) PROVE FDInv'
<1>1. /\ pc[g] = "swap" /\ rg' = [rg EXCEPT ![mode[g]] = "nil"]
      /\ Goto(g, IF rg[mode[g]] = "ready" THEN "sys" ELSE "check")
      /\ UNCHANGED <<muvars, fdvars, fdseq, closing, eventErr, deadline, seq, timer, pdlock,
                     fired, events, delivering, registered, readable, woken, now>>
  BY DEF Swap, At, PdUnchangedButRg, PD!SetRg
<1>2. g \notin {"nil", "ready", "wait"}
  BY DEF FDAssumption
<1>3. /\ mode[g] \in Mode /\ g \notin woken
      /\ woken \subseteq G /\ readable \in [Mode -> BOOLEAN]
      /\ readable[mode[g]] => rg[mode[g]] = "ready" \/ UnderWay(mode[g])
  BY <1>1, IoState DEF InIO, Announced
<1>4. CASE rg[mode[g]] = "ready"
  BY <1>1, <1>2, <1>3, <1>4, IoInv DEF InIO, Announced
<1>5. CASE rg[mode[g]] # "ready"
  BY <1>1, <1>2, <1>3, <1>5, IoInv DEF InIO, Announced
<1> QED
  BY <1>4, <1>5

-----------------------------------------------------------------------------
(* The poller's side.  What a step shows that moves no goroutine but,      *)
(* perhaps, g, which has nothing to do with rg.                            *)

LEMMA PdTypes ==
  ASSUME TypeOK, MuInv', TimerTypes',
         fdseq' \in Nat, rg' \in [Mode -> {"nil", "ready", "wait"} \cup G], woken' \subseteq G,
         {eventErr', registered', destroyed'} \subseteq BOOLEAN,
         events' \subseteq [modes : SUBSET Mode, err : BOOLEAN, tag : Nat],
         delivering' \subseteq [modes : SUBSET Mode, tag : Nat],
         readable' \in [Mode -> BOOLEAN], pc' \in [G -> FDPC], left' \in Scenario,
         UNCHANGED <<closer, csema>>
  PROVE  TypeOK'
  BY DEF TypeOK, MuInv, TimerTypes

LEMMA RgStays ==
  ASSUME RgInv, UNCHANGED <<rg, woken, mode>>,
         \A h \in G : pc[h] \in Announced \/ pc'[h] \in Announced => pc'[h] = pc[h]
  PROVE  RgInv'
<1>1. \A m \in Mode : rg'[m] = "wait" =>
        \E g \in In({"recheck", "commit", "swap"})' : mode'[g] = m
  <2>1. In({"recheck", "commit", "swap"}) \subseteq In({"recheck", "commit", "swap"})'
    BY DEF In, Announced
  <2> QED
    BY <2>1 DEF RgInv
<1>2. In({"parked"})' = In({"parked"})
  BY DEF In, Announced
<1> QED
  BY <1>1, <1>2 DEF RgInv, In

LEMMA InputStays ==
  ASSUME InputInv, UNCHANGED <<rg, mode, readable, fdseq, events, delivering>>,
         \A h \in G : pc[h] \in Announced \/ pc'[h] \in Announced => pc'[h] = pc[h]
  PROVE  InputInv'
  BY DEF InputInv, UnderWay, In, Announced

LEMMA ErrorStays ==
  ASSUME ErrorInv, UNCHANGED <<rg, mode, closing, deadline, pdlock>>,
         \A h \in G : pc[h] \in Announced \/ pc'[h] \in Announced => pc'[h] = pc[h]
  PROVE  ErrorInv'
  BY DEF ErrorInv, In, Announced

LEMMA QuietStays ==
  ASSUME FDInv, Quietly, closing' = closing
  PROVE  /\ MuInv' /\ PcInv' /\ CloseInv' /\ UNCHANGED <<mode, pc, left, closer, csema, destroyed>>
<1> USE DEF FDInv
<1>1. /\ UNCHANGED <<muvars, use, mode, pc, closed, refs, toWake>>
      /\ UNCHANGED <<closer, csema, destroyed, left>>
  BY DEF Quietly, muvars, state, fdvars
<1>2. MuInv'
  BY <1>1, StutterInv
<1>3. PcInv'
  BY <1>1 DEF PcInv, PcUse
<1>4. CloseInv'
  BY <1>1, CloseStays
<1> QED
  BY <1>1, <1>2, <1>3, <1>4

(* netpollunblock.                                                         *)
LEMMA RgUnblocked ==
  ASSUME TypeOK, RgInv, FDAssumption, NEW m \in Mode, NEW x \in {"nil", "ready"},
         rg' = [rg EXCEPT ![m] = x], woken' = woken \cup ({rg[m]} \cap G),
         UNCHANGED <<pc, mode>>
  PROVE  RgInv' /\ woken' \subseteq G /\ rg' \in [Mode -> {"nil", "ready", "wait"} \cup G]
<1>1. \A n \in Mode : rg'[n] = IF n = m THEN x ELSE rg[n]
  BY DEF TypeOK
<1>2. x \notin G
  BY DEF FDAssumption
<1>3. \A n \in Mode : rg'[n] = "wait" =>
        \E g \in In({"recheck", "commit", "swap"})' : mode'[g] = n
  BY <1>1 DEF RgInv, In
<1>4. \A n \in Mode : rg'[n] \in G => rg'[n] \in In({"parked"})' \ woken' /\ mode'[rg'[n]] = n
  BY <1>1, <1>2 DEF RgInv, In
<1>5. \A g \in In({"parked"})' : g \notin woken' => rg'[mode'[g]] = g
  <2> SUFFICES ASSUME NEW g \in In({"parked"}), g \notin woken' PROVE rg'[mode[g]] = g
    BY DEF In
  <2>1. rg[mode[g]] = g /\ g \in G
    BY DEF RgInv, In
  <2>2. mode[g] # m
    BY <2>1
  <2> QED
    BY <2>1, <2>2
<1>6. woken' \subseteq In({"parked"})'
  BY DEF RgInv, In
<1> QED
  BY <1>3, <1>4, <1>5, <1>6 DEF RgInv, TypeOK, In

LEMMA UnblocksInv ==
  ASSUME FDInv, FDAssumption, Unblocks
  PROVE  /\ FDInv'
         /\ \A m \in Mode : deadline[m] > 0 /\ deadline'[m] = -1 => deadline[m] <= now
<1> USE DEF FDInv
<1> DEFINE m == PD!FirstOf(pdlock.todo)
           rest == pdlock.todo \ {m}
           x == IF rg[m] = "ready" THEN "ready" ELSE "nil"
<1>1. /\ PD!UnblockNext /\ Quietly
      /\ UNCHANGED <<fdseq, closing, eventErr, seq, timer, fired, now,
                     events, delivering, registered, readable>>
      /\ rg' = [rg EXCEPT ![m] = x] /\ woken' = woken \cup ({rg[m]} \cap G)
      /\ pdlock' = IF rest = {} THEN PD!Unlocked ELSE [pdlock EXCEPT !.todo = rest]
      /\ \/ pdlock.by = TheTimer /\ rest # {} /\ PD!Expire(PD!FirstOf(rest))
         \/ UNCHANGED deadline
  BY DEF Unblocks, PD!UnblockNext, PD!Unblock, PD!SetRg, PD!info, PD!kernel
<1>2. pdlock.todo \in SUBSET Mode /\ m \in Mode /\ rest \in SUBSET Mode
  BY FirstOfIs DEF TypeOK
<1>3. /\ MuInv' /\ PcInv' /\ CloseInv' /\ UNCHANGED <<mode, pc, left, closer, csema, destroyed>>
  BY <1>1, QuietStays
<1>4. TimerInv' /\ \A n \in Mode : deadline[n] > 0 /\ deadline'[n] = -1 => deadline[n] <= now
  BY <1>1, TimerUnblocks, TypesOfTimers
<1>5. RgInv' /\ woken' \subseteq G /\ rg' \in [Mode -> {"nil", "ready", "wait"} \cup G]
  <2>1. x \in {"nil", "ready"}
    OBVIOUS
  <2> HIDE DEF x, m
  <2> QED
    BY <1>1, <1>2, <1>3, <2>1, RgUnblocked DEF PollInv
<1>6. /\ \A n \in Mode : rg'[n] = IF n = m THEN x ELSE rg[n]
      /\ pdlock'.todo = rest /\ pdlock' \in [by : G \cup {NoG, TheTimer}, todo : SUBSET Mode]
  BY <1>1, <1>2 DEF TypeOK, PD!Unlocked
<1>7. deadline' \in [Mode -> Int]
      /\ \A n \in Mode : deadline'[n] = deadline[n] \/ n \in rest
  <2>1. rest # {} => PD!FirstOf(rest) \in rest
    BY <1>2, FirstOfIs
  <2>2. CASE UNCHANGED deadline
    BY <2>2 DEF TypeOK
  <2>3. CASE rest # {} /\ PD!Expire(PD!FirstOf(rest))
    <3>1. deadline' = [deadline EXCEPT ![PD!FirstOf(rest)] = -1]
      BY <2>3 DEF PD!Expire
    <3>2. -1 \in Int
      OBVIOUS
    <3> HIDE DEF rest
    <3> QED
      BY <2>1, <2>3, <3>1, <3>2 DEF TypeOK
  <2> QED
    BY <1>1, <2>2, <2>3
<1>8. TypeOK'
  <2>1. TimerTypes'
    BY <1>1, <1>6, <1>7 DEF TypeOK, TimerTypes
  <2> QED
    BY <1>1, <1>3, <1>5, <2>1, PdTypes DEF TypeOK
<1>9. \A g \in G : pc[g] \in InIO => mode[g] \in Mode
  BY Alone
<1>10. InputInv'
  <2> SUFFICES ASSUME NEW g \in G, pc[g] \in Announced, readable[mode[g]]
               PROVE  rg'[mode[g]] = "ready" \/ UnderWay(mode[g])
    BY <1>1, <1>3 DEF InputInv, UnderWay, In, Announced
  <2>1. rg[mode[g]] = "ready" \/ UnderWay(mode[g])
    BY DEF PollInv, InputInv, In, Announced
  <2>2. mode[g] \in Mode
    BY <1>9 DEF InIO, Announced
  <2> QED
    BY <1>6, <2>1, <2>2
<1>11. ErrorInv'
  <2> SUFFICES ASSUME NEW g \in G, pc[g] \in {"commit", "parked"}, rg'[mode[g]] \in {"wait", g},
                      closing \/ deadline'[mode[g]] < 0
               PROVE  mode[g] \in rest
    BY <1>1, <1>3, <1>6 DEF ErrorInv, In
  <2>1. mode[g] \in Mode /\ g \notin {"nil", "ready", "wait"}
    BY <1>9 DEF InIO, FDAssumption
  <2>2. mode[g] # m /\ rg[mode[g]] \in {"wait", g}
    BY <1>6, <2>1
  <2>3. closing \/ deadline[mode[g]] < 0 => mode[g] \in pdlock.todo
    BY <2>2 DEF PollInv, ErrorInv, In
  <2> QED
    BY <1>7, <2>1, <2>2, <2>3
<1> QED
  BY <1>3, <1>4, <1>5, <1>8, <1>10, <1>11 DEF PollInv

LEMMA TicksInv ==
  ASSUME FDInv, TimePasses PROVE FDInv' /\ UNCHANGED deadline
<1> USE DEF FDInv
<1>1. /\ PD!Tick /\ Quietly /\ now' = now + 1
      /\ UNCHANGED <<fdseq, closing, eventErr, rg, deadline, seq, timer, pdlock, fired, woken,
                     events, delivering, registered, readable>>
  BY DEF TimePasses, PD!Tick, PD!info, PD!timers, PD!kernel
<1>2. /\ MuInv' /\ PcInv' /\ CloseInv' /\ UNCHANGED <<mode, pc, left, closer, csema, destroyed>>
  BY <1>1, QuietStays
<1>3. TimerInv'
  BY <1>1, TimerTick, TypesOfTimers
<1>4. TypeOK'
  BY <1>1, <1>2, PdTypes DEF TypeOK, TimerTypes
<1>5. PollInv'
  BY <1>1, <1>2, RgStays, InputStays, ErrorStays DEF PollInv
<1> QED
  BY <1>1, <1>2, <1>3, <1>4, <1>5

LEMMA TimerFiresInv ==
  ASSUME FDInv, NEW m \in Mode, TimerFires(m) PROVE FDInv' /\ UNCHANGED deadline
<1> USE DEF FDInv
<1>1. /\ PD!FireTimer(m) /\ Quietly
      /\ timer' = [timer EXCEPT ![m].armed = FALSE]
      /\ fired' = fired \cup {[f |-> timer[m].f, seq |-> timer[m].seq]}
      /\ UNCHANGED <<fdseq, closing, eventErr, rg, deadline, seq, pdlock, woken, now,
                     events, delivering, registered, readable>>
  BY DEF TimerFires, PD!FireTimer, PD!info, PD!kernel
<1>2. /\ MuInv' /\ PcInv' /\ CloseInv' /\ UNCHANGED <<mode, pc, left, closer, csema, destroyed>>
  BY <1>1, QuietStays
<1>3. TimerInv'
  BY <1>1, TimerFires1, TypesOfTimers
<1>4. TypeOK'
  <2>1. timer' \in [Mode -> TimerRecord]
    BY <1>1, ZenonT(40) DEF TypeOK, TimerRecord
  <2>2. fired' \subseteq [f : SUBSET Mode, seq : Nat]
    BY <1>1 DEF TypeOK, TimerRecord
  <2> QED
    BY <1>1, <1>2, <2>1, <2>2, PdTypes DEF TypeOK, TimerTypes
<1>5. PollInv'
  BY <1>1, <1>2, RgStays, InputStays, ErrorStays DEF PollInv
<1> QED
  BY <1>1, <1>2, <1>3, <1>4, <1>5

LEMMA TimerRunsInv ==
  ASSUME FDInv, FDAssumption, TimerRuns
  PROVE  /\ FDInv'
         /\ \A m \in Mode : deadline[m] > 0 /\ deadline'[m] = -1 => deadline[m] <= now
<1> USE DEF FDInv
<1>1. PICK x \in fired : PD!RunTimer(x)
  BY DEF TimerRuns
<1>2. /\ Quietly /\ pdlock = PD!Unlocked /\ fired' = fired \ {x}
      /\ UNCHANGED <<fdseq, closing, eventErr, rg, seq, timer, woken, now,
                     events, delivering, registered, readable>>
      /\ \/ PD!LockPd(TheTimer, {}) /\ UNCHANGED deadline
         \/ PD!LockPd(TheTimer, x.f) /\ PD!Expire(PD!FirstOf(x.f))
  BY <1>1 DEF TimerRuns, PD!RunTimer, PD!LockPd, PD!info, PD!kernel
<1>3. /\ MuInv' /\ PcInv' /\ CloseInv' /\ UNCHANGED <<mode, pc, left, closer, csema, destroyed>>
  BY <1>2, QuietStays
<1>4. TimerInv' /\ \A m \in Mode : deadline[m] > 0 /\ deadline'[m] = -1 => deadline[m] <= now
  BY <1>1, TimerRuns1, TypesOfTimers
<1>5. x.f \in SUBSET Mode /\ x.f # {} /\ PD!FirstOf(x.f) \in x.f
  BY FirstOfIs DEF TypeOK, TimerInv, FiredAgree
<1>6. /\ deadline' \in [Mode -> Int]
      /\ pdlock' \in [by : G \cup {NoG, TheTimer}, todo : SUBSET Mode]
      /\ \A m \in Mode : deadline'[m] = deadline[m] \/ m \in pdlock'.todo
  <2>1. CASE PD!LockPd(TheTimer, {}) /\ UNCHANGED deadline
    BY <1>2, <2>1 DEF TypeOK, PD!LockPd, PD!Unlocked
  <2>2. CASE PD!LockPd(TheTimer, x.f) /\ PD!Expire(PD!FirstOf(x.f))
    <3> DEFINE k == PD!FirstOf(x.f)
    <3>1. pdlock' = [by |-> TheTimer, todo |-> x.f] /\ deadline' = [deadline EXCEPT ![k] = -1]
      BY <1>5, <2>2 DEF PD!LockPd, PD!Expire
    <3> HIDE DEF k
    <3> QED
      BY <1>5, <3>1 DEF TypeOK, k
  <2> QED
    BY <1>2, <2>1, <2>2
<1>7. TypeOK'
  BY <1>2, <1>3, <1>6, PdTypes DEF TypeOK, TimerTypes
<1>8. ErrorInv'
  <2> SUFFICES ASSUME NEW g \in G, pc[g] \in {"commit", "parked"}, rg[mode[g]] \in {"wait", g},
                      closing \/ deadline'[mode[g]] < 0
               PROVE  mode[g] \in pdlock'.todo
    BY <1>2, <1>3 DEF ErrorInv, In
  <2>1. mode[g] \in Mode
    BY Alone DEF InIO
  <2>2. ~(closing \/ deadline[mode[g]] < 0)
    BY <1>2 DEF PollInv, ErrorInv, In, PD!Unlocked
  <2> QED
    BY <1>6, <2>1, <2>2
<1>9. PollInv'
  BY <1>2, <1>3, <1>8, RgStays, InputStays DEF PollInv
<1> QED
  BY <1>3, <1>4, <1>7, <1>9

LEMMA PollsInv ==
  ASSUME FDInv, NEW m \in Mode, Polls(m) PROVE FDInv' /\ UNCHANGED deadline
<1> USE DEF FDInv
<1>1. PICK ev \in events : PD!Poll(ev)
  BY DEF Polls
<1>2. /\ Quietly /\ events' = events \ {ev}
      /\ \/ /\ ev.tag = fdseq /\ eventErr' = ev.err
            /\ delivering' = delivering \cup {[modes |-> ev.modes, tag |-> ev.tag]}
         \/ ev.tag # fdseq /\ UNCHANGED <<eventErr, delivering>>
      /\ UNCHANGED <<fdseq, closing, rg, deadline, seq, timer, pdlock, fired, woken, now,
                     registered, readable>>
  BY <1>1 DEF Polls, PD!Poll, PD!timers
<1>3. /\ MuInv' /\ PcInv' /\ CloseInv' /\ UNCHANGED <<mode, pc, left, closer, csema, destroyed>>
  BY <1>2, QuietStays
<1>4. TimerInv'
  BY <1>2, TimerStays
<1>5. ev \in [modes : SUBSET Mode, err : BOOLEAN, tag : Nat]
  BY DEF TypeOK
<1>6. TypeOK'
  <2>1. events' \subseteq [modes : SUBSET Mode, err : BOOLEAN, tag : Nat]
    BY <1>2 DEF TypeOK
  <2>2. delivering' \subseteq [modes : SUBSET Mode, tag : Nat] /\ eventErr' \in BOOLEAN
    BY <1>2, <1>5 DEF TypeOK
  <2> QED
    BY <1>2, <1>3, <2>1, <2>2, PdTypes DEF TypeOK, TimerTypes
<1>7. \A n \in Mode : UnderWay(n) => UnderWay(n)'
  <2> SUFFICES ASSUME NEW n \in Mode, NEW e \in events \cup delivering, n \in e.modes, e.tag = fdseq
               PROVE  \E y \in events' \cup delivering' : n \in y.modes /\ y.tag = fdseq
    BY <1>2 DEF UnderWay
  <2>1. CASE e = ev
    <3>1. [modes |-> ev.modes, tag |-> ev.tag] \in delivering'
      BY <1>2, <2>1
    <3> QED
      BY <2>1, <3>1
  <2>2. CASE e # ev
    BY <1>2, <2>2
  <2> QED
    BY <2>1, <2>2
<1>8. InputInv'
  BY <1>2, <1>3, <1>7, Alone DEF PollInv, InputInv, In, InIO
<1>9. PollInv'
  BY <1>2, <1>3, <1>8, RgStays, ErrorStays DEF PollInv
<1> QED
  BY <1>2, <1>3, <1>4, <1>6, <1>9

LEMMA DeliversInv ==
  ASSUME FDInv, FDAssumption, NEW m \in Mode, Delivers(m) PROVE FDInv' /\ UNCHANGED deadline
<1> USE DEF FDInv
<1>1. PICK x \in delivering : PD!Deliver(x, m)
  BY DEF Delivers
<1>2. /\ Quietly /\ m \in x.modes
      /\ rg' = [rg EXCEPT ![m] = "ready"] /\ woken' = woken \cup ({rg[m]} \cap G)
      /\ delivering' = (delivering \ {x}) \cup
           (IF x.modes = {m} THEN {} ELSE {[x EXCEPT !.modes = @ \ {m}]})
      /\ UNCHANGED <<fdseq, closing, eventErr, deadline, seq, timer, pdlock, fired, now,
                     events, registered, readable>>
  BY <1>1 DEF Delivers, PD!Deliver, PD!Unblock, PD!SetRg, PD!info, PD!timers
<1>3. /\ MuInv' /\ PcInv' /\ CloseInv' /\ UNCHANGED <<mode, pc, left, closer, csema, destroyed>>
  BY <1>2, QuietStays
<1>4. TimerInv'
  BY <1>2, TimerStays
<1>5. x \in [modes : SUBSET Mode, tag : Nat]
  BY DEF TypeOK
<1>6. RgInv' /\ woken' \subseteq G /\ rg' \in [Mode -> {"nil", "ready", "wait"} \cup G]
  BY <1>2, <1>3, RgUnblocked DEF PollInv
<1>7. \A n \in Mode : rg'[n] = IF n = m THEN "ready" ELSE rg[n]
  BY <1>2 DEF TypeOK
<1>8. TypeOK'
  <2>1. delivering' \subseteq [modes : SUBSET Mode, tag : Nat]
    BY <1>2, <1>5 DEF TypeOK
  <2> QED
    BY <1>2, <1>3, <1>6, <2>1, PdTypes DEF TypeOK, TimerTypes
<1>9. \A n \in Mode : n # m /\ UnderWay(n) => UnderWay(n)'
  <2> SUFFICES ASSUME NEW n \in Mode, n # m,
                      NEW e \in events \cup delivering, n \in e.modes, e.tag = fdseq
               PROVE  \E y \in events' \cup delivering' : n \in y.modes /\ y.tag = fdseq
    BY <1>2 DEF UnderWay
  <2>1. CASE e = x
    <3> DEFINE y == [x EXCEPT !.modes = @ \ {m}]
    <3>1. y \in delivering'
      BY <1>2, <2>1
    <3>2. n \in y.modes /\ y.tag = fdseq
      BY <1>5, <2>1
    <3> QED
      BY <3>1, <3>2
  <2>2. CASE e # x
    BY <1>2, <2>2
  <2> QED
    BY <2>1, <2>2
<1>10. \A g \in G : pc[g] \in InIO => mode[g] \in Mode
  BY Alone
<1>11. InputInv'
  BY <1>2, <1>3, <1>7, <1>9, <1>10 DEF PollInv, InputInv, In, InIO
<1>12. ErrorInv'
  <2> SUFFICES ASSUME NEW g \in G, pc[g] \in {"commit", "parked"}, rg'[mode[g]] \in {"wait", g},
                      closing \/ deadline[mode[g]] < 0
               PROVE  mode[g] \in pdlock.todo
    BY <1>2, <1>3 DEF ErrorInv, In
  <2>1. mode[g] \in Mode /\ g \notin {"nil", "ready", "wait"}
    BY <1>10 DEF InIO, FDAssumption
  <2> QED
    BY <1>7, <2>1 DEF PollInv, ErrorInv, In
<1> QED
  BY <1>2, <1>3, <1>4, <1>6, <1>8, <1>11, <1>12 DEF PollInv

LEMMA ArrivesInv ==
  ASSUME FDInv, Arrives PROVE FDInv' /\ UNCHANGED deadline
<1> USE DEF FDInv
<1>1. PICK a \in left.arrivals : PD!Arrive(a[1], a[2])
  BY DEF Arrives
<1>2. a[1] \in SUBSET Mode /\ a[2] \in BOOLEAN
  BY DEF TypeOK, Scenario
<1> DEFINE ev == [modes |-> a[1], err |-> a[2], tag |-> fdseq]
<1>3. /\ readable' = [n \in Mode |-> readable[n] \/ n \in a[1]]
      /\ events' = events \cup {ev}
      /\ UNCHANGED <<fdseq, closing, eventErr, rg, deadline, seq, timer, pdlock, fired, woken,
                     now, delivering, registered>>
      /\ UNCHANGED <<muvars, pc, closer, csema, destroyed>>
      /\ left' = [left EXCEPT !.inputs = @ - 1] /\ left.inputs > 0
  BY <1>1, TwoModes DEF Arrives, PD!Arrive, PD!info, PD!timers
<1>4. MuInv' /\ UNCHANGED <<use, mode, closed, refs, toWake>>
  BY <1>3, StutterInv DEF muvars, state
<1>5. PcInv' /\ CloseInv'
  BY <1>3, <1>4, CloseStays DEF PcInv, PcUse
<1>6. TimerInv'
  BY <1>3, TimerStays
<1>7. TypeOK'
  <2>1. events' \subseteq [modes : SUBSET Mode, err : BOOLEAN, tag : Nat]
    BY <1>2, <1>3 DEF TypeOK
  <2>2. readable' \in [Mode -> BOOLEAN]
    BY <1>3 DEF TypeOK
  <2>3. left' \in Scenario
    BY <1>3 DEF TypeOK, Scenario
  <2> QED
    BY <1>3, <1>4, <2>1, <2>2, <2>3, PdTypes DEF TypeOK, TimerTypes
<1>8. InputInv'
  <2>1. \A n \in Mode : readable'[n] => readable[n] \/ UnderWay(n)'
    <3>1. ASSUME NEW n \in a[1] PROVE UnderWay(n)'
      <4>1. ev \in events' /\ n \in ev.modes /\ ev.tag = fdseq'
        BY <1>3
      <4> QED
        BY <4>1 DEF UnderWay
    <3> QED
      BY <1>3, <3>1
  <2>2. \A n \in Mode : UnderWay(n) => UnderWay(n)'
    BY <1>3 DEF UnderWay
  <2>3. \A g \in G : pc[g] \in Announced => mode[g] \in Mode
    BY Alone DEF InIO, Announced
  <2> QED
    BY <1>3, <1>4, <2>1, <2>2, <2>3 DEF PollInv, InputInv, In, Announced
<1>9. PollInv'
  BY <1>3, <1>4, <1>8, RgStays, ErrorStays DEF PollInv
<1> QED
  BY <1>3, <1>4, <1>5, <1>6, <1>7, <1>9

-----------------------------------------------------------------------------
(* The other steps of goroutines on the pollDesc.                          *)

(* Nobody is left in a descriptor that is being destroyed.                 *)
LEMMA Deserted ==
  ASSUME FDInv, FDAssumption, In(Destroying) # {} \/ destroyed
  PROVE  /\ closed /\ closing
         /\ \A g \in G : /\ use[g] \notin {"hold", "ref", "closing"}
                         /\ pc[g] \notin InIO \cup {"set", "decref", "evict"}
         /\ \A m \in Mode : rg[m] \in {"nil", "ready"}
<1>1. closed /\ refs = 0
  BY DEF FDInv, CloseInv
<1>2. \A g \in G : use[g] \notin {"hold", "ref", "closing"}
  BY <1>1, InsideAlone DEF FDInv
<1>3. \A g \in G : pc[g] \notin InIO \cup {"set", "decref", "evict"}
  BY <1>2 DEF FDInv, PcInv, PcUse
<1>4. closing
  BY <1>1, <1>3 DEF FDInv, CloseInv, In
<1>5. \A m \in Mode : rg[m] \notin G /\ rg[m] # "wait"
  BY <1>3 DEF FDInv, PollInv, RgInv, In, InIO
<1> QED
  BY <1>1, <1>2, <1>3, <1>4, <1>5 DEF FDInv, TypeOK

LEMMA SetInv ==
  ASSUME FDInv, FDAssumption, NEW g \in G, NEW ms \in SUBSET Mode, NEW t \in Int,
         Set(g, ms, t)
  PROVE  FDInv'
<1> USE DEF FDInv
<1>1. /\ pc[g] = "set" /\ Goto(g, "decref") /\ PD!PollSetDeadline(g, ms, t)
      /\ UNCHANGED <<muvars, fdvars, closer, csema, destroyed, left>>
      /\ UNCHANGED <<fdseq, closing, eventErr, rg, fired, woken, now,
                     events, delivering, registered, readable>>
      /\ pdlock = PD!Unlocked
  BY DEF Set, At, PD!PollSetDeadline, PD!info, PD!kernel, PD!timers, PD!LockPd, fdvars
<1>2. /\ MuInv' /\ PcInv' /\ CloseInv'
      /\ pc' \in [G -> FDPC] /\ pc'[g] = "decref"
      /\ \A h \in G : (h # g => pc'[h] = pc[h]) /\ mode'[h] = mode[h]
  <2>1. PcUse("decref", use[g])
    BY <1>1 DEF PcInv, PcUse, InIO, Destroying
  <2> QED
    BY <1>1, <2>1, GoesOn DEF FDPC, Destroying
<1>3. TimerInv'
  BY <1>1, TimerSets, TypesOfTimers
<1>4. mode' = mode
  BY <1>1 DEF muvars
<1>5. CASE closing /\ UNCHANGED <<deadline, seq, timer, pdlock>>
  <2>1. TypeOK'
    BY <1>1, <1>2, <1>5, PdTypes DEF TypeOK, TimerTypes
  <2>2. PollInv'
    BY <1>1, <1>2, <1>4, <1>5, RgStays, InputStays, ErrorStays DEF PollInv, Announced
  <2> QED
    BY <1>2, <1>3, <2>1, <2>2
<1>6. CASE ~closing
  <2> DEFINE d == [m \in Mode |-> IF m \notin ms THEN deadline[m]
                                  ELSE IF t > 0 THEN now + t ELSE t]
  <2>1. /\ deadline' = d
        /\ seq' = [m \in Mode |-> PD!NextSeq(d, m)]
        /\ timer' = [m \in Mode |-> PD!NextTimer(d, m)]
        /\ PD!LockPd(g, {m \in Mode : d[m] < 0})
    BY <1>1, <1>6, TwoModes DEF PD!PollSetDeadline
  <2>2. d \in [Mode -> Int]
    BY DEF TypeOK
  <2> HIDE DEF d
  <2>3. seq' \in [Mode -> Nat]
    BY <2>1 DEF PD!NextSeq, TypeOK
  <2>4. timer' \in [Mode -> TimerRecord]
    <3> SUFFICES ASSUME NEW m \in Mode PROVE PD!NextTimer(d, m) \in TimerRecord
      BY <2>1
    <3>1. d \in [Mode -> Int]
      BY <2>2
    <3>2. PD!Covers(d, m) \in SUBSET Mode /\ (PD!Covers(d, m) # {} => d[m] > 0)
      BY <3>1, CoversIs
    <3>3. PD!NextSeq(d, m) \in Nat /\ timer[m] \in TimerRecord /\ d[m] \in Int
      BY <2>2 DEF PD!NextSeq, TypeOK
    <3>4. PD!NoTimer \in TimerRecord
      BY DEF PD!NoTimer, TimerRecord
    <3>5. PD!Covers(d, m) # {} =>
            [f |-> PD!Covers(d, m), armed |-> TRUE, seq |-> PD!NextSeq(d, m), when |-> d[m]]
              \in TimerRecord
      BY <3>2, <3>3 DEF TimerRecord
    <3> QED
      BY <3>3, <3>4, <3>5 DEF PD!NextTimer
  <2>5. /\ pdlock' \in [by : G \cup {NoG, TheTimer}, todo : SUBSET Mode]
        /\ pdlock'.todo = {m \in Mode : d[m] < 0}
    BY <1>1, <2>1 DEF PD!LockPd, PD!Unlocked
  <2>6. TypeOK'
    BY <1>1, <1>2, <2>1, <2>2, <2>3, <2>4, <2>5, PdTypes DEF TypeOK, TimerTypes
  <2>7. ErrorInv'
    <3> SUFFICES ASSUME NEW h \in G, pc'[h] \in {"commit", "parked"}, d[mode[h]] < 0
                 PROVE  mode[h] \in pdlock'.todo
      BY <1>1, <1>4, <1>6, <2>1 DEF ErrorInv, In
    <3>1. mode[h] \in Mode
      BY <1>2, Alone DEF InIO
    <3> QED
      BY <2>5, <3>1
  <2>8. PollInv'
    BY <1>1, <1>2, <1>4, <2>7, RgStays, InputStays DEF PollInv, Announced
  <2> QED
    BY <1>2, <1>3, <2>6, <2>8
<1> QED
  BY <1>1, <1>5, <1>6 DEF PD!PollSetDeadline, PD!LockPd, PD!timers

LEMMA EvictInv ==
  ASSUME FDInv, FDAssumption, NEW g \in G, Evict(g) PROVE FDInv'
<1> USE DEF FDInv
<1>1. /\ pc[g] = "evict" /\ Goto(g, "decref") /\ PD!PollUnblock(g)
      /\ UNCHANGED <<muvars, closer, csema, destroyed, left>>
      /\ closing' = TRUE
      /\ seq' = [m \in Mode |-> seq[m] + 1] /\ timer' = [m \in Mode |-> PD!NoTimer]
      /\ pdlock' = [by |-> g, todo |-> Mode]
      /\ UNCHANGED <<fdseq, eventErr, rg, deadline, fired, woken, now,
                     events, delivering, registered, readable>>
  BY TwoModes DEF Evict, At, PD!PollUnblock, PD!kernel, PD!LockPd, fdvars
<1>2. /\ pc' = [pc EXCEPT ![g] = "decref"] /\ pc'[g] = "decref"
      /\ \A h \in G : h # g => pc'[h] = pc[h]
  BY <1>1 DEF Goto, TypeOK
<1>3. MuInv' /\ UNCHANGED <<use, mode, closed, refs, toWake>>
  BY <1>1, StutterInv DEF muvars, state
<1>4. PcInv'
  <2>1. \A h \in G : PcUse(pc'[h], use'[h])
    BY <1>1, <1>2, <1>3 DEF PcInv, PcUse, InIO, Destroying
  <2> QED
    BY <2>1 DEF PcInv, PcUse
<1>5. CloseInv'
  <2>1. In({"evict"}) = {g} /\ closed
    BY <1>1 DEF CloseInv, In
  <2>2. In({"evict"})' = {}
    BY <1>2, <2>1 DEF In
  <2>3. In(Destroying)' = In(Destroying)
    BY <1>1, <1>2 DEF In, Destroying
  <2> QED
    BY <1>1, <1>3, <2>1, <2>2, <2>3 DEF CloseInv, Zeros
<1>6. TimerInv'
  BY <1>1, TimerUnblockAll, TypesOfTimers
<1>7. TypeOK'
  <2>1. seq' \in [Mode -> Nat] /\ timer' \in [Mode -> TimerRecord]
    BY <1>1 DEF TypeOK, PD!NoTimer, TimerRecord
  <2> QED
    BY <1>1, <1>2, <1>3, <2>1, PdTypes DEF TypeOK, TimerTypes, FDPC
<1>8. ErrorInv'
  <2>1. \A h \in G : pc'[h] \in {"commit", "parked"} => mode[h] \in Mode
    BY <1>2, Alone DEF InIO
  <2> QED
    BY <1>1, <1>3, <2>1 DEF ErrorInv, In
<1>9. PollInv'
  BY <1>1, <1>2, <1>3, <1>8, RgStays, InputStays DEF PollInv, Announced
<1> QED
  BY <1>3, <1>4, <1>5, <1>6, <1>7, <1>9

LEMMA DestroyInv ==
  ASSUME FDInv, NEW g \in G, Destroy(g) PROVE FDInv'
<1> USE DEF FDInv
<1>1. /\ pc[g] = "destroy" /\ Goto(g, "free") /\ registered' = FALSE
      /\ UNCHANGED <<muvars, fdvars, closer, csema, destroyed, left>>
      /\ UNCHANGED <<fdseq, closing, eventErr, rg, deadline, seq, timer, pdlock, fired, woken,
                     now, events, delivering, readable>>
  BY DEF Destroy, At, PD!PollClose, PD!info, PD!timers, fdvars
<1>2. /\ MuInv' /\ PcInv' /\ CloseInv'
      /\ pc' \in [G -> FDPC] /\ pc'[g] = "free"
      /\ \A h \in G : (h # g => pc'[h] = pc[h]) /\ mode'[h] = mode[h]
  <2>1. PcUse("free", use[g])
    BY <1>1 DEF PcInv, PcUse, InIO, Destroying
  <2> QED
    BY <1>1, <2>1, GoesOn DEF FDPC, Destroying
<1>3. mode' = mode
  BY <1>1 DEF muvars
<1>4. TypeOK'
  BY <1>1, <1>2, PdTypes DEF TypeOK, TimerTypes
<1>5. PollInv' /\ TimerInv'
  BY <1>1, <1>2, <1>3, RgStays, InputStays, ErrorStays, TimerStays DEF PollInv, Announced
<1> QED
  BY <1>2, <1>4, <1>5

LEMMA FreePdInv ==
  ASSUME FDInv, FDAssumption, NEW g \in G, FreePd(g) PROVE FDInv'
<1> USE DEF FDInv
<1>1. /\ pc[g] = "free" /\ Goto(g, "sysclose") /\ fdseq' = fdseq + 1
      /\ UNCHANGED <<muvars, fdvars, closer, csema, destroyed, left>>
      /\ UNCHANGED <<closing, eventErr, rg, deadline, seq, timer, pdlock, fired, woken,
                     now, events, delivering, registered, readable>>
  BY DEF FreePd, At, PD!Free, PD!LockPd, PD!info, PD!timers, PD!kernel, fdvars
<1>2. /\ MuInv' /\ PcInv' /\ CloseInv'
      /\ pc' \in [G -> FDPC] /\ pc'[g] = "sysclose"
      /\ \A h \in G : (h # g => pc'[h] = pc[h]) /\ mode'[h] = mode[h]
  <2>1. PcUse("sysclose", use[g])
    BY <1>1 DEF PcInv, PcUse, InIO, Destroying
  <2> QED
    BY <1>1, <2>1, GoesOn DEF FDPC, Destroying
<1>3. mode' = mode
  BY <1>1 DEF muvars
<1>4. TypeOK'
  BY <1>1, <1>2, PdTypes DEF TypeOK, TimerTypes
<1>5. \A h \in G : pc'[h] \notin Announced
  <2>1. g \in In(Destroying)
    BY <1>1 DEF In, Destroying
  <2> QED
    BY <1>2, <2>1, Deserted DEF Announced, InIO
<1>6. InputInv'
  BY <1>5 DEF InputInv, In, Announced
<1>7. PollInv' /\ TimerInv'
  BY <1>1, <1>2, <1>3, <1>6, RgStays, ErrorStays, TimerStays DEF PollInv, Announced
<1> QED
  BY <1>2, <1>4, <1>7

LEMMA ReopenInv ==
  ASSUME FDInv, FDAssumption, Reopen PROVE FDInv'
<1> USE DEF FDInv
<1>1. /\ destroyed /\ closed' = FALSE /\ destroyed' = FALSE /\ PD!PollOpen
      /\ \A g \in G : pc[g] = "out" /\ use[g] = "none"
      /\ UNCHANGED <<locked, refs, waiters, sems, use, mode, toWake, pc, closer, csema>>
      /\ left.opens > 0 /\ left' = [left EXCEPT !.opens = @ - 1]
      /\ closing' = FALSE /\ eventErr' = FALSE /\ registered' = TRUE
      /\ seq' = [m \in Mode |-> seq[m] + 1]
      /\ rg' = [m \in Mode |-> "nil"]
      /\ deadline' = [m \in Mode |-> 0]
      /\ readable' = [m \in Mode |-> FALSE]
      /\ UNCHANGED <<fdseq, timer, fired, woken, events, delivering, now, pdlock>>
  BY TwoModes DEF Reopen, PD!PollOpen, PD!LockPd
<1>2. closing /\ closed
  BY <1>1, Deserted
<1>3. toWake = Zeros
  BY <1>1 DEF CloseInv
<1>4. MuInv'
  <2>1. MuTypeOK' /\ UseInv'
    BY <1>1, <1>3 DEF MuInv, MuTypeOK, UseInv, sems, Zeros
  <2>2. Inside' = Inside /\ \A v, n : Cnt(v, n)' = Cnt(v, n)
    BY <1>1, CntStay
  <2>3. waiters' = Zeros
    BY <1>1, <1>2 DEF MuInv, NoLockForgotten
  <2> QED
    BY <1>1, <2>1, <2>2, <2>3, Counts, CountsNext DEF MuInv, sems, Zeros
<1>5. PcInv'
  BY <1>1 DEF PcInv, PcUse
<1>6. CloseInv'
  BY <1>1, <1>3 DEF CloseInv, In, Zeros, Destroying
<1>7. TimerInv'
  BY <1>1, <1>2, TimerOpen, TypesOfTimers
<1>8. TypeOK'
  <2>1. left' \in Scenario
    BY <1>1 DEF TypeOK, Scenario
  <2>2. seq' \in [Mode -> Nat]
    BY <1>1 DEF TypeOK
  <2>3. deadline' \in [Mode -> Int]
    BY <1>1 DEF TypeOK
  <2> QED
    BY <1>1, <1>4, <2>1, <2>2, <2>3, PdTypes DEF TypeOK, TimerTypes
<1>9. PollInv'
  <2>1. \A h \in G : pc'[h] = "out"
    BY <1>1
  <2>2. woken' = {}
    BY <1>1 DEF PollInv, RgInv, In
  <2>3. "nil" \notin G
    BY DEF FDAssumption
  <2>4. RgInv'
    BY <1>1, <2>1, <2>2, <2>3 DEF RgInv, In
  <2>5. InputInv' /\ ErrorInv'
    BY <2>1 DEF InputInv, ErrorInv, In
  <2> QED
    BY <2>4, <2>5 DEF PollInv
<1> QED
  BY <1>4, <1>5, <1>6, <1>7, <1>8, <1>9

-----------------------------------------------------------------------------
(* FDInv is inductive, and each step keeps to the deadlines.               *)

KeepsTime ==
  \A m \in Mode : deadline[m] > 0 /\ deadline'[m] = -1 /\ pdlock'.by = TheTimer
                    => deadline[m] <= now

LEMMA FDInit ==
  ASSUME Init PROVE FDInv
<1> USE DEF Init
<1>1. MuInv
  BY InitInv
<1>2. /\ fdseq = 1 /\ closing = FALSE /\ eventErr = FALSE
      /\ rg = [m \in Mode |-> "nil"] /\ deadline = [m \in Mode |-> 0]
      /\ seq = [m \in Mode |-> 1] /\ timer = [m \in Mode |-> PD!NoTimer]
      /\ pdlock = PD!Unlocked /\ fired = {} /\ woken = {} /\ events = {} /\ delivering = {}
      /\ registered = TRUE /\ readable = [m \in Mode |-> FALSE] /\ now = 0
  BY TwoModes DEF PD!PdInit
<1>3. TypeOK
  <2>1. timer \in [Mode -> TimerRecord]
    BY <1>2 DEF PD!NoTimer, TimerRecord
  <2>2. pdlock \in [by : G \cup {NoG, TheTimer}, todo : SUBSET Mode]
    BY <1>2 DEF PD!Unlocked
  <2>3. left \in Scenario
    BY FDAssumption
  <2>4. deadline \in [Mode -> Int]
    BY <1>2
  <2> QED
    BY <1>1, <1>2, <2>1, <2>2, <2>3, <2>4 DEF TypeOK, MuInv, FDPC
<1>4. PcInv
  BY DEF MuInit, PcInv, PcUse, InIO, Destroying
<1>5. CloseInv
  BY <1>2 DEF MuInit, CloseInv, In, Destroying
<1>6. PollInv
  <2>1. "nil" \notin G
    BY FDAssumption DEF FDAssumption
  <2> QED
    BY <1>2, <2>1 DEF PollInv, RgInv, InputInv, ErrorInv, In
<1>7. TimerInv
  BY <1>2, FDAssumption
  DEF TimerInv, TimersAgree, FiredAgree, HalfExpired, DeadlinesPending, PD!NoTimer, PD!Unlocked,
      FDAssumption
<1> QED
  BY <1>1, <1>3, <1>4, <1>5, <1>6, <1>7 DEF FDInv

LEMMA CallStep ==
  ASSUME FDInv, NEW g \in G, Call(g) PROVE FDInv' /\ UNCHANGED deadline
<1>1. pc[g] = "out" /\ left' \in Scenario
  BY DEF Call, At, FDInv, TypeOK, Scenario
<1>2. ASSUME NEW m \in left.io[g], Lock(g, m) PROVE FDInv' /\ UNCHANGED deadline
  <2>1. m \in Mode
    BY DEF FDInv, TypeOK, Scenario
  <2> QED
    BY <1>1, <1>2, <2>1, LockInv, PdStays DEF Lock
<1>3. ASSUME SetDeadline(g) PROVE FDInv' /\ UNCHANGED deadline
  BY <1>1, <1>3, SetDeadlineInv, PdStays DEF SetDeadline
<1>4. ASSUME Close(g) PROVE FDInv' /\ UNCHANGED deadline
  BY <1>1, <1>4, CloseStarts, PdStays DEF Close
<1> QED
  BY <1>2, <1>3, <1>4 DEF Call

LEMMA ContinueStep ==
  ASSUME FDInv, NEW g \in G, Continue(g) PROVE FDInv' /\ KeepsTime
<1> USE FDAssumption
<1>0. ASSUME UNCHANGED deadline PROVE KeepsTime
  BY <1>0 DEF KeepsTime
<1>1. ASSUME NEW m \in Mode, Relock(g, m) PROVE FDInv' /\ KeepsTime
  <2>1. Lock(g, m) /\ pc[g] = "lock" /\ left' \in Scenario
    BY <1>1 DEF Relock, At, FDInv, TypeOK
  <2> QED
    BY <1>0, <2>1, LockInv, PdStays DEF Lock
<1>2. ASSUME LockFails(g) \/ Prepare(g) \/ Unlock(g) \/ Wake(g) \/ DecrefFD(g)
             \/ CloseWakes(g) \/ SysClose(g) \/ Closed(g)
      PROVE  FDInv' /\ KeepsTime
  <2>1. UNCHANGED pdvars
    BY <1>2 DEF LockFails, Prepare, Unlock, Wake, DecrefFD, CloseWakes, SysClose, Closed
  <2> QED
    BY <1>0, <1>2, <2>1, PdStays, LockFailsInv, PrepareInv, UnlockInv, WakeInv, DecrefFDInv,
       CloseWakesInv, SysCloseInv, ClosedInv
<1>3. ASSUME Reset(g) \/ Syscall(g) \/ Check(g) \/ Block(g) \/ Recheck(g)
             \/ Commit(g) \/ Ready(g) \/ Swap(g)
      PROVE  FDInv' /\ KeepsTime
  <2>1. UNCHANGED deadline
    BY <1>3, PdStays
    DEF Reset, Syscall, Check, Block, Recheck, Commit, Ready, Swap, PdUnchangedButRg
  <2> QED
    BY <1>0, <1>3, <2>1, ResetInv, SyscallInv, CheckInv, BlockInv, RecheckInv, CommitInv,
       ReadyInv, SwapInv
<1>4. ASSUME Evict(g) \/ Destroy(g) \/ FreePd(g) PROVE FDInv' /\ KeepsTime
  <2>1. UNCHANGED deadline
    BY <1>4 DEF Evict, Destroy, FreePd, PD!PollUnblock, PD!PollClose, PD!Free, PD!timers
  <2> QED
    BY <1>0, <1>4, <2>1, EvictInv, DestroyInv, FreePdInv
<1>5. ASSUME NEW d \in left.deadlines, Set(g, d[1], d[2]) PROVE FDInv' /\ KeepsTime
  <2>1. d[1] \in SUBSET Mode /\ d[2] \in Int
    BY DEF FDInv, TypeOK, Scenario
  <2>2. pdlock'.by # TheTimer
    <3>1. \E todo : PD!LockPd(g, todo)
      BY <1>5 DEF Set, PD!PollSetDeadline
    <3> QED
      BY <3>1 DEF PD!LockPd, PD!Unlocked, FDAssumption
  <2> QED
    BY <1>5, <2>1, <2>2, SetInv DEF KeepsTime
<1> QED
  BY <1>1, <1>2, <1>3, <1>4, <1>5 DEF Continue

LEMMA FDStep ==
  ASSUME FDInv, [Next]_vars PROVE FDInv' /\ (KeepsTime \/ UNCHANGED vars)
<1> USE FDAssumption
<1>0. ASSUME UNCHANGED deadline PROVE KeepsTime
  BY <1>0 DEF KeepsTime
<1>1. ASSUME NEW g \in G, Call(g) PROVE FDInv' /\ KeepsTime
  BY <1>0, <1>1, CallStep
<1>2. ASSUME NEW g \in G, Continue(g) \/ LockWoken(g) PROVE FDInv' /\ KeepsTime
  BY <1>0, <1>2, ContinueStep, LockWokenInv, PdStays DEF LockWoken
<1>3. ASSUME NEW m \in Mode, TimerFires(m) \/ Polls(m) \/ Delivers(m) PROVE FDInv' /\ KeepsTime
  BY <1>0, <1>3, TimerFiresInv, PollsInv, DeliversInv
<1>4. ASSUME Unblocks \/ TimePasses \/ TimerRuns PROVE FDInv' /\ KeepsTime
  BY <1>0, <1>4, UnblocksInv, TicksInv, TimerRunsInv DEF KeepsTime
<1>5. ASSUME Arrives PROVE FDInv' /\ KeepsTime
  BY <1>0, <1>5, ArrivesInv
<1>6. ASSUME Reopen PROVE FDInv' /\ KeepsTime
  <2>1. \A m \in Mode : deadline'[m] = 0
    BY <1>6, TwoModes DEF Reopen, PD!PollOpen
  <2> QED
    BY <1>6, <2>1, ReopenInv DEF KeepsTime
<1>7. ASSUME UNCHANGED vars PROVE FDInv'
  <2>1. UNCHANGED <<muvars, pdvars, use, mode, closed, refs, toWake, pc, closer, csema,
                    destroyed, left>>
    BY <1>7 DEF vars, muvars, state
  <2>2. MuInv'
    BY <2>1, StutterInv DEF FDInv
  <2>3. TypeOK'
    BY <2>1, <2>2, TypesStay DEF FDInv, TypeOK
  <2>4. PcInv'
    BY <2>1 DEF FDInv, PcInv, PcUse
  <2>5. CloseInv'
    BY <2>1, CloseStays, PdStays DEF FDInv
  <2>6. PollInv' /\ TimerInv'
    BY <2>1, PollStays DEF FDInv
  <2> QED
    BY <2>2, <2>3, <2>4, <2>5, <2>6 DEF FDInv
<1> QED
  BY <1>1, <1>2, <1>3, <1>4, <1>5, <1>6, <1>7 DEF Next, Progress
-----------------------------------------------------------------------------
(* The theorems.                                                           *)

(* All of FDInv holds in every state, whatever the scenario.               *)
THEOREM FDInvariant == Spec => []FDInv
<1>1. Init => FDInv
  BY FDInit
<1>2. FDInv /\ [Next]_vars => FDInv'
  BY FDStep
<1> QED
  BY <1>1, <1>2, PTL DEF Spec, Safety

(* Every variable keeps to its type: the reference count and the sequence  *)
(* numbers are never negative, and rg is a word or a goroutine.            *)
THEOREM FDTypeCorrect == Spec => []TypeOK
<1>1. FDInv => TypeOK
  BY DEF FDInv
<1> QED
  BY <1>1, FDInvariant, PTL

(* Reads, writes and Close use the fdMutex in a balanced way, also when    *)
(* the descriptor is closed and its pollDesc used again: whoever sleeps    *)
(* for one of its locks is counted, has a permit, or is about to be given  *)
(* one.                                                                    *)
THEOREM FDSleepersCounted == Spec => []SleepersCounted
<1>1. FDInv => SleepersCounted
  BY DEF FDInv, MuInv
<1> QED
  BY <1>1, FDInvariant, PTL

(* A descriptor is destroyed by one goroutine, once, and nobody is in a    *)
(* read, a write, SetDeadline or Close's eviction from then on.            *)
THEOREM FDDestroyedLast == Spec => []DestroyedLast
<1>1. ASSUME FDInv PROVE DestroyedLast
  <2>1. In(Destroying) # {} \/ destroyed => In(InIO \cup {"set", "decref", "evict"}) = {}
    BY <1>1, Deserted, FDAssumption DEF In
  <2>2. Cardinality(In(Destroying)) + (IF destroyed THEN 1 ELSE 0) <= 1
    <3>1. CASE In(Destroying) = {}
      BY <3>1, FS_EmptySet
    <3>2. CASE In(Destroying) # {}
      <4>1. ~destroyed
        BY <1>1, <3>2 DEF FDInv, CloseInv
      <4>2. PICK g \in In(Destroying) : In(Destroying) = {g}
        BY <1>1, <3>2 DEF FDInv, CloseInv
      <4> QED
        BY <4>1, <4>2, FS_Singleton
    <3> QED
      BY <3>1, <3>2
  <2> QED
    BY <2>1, <2>2 DEF DestroyedLast
<1>2. FDInv => DestroyedLast
  BY <1>1
<1> QED
  BY <1>2, FDInvariant, PTL

(* The poller never meets the states in which it throws.                   *)
THEOREM FDNoThrow == Spec => []NoThrow
<1>1. ASSUME FDInv PROVE NoThrow
  <2>1. \A g \in In({"block"}) : rg[mode[g]] \in {"nil", "ready"}
    <3> SUFFICES ASSUME NEW g \in G, pc[g] = "block" PROVE rg[mode[g]] \in {"nil", "ready"}
      BY DEF In
    <3> QED
      BY <1>1, IoState, FDAssumption DEF InIO
  <2>2. \A g \in In({"swap"}) : rg[mode[g]] \notin G
    <3> SUFFICES ASSUME NEW g \in G, pc[g] = "swap" PROVE rg[mode[g]] \notin G
      BY DEF In
    <3> QED
      BY <1>1, IoState, FDAssumption DEF InIO
  <2>3. ASSUME NEW x \in fired, ~PD!Stale(x)
        PROVE  (\A m \in x.f : deadline[m] > 0) /\ timer[PD!FirstOf(x.f)].f # {}
    <3> DEFINE k == PD!FirstOf(x.f)
    <3>1. x.f \in SUBSET Mode /\ x.f # {} /\ k \in x.f /\ deadline \in [Mode -> Int]
      BY <1>1, FirstOfIs DEF FDInv, TypeOK, TimerInv, FiredAgree
    <3>2. timer[k].f = x.f /\ deadline[k] > 0
      BY <1>1, <2>3 DEF FDInv, TypeOK, TimerInv, FiredAgree
    <3>3. x.f = PD!Covers(deadline, k)
      BY <1>1, <3>1, <3>2 DEF FDInv, TimerInv, TimersAgree
    <3>4. CASE PD!Combo(deadline)
      BY <3>1, <3>2, <3>4, CoversIs, TwoModes
    <3>5. CASE ~PD!Combo(deadline)
      BY <3>1, <3>2, <3>3, <3>5, CoversIs
    <3> QED
      BY <3>1, <3>2, <3>4, <3>5
  <2>4. In({"evict"}) # {} => ~closing
    BY <1>1 DEF FDInv, CloseInv
  <2>5. In({"destroy"}) # {} => closing
    BY <1>1, Deserted, FDAssumption DEF In, Destroying
  <2>6. In(Destroying) # {} \/ destroyed => \A m \in Mode : rg[m] \in {"nil", "ready"}
    BY <1>1, Deserted, FDAssumption
  <2> QED
    BY <2>1, <2>2, <2>3, <2>4, <2>5, <2>6 DEF NoThrow
<1>2. FDInv => NoThrow
  BY <1>1
<1> QED
  BY <1>2, FDInvariant, PTL

(* Nobody sleeps in the poller whom no event, timer, deadline or Close     *)
(* that concerns him is going to find.                                     *)
THEOREM FDForgetsNoSleeper == Spec => []NoSleeperForgotten
<1>1. ASSUME FDInv PROVE NoSleeperForgotten
  <2>1. PD!DeadlineArmed
    <3> SUFFICES ASSUME NEW m \in Mode, deadline[m] > 0, ~closing,
                        ~(pdlock.by = TheTimer /\ m \in pdlock.todo)
                 PROVE  \/ \E n \in Mode :
                             /\ timer[n].armed /\ m \in timer[n].f
                             /\ timer[n].seq = seq[n] /\ timer[n].when = deadline[m]
                        \/ \E x \in fired : m \in x.f /\ ~PD!Stale(x)
      BY TwoModes DEF PD!DeadlineArmed
    <3> DEFINE n == TimerOf(m)
    <3>1. deadline \in [Mode -> Int]
      BY <1>1 DEF FDInv, TypeOK
    <3>2. n \in Mode /\ deadline[n] = deadline[m] /\ m \in PD!Covers(deadline, n)
      BY <3>1, TwoModes, CoversIs DEF TimerOf
    <3> HIDE DEF n
    <3>3. Pending(n)
      BY <1>1 DEF FDInv, TimerInv, DeadlinesPending, n
    <3>4. timer[n].f # {}
      BY <3>3 DEF Pending
    <3>5. /\ timer[n].f = PD!Covers(deadline, n) /\ PD!FirstOf(timer[n].f) = n
          /\ timer[n].seq = seq[n]
          /\ timer[n].armed => timer[n].when = deadline[n]
      BY <1>1, <3>2, <3>4 DEF FDInv, TimerInv, TimersAgree
    <3>6. CASE timer[n].armed
      BY <3>2, <3>5, <3>6
    <3>7. CASE [f |-> timer[n].f, seq |-> seq[n]] \in fired
      BY <3>2, <3>5, <3>7 DEF PD!Stale, PD!CurrentSeq
    <3> QED
      BY <3>3, <3>6, <3>7 DEF Pending
  <2>2. ASSUME NEW g \in G, pc[g] = "parked", g \notin woken
        PROVE  /\ rg[mode[g]] = g
               /\ readable[mode[g]] =>
                    \E e \in events \cup delivering : mode[g] \in e.modes /\ e.tag = fdseq
               /\ closing \/ deadline[mode[g]] < 0 => mode[g] \in pdlock.todo
    <3>1. rg[mode[g]] = g
      BY <1>1, <2>2 DEF FDInv, PollInv, RgInv, In
    <3>2. g # "ready"
      BY FDAssumption DEF FDAssumption
    <3>3. readable[mode[g]] => UnderWay(mode[g])
      BY <1>1, <2>2, <3>1, <3>2 DEF FDInv, PollInv, InputInv, In
    <3>4. closing \/ deadline[mode[g]] < 0 => mode[g] \in pdlock.todo
      BY <1>1, <2>2, <3>1 DEF FDInv, PollInv, ErrorInv, In
    <3> QED
      BY <3>1, <3>3, <3>4 DEF UnderWay
  <2> QED
    BY <2>1, <2>2 DEF NoSleeperForgotten, In
<1>2. FDInv => NoSleeperForgotten
  BY <1>1
<1> QED
  BY <1>2, FDInvariant, PTL

(* A timer expires no deadline that lies ahead, whatever timers of earlier *)
(* deadlines, or of an earlier use of the pollDesc, are still running.     *)
THEOREM FDOnTime == Spec => OnTime
<1>1. FDInv /\ [Next]_vars =>
        [\A m \in Mode : deadline[m] > 0 /\ deadline'[m] = -1 /\ pdlock'.by = TheTimer
                           => deadline[m] <= now]_vars
  BY FDStep DEF KeepsTime
<1> QED
  BY <1>1, FDInvariant, PTL DEF OnTime, Spec, Safety
=============================================================================
