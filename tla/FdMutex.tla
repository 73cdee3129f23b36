------------------------------ MODULE FdMutex ------------------------------
(***************************************************************************)
(* fdMutex (internal/poll/fd_mutex.go): one word that tells whether a      *)
(* descriptor is closed, who reads and writes, how many references there   *)
(* are and how many wait for each of the two locks, and a semaphore for    *)
(* each lock, which keeps what Semaphore promises.                         *)
(*                                                                         *)
(* Every operation is a loop round a compare-and-swap of the whole word: a *)
(* round that fails changes nothing, so the load and the swap that         *)
(* succeeds are one step.  The 20-bit fields are unbounded here.           *)
(***************************************************************************)
EXTENDS Integers, FiniteSets

CONSTANTS
  G,        \* goroutines
  NoMode    \* the mode of a goroutine that uses neither lock

Mode == {"r", "w"}

ASSUME FdMutexAssumption ==
  /\ IsFiniteSet(G)
  /\ NoMode \notin Mode

VARIABLES
  closed, locked, refs, waiters,  \* fdMutex.state
  permits, waitsFor,              \* rsema and wsema
  use,      \* what a goroutine is doing with the mutex
  mode,     \* and for which lock
  toWake    \* old, in the wakeup loops of increfAndClose

state == <<closed, locked, refs, waiters>>
sems == <<permits, waitsFor>>
muvars == <<state, sems, use, mode, toWake>>

Sem == INSTANCE Semaphore WITH
  Addr <- Mode, NoAddr <- NoMode, count <- permits, wants <- waitsFor

Uses == {"none", "sem", "retry", "hold", "wake", "ref", "closing"}

Zeros == [m \in Mode |-> 0]

MuInit ==
  /\ closed = FALSE
  /\ locked = [m \in Mode |-> FALSE]
  /\ refs = 0
  /\ waiters = Zeros
  /\ permits = Zeros
  /\ waitsFor = [g \in G |-> NoMode]
  /\ use = [g \in G |-> "none"]
  /\ mode = [g \in G |-> NoMode]
  /\ toWake = Zeros

Become(g, u, m) ==
  /\ use' = [use EXCEPT ![g] = u]
  /\ mode' = [mode EXCEPT ![g] = m]

-----------------------------------------------------------------------------
(* References.  On a closed mutex incref and increfAndClose only return.   *)

Incref(g) ==
  /\ use[g] = "none"
  /\ ~closed
  /\ refs' = refs + 1
  /\ Become(g, "ref", NoMode)
  /\ UNCHANGED <<closed, locked, waiters, sems, toWake>>

\* Slip: leave the waiters in the word, where unlocks find them again.
IncrefAndCloseKeeps(g) ==
  /\ use[g] = "none"
  /\ ~closed
  /\ closed' = TRUE
  /\ refs' = refs + 1
  /\ toWake' = waiters
  /\ Become(g, "closing", NoMode)
  /\ UNCHANGED <<locked, waiters, sems>>

\* increfAndClose: close, and take all waiters out of the word.
IncrefAndClose(g) ==
  /\ use[g] = "none"
  /\ ~closed
  /\ closed' = TRUE
  /\ refs' = refs + 1
  /\ waiters' = Zeros
  /\ toWake' = waiters
  /\ Become(g, "closing", NoMode)
  /\ UNCHANGED <<locked, sems>>

\* One round of its loops, readers first.
CloseWake(g, m) ==
  /\ use[g] = "closing"
  /\ toWake[m] > 0
  /\ m = "w" => toWake["r"] = 0
  /\ toWake' = [toWake EXCEPT ![m] = @ - 1]
  /\ Sem!Give(m)
  /\ UNCHANGED <<state, use, mode>>

Decref(g) ==
  /\ use[g] = "ref" \/ (use[g] = "closing" /\ toWake = Zeros)
  /\ refs' = refs - 1
  /\ Become(g, "none", NoMode)
  /\ UNCHANGED <<closed, locked, waiters, sems, toWake>>

\* Slip: on a closed mutex every reference is taken for the last.
LastOfClosed == closed

\* What decref and rwunlock return: no reference remains.
Last == closed /\ refs' = 0

-----------------------------------------------------------------------------
(* The two locks.                                                          *)

\* At the top of the loop of rwlock: in the call, or back from the semaphore.
Locking(g, m) == use[g] = "none" \/ (use[g] = "retry" /\ mode[g] = m)

RWLock(g, m) ==
  /\ Locking(g, m)
  /\ ~closed /\ ~locked[m]
  /\ locked' = [locked EXCEPT ![m] = TRUE]
  /\ refs' = refs + 1
  /\ Become(g, "hold", m)
  /\ UNCHANGED <<closed, waiters, sems, toWake>>

RWLockWait(g, m) ==
  /\ Locking(g, m)
  /\ ~closed /\ locked[m]
  /\ waiters' = [waiters EXCEPT ![m] = @ + 1]
  /\ Sem!Want(g, m)
  /\ Become(g, "sem", m)
  /\ UNCHANGED <<closed, locked, refs, toWake>>

RWLockWoken(g) ==
  /\ use[g] = "sem"
  /\ Sem!Take(g, mode[g])
  /\ Become(g, "retry", mode[g])
  /\ UNCHANGED <<state, toWake>>

RWLockFails(g) ==
  /\ use[g] = "retry"
  /\ closed
  /\ Become(g, "none", NoMode)
  /\ UNCHANGED <<state, sems, toWake>>

\* Slip: clear the lock and leave the wakeup to the next unlock.
RWUnlockForgets(g, m) ==
  /\ use[g] = "hold" /\ mode[g] = m
  /\ locked' = [locked EXCEPT ![m] = FALSE]
  /\ refs' = refs - 1
  /\ Become(g, "none", NoMode)
  /\ UNCHANGED <<closed, waiters, sems, toWake>>

\* rwunlock takes one waiter out of the word and then wakes it.
RWUnlock(g, m) ==
  /\ use[g] = "hold" /\ mode[g] = m
  /\ locked' = [locked EXCEPT ![m] = FALSE]
  /\ refs' = refs - 1
  /\ \/ /\ waiters[m] > 0
        /\ waiters' = [waiters EXCEPT ![m] = @ - 1]
        /\ Become(g, "wake", m)
     \/ /\ waiters[m] = 0
        /\ Become(g, "none", NoMode)
        /\ UNCHANGED waiters
  /\ UNCHANGED <<closed, sems, toWake>>

UnlockWake(g) ==
  /\ use[g] = "wake"
  /\ Sem!Give(mode[g])
  /\ Become(g, "none", NoMode)
  /\ UNCHANGED <<state, toWake>>

-----------------------------------------------------------------------------
(* Callers that do what they like as long as the calls are balanced.       *)

MuNext ==
  \E g \in G :
    \/ Incref(g) \/ IncrefAndClose(g) \/ Decref(g)
    \/ RWLockWoken(g) \/ RWLockFails(g) \/ UnlockWake(g)
    \/ \E m \in Mode :
         CloseWake(g, m) \/ RWLock(g, m) \/ RWLockWait(g, m) \/ RWUnlock(g, m)

MuSafety == MuInit /\ [][MuNext]_muvars

MuTypeOK ==
  /\ closed \in BOOLEAN
  /\ locked \in [Mode -> BOOLEAN]
  /\ refs \in Nat
  /\ waiters \in [Mode -> Nat]
  /\ permits \in [Mode -> Nat]
  /\ waitsFor \in [G -> Mode \cup {NoMode}]
  /\ use \in [G -> Uses]
  /\ mode \in [G -> Mode \cup {NoMode}]
  /\ toWake \in [Mode -> Nat]

Using(u, m) == {g \in G : use[g] = u /\ mode[g] = m}

Users == {g \in G : use[g] \in {"hold", "ref", "closing"}}

(* The references counted in the word are those of the goroutines inside,  *)
(* and each lock bit stands for one holder: the panics for an              *)
(* "inconsistent poll.fdMutex" cannot arise from balanced calls, and the   *)
(* last reference is the last.                                             *)
RefsExact ==
  /\ refs = Cardinality(Users)
  /\ \A m \in Mode :
       Cardinality(Using("hold", m)) = IF locked[m] THEN 1 ELSE 0

(* Whoever sleeps for a lock is counted in the word, or has a permit, or   *)
(* an unlock or a Close that has taken it out of the word is going to      *)
(* release one: Close and unlocks never wake one waiter twice or skip one. *)
SleepersCounted ==
  \A m \in Mode :
    Cardinality(Using("sem", m)) =
      waiters[m] + permits[m] + toWake[m] + Cardinality(Using("wake", m))

(* A lock is not free beside counted waiters unless one of them is about   *)
(* to try again; a closed descriptor has no counted waiters.               *)
NoLockForgotten ==
  /\ closed => waiters = Zeros
  /\ \A m \in Mode :
       waiters[m] > 0 /\ ~locked[m] =>
         permits[m] + Cardinality(Using("retry", m)) + Cardinality(Using("wake", m)) > 0
=============================================================================
