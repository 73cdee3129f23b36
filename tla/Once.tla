-------------------------------- MODULE Once --------------------------------
(***************************************************************************)
(* sync.Once (sync/once.go) under the function OnceFunc returns            *)
(* (sync/oncefunc.go), on the abstract Lock for Once.m.  The call of f is  *)
(* the environment's: it ends, by a return or by a panic.  f does not call *)
(* the Once that runs it.                                                  *)
(***************************************************************************)
EXTENDS Integers

CONSTANTS
  G,       \* goroutines
  NoG,     \* "nobody"
  Panics   \* the values f may panic with

\* The marks of a return, and of no end yet, are no values of a panic.
OnceAssumption == NoG \notin G /\ {"ok", "none"} \cap Panics = {}

VARIABLES
  holder, wants,   \* Once.m
  done,            \* Once.done
  valid, p,        \* the variables the closure of OnceFunc captures
  runs, fate,      \* how often f was called; how its call ended
  pc,
  panicking,       \* unwinds from its call of f
  result           \* what a call of the closure comes to

vars == <<holder, wants, done, valid, p, runs, fate, pc, panicking, result>>

Lk == INSTANCE Lock

OncePC == {"out", "do", "lock", "locking", "locked", "call", "f", "store",
           "unlock", "valid", "return"}
Fates == {"ok"} \cup Panics

Init ==
  /\ Lk!Init
  /\ done = FALSE
  /\ valid = FALSE /\ p = "nil"
  /\ runs = 0 /\ fate = "none"
  /\ pc = [g \in G |-> "out"]
  /\ panicking = [g \in G |-> FALSE]
  /\ result = [g \in G |-> "none"]

Goto(g, from, to) == pc[g] = from /\ pc' = [pc EXCEPT ![g] = to]

-----------------------------------------------------------------------------
Call(g) ==
  /\ Goto(g, "out", "do")
  /\ UNCHANGED <<holder, wants, done, valid, p, runs, fate, panicking, result>>

\* Do: the fast path.
Do(g) ==
  /\ Goto(g, "do", IF done THEN "valid" ELSE "lock")
  /\ UNCHANGED <<holder, wants, done, valid, p, runs, fate, panicking, result>>

DoSlowLock(g) ==
  /\ \/ Lk!Request(g) /\ Goto(g, "lock", "locking")
     \/ Lk!Acquire(g) /\ Goto(g, "locking", "locked")
  /\ UNCHANGED <<done, valid, p, runs, fate, panicking, result>>

\* Slip: done is not looked at again under the lock.
DoSlowBlind(g) ==
  /\ Goto(g, "locked", "call")
  /\ UNCHANGED <<holder, wants, done, valid, p, runs, fate, panicking, result>>

\* Slip: the Unlock is not deferred, and the second look at done skips it.
DoSlowKeepsLock(g) ==
  /\ Goto(g, "locked", IF done THEN "valid" ELSE "call")
  /\ UNCHANGED <<holder, wants, done, valid, p, runs, fate, panicking, result>>

DoSlow(g) ==
  /\ Goto(g, "locked", IF done THEN "unlock" ELSE "call")
  /\ UNCHANGED <<holder, wants, done, valid, p, runs, fate, panicking, result>>

CallF(g) ==
  /\ Goto(g, "call", "f")
  /\ runs' = runs + 1
  /\ UNCHANGED <<holder, wants, done, valid, p, fate, panicking, result>>

\* f ends, and with it the closure around it: the deferred function keeps the
\* value of a panic and panics again.
EndF(g, how) ==
  /\ Goto(g, "f", "store")
  /\ fate' = how
  /\ valid' = (how = "ok")
  /\ p' = IF how = "ok" THEN p ELSE how
  /\ panicking' = [panicking EXCEPT ![g] = how # "ok"]
  /\ UNCHANGED <<holder, wants, done, runs, result>>

\* The deferred store, which runs before the deferred Unlock.
Store(g) ==
  /\ Goto(g, "store", "unlock")
  /\ done' = TRUE
  /\ UNCHANGED <<holder, wants, valid, p, runs, fate, panicking, result>>

\* A panic passes by the check of valid.
DoSlowUnlock(g) ==
  /\ Lk!Release(g)
  /\ Goto(g, "unlock", IF panicking[g] THEN "return" ELSE "valid")
  /\ result' = [result EXCEPT ![g] = IF panicking[g] THEN p ELSE @]
  /\ panicking' = [panicking EXCEPT ![g] = FALSE]
  /\ UNCHANGED <<done, valid, p, runs, fate>>

CheckValid(g) ==
  /\ Goto(g, "valid", "return")
  /\ result' = [result EXCEPT ![g] = IF valid THEN "ok" ELSE p]
  /\ UNCHANGED <<holder, wants, done, valid, p, runs, fate, panicking>>

Return(g) ==
  /\ Goto(g, "return", "out")
  /\ result' = [result EXCEPT ![g] = "none"]
  /\ UNCHANGED <<holder, wants, done, valid, p, runs, fate, panicking>>

-----------------------------------------------------------------------------
Continue(g) ==
  \/ Do(g) \/ DoSlow(g) \/ CallF(g) \/ \E how \in Fates : EndF(g, how)
  \/ Store(g) \/ DoSlowUnlock(g) \/ CheckValid(g) \/ Return(g)

Next == \E g \in G : Call(g) \/ DoSlowLock(g) \/ Continue(g)

Safety == Init /\ [][Next]_vars

\* What a goroutine inside a call does when it is scheduled.
Moves(g) == Continue(g) \/ (DoSlowLock(g) /\ pc[g] = "lock")
LockSome == \E g \in G : DoSlowLock(g) /\ pc[g] = "locking"

-----------------------------------------------------------------------------
TypeOK ==
  /\ holder \in G \cup {NoG} /\ wants \in SUBSET G
  /\ done \in BOOLEAN /\ valid \in BOOLEAN
  /\ p \in Panics \cup {"nil"}
  /\ runs \in Nat /\ fate \in Fates \cup {"none"}
  /\ pc \in [G -> OncePC]
  /\ panicking \in [G -> BOOLEAN]
  /\ result \in [G -> Fates \cup {"none"}]

(* However many goroutines call Do, also after a panic of f, f is called   *)
(* once.                                                                   *)
CalledOnce == runs <= 1

(* A call that gets to its end, on the fast path or under the lock, finds  *)
(* that f has ended, and every call comes to the same as the call of f.    *)
SameFate ==
  \A g \in G :
    /\ pc[g] = "valid" => fate # "none"
    /\ pc[g] = "return" => result[g] = fate

(* f is called once for all, and nobody gets past it or comes to anything  *)
(* else.                                                                   *)
OnceForAll == CalledOnce /\ SameFate

(* Every call ends, although the lock is given to no one in particular.    *)
CallsEnd == \A g \in G : pc[g] = "do" ~> pc[g] = "out"
=============================================================================
