------------------------------- MODULE Lock -------------------------------
(***************************************************************************)
(* What sync.Mutex promises: at most one holder, which only its Unlock     *)
(* ends, and no free lock that waiting goroutines leave alone forever.     *)
(* Which of the goroutines that want the lock gets it is not promised, and *)
(* TryLock may fail at any time.                                           *)
(***************************************************************************)
CONSTANTS
  G,        \* goroutines
  NoG       \* "nobody"

VARIABLES
  holder,   \* who holds the lock
  wants     \* goroutines in Lock

vars == <<holder, wants>>

Init == holder = NoG /\ wants = {}

Request(g) ==
  /\ g \notin wants /\ holder # g
  /\ wants' = wants \cup {g}
  /\ UNCHANGED holder

Acquire(g) ==
  /\ g \in wants
  /\ holder = NoG
  /\ holder' = g
  /\ wants' = wants \ {g}

\* TryLock, or a Lock that finds the lock free.
AcquireAtOnce(g) ==
  /\ g \notin wants
  /\ holder = NoG
  /\ holder' = g
  /\ UNCHANGED wants

Release(g) ==
  /\ holder = g
  /\ holder' = NoG
  /\ UNCHANGED wants

AcquireSome == \E g \in G : Acquire(g)

Next == AcquireSome \/ \E g \in G : Request(g) \/ AcquireAtOnce(g) \/ Release(g)

Safety == Init /\ [][Next]_vars

(* A lock that goroutines wait for does not stay free.                     *)
Spec == Safety /\ WF_vars(AcquireSome)
=============================================================================
