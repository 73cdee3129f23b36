----------------------------- MODULE MCContext -----------------------------
(***************************************************************************)
(* Contexts over three trees; and sync.Once, on which an AfterFunc relies  *)
(* to start its function or to stop it, but not both.  Context takes a     *)
(* call of Once.Do as one step, so the two are checked side by side: a     *)
(* behaviour is one of contexts, or one of goroutines that call a Once.    *)
(***************************************************************************)
EXTENDS Context, TLC

CONSTANTS
  c1, c2, c3,
  Callers,   \* the goroutines that call the Once
  Panics     \* the values its function may panic with

VARIABLES
  scene,     \* whose behaviour it is
  holder, wants, onceDone, valid, thrown, runs, onceFate, pc, panicking, result

Node(parent, kind, link) == [parent |-> parent, kind |-> kind, link |-> link]

\* A deadline below a cancel, and a function below the deadline.
Chain ==
  c1 :> Node(Background, "cancel", "direct") @@ c2 :> Node(c1, "timer", "direct") @@
  c3 :> Node(c2, "after", "direct")

\* A parent that has to be watched.
Watched ==
  c1 :> Node(Background, "cancel", "direct") @@ c2 :> Node(c1, "cancel", "watch") @@
  c3 :> Node(c2, "cancel", "direct")

\* A deadline first, and a parent with an AfterFunc method.
Hooked ==
  c1 :> Node(Background, "timer", "direct") @@ c2 :> Node(c1, "cancel", "hook") @@
  c3 :> Node(c1, "after", "direct")

AllTrees == {Chain, Watched, Hooked}

-----------------------------------------------------------------------------
oncevars == <<holder, wants, onceDone, valid, thrown, runs, onceFate, pc,
              panicking, result>>

O == INSTANCE Once WITH
  G <- Callers, NoG <- Nobody, done <- onceDone, p <- thrown, fate <- onceFate

ASSUME MCContextAssumption == O!OnceAssumption

SceneInit ==
  /\ Init /\ O!Init
  /\ scene \in {"context", "once"} /\ (scene = "once" => tree = Chain)

SceneNext ==
  \/ scene = "context" /\ Next /\ UNCHANGED <<oncevars, scene>>
  \/ scene = "once" /\ O!Next /\ UNCHANGED <<vars, scene>>

(* Contexts are scheduled as in Spec.  So are the callers of the Once, and *)
(* f ends; its lock is only promised not to stay free while somebody waits *)
(* for it.                                                                 *)
SceneSpec ==
  /\ SceneInit /\ [][SceneNext]_<<vars, oncevars, scene>>
  /\ WF_vars(Progress)
  /\ \A g \in Callers : WF_oncevars(O!Moves(g))
  /\ WF_oncevars(O!LockSome)

(* f is called once for all, and nobody gets past it or comes to anything  *)
(* else (Once.Do, and the closure that OnceFunc returns).                  *)
OnceForAll == O!OnceForAll

(* Every call of the closure ends, although nobody says who gets the lock. *)
CallsEnd == O!CallsEnd
=============================================================================
