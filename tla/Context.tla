------------------------------ MODULE Context ------------------------------
(***************************************************************************)
(* context/context.go: contexts that can be cancelled, by their own cancel *)
(* function, by a deadline or with their parent, and functions registered  *)
(* with AfterFunc.                                                         *)
(*                                                                         *)
(* Calls nest (a cancel calls the cancel of every child while it holds its *)
(* own mutex), so a goroutine has a stack of frames.  What a goroutine     *)
(* does under one c.mu without calling anything is one step.               *)
(***************************************************************************)
EXTENDS Integers, Sequences

CONSTANTS
  G,           \* goroutines of the program
  C,           \* contexts
  Background,  \* the parent of the first ones, which has no Done channel
  Nobody,      \* c.mu is free
  None,        \* c.err is nil
  Trees,       \* each context's parent, kind and link; one is chosen
  MaxCalls     \* bound on the calls that do not create a context

Kinds == {"cancel", "timer", "after"}
Links == {"direct", "watch", "hook"}
Reasons == [err : {"canceled", "deadline"}, by : C]

\* The goroutines of time.AfterFunc and of propagateCancel.
Timer(c) == <<"timer", c>>
Watcher(c) == <<"watch", c>>
Threads == G \cup {Timer(c) : c \in C} \cup {Watcher(c) : c \in C}

ASSUME ContextAssumption ==
  /\ \A tr \in Trees :
       tr \in [C -> [parent : C \cup {Background}, kind : Kinds, link : Links]]
  /\ Background \notin C
  /\ Nobody \notin Threads
  /\ \A c \in C : Timer(c) \notin G /\ Watcher(c) \notin G
  /\ None \notin Reasons

VARIABLES
  tree,
  mu, done, children, err,  \* cancelCtx; err is err and cause
  timer,   \* timerCtx.timer
  fate,    \* afterFuncCtx.once
  hook,    \* an AfterFunc method of the parent, and what became of the call
  made,    \* contexts that have been returned to the program
  stack, calls

locals == <<stack, calls, made, tree>>
vars == <<tree, mu, done, children, err, timer, fate, hook, made, stack, calls>>

Parent(c) == tree[c].parent

Call(name, c) == [at |-> name, c |-> c, rm |-> FALSE, why |-> None, todo |-> {}]

\* cancel(removeFromParent, err, cause)
CancelCall(c, rm, why) == [Call("cancel", c) EXCEPT !.rm = rm, !.why = why]

Reason(e, c) == [err |-> e, by |-> c]

Init ==
  /\ tree \in Trees
  /\ mu = [c \in C |-> Nobody]
  /\ done = [c \in C |-> "nil"]
  /\ children = [c \in C |-> {}]
  /\ err = [c \in C |-> None]
  /\ timer = [c \in C |-> "nil"]
  /\ fate = [c \in C |-> "none"]
  /\ hook = [c \in C |-> "none"]
  /\ made = {}
  /\ stack = [t \in Threads |-> <<>>]
  /\ calls = 0

Top(t) == Head(stack[t])
At(t, at) == stack[t] # <<>> /\ Top(t).at = at

Instead(t, frames) == stack' = [stack EXCEPT ![t] = frames \o Tail(@)]
Goto(t, at) == Instead(t, <<[Top(t) EXCEPT !.at = at]>>)
Pop(t) == Instead(t, <<>>)

Closed(c) == done[c] \in {"closed", "closedchan"}

-----------------------------------------------------------------------------
(* Done.  A new context and a watching goroutine ask for it as well.       *)

\* Slip: the channel is made without a second look.
MakeDoneBlind(c) == done' = [done EXCEPT ![c] = "open"]

MakeDone(c) == done' = [done EXCEPT ![c] = IF @ = "nil" THEN "open" ELSE @]

Asked(f) == IF f.at \in {"new", "newDone"} THEN Parent(f.c) ELSE f.c

Load(t, from, lock, next) ==
  /\ At(t, from)
  /\ Goto(t, IF done[Asked(Top(t))] = "nil" THEN lock ELSE next)
  /\ UNCHANGED <<mu, done, children, err, timer, fate, hook, calls, made, tree>>

Make(t, lock, next) ==
  /\ At(t, lock)
  /\ mu[Asked(Top(t))] = Nobody
  /\ MakeDone(Asked(Top(t)))
  /\ Goto(t, next)
  /\ UNCHANGED <<mu, children, err, timer, fate, hook, calls, made, tree>>

Done(t) ==
  \/ Load(t, "await", "awaitDone", "wait") \/ Make(t, "awaitDone", "wait")
  \/ Load(t, "watch", "watchDone", "watching") \/ Make(t, "watchDone", "watching")
  \/ /\ At(t, "new") => Parent(Top(t).c) # Background
     /\ Load(t, "new", "newDone", "look") \/ Make(t, "newDone", "look")

-----------------------------------------------------------------------------
(* cancel                                                                  *)

\* Where cancel goes on when cancelCtx.cancel is through with the children,
\* or at once if somebody has cancelled c before.
Return(t) ==
  LET f == Top(t) IN
  IF tree[f.c].kind = "cancel" THEN Pop(t) ELSE Goto(t, "finish")

Cancel(t) ==
  LET f == Top(t) IN
  /\ At(t, "cancel")
  /\ mu[f.c] = Nobody
  /\ \/ /\ err[f.c] = None
        /\ err' = [err EXCEPT ![f.c] = f.why]
        /\ done' = [done EXCEPT ![f.c] = IF @ = "nil" THEN "closedchan" ELSE "closed"]
        /\ mu' = [mu EXCEPT ![f.c] = t]
        /\ Instead(t, <<[f EXCEPT !.at = "children", !.todo = children[f.c]]>>)
     \/ /\ err[f.c] # None
        /\ IF f.rm /\ tree[f.c].kind # "cancel" THEN Goto(t, "remove") ELSE Return(t)
        /\ UNCHANGED <<err, done, mu>>
  /\ UNCHANGED <<children, timer, fate, hook, calls, made, tree>>

CancelChild(t) ==
  LET f == Top(t) IN
  /\ At(t, "children")
  /\ \E d \in f.todo :
       Instead(t, <<CancelCall(d, FALSE, f.why), [f EXCEPT !.todo = @ \ {d}]>>)
  /\ UNCHANGED <<mu, done, children, err, timer, fate, hook, calls, made, tree>>

CancelUnlock(t) ==
  LET f == Top(t) IN
  /\ At(t, "children") /\ f.todo = {}
  /\ children' = [children EXCEPT ![f.c] = {}]
  /\ mu' = [mu EXCEPT ![f.c] = Nobody]
  /\ IF f.rm THEN Goto(t, "remove") ELSE Return(t)
  /\ UNCHANGED <<done, err, timer, fate, hook, calls, made, tree>>

\* parentCancelCtx finds the parent's cancelCtx.
CancelCtxOf(c) ==
  tree[c].link = "direct" /\ Parent(c) # Background /\ done[Parent(c)] # "closedchan"

\* removeChild
RemoveChild(t) ==
  LET c == Top(t).c
      p == Parent(c) IN
  /\ At(t, "remove")
  /\ Return(t)
  /\ \/ /\ CancelCtxOf(c)
        /\ mu[p] = Nobody
        /\ children' = [children EXCEPT ![p] = @ \ {c}]
        /\ UNCHANGED hook
     \/ /\ ~CancelCtxOf(c)
        /\ hook' = [hook EXCEPT ![c] = IF @ = "set" THEN "stopped" ELSE @]
        /\ UNCHANGED children
  /\ UNCHANGED <<mu, done, err, timer, fate, calls, made, tree>>

\* The rest of timerCtx.cancel ...
FinishTimer(t) ==
  LET c == Top(t).c IN
  /\ At(t, "finish") /\ tree[c].kind = "timer"
  /\ mu[c] = Nobody
  /\ timer' = [timer EXCEPT ![c] = "nil"]
  /\ Pop(t)
  /\ UNCHANGED <<mu, done, children, err, fate, hook, calls, made, tree>>

\* ... and of afterFuncCtx.cancel.
FinishAfter(t) ==
  LET c == Top(t).c IN
  /\ At(t, "finish") /\ tree[c].kind = "after"
  /\ fate' = [fate EXCEPT ![c] = IF @ = "none" THEN "started" ELSE @]
  /\ Pop(t)
  /\ UNCHANGED <<mu, done, children, err, timer, hook, calls, made, tree>>

Finish(t) == FinishTimer(t) \/ FinishAfter(t)

-----------------------------------------------------------------------------
(* propagateCancel                                                         *)

\* Slip: the child is registered whatever has become of the parent.
RegisterBlind(t) ==
  LET c == Top(t).c
      p == Parent(c) IN
  /\ At(t, "register")
  /\ mu[p] = Nobody
  /\ children' = [children EXCEPT ![p] = @ \cup {c}]
  /\ Goto(t, "made")
  /\ UNCHANGED <<mu, done, err, timer, fate, hook, calls, made, tree>>

\* The parent may have been cancelled since the look at its channel.
Register(t) ==
  LET c == Top(t).c
      p == Parent(c) IN
  /\ At(t, "register")
  /\ mu[p] = Nobody
  /\ \/ /\ err[p] # None
        /\ mu' = [mu EXCEPT ![p] = t]
        /\ Instead(t, <<CancelCall(c, FALSE, err[p]), [Top(t) EXCEPT !.at = "unlock"]>>)
        /\ UNCHANGED children
     \/ /\ err[p] = None
        /\ children' = [children EXCEPT ![p] = @ \cup {c}]
        /\ Goto(t, "made")
        /\ UNCHANGED mu
  /\ UNCHANGED <<done, err, timer, fate, hook, calls, made, tree>>

RegisterUnlock(t) ==
  /\ At(t, "unlock")
  /\ mu' = [mu EXCEPT ![Parent(Top(t).c)] = Nobody]
  /\ Goto(t, "made")
  /\ UNCHANGED <<done, children, err, timer, fate, hook, calls, made, tree>>

\* A parent without a cancelCtx of its own has an AfterFunc method, or gets a
\* goroutine that watches it.
Tie(t) ==
  LET f == Top(t) IN
  \/ /\ tree[f.c].link = "watch"
     /\ stack' = [stack EXCEPT ![t] = <<[f EXCEPT !.at = "made"]>>,
                               ![Watcher(f.c)] = <<Call("watch", f.c)>>]
     /\ UNCHANGED hook
  \/ /\ tree[f.c].link = "hook"
     /\ hook' = [hook EXCEPT ![f.c] = "set"]
     /\ Goto(t, "made")

Look(t) ==
  LET c == Top(t).c IN
  \/ /\ At(t, "look")
     /\ Closed(Parent(c))
     /\ Goto(t, "inherit")
     /\ UNCHANGED <<mu, done, children, err, timer, fate, hook, calls, made, tree>>
  \/ /\ At(t, "look")
     /\ ~Closed(Parent(c))
     /\ \/ tree[c].link = "direct" /\ Goto(t, "register") /\ UNCHANGED hook
        \/ Tie(t)
     /\ UNCHANGED <<mu, done, children, err, timer, fate, calls, made, tree>>

\* child.cancel(false, parent.Err(), Cause(parent))
Inherit(t) ==
  LET f == Top(t)
      p == Parent(f.c) IN
  /\ At(t, "inherit")
  /\ mu[p] = Nobody
  /\ Instead(t, <<CancelCall(f.c, FALSE, err[p])>> \o
                (IF t \in G THEN <<[f EXCEPT !.at = "made"]>> ELSE <<>>))
  /\ UNCHANGED <<mu, done, children, err, timer, fate, hook, calls, made, tree>>

\* The goroutine that waits for a parent it cannot register with.
Watch(t) ==
  LET c == Top(t).c IN
  /\ At(t, "watching")
  /\ \/ Closed(Parent(c)) /\ Goto(t, "inherit")
     \/ Closed(c) /\ Pop(t)
  /\ UNCHANGED <<mu, done, children, err, timer, fate, hook, calls, made, tree>>

-----------------------------------------------------------------------------
(* What remains of WithCancel, WithDeadline and AfterFunc.                 *)

Complete(t) == made' = made \cup {Top(t).c} /\ Pop(t)

Built(t) == At(t, "made") \/ (At(t, "new") /\ Parent(Top(t).c) = Background)

Made(t) ==
  /\ \/ Built(t) /\ tree[Top(t).c].kind # "timer"
     \/ At(t, "expired")
  /\ Complete(t)
  /\ UNCHANGED <<mu, done, children, err, timer, fate, hook, calls, tree>>

Expired(t) ==
  LET f == Top(t) IN
  /\ Built(t) /\ tree[f.c].kind = "timer"
  /\ Instead(t, <<CancelCall(f.c, TRUE, Reason("deadline", f.c)), [f EXCEPT !.at = "expired"]>>)
  /\ UNCHANGED <<mu, done, children, err, timer, fate, hook, calls, made, tree>>

\* Slip: the timer is set although c has been cancelled with its parent.
ArmBlind(t) ==
  LET c == Top(t).c IN
  /\ Built(t) /\ tree[c].kind = "timer"
  /\ mu[c] = Nobody
  /\ timer' = [timer EXCEPT ![c] = "armed"]
  /\ Complete(t)
  /\ UNCHANGED <<mu, done, children, err, fate, hook, calls, tree>>

Arm(t) ==
  LET c == Top(t).c IN
  /\ Built(t) /\ tree[c].kind = "timer"
  /\ mu[c] = Nobody
  /\ timer' = [timer EXCEPT ![c] = IF err[c] = None THEN "armed" ELSE @]
  /\ Complete(t)
  /\ UNCHANGED <<mu, done, children, err, fate, hook, calls, tree>>

-----------------------------------------------------------------------------
(* Waiting for a context: its Done channel, then its Err.                  *)

Wait(t) ==
  /\ At(t, "wait")
  /\ Closed(Top(t).c)
  /\ Goto(t, "err")
  /\ UNCHANGED <<mu, done, children, err, timer, fate, hook, calls, made, tree>>

Err(t) ==
  /\ At(t, "err")
  /\ mu[Top(t).c] = Nobody
  /\ Pop(t)
  /\ UNCHANGED <<mu, done, children, err, timer, fate, hook, calls, made, tree>>

-----------------------------------------------------------------------------
(* Calls, timers and the AfterFunc method of a parent.                     *)

Idle(t) == stack[t] = <<>>
Run(t, frame) == Idle(t) /\ stack' = [stack EXCEPT ![t] = <<frame>>]

Begun == made \cup {stack[g][Len(stack[g])].c : g \in {h \in G : ~Idle(h)}}

New(g, c) ==
  /\ c \notin Begun
  /\ Parent(c) \in made \cup {Background}
  /\ Run(g, Call("new", c))
  /\ UNCHANGED <<mu, done, children, err, timer, fate, hook, calls, made, tree>>

Counted == calls < MaxCalls /\ calls' = calls + 1

\* The function of a WithDeadline that came after its deadline does not remove
\* c from its parent, the cancel in WithDeadline has; like one of a context that
\* was cancelled before its timer was set, it finds c cancelled and no timer.
CancelFunc(g, c) ==
  /\ c \in made /\ tree[c].kind # "after"
  /\ Counted
  /\ \E rm \in BOOLEAN :
       /\ rm \/ (tree[c].kind = "timer" /\ err[c] # None /\ timer[c] = "nil")
       /\ Run(g, CancelCall(c, rm, Reason("canceled", c)))
  /\ UNCHANGED <<mu, done, children, err, timer, fate, hook, made, tree>>

\* The function that AfterFunc returns; once it has lost it does nothing.
Stop(g, c) ==
  /\ c \in made /\ tree[c].kind = "after"
  /\ Counted
  /\ fate[c] = "none"
  /\ fate' = [fate EXCEPT ![c] = "stopped"]
  /\ Run(g, CancelCall(c, TRUE, Reason("canceled", c)))
  /\ UNCHANGED <<mu, done, children, err, timer, hook, made, tree>>

Await(g, c) ==
  /\ c \in made /\ tree[c].kind # "after"
  /\ Counted
  /\ Run(g, Call("await", c))
  /\ UNCHANGED <<mu, done, children, err, timer, fate, hook, made, tree>>

TimerFires(c) ==
  /\ timer[c] = "armed"
  /\ timer' = [timer EXCEPT ![c] = "fired"]
  /\ Run(Timer(c), CancelCall(c, TRUE, Reason("deadline", c)))
  /\ UNCHANGED <<mu, done, children, err, fate, hook, calls, made, tree>>

HookFires(c) ==
  /\ hook[c] = "set" /\ Closed(Parent(c))
  /\ hook' = [hook EXCEPT ![c] = "fired"]
  /\ Run(Watcher(c), Call("inherit", c))
  /\ UNCHANGED <<mu, done, children, err, timer, fate, calls, made, tree>>

Step(t) ==
  \/ Done(t)
  \/ Cancel(t) \/ CancelChild(t) \/ CancelUnlock(t) \/ RemoveChild(t) \/ Finish(t)
  \/ Look(t) \/ Register(t) \/ RegisterUnlock(t) \/ Inherit(t) \/ Watch(t)
  \/ Made(t) \/ Expired(t) \/ Arm(t)
  \/ Wait(t) \/ Err(t)

Progress ==
  \/ \E t \in Threads : Step(t)
  \/ \E c \in C : TimerFires(c) \/ HookFires(c)

Calls(g, c) == New(g, c) \/ CancelFunc(g, c) \/ Stop(g, c) \/ Await(g, c)

Next == Progress \/ \E g \in G, c \in C : Calls(g, c)

(* Goroutines are scheduled and timers fire; calls are bounded.            *)
Spec == Init /\ [][Next]_vars /\ WF_vars(Progress)

-----------------------------------------------------------------------------
Places ==
  {"new", "newDone", "look", "inherit", "register", "unlock", "made", "expired",
   "cancel", "children", "remove", "finish",
   "await", "awaitDone", "wait", "err", "watch", "watchDone", "watching"}

Frames ==
  [at : Places, c : C, rm : BOOLEAN, why : Reasons \cup {None}, todo : SUBSET C]

TypeOK ==
  /\ tree \in Trees
  /\ mu \in [C -> Threads \cup {Nobody}]
  /\ done \in [C -> {"nil", "open", "closed", "closedchan"}]
  /\ children \in [C -> SUBSET C]
  /\ err \in [C -> Reasons \cup {None}]
  /\ timer \in [C -> {"nil", "armed", "fired"}]
  /\ fate \in [C -> {"none", "started", "stopped"}]
  /\ hook \in [C -> {"none", "set", "fired", "stopped"}]
  /\ made \subseteq C
  /\ stack \in [Threads -> Seq(Frames)]
  /\ calls \in Nat

(* A cancel, whoever calls it, has reached every registered descendant by  *)
(* the time it lets go of c.mu, those included whose creation it met: each *)
(* is cancelled, with the error and cause of its parent unless it was      *)
(* cancelled on its own, and its channel is closed.  Functions start only  *)
(* after their context is done.                                            *)
CancelReaches ==
  \A c \in C :
    /\ err[c] # None /\ mu[c] = Nobody =>
         /\ Closed(c)
         /\ \A d \in made : Parent(d) = c /\ tree[d].link = "direct" => err[d] # None
    /\ err[c] # None /\ err[c].by # c => err[c] = err[Parent(c)]
    /\ Closed(c) => err[c] # None
    /\ fate[c] = "started" => Closed(Parent(c))

Cancelling(c) ==
  \E t \in Threads : \E n \in DOMAIN stack[t] :
    stack[t][n].c = c /\ stack[t][n].at \in {"cancel", "children", "remove", "finish"}

(* Of a context that is cancelled nothing is left behind when its cancels  *)
(* have returned: no entry in a parent that lives on, no timer, no call    *)
(* registered with the parent.                                             *)
NothingLeaks ==
  \A c \in C : err[c] # None /\ ~Cancelling(c) =>
    /\ timer[c] # "armed" /\ hook[c] # "set"
    /\ Parent(c) # Background /\ ~Cancelling(Parent(c)) => c \notin children[Parent(c)]

\* To wait for a context that lives, or to watch its parent, is no failure.
MayWait(t) == (At(t, "wait") \/ At(t, "watching")) /\ err[Top(t).c] = None

(* All calls return, all helper goroutines end with their contexts, and    *)
(* cancellation gets to every context below a cancelled one, whichever way *)
(* it is tied to its parent; a function of a done context has been started *)
(* or stopped.                                                             *)
ContextsEnd ==
  <>[](/\ \A t \in Threads : Idle(t) \/ MayWait(t)
       /\ \A c \in made : Parent(c) # Background /\ err[Parent(c)] # None =>
            err[c] # None /\ (tree[c].kind = "after" => fate[c] # "none"))
=============================================================================
